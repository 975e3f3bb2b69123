------------------------------ MODULE Network -------------------------------
(***************************************************************************)
(* The simulated network (labrpc/labrpc.go), the processes of a server     *)
(* that the tester starts and shuts down (tester1/group.go, srv.go,        *)
(* daemonclnt.go, daemonsrv.go, persister.go), and the connection on which *)
(* the tester passes calls on to such a process (tester1/demux, sockrpc).  *)
(*                                                                         *)
(* One server of the group is modelled; its processes are numbered in the  *)
(* order of their start.  A call is a goroutine of another server (Peer)   *)
(* or of a client, on an end of its own.  What the server's handler does   *)
(* for a call, it does in one step, and persists it.                       *)
(***************************************************************************)
EXTENDS Naturals, FiniteSets, Functions

CONSTANTS
  Call,      \* calls to the server
  Peer,      \* those of the other servers of its group
  MaxStarts  \* bound: how often the tester starts the server

ASSUME PeerAssumption == Peer \subseteq Call
ASSUME StartsAssumption == MaxStarts \in Nat \ {0}

Proc == 1 .. MaxStarts

VARIABLES
  enabled,  \* Network.enabled, by call
  servers,  \* Network.servers: the process behind the server's name, 0: nil
  pc,       \* processReq of each call
  via,      \* the process it found behind the server's name
  rpc,      \* the goroutine of processReq that calls dispatch
  tester,   \* what the tester did last with the server
  started,  \* number of processes started
  alive,    \* processes that have not been killed
  disk,     \* Persister of each process: the calls it holds
  saved,    \* Server.saved, the tester's copy of a Persister
  calls,    \* callMap of the connection to each process
  conn,     \* reader of each connection: "open", map "closed", "ended"
  reqs,     \* requests on the way to each process
  reps,     \* replies on the way back
  fatal     \* "reply no matching req" of a connection's reader

netVars == <<enabled, servers, pc, via>>
procVars == <<tester, started, alive, saved>>
connVars == <<calls, conn, fatal>>
vars == <<netVars, rpc, procVars, disk, connVars, reqs, reps>>

-----------------------------------------------------------------------------
(* The network.                                                            *)

Returned(c) == pc[c] \in {"true", "false"}

\* Seeded fault: the end alone is looked at.
IsServerDeadEnd(c) == ~enabled[c]

IsServerDead(c) == ~enabled[c] \/ servers # via[c]

\* Call or Forward of a ClientEnd: the request goes to processReq.
Send(c) ==
  /\ pc[c] = "idle"
  /\ pc' = [pc EXCEPT ![c] = "sent"]
  /\ UNCHANGED <<enabled, servers, via, rpc, procVars, disk, connVars, reqs, reps>>

\* readEndnameInfo, and the call of dispatch in a goroutine of its own.
ProcessReq(c) ==
  /\ pc[c] = "sent"
  /\ via' = [via EXCEPT ![c] = servers]
  /\ IF enabled[c] /\ servers # 0
     THEN /\ pc' = [pc EXCEPT ![c] = "wait"]
          /\ rpc' = [rpc EXCEPT ![c] = "dispatch"]
     ELSE /\ pc' = [pc EXCEPT ![c] = "nobody"]
          /\ UNCHANGED rpc
  /\ UNCHANGED <<enabled, servers, procVars, disk, connVars, reqs, reps>>

\* The request is dropped, or there was nobody to send it to.
RequestLost(c) ==
  /\ pc[c] \in {"sent", "nobody"}
  /\ pc' = [pc EXCEPT ![c] = "false"]
  /\ UNCHANGED <<enabled, servers, via, rpc, procVars, disk, connVars, reqs, reps>>

\* Every 100 ms without a reply.  The goroutine stays, and is drained.
StopWaiting(c) ==
  /\ pc[c] = "wait" /\ rpc[c] \notin {"ok", "failed"} /\ IsServerDead(c)
  /\ pc' = [pc EXCEPT ![c] = "false"]
  /\ UNCHANGED <<enabled, servers, via, rpc, procVars, disk, connVars, reqs, reps>>

\* dispatch has returned: the last look at the server, and the reply is
\* dropped, or on its way, perhaps for long.
TakeReply(c) ==
  /\ pc[c] = "wait" /\ rpc[c] \in {"ok", "failed"}
  /\ \E r \in IF IsServerDead(c) \/ rpc[c] = "failed" THEN {"false"}
              ELSE {"false", "delayed"} :
       pc' = [pc EXCEPT ![c] = r]
  /\ UNCHANGED <<enabled, servers, via, rpc, procVars, disk, connVars, reqs, reps>>

Deliver(c) ==
  /\ pc[c] = "delayed"
  /\ pc' = [pc EXCEPT ![c] = "true"]
  /\ UNCHANGED <<enabled, servers, via, rpc, procVars, disk, connVars, reqs, reps>>

-----------------------------------------------------------------------------
(* The connection to process p.                                            *)

\* Seeded fault: a tag is put into the map of a closed connection.
RefusesCallsNever(p) == FALSE

RefusesCalls(p) == conn[p] # "open"

\* SendReceive: the call is put into the map and written, which fails
\* without consequence when the process is gone.
SendReceive(c) ==
  LET p == via[c]
  IN  /\ rpc[c] = "dispatch"
      /\ IF RefusesCalls(p)
         THEN /\ rpc' = [rpc EXCEPT ![c] = "failed"]
              /\ UNCHANGED <<calls, reqs>>
         ELSE /\ rpc' = [rpc EXCEPT ![c] = "called"]
              /\ calls' = [calls EXCEPT ![p] = @ \cup {c}]
              /\ reqs' = IF p \in alive THEN [reqs EXCEPT ![p] = @ \cup {c}]
                         ELSE reqs
      /\ UNCHANGED <<netVars, procVars, disk, conn, fatal, reps>>

\* The process serves a request: handler, Persister and reply.
ServeRequest(p, c) ==
  /\ p \in alive /\ c \in reqs[p]
  /\ reqs' = [reqs EXCEPT ![p] = @ \ {c}]
  /\ disk' = [disk EXCEPT ![p] = @ \cup {c}]
  /\ reps' = [reps EXCEPT ![p] = @ \cup {c}]
  /\ UNCHANGED <<netVars, rpc, procVars, connVars>>

\* The reader of the connection hands the answers in cs to their callers.
Reply(p, cs, answer) ==
  /\ rpc' = [c \in Call |-> IF c \in cs \cap calls[p] THEN answer ELSE rpc[c]]
  /\ calls' = [calls EXCEPT ![p] = @ \ cs]
  /\ fatal' = (fatal \/ ~(cs \subseteq calls[p]))

ReadReply(p, c) ==
  /\ conn[p] = "open" /\ c \in reps[p]
  /\ reps' = [reps EXCEPT ![p] = @ \ {c}]
  /\ Reply(p, {c}, "ok")
  /\ UNCHANGED <<netVars, procVars, disk, conn, reqs>>

\* Seeded fault: every call ever made on the connection is outstanding.
OutstandingAll(p) == {c \in Call : via[c] = p /\ rpc[c] \notin {"none", "dispatch"}}

Outstanding(p) == calls[p]

\* The process is gone.  The reader closes the map, ...
ReaderCloses(p) ==
  /\ p \in (1 .. started) \ alive /\ conn[p] = "open"
  /\ conn' = [conn EXCEPT ![p] = "closed"]
  /\ reps' = [reps EXCEPT ![p] = {}]
  /\ UNCHANGED <<netVars, rpc, procVars, disk, calls, fatal, reqs>>

\* ... and then fails the calls in it; it does so once.
ReaderEnds(p) ==
  /\ conn[p] = "closed"
  /\ conn' = [conn EXCEPT ![p] = "ended"]
  /\ Reply(p, Outstanding(p), "failed")
  /\ UNCHANGED <<netVars, procVars, disk, reqs, reps>>

-----------------------------------------------------------------------------
(* The tester.                                                             *)

SetEnabled(cs, e) == enabled' = [c \in Call |-> IF c \in cs THEN e ELSE enabled[c]]

\* Partition, ConnectTo and the like enable or disable the end of a call.
Enable(c) ==
  /\ tester = "connected"
  /\ SetEnabled({c}, ~enabled[c])
  /\ UNCHANGED <<servers, pc, via, rpc, procVars, disk, connVars, reqs, reps>>

\* ShutdownServer: the ends of the peers are disabled, ...
Disconnect ==
  /\ tester = "connected" /\ tester' = "disconnected"
  /\ SetEnabled(Peer, FALSE)
  /\ UNCHANGED <<servers, pc, via, rpc, started, alive, saved, disk, connVars,
                 reqs, reps>>

\* ... the clients lose the server with its name, ...
DeleteServer ==
  /\ tester = "disconnected" /\ tester' = "deleted"
  /\ servers' = 0
  /\ UNCHANGED <<enabled, pc, via, rpc, started, alive, saved, disk, connVars,
                 reqs, reps>>

\* ... CheckpointPersister copies the Persister (it closes the process's
\* listener, not the connection: requests are still served), ...
CheckpointPersister ==
  /\ tester = "deleted" /\ tester' = "saved"
  /\ saved' = disk[started]
  /\ UNCHANGED <<netVars, rpc, started, alive, disk, connVars, reqs, reps>>

\* ... and the process is killed.
Kill ==
  /\ tester = "saved" /\ tester' = "down"
  /\ alive' = alive \ {started}
  /\ reqs' = [reqs EXCEPT ![started] = {}]
  /\ UNCHANGED <<netVars, rpc, started, saved, disk, connVars, reps>>

\* StartServer: a new process, which gets the saved state, ...
StartServer ==
  /\ tester = "down" /\ started < MaxStarts /\ tester' = "started"
  /\ started' = started + 1
  /\ alive' = alive \cup {started + 1}
  /\ disk' = [disk EXCEPT ![started + 1] = saved]
  /\ UNCHANGED <<netVars, rpc, saved, connVars, reqs, reps>>

\* ... enters the network after it has said that it is ready, ...
AddServer ==
  /\ tester = "started" /\ tester' = "added"
  /\ servers' = started
  /\ UNCHANGED <<enabled, pc, via, rpc, started, alive, saved, disk, connVars,
                 reqs, reps>>

\* ... and is connected to its peers.
Connect ==
  /\ tester = "added" /\ tester' = "connected"
  /\ SetEnabled(Peer, TRUE)
  /\ UNCHANGED <<servers, pc, via, rpc, started, alive, saved, disk, connVars,
                 reqs, reps>>

-----------------------------------------------------------------------------
Init ==
  /\ enabled = [c \in Call |-> TRUE] /\ servers = 1
  /\ pc = [c \in Call |-> "idle"] /\ via = [c \in Call |-> 0]
  /\ rpc = [c \in Call |-> "none"]
  /\ tester = "connected" /\ started = 1 /\ alive = {1} /\ saved = {}
  /\ disk = [p \in Proc |-> {}]
  /\ calls = [p \in Proc |-> {}] /\ conn = [p \in Proc |-> "open"] /\ fatal = FALSE
  /\ reqs = [p \in Proc |-> {}] /\ reps = [p \in Proc |-> {}]

NetworkStep(c) ==
  \/ ProcessReq(c) \/ RequestLost(c) \/ StopWaiting(c) \/ TakeReply(c)
  \/ Deliver(c) \/ SendReceive(c)

ConnectionStep(p) ==
  \/ \E c \in Call : ServeRequest(p, c) \/ ReadReply(p, c)
  \/ ReaderCloses(p) \/ ReaderEnds(p)

TesterStep ==
  \/ Disconnect \/ DeleteServer \/ CheckpointPersister \/ Kill
  \/ StartServer \/ AddServer \/ Connect
  \/ \E c \in Call : Enable(c)

Next ==
  \/ \E c \in Call : Send(c) \/ NetworkStep(c)
  \/ \E p \in Proc : ConnectionStep(p)
  \/ TesterStep

\* Goroutines and timers of the network and of the connections go on, and the
\* handlers return; the tester may stop anywhere.
FairSpec ==
  /\ Init /\ [][Next]_vars
  /\ \A c \in Call : WF_vars(NetworkStep(c))
  /\ \A p \in Proc : WF_vars(ConnectionStep(p))

-----------------------------------------------------------------------------
(* Correctness.                                                            *)

\* What a restarted server would have: the tester's copy once it has been
\* taken, the process's own Persister before.
Durable == IF tester \in {"saved", "down"} THEN saved ELSE disk[started]

\* A call returns true only if the server executed it, and keeps what it did
\* through any number of restarts: no reply comes from a Persister that has
\* been superseded.
AckedIsDurable == \A c \in Call : pc[c] = "true" => c \in Durable

\* The reader of a connection never meets a reply that nobody waits for.
NoStrayReply == ~fatal

\* A call returns, and the goroutine that made it for the network ends,
\* whatever happens to the server meanwhile.
CallReturns ==
  \A c \in Call :
    (pc[c] = "sent") ~> (Returned(c) /\ rpc[c] \notin {"dispatch", "called"})
=============================================================================
