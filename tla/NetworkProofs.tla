---------------------------- MODULE NetworkProofs ---------------------------
(***************************************************************************)
(* That an acknowledged call survives every restart, and that the reader   *)
(* of a connection never meets a stray reply, for any set of calls and any *)
(* number of restarts.                                                     *)
(*                                                                         *)
(* The argument: there is one living process at most, and it is the one    *)
(* behind the server's name whenever there is a name.  A reply was         *)
(* persisted by the process that gave it; processReq accepts it only while *)
(* that process is the one with the name, whose Persister the tester has   *)
(* not copied yet.                                                         *)
(***************************************************************************)
EXTENDS Network, TLAPS

\* enabled and fatal are truth values, and used as such only.
NetTypeOK ==
  /\ servers \in 0 .. MaxStarts
  /\ pc \in [Call -> {"idle", "sent", "nobody", "wait", "delayed", "true",
                      "false"}]
  /\ via \in [Call -> 0 .. MaxStarts]
  /\ rpc \in [Call -> {"none", "dispatch", "called", "ok", "failed"}]
  /\ tester \in {"connected", "disconnected", "deleted", "saved", "down",
                 "started", "added"}
  /\ started \in Proc
  /\ disk \in [Proc -> SUBSET Call] /\ saved \in SUBSET Call
  /\ calls \in [Proc -> SUBSET Call]
  /\ conn \in [Proc -> {"open", "closed", "ended"}]
  /\ reqs \in [Proc -> SUBSET Call] /\ reps \in [Proc -> SUBSET Call]

\* The newest process is the only one that lives, and the only one that has
\* the server's name.
ServerInv ==
  /\ servers = IF tester \in {"connected", "disconnected", "added"}
               THEN started ELSE 0
  /\ alive = IF tester = "down" THEN {} ELSE {started}

\* Requests reach living processes only; replies are in the map of their
\* connection, once; a reader that has closed the map has no reply to come.
ConnInv ==
  \A p \in Proc :
    /\ p \notin alive => reqs[p] = {}
    /\ conn[p] # "open" => p \notin alive /\ p <= started /\ reps[p] = {}
    /\ reqs[p] \subseteq calls[p] /\ reps[p] \subseteq calls[p]
    /\ reqs[p] \cap reps[p] = {}
    /\ \A c \in calls[p] : via[c] = p /\ rpc[c] = "called"

\* What a call may rely on: its process was started, and what that process
\* has answered is in its Persister.
CallInv ==
  \A c \in Call :
    /\ pc[c] \in {"idle", "sent", "nobody"} => rpc[c] = "none"
    /\ pc[c] \in {"wait", "delayed", "true"} => rpc[c] # "none"
    /\ rpc[c] # "none" => via[c] \in 1 .. started
    /\ rpc[c] = "ok" => c \in disk[via[c]]

ReplyInv == \A p \in Proc : reps[p] \subseteq disk[p]

\* A reply that processReq has accepted is of a call that will last.
AcceptedIsDurable == \A c \in Call : pc[c] \in {"delayed", "true"} => c \in Durable

NetInv ==
  /\ NetTypeOK /\ ServerInv /\ ConnInv /\ CallInv /\ ReplyInv
  /\ AcceptedIsDurable /\ NoStrayReply

-----------------------------------------------------------------------------
\* The server is up, and no call has been made.
LEMMA NetInit == Init => NetInv
<1> SUFFICES ASSUME Init PROVE NetInv
  OBVIOUS
<1>1. NetTypeOK
  BY StartsAssumption DEF Init, NetTypeOK, Proc
<1>2. ServerInv /\ ConnInv /\ CallInv /\ ReplyInv /\ NoStrayReply
  BY DEF Init, ServerInv, ConnInv, CallInv, ReplyInv, NoStrayReply
<1>3. AcceptedIsDurable
  BY DEF Init, AcceptedIsDurable
<1> QED BY <1>1, <1>2, <1>3 DEF NetInv

\* A step of processReq alone, up to where it accepts or drops a reply.
LEMMA ProcessReqInv ==
  ASSUME NetInv, NEW c \in Call,
         \/ Send(c) \/ ProcessReq(c) \/ RequestLost(c) \/ StopWaiting(c)
         \/ TakeReply(c) \/ Deliver(c)
  PROVE  NetInv'
<1> USE DEF NetInv
<1>1. NetTypeOK'
  BY StartsAssumption
     DEF Send, ProcessReq, RequestLost, StopWaiting, TakeReply, Deliver,
         NetTypeOK, procVars, connVars, Proc
<1>2. (ServerInv /\ ReplyInv /\ NoStrayReply)'
  BY DEF Send, ProcessReq, RequestLost, StopWaiting, TakeReply, Deliver,
         procVars, connVars, ServerInv, ReplyInv, NoStrayReply
<1>3. ConnInv'
  BY DEF Send, ProcessReq, RequestLost, StopWaiting, TakeReply, Deliver,
         procVars, connVars, ConnInv, CallInv, NetTypeOK
<1>4. CallInv'
  BY StartsAssumption
     DEF Send, ProcessReq, RequestLost, StopWaiting, TakeReply, Deliver,
         procVars, connVars, CallInv, ServerInv, NetTypeOK, Proc
<1>5. AcceptedIsDurable'
  BY StartsAssumption
     DEF Send, ProcessReq, RequestLost, StopWaiting, TakeReply, Deliver,
         IsServerDead, procVars, connVars, AcceptedIsDurable, Durable, CallInv,
         ServerInv, NetTypeOK, Proc
<1> QED BY <1>1, <1>2, <1>3, <1>4, <1>5

\* A call enters the map of its connection, or is refused.
LEMMA SendReceiveInv ==
  ASSUME NetInv, NEW c \in Call, SendReceive(c)
  PROVE  NetInv'
<1> USE DEF NetInv, SendReceive, RefusesCalls
<1>0. via[c] \in Proc
  BY DEF CallInv, NetTypeOK, Proc
<1>1. NetTypeOK'
  BY <1>0 DEF NetTypeOK, netVars, procVars, connVars
<1>2. (ServerInv /\ ReplyInv /\ NoStrayReply /\ AcceptedIsDurable)'
  BY DEF netVars, procVars, connVars, ServerInv, ReplyInv, NoStrayReply,
         AcceptedIsDurable, Durable
<1>3. ConnInv'
  BY <1>0 DEF netVars, procVars, connVars, ConnInv, NetTypeOK
<1>4. CallInv'
  BY DEF netVars, procVars, connVars, CallInv, NetTypeOK
<1> QED BY <1>1, <1>2, <1>3, <1>4

\* The living process persists a call and answers it.
LEMMA ServeRequestInv ==
  ASSUME NetInv, NEW p \in Proc, NEW c \in Call, ServeRequest(p, c)
  PROVE  NetInv'
<1> USE DEF NetInv, ServeRequest
<1>1. NetTypeOK'
  BY DEF NetTypeOK, netVars, procVars, connVars
<1>2. (ServerInv /\ NoStrayReply)'
  BY DEF netVars, procVars, connVars, ServerInv, NoStrayReply
<1>3. ConnInv'
  BY DEF netVars, procVars, connVars, ConnInv, NetTypeOK
<1>4. (CallInv /\ ReplyInv)'
  BY DEF netVars, procVars, connVars, CallInv, ReplyInv, NetTypeOK, Proc
<1>5. AcceptedIsDurable'
  BY DEF netVars, procVars, connVars, AcceptedIsDurable, Durable, NetTypeOK
<1> QED BY <1>1, <1>2, <1>3, <1>4, <1>5

\* The reader of a connection hands over a reply, closes the map, or fails
\* what is left in it.
LEMMA ReaderInv ==
  ASSUME NetInv, NEW p \in Proc,
         \/ \E c \in Call : ReadReply(p, c)
         \/ ReaderCloses(p) \/ ReaderEnds(p)
  PROVE  NetInv'
<1> USE DEF NetInv
<1>1. CASE \E c \in Call : ReadReply(p, c)
  <2> PICK c \in Call : ReadReply(p, c)
    BY <1>1
  <2> USE DEF ReadReply, Reply
  <2>0. c \in calls[p]
    BY DEF ConnInv
  <2>1. NetTypeOK'
    BY DEF NetTypeOK, netVars, procVars
  <2>2. (ServerInv /\ NoStrayReply /\ AcceptedIsDurable)'
    BY <2>0 DEF netVars, procVars, ServerInv, NoStrayReply, AcceptedIsDurable,
                Durable
  <2>3. ConnInv'
    BY DEF netVars, procVars, ConnInv, NetTypeOK
  <2>4. (CallInv /\ ReplyInv)'
    BY DEF netVars, procVars, CallInv, ReplyInv, ConnInv, NetTypeOK, Proc
  <2> QED BY <2>1, <2>2, <2>3, <2>4
<1>2. CASE ReaderCloses(p)
  <2> USE <1>2 DEF ReaderCloses
  <2>1. (NetTypeOK /\ ServerInv /\ NoStrayReply /\ AcceptedIsDurable)'
    BY DEF netVars, procVars, NetTypeOK, ServerInv, NoStrayReply,
           AcceptedIsDurable, Durable
  <2>2. (ConnInv /\ CallInv /\ ReplyInv)'
    BY StartsAssumption
       DEF netVars, procVars, NetTypeOK, ConnInv, CallInv, ReplyInv, Proc
  <2> QED BY <2>1, <2>2
<1>3. CASE ReaderEnds(p)
  <2> USE <1>3 DEF ReaderEnds, Reply, Outstanding
  <2>1. (NetTypeOK /\ ServerInv /\ NoStrayReply /\ AcceptedIsDurable)'
    BY DEF netVars, procVars, NetTypeOK, ServerInv, NoStrayReply,
           AcceptedIsDurable, Durable
  <2>2. ConnInv'
    BY DEF netVars, procVars, NetTypeOK, ConnInv
  <2>3. (CallInv /\ ReplyInv)'
    BY DEF netVars, procVars, NetTypeOK, ConnInv, CallInv, ReplyInv
  <2> QED BY <2>1, <2>2, <2>3
<1> QED BY <1>1, <1>2, <1>3

\* The tester enables ends, shuts the server down, and starts it again.
LEMMA TesterInv ==
  ASSUME NetInv, TesterStep
  PROVE  NetInv'
<1> USE DEF NetInv
<1>1. CASE \/ Disconnect \/ DeleteServer \/ AddServer \/ Connect
           \/ \E c \in Call : Enable(c)
  <2>1. UNCHANGED <<pc, via, rpc, started, alive, saved, disk, calls, conn, fatal,
                    reqs, reps>>
    BY <1>1 DEF Disconnect, DeleteServer, AddServer, Connect, Enable, procVars,
                connVars
  <2>2. \/ UNCHANGED servers /\ tester \in {"connected", "added"}
           /\ tester' \in {"connected", "disconnected"}
        \/ servers' = 0 /\ tester = "disconnected" /\ tester' = "deleted"
        \/ servers' = started /\ tester = "started" /\ tester' = "added"
    BY <1>1 DEF Disconnect, DeleteServer, AddServer, Connect, Enable, procVars
  <2>3. NetTypeOK'
    BY <2>1, <2>2, StartsAssumption DEF NetTypeOK, Proc
  <2>4. (ServerInv /\ NoStrayReply /\ AcceptedIsDurable)'
    BY <2>1, <2>2 DEF ServerInv, NoStrayReply, AcceptedIsDurable, Durable
  <2>5. (ConnInv /\ CallInv /\ ReplyInv)'
    BY <2>1 DEF ConnInv, CallInv, ReplyInv
  <2> QED BY <2>3, <2>4, <2>5
<1>2. CASE CheckpointPersister
  <2> USE <1>2 DEF CheckpointPersister
  <2>1. (NetTypeOK /\ ServerInv /\ NoStrayReply /\ AcceptedIsDurable)'
    BY DEF NetTypeOK, netVars, connVars, ServerInv, NoStrayReply,
           AcceptedIsDurable, Durable
  <2>2. (ConnInv /\ CallInv /\ ReplyInv)'
    BY DEF netVars, connVars, ConnInv, CallInv, ReplyInv
  <2> QED BY <2>1, <2>2
<1>3. CASE Kill
  <2> USE <1>3 DEF Kill
  <2>1. (NetTypeOK /\ ServerInv /\ NoStrayReply /\ AcceptedIsDurable)'
    BY DEF NetTypeOK, netVars, connVars, ServerInv, NoStrayReply,
           AcceptedIsDurable, Durable
  <2>2. (ConnInv /\ CallInv /\ ReplyInv)'
    BY DEF netVars, connVars, ConnInv, CallInv, ReplyInv, ServerInv, NetTypeOK
  <2> QED BY <2>1, <2>2
<1>4. CASE StartServer
  <2> USE <1>4 DEF StartServer
  <2>0. started + 1 \in Proc
    BY StartsAssumption DEF NetTypeOK, Proc
  <2>1. (NetTypeOK /\ ServerInv /\ NoStrayReply)'
    BY <2>0 DEF NetTypeOK, netVars, connVars, ServerInv, NoStrayReply
  <2>2. AcceptedIsDurable'
    BY <2>0 DEF NetTypeOK, netVars, connVars, AcceptedIsDurable, Durable
  <2>3. ConnInv'
    BY <2>0 DEF netVars, connVars, ConnInv, ServerInv, NetTypeOK, Proc
  <2>4. \A c \in Call : rpc[c] # "none" => via[c] # started + 1
    BY DEF CallInv, NetTypeOK, Proc
  <2>5. CallInv'
    BY <2>0, <2>4 DEF netVars, connVars, CallInv, NetTypeOK, Proc
  <2>6. reps[started + 1] = {}
    BY <2>0, <2>4 DEF ConnInv, NetTypeOK
  <2>7. ReplyInv'
    BY <2>0, <2>6 DEF netVars, connVars, ReplyInv, NetTypeOK
  <2> QED BY <2>1, <2>2, <2>3, <2>5, <2>7
<1> QED BY <1>1, <1>2, <1>3, <1>4 DEF TesterStep

\* NetInv is inductive.
LEMMA NetStep == NetInv /\ [Next]_vars => NetInv'
<1> SUFFICES ASSUME NetInv, [Next]_vars PROVE NetInv'
  OBVIOUS
<1>1. ASSUME NEW c \in Call, Send(c) \/ NetworkStep(c) PROVE NetInv'
  BY <1>1, ProcessReqInv, SendReceiveInv DEF NetworkStep
<1>2. ASSUME NEW p \in Proc, ConnectionStep(p) PROVE NetInv'
  BY <1>2, ServeRequestInv, ReaderInv DEF ConnectionStep
<1>3. CASE UNCHANGED vars
  BY <1>3
     DEF vars, netVars, procVars, connVars, NetInv, NetTypeOK, ServerInv, ConnInv,
         CallInv, ReplyInv, AcceptedIsDurable, Durable, NoStrayReply
<1> QED BY <1>1, <1>2, <1>3, TesterInv DEF Next

\* labrpc and the tester: whatever the tester does with the server while
\* calls are on their way, a call returns true only if what the server did
\* for it is in the state that every later process starts from.
THEOREM AckedCallsLast == FairSpec => []AckedIsDurable
<1>1. NetInv => AckedIsDurable
  BY DEF NetInv, AcceptedIsDurable, AckedIsDurable
<1> QED BY <1>1, NetInit, NetStep, PTL DEF FairSpec

\* demux.go: "reply no matching req" is never reached, with any number of
\* processes that end while they hold requests and replies.
THEOREM RepliesMatch == FairSpec => []NoStrayReply
<1>1. NetInv => NoStrayReply
  BY DEF NetInv
<1> QED BY <1>1, NetInit, NetStep, PTL DEF FairSpec
=============================================================================
