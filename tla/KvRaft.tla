------------------------------- MODULE KvRaft -------------------------------
(***************************************************************************)
(* The replicated key/value service: the clerk of kvraft1/client.go, the   *)
(* server of kvraft1/server.go and the layer between it and Raft, of       *)
(* kvraft1/rsm/rsm.go, for one key (servers treat keys independently).     *)
(*                                                                         *)
(* Raft is what it promises the layer above (module Raft has the detail):  *)
(* a new leader has every committed entry, only the newest leader commits, *)
(* and it commits an entry of its own term.  A peer's term and log survive *)
(* a restart.  The servers named here may be a part of the cluster.        *)
(*                                                                         *)
(* A call of the clerk runs Submit in a thread of its own at the server.   *)
(* The call may fail at any moment; the request is then lost, or is        *)
(* executed late, or its thread runs on unheard.                           *)
(***************************************************************************)
EXTENDS Integers, Sequences, FiniteSets, SequencesExt

CONSTANTS
  N,            \* servers
  Client,       \* threads that own a clerk
  MaxOps,       \* bound: operations per client
  MaxCalls,     \* bound: RPCs per client
  MaxTerm,      \* bound: elections
  MaxRestarts,  \* bound: restarts
  Candidates,   \* bound: the servers that may become leader of a term
  MaxRaftState, \* entries in the log that make the reader take a snapshot; 0: none do
  Requests      \* bound: the Gets, and Puts with a version, that a client calls

ASSUME NAssumption == N \in Nat \ {0}
ASSUME BoundAssumption == {MaxTerm, MaxRestarts, MaxRaftState} \subseteq Nat
ASSUME CandidatesAssumption ==
  Candidates \in [1 .. MaxTerm -> SUBSET (0 .. N - 1)]
ASSUME MaxCallsAssumption == {MaxOps, MaxCalls} \subseteq [Client -> Nat]
ASSUME RequestsAssumption ==
  Requests \in [Client -> SUBSET [kind : {"get", "put"}, version : Nat]]

VARIABLES
  \* Raft
  term,       \* currentTerm of each server
  leader,     \* whether the server believes that it is the leader
  leaderID,   \* what GetLeader answers; -1: unknown
  log,        \* entries [term, call]
  committed,  \* the entries that are committed, for ever
  nextIndex,  \* of a leader, for each server: the least index that it may have
              \* there, since replies come late or not at all
  \* rsm and server
  table,      \* value and version of the key; version 0: no such key
  applied,    \* index of the last entry the reader has executed
  snapshot,   \* the persister's snapshot: table and index
  notify,     \* the thread registered for a log index
  thread,     \* the Submit (and the request) of each call
  restarts,
  \* clerk
  clerk,      \* state of a client's clerk
  \* history
  executed,   \* the longest prefix of committed that a reader has executed
  hist,       \* the writes that changed the key, in order
  ops,        \* the operations of each client
  ret         \* their results

raftVars == <<term, leader, leaderID, log, committed, nextIndex>>
rsmVars == <<table, applied, snapshot, notify>>
clerkVars == <<clerk, ops, ret>>
histVars == <<executed, hist>>
vars == <<raftVars, rsmVars, thread, restarts, clerkVars, histVars>>

Server == 0 .. N - 1

\* A call is named by its client and its number among the client's calls.
CallId == UNION {{c} \X (1 .. MaxCalls[c]) : c \in Client}

None == <<>>
EmptyTable == [value |-> None, version |-> 0]
NewestTerm == CHOOSE t \in Range(term) : \A s \in Server : term[s] <= t

\* A thread that is not there, or has ended.
NoThread == [pc |-> "none", srv |-> 0, op |-> 0, term |-> 0, index |-> 0,
             ch |-> << >>, res |-> << >>]

-----------------------------------------------------------------------------
(* Raft, as the rsm sees it.                                               *)

\* A server whose log has every committed entry becomes leader of a new term;
\* the servers that voted for it are in that term, too.
BecomeLeader(s, voters) ==
  LET t == NewestTerm + 1
  IN  /\ t <= MaxTerm /\ s \in Candidates[t]
      /\ IsPrefix(committed, log[s])
      /\ term' = [x \in Server |-> IF x \in voters \cup {s} THEN t ELSE term[x]]
      /\ leader' = [x \in Server |-> x = s \/ (leader[x] /\ x \notin voters)]
      /\ leaderID' = [x \in Server |-> IF x = s THEN s
                                       ELSE IF x \in voters THEN -1
                                       ELSE leaderID[x]]
      /\ nextIndex' = [nextIndex EXCEPT ![s] = [x \in Server |-> Len(log[s]) + 1]]
      /\ UNCHANGED <<log, committed, rsmVars, thread, restarts, clerkVars,
                     histVars>>

\* A leader learns from a reply that there is a newer term.
UpdateTermAndBecomeFollower(s) ==
  /\ leader[s] /\ term[s] < NewestTerm
  /\ term' = [term EXCEPT ![s] = NewestTerm]
  /\ leader' = [leader EXCEPT ![s] = FALSE]
  /\ leaderID' = [leaderID EXCEPT ![s] = -1]
  /\ UNCHANGED <<log, committed, nextIndex, rsmVars, thread, restarts, clerkVars,
                 histVars>>

\* What the hints of server t make of nextIndex: t's log may be too short; where
\* it is in conflict with the leader's, a term may reach down to its snapshot.
BackedUp(s, t) ==
  LET last == Len(log[t])
      next == IF last < nextIndex[s][t] THEN last + 1 ELSE nextIndex[s][t]
  IN  IF IsPrefix(SubSeq(log[t], 1, next - 1), log[s]) THEN next
      ELSE snapshot[t].index + 1

\* Server t takes over the log of leader s; entries of its own go only when
\* they are in conflict with it.  What s has compacted it cannot send.
AppendEntries(s, t) ==
  /\ s # t /\ leader[s] /\ term[t] <= term[s]
  /\ IsPrefix(SubSeq(log[s], 1, snapshot[s].index), log[t])
  /\ nextIndex' = [nextIndex EXCEPT ![s][t] = BackedUp(s, t)]
  /\ term' = [term EXCEPT ![t] = term[s]]
  /\ leader' = [leader EXCEPT ![t] = FALSE]
  /\ leaderID' = [leaderID EXCEPT ![t] = s]
  /\ log' = [log EXCEPT ![t] = IF IsPrefix(log[s], @) THEN @ ELSE log[s]]
  /\ UNCHANGED <<committed, rsmVars, thread, restarts, clerkVars, histVars>>

\* Leader s sends its snapshot to server t when nextIndex lies in it, and the
\* reader of t restores it.  It is compared with t's own snapshot only, so t may
\* have executed entries above it: the table goes back, and the reader goes on
\* after what it had executed.  What t has above the snapshot stays.  Threads
\* that wait for an index below are not told.  A snapshot that is not newer
\* counts as a heartbeat.
InstallSnapshot(s, t) ==
  LET snap == snapshot[s]
  IN  /\ s # t /\ leader[s] /\ term[t] <= term[s]
      /\ BackedUp(s, t) <= snap.index
      /\ nextIndex' = [nextIndex EXCEPT ![s][t] = BackedUp(s, t)]
      /\ term' = [term EXCEPT ![t] = term[s]]
      /\ leader' = [leader EXCEPT ![t] = FALSE]
      /\ leaderID' = [leaderID EXCEPT ![t] = s]
      /\ IF snapshot[t].index < snap.index
         THEN /\ log' = [log EXCEPT ![t] = SubSeq(log[s], 1, snap.index)
                                           \o SubSeq(@, snap.index + 1, Len(@))]
              /\ table' = [table EXCEPT ![t] = snap.table]
              /\ applied' = [applied EXCEPT ![t] =
                               IF @ < snap.index THEN snap.index ELSE @]
              /\ snapshot' = [snapshot EXCEPT ![t] = snap]
         ELSE UNCHANGED <<log, table, applied, snapshot>>
      /\ UNCHANGED <<committed, notify, thread, restarts, clerkVars, histVars>>

\* The newest leader commits its log up to an entry of its own term.
Commit(s) ==
  /\ leader[s] /\ term[s] = NewestTerm
  /\ \E i \in Len(committed) + 1 .. Len(log[s]) :
       /\ log[s][i].term = term[s]
       /\ committed' = SubSeq(log[s], 1, i)
  /\ UNCHANGED <<term, leader, leaderID, log, nextIndex, rsmVars, thread, restarts,
                 clerkVars, histVars>>

-----------------------------------------------------------------------------
(* The server: DoOp.                                                       *)

OpOf(id) == ops[id[1]][thread[id].op]

\* The reply to request op on table t.
DoOpReply(t, op) ==
  CASE op.kind = "get" /\ t.version = 0 ->
         [err |-> "ErrNoKey", version |-> 0, value |-> None]
    [] op.kind = "get" /\ t.version > 0 ->
         [err |-> "OK", version |-> t.version, value |-> t.value]
    [] op.kind = "put" ->
         [err |-> IF t.version = op.version THEN "OK"
                  ELSE IF t.version = 0 THEN "ErrNoKey" ELSE "ErrVersion",
          version |-> 0, value |-> None]

\* The table after it; the value is named by the operation that wrote it.
DoOp(t, op, writer) ==
  IF op.kind = "put" /\ t.version = op.version
  THEN [value |-> writer, version |-> op.version + 1]
  ELSE t

-----------------------------------------------------------------------------
(* The rsm.  A thread's steps are the stretches between two waits for      *)
(* rsm.mu; ch is its channel, of capacity 2.                               *)

Pill == [id |-> None, res |-> None]

Room(id) == Len(thread[id].ch) < 2

Current(id) == id[2] = clerk[id[1]].calls

\* Thread id returns: to the clerk that waits for it, or to nobody.
Returns(id, pc, res) ==
  IF Current(id) THEN [NoThread EXCEPT !.pc = pc, !.srv = thread[id].srv,
                                       !.op = thread[id].op, !.res = res]
  ELSE [NoThread EXCEPT !.pc = "end", !.op = thread[id].op]

\* The request arrives, and Submit runs up to its loop.
Submit(id) ==
  LET s == thread[id].srv
      i == Len(log[s]) + 1
  IN  /\ thread[id].pc = "sent"
      /\ IF leader[s]
         THEN /\ log' = [log EXCEPT ![s] =
                           Append(@, [term |-> term[s], call |-> id])]
              /\ notify' = [notify EXCEPT ![s] =
                              {r \in @ : r.index # i} \cup
                              {[index |-> i, id |-> id]}]
              /\ thread' = [thread EXCEPT ![id].pc = "wait",
                                          ![id].term = term[s],
                                          ![id].index = i]
         ELSE /\ thread' = [thread EXCEPT ![id] = Returns(id, "wrong", << >>)]
              /\ UNCHANGED <<log, notify>>
      /\ UNCHANGED <<term, leader, leaderID, committed, nextIndex, table, applied,
                     snapshot, restarts, clerkVars, histVars>>

\* The select of Submit: 20 ms have passed, and this is no longer the leader
\* of the term it was.
TimeAfter(id) ==
  LET s == thread[id].srv
  IN  /\ thread[id].pc = "wait"
      /\ ~leader[s] \/ term[s] # thread[id].term
      /\ thread' = [thread EXCEPT ![id].pc = "giveup"]
      /\ UNCHANGED <<raftVars, rsmVars, restarts, clerkVars, histVars>>

Unregister(s, i) ==
  notify' = [notify EXCEPT ![s] = {r \in @ : r.index # i}]

\* Seeded fault: the index alone tells Submit that the message is its own.
IsOwnByIndex(id, msg) == msg # Pill

IsOwn(id, msg) == msg.id = id

\* The select of Submit: a message has come, and with rsm.mu Submit looks at
\* it.  If it is another call's, every thread still registered gets a pill,
\* if its channel has room.
Finish(id) ==
  LET s == thread[id].srv
      msg == Head(thread[id].ch)
      others == {r.id : r \in {r \in notify[s] : r.index # thread[id].index}}
      pilled == IF msg = Pill \/ IsOwn(id, msg) THEN {} ELSE others
  IN  /\ thread[id].pc = "wait" /\ thread[id].ch # << >>
      /\ Unregister(s, thread[id].index)
      /\ thread' = [d \in CallId |->
           CASE d = id /\ IsOwn(id, msg) -> Returns(id, "ok", msg.res)
             [] d = id /\ ~IsOwn(id, msg) -> Returns(id, "wrong", << >>)
             [] d \in pilled \ {id} /\ Room(d) ->
                  [thread[d] EXCEPT !.ch = Append(@, Pill)]
             [] OTHER -> thread[d]]
      /\ UNCHANGED <<raftVars, table, applied, snapshot, restarts, clerkVars,
                     histVars>>

\* After the timeout, with rsm.mu.
GiveUp(id) ==
  /\ thread[id].pc = "giveup"
  /\ Unregister(thread[id].srv, thread[id].index)
  /\ thread' = [thread EXCEPT ![id] = Returns(id, "wrong", << >>)]
  /\ UNCHANGED <<raftVars, table, applied, snapshot, restarts, clerkVars,
                 histVars>>

\* One turn of the reader: execute the next committed entry, tell the thread
\* registered for its index, and take a snapshot if the log has grown.
Reader(s) ==
  LET i == applied[s] + 1
      id == committed[i].call
      op == OpOf(id)
      writer == <<id[1], thread[id].op>>
      after == DoOp(table[s], op, writer)
      told == {r.id : r \in {r \in notify[s] : r.index = i}}
      msg == [id |-> id, res |-> DoOpReply(table[s], op)]
  IN  /\ i <= Len(committed) /\ IsPrefix(SubSeq(committed, 1, i), log[s])
      /\ \A d \in told : Room(d)
      /\ table' = [table EXCEPT ![s] = after]
      /\ applied' = [applied EXCEPT ![s] = i]
      /\ thread' = [d \in CallId |->
                      IF d \in told
                      THEN [thread[d] EXCEPT !.ch = Append(@, msg)]
                      ELSE thread[d]]
      /\ snapshot' = IF MaxRaftState > 0
                        /\ Len(log[s]) - snapshot[s].index > MaxRaftState
                     THEN [snapshot EXCEPT ![s] = [table |-> after, index |-> i]]
                     ELSE snapshot
      /\ IF i > executed
         THEN /\ executed' = i
              /\ hist' = IF after # table[s] THEN Append(hist, writer) ELSE hist
         ELSE UNCHANGED histVars
      /\ UNCHANGED <<raftVars, notify, restarts, clerkVars>>

\* Seeded fault: a restarted server begins with an empty table.
RestoredNothing(s) == EmptyTable

Restored(s) == snapshot[s].table

\* Server s is killed and started again: MakeRSM.
Restart(s) ==
  /\ restarts < MaxRestarts
  /\ restarts' = restarts + 1
  /\ leader' = [leader EXCEPT ![s] = FALSE]
  /\ leaderID' = [leaderID EXCEPT ![s] = -1]
  /\ table' = [table EXCEPT ![s] = Restored(s)]
  /\ applied' = [applied EXCEPT ![s] = snapshot[s].index]
  /\ notify' = [notify EXCEPT ![s] = {}]
  /\ thread' = [d \in CallId |->
                  IF thread[d].srv = s /\ thread[d].pc \notin {"none", "sent"}
                  THEN [NoThread EXCEPT !.pc = "end", !.op = thread[d].op]
                  ELSE thread[d]]
  /\ UNCHANGED <<term, log, committed, nextIndex, snapshot, clerkVars, histVars>>

-----------------------------------------------------------------------------
(* The clerk.                                                              *)

\* The clerk of c makes a call to server s, for its n-th operation.
SendCall(c, n, s, threads) ==
  LET id == <<c, clerk[c].calls + 1>>
  IN  /\ id \in CallId
      /\ thread' = [threads EXCEPT ![id] =
                      [NoThread EXCEPT !.pc = "sent", !.srv = s, !.op = n]]

Busy(c) == Len(ret[c]) < Len(ops[c])

Kind(c) == ops[c][Len(ops[c])].kind

\* Get and Put.  Between operations rpcTimes and leaderHint, which belong to a
\* Put, have their zero values.
Begin(c, kind, version) ==
  LET n == Len(ops[c]) + 1
  IN  /\ ~Busy(c) /\ n <= MaxOps[c]
      /\ ops' = [ops EXCEPT ![c] = Append(@, [kind |-> kind, version |-> version,
                                              low |-> Len(hist)])]
      /\ SendCall(c, n, clerk[c].leader, thread)
      /\ clerk' = [clerk EXCEPT ![c].calls = @ + 1]
      /\ UNCHANGED <<raftVars, rsmVars, restarts, ret, histVars>>

CallOf(c) == <<c, clerk[c].calls>>

\* What is left of the thread of a call that the clerk no longer waits for.
Unheard(c) ==
  IF thread[CallOf(c)].pc \in {"ok", "wrong"}
  THEN [thread EXCEPT ![CallOf(c)] =
          [NoThread EXCEPT !.pc = "end", !.op = thread[CallOf(c)].op]]
  ELSE thread

\* Call returned false; the clerk tries any server.
CallFails(c) ==
  /\ Busy(c)
  /\ \E s \in Server :
       /\ SendCall(c, Len(ops[c]), s, Unheard(c))
       /\ clerk' = [clerk EXCEPT
            ![c].calls = @ + 1, ![c].leader = s,
            ![c].rpcTimes = IF Kind(c) = "put" THEN 1 ELSE 0]
  /\ UNCHANGED <<raftVars, rsmVars, restarts, ops, ret, histVars>>

\* The hint the clerk finds in its reply.  A zero is not transmitted, and a
\* Put decodes every reply into the same structure.
DecodedHint(c, h) ==
  IF h # 0 THEN h ELSE IF Kind(c) = "put" THEN clerk[c].leaderHint ELSE 0

\* ErrWrongLeader: follow the hint, or try any server if there is none.
WrongLeader(c) ==
  LET h == DecodedHint(c, leaderID[thread[CallOf(c)].srv])
  IN  /\ Busy(c) /\ thread[CallOf(c)].pc = "wrong"
      /\ \E s \in IF h < 0 THEN Server ELSE {h} :
           /\ SendCall(c, Len(ops[c]), s, Unheard(c))
           /\ clerk' = [clerk EXCEPT ![c].calls = @ + 1, ![c].leader = s,
                                     ![c].leaderHint = h]
      /\ UNCHANGED <<raftVars, rsmVars, restarts, ops, ret, histVars>>

\* ErrVersion after a failed call may be the echo of the clerk's own write.
ClerkResult(c, r) ==
  IF r.err = "ErrVersion" /\ clerk[c].rpcTimes > 0
  THEN [r EXCEPT !.err = "ErrMaybe"] ELSE r

\* Any other reply ends the operation.
Return(c) ==
  /\ Busy(c) /\ thread[CallOf(c)].pc = "ok"
  /\ ret' = [ret EXCEPT ![c] = Append(@, ClerkResult(c, thread[CallOf(c)].res))]
  /\ thread' = Unheard(c)
  /\ clerk' = [clerk EXCEPT ![c].rpcTimes = 0, ![c].leaderHint = 0]
  /\ UNCHANGED <<raftVars, rsmVars, restarts, ops, histVars>>

-----------------------------------------------------------------------------
Init ==
  /\ term = [s \in Server |-> 0]
  /\ leader = [s \in Server |-> FALSE]
  /\ leaderID = [s \in Server |-> -1]
  /\ log = [s \in Server |-> << >>]
  /\ committed = << >>
  /\ nextIndex = [s \in Server |-> [t \in Server |-> 1]]
  /\ table = [s \in Server |-> EmptyTable]
  /\ applied = [s \in Server |-> 0]
  /\ snapshot = [s \in Server |-> [table |-> EmptyTable, index |-> 0]]
  /\ notify = [s \in Server |-> {}]
  /\ thread = [id \in CallId |-> NoThread]
  /\ restarts = 0
  /\ clerk = [c \in Client |-> [leader |-> 0, calls |-> 0, rpcTimes |-> 0,
                                leaderHint |-> 0]]
  /\ executed = 0 /\ hist = << >>
  /\ ops = [c \in Client |-> << >>] /\ ret = [c \in Client |-> << >>]

Next ==
  \/ \E s \in Server :
       \/ \E voters \in SUBSET (Server \ {s}) : BecomeLeader(s, voters)
       \/ UpdateTermAndBecomeFollower(s)
       \/ Commit(s) \/ Reader(s) \/ Restart(s)
       \/ \E t \in Server : AppendEntries(s, t) \/ InstallSnapshot(s, t)
  \/ \E id \in CallId :
       Submit(id) \/ TimeAfter(id) \/ Finish(id) \/ GiveUp(id)
  \/ \E c \in Client :
       \/ \E r \in Requests[c] : Begin(c, r.kind, r.version)
       \/ CallFails(c) \/ WrongLeader(c) \/ Return(c)

Spec == Init /\ [][Next]_vars

\* No server takes over a snapshot that is older than what it has executed.
NoRollback ==
  \A t \in Server : snapshot'[t] # snapshot[t] => snapshot'[t].index >= applied[t]

\* The schedules in which that does not happen.
InOrderSpec == Init /\ [][Next /\ NoRollback]_vars

-----------------------------------------------------------------------------
Register == INSTANCE KvSpec

\* Through crashes, elections, retries and given-up Submits the clerks see a
\* linearizable register: no write is lost, none takes effect twice, no Get
\* is stale.
Linearizable == Register!Spec

\* The table after the first k committed entries.
Replay(k) ==
  FoldLeft(LAMBDA t, e : DoOp(t, OpOf(e.call), <<e.call[1], thread[e.call].op>>),
           EmptyTable, SubSeq(committed, 1, k))

\* Every replica's table, and every snapshot, is the committed log executed
\* up to the index it stands for: a restart from a snapshot neither repeats
\* nor skips an entry.
ReplicasAgree ==
  \A s \in Server :
    /\ table[s] = Replay(applied[s])
    /\ snapshot[s].table = Replay(snapshot[s].index)

\* What the comment of Clerk.Put promises: ErrVersion means that the Put was
\* definitely not performed.
PutContract ==
  \A c \in Client : \A n \in 1 .. Len(ret[c]) :
    ret[c][n].err = "ErrVersion" => <<c, n>> \notin Range(hist)
=============================================================================
