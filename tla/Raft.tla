------------------------------- MODULE Raft -------------------------------
(***************************************************************************)
(* The Raft peer of raft1/raft.go: elections, log replication with the     *)
(* fast back-up of nextIndex, commitment by the median of matchIndex, log  *)
(* compaction, InstallSnapshot, and crash and restart from the persister.  *)
(*                                                                         *)
(* Every handler and every body of a background loop runs under rf.mu, so  *)
(* it is one action.  A remote call is a request, an execution of the      *)
(* handler and a reply, three steps that interleave with everything else.  *)
(* Requests and replies are never removed: a message may be handled late,  *)
(* out of order, more than once (the loops of the code send it again) or,  *)
(* by never being handled, not at all.                                     *)
(***************************************************************************)
EXTENDS Integers, Sequences, FiniteSets, FiniteSetsExt

CONSTANTS
  Server,       \* the peers
  Command,      \* what the service hands to Start
  None,         \* the -1 of voteFor and leaderID, and the nil Command
  MaxTerm,      \* bound: no election timer fires into a later term
  MaxLog,       \* bound: no command is started beyond this index, per term
  MaxRestarts,  \* bound: restarts of one peer
  MaxSent,      \* bound: different calls the leaders of each term make
  Candidates,   \* Candidates[t]: the peers whose timer may fire into term t
  SnapshotAt    \* the indices at which the service hands over a snapshot

ASSUME ServerAssumption == IsFiniteSet(Server) /\ Server # {}
ASSUME NoneAssumption == None \notin Server
ASSUME BoundAssumption ==
  /\ MaxTerm \in Nat
  /\ MaxLog \in [1..MaxTerm -> Nat]
  /\ MaxRestarts \in Nat
  /\ MaxSent \in [1..MaxTerm -> Nat]
  /\ Candidates \in [1..MaxTerm -> SUBSET Server]
  /\ SnapshotAt \subseteq Nat

Leader    == "RaftLeader"
Candidate == "RaftCandidate"
Follower  == "RaftFollower"

VARIABLES
  currentTerm, voteFor, logs, snapshotIndex,      \* what persist() saves
  disk,                                           \* what the persister holds
  raftState, gotVotes, leaderID,
  commitIndex, lastApplied,
  nextIndex, matchIndex,
  pendingVotes,   \* peers whose sendRequestVote goroutine has not returned
  svcIndex,       \* the log index that the service's state reflects
  restarts,       \* how often the peer was restarted: its incarnation
  voteRequests, voteReplies,
  appendRequests, appendReplies,
  snapRequests, snapReplies,
  votes,          \* history: <<term, voter, candidate>> granted
  elected,        \* history: <<term, peer>> that ran becomeLeader
  applied         \* history: <<index, entry>> sent on some applyCh

electionVars == <<raftState, gotVotes, leaderID, pendingVotes>>
persistVars  == <<currentTerm, voteFor, logs, snapshotIndex, disk>>
applyVars    == <<commitIndex, lastApplied, svcIndex>>
leaderVars   == <<nextIndex, matchIndex>>
voteMsgs     == <<voteRequests, voteReplies>>
appendMsgs   == <<appendRequests, appendReplies>>
snapMsgs     == <<snapRequests, snapReplies>>
historyVars  == <<votes, elected, applied>>

vars == <<electionVars, persistVars, applyVars, leaderVars, restarts,
          voteMsgs, appendMsgs, snapMsgs, historyVars>>

-----------------------------------------------------------------------------
(* Log arithmetic.  Slot 1 of logs[i] is the entry at snapshotIndex[i].    *)

LogEntry == [term : Nat, cmd : Command \cup {None}]

Dummy(term) == [term |-> term, cmd |-> None]

LastLogIndex(i) == Len(logs[i]) - 1 + snapshotIndex[i]

LastLogTerm(i) == logs[i][Len(logs[i])].term

\* rf.index shifted by one: TLA+ sequences start at 1.
Slot(i, k) == k - snapshotIndex[i] + 1

Log(i, k) == logs[i][Slot(i, k)]

\* The last index above the snapshot that holds an entry of the term, or 0.
LastIndexForTerm(i, term) ==
  Max({0} \cup {k \in snapshotIndex[i] + 1 .. LastLogIndex(i) :
                  Log(i, k).term = term})

\* sorted[n/2] of matchIndex: the largest value that at least n - n/2 of the
\* peers have reached.
MajorityIndex(match) ==
  LET n == Cardinality(Server)
      Reached(v) == {j \in Server : match[j] >= v}
  IN  Max({v \in {match[j] : j \in Server} :
             Cardinality(Reached(v)) >= n - n \div 2})

-----------------------------------------------------------------------------
Persisted(i) == [currentTerm |-> currentTerm[i], voteFor |-> voteFor[i],
                 logs |-> logs[i], snapshotIndex |-> snapshotIndex[i]]

\* Seeded fault: persist forgets to encode the vote.
PersistNoVote(i) ==
  disk' = [disk EXCEPT ![i] =
             [Persisted(i)' EXCEPT !.voteFor = disk[i].voteFor]]

\* persist(): the last thing a handler that changed durable state does.
Persist(i) == disk' = [disk EXCEPT ![i] = Persisted(i)']

UpdateTermAndBecomeFollower(i, term) ==
  /\ currentTerm' = [currentTerm EXCEPT ![i] = term]
  /\ raftState' = [raftState EXCEPT ![i] = Follower]
  /\ leaderID' = [leaderID EXCEPT ![i] = None]
  /\ voteFor' = [voteFor EXCEPT ![i] = None]
  /\ gotVotes' = [gotVotes EXCEPT ![i] = 0]
  /\ UNCHANGED <<logs, snapshotIndex>>
  /\ Persist(i)

\* The three early tests shared by the senders of the three RPCs: a reply to
\* a call of an older term, or one computed in an older term, is dropped; one
\* from a newer term makes the caller a follower.
ReplyFromNewerTerm(i, r) ==
  /\ r.args.term >= currentTerm[i]
  /\ r.term > currentTerm[i]
  /\ UpdateTermAndBecomeFollower(i, r.term)

ReplyOfThisTerm(i, r) ==
  r.args.term >= currentTerm[i] /\ r.term = currentTerm[i]

\* The reply reaches a goroutine that will look at it.  Terms and
\* incarnations never go back, so any other reply is dropped for good and
\* need not be kept.
Awaited(r) ==
  LET i == r.args.from
  IN  /\ r.args.boot = restarts[i]
      /\ r.args.term >= currentTerm[i]
      /\ r.term >= currentTerm[i]

WithReply(replies, r) == IF Awaited(r) THEN replies \cup {r} ELSE replies

-----------------------------------------------------------------------------
(* Elections.                                                              *)

\* ticker finds the timer expired and calls startAElection.  leaderID keeps
\* its old value.
StartAElection(i) ==
  /\ raftState[i] # Leader
  /\ currentTerm[i] < MaxTerm
  /\ i \in Candidates[currentTerm[i] + 1]
  /\ currentTerm' = [currentTerm EXCEPT ![i] = @ + 1]
  /\ raftState' = [raftState EXCEPT ![i] = Candidate]
  /\ gotVotes' = [gotVotes EXCEPT ![i] = 1]
  /\ voteFor' = [voteFor EXCEPT ![i] = i]
  /\ UNCHANGED <<logs, snapshotIndex>>
  /\ Persist(i)
  /\ voteRequests' = voteRequests \cup
       {[term |-> currentTerm[i] + 1, from |-> i, to |-> j,
         boot |-> restarts[i], lastLogIndex |-> LastLogIndex(i),
         lastLogTerm |-> LastLogTerm(i)] : j \in Server \ {i}}
  /\ pendingVotes' = [pendingVotes EXCEPT ![i] = Server \ {i}]
  /\ votes' = votes \cup {<<currentTerm[i] + 1, i, i>>}
  /\ UNCHANGED <<leaderID, applyVars, leaderVars, restarts, voteReplies,
                 appendMsgs, snapMsgs, elected, applied>>

\* Seeded fault: the voter does not compare the logs.
UpToDateAlways(i, m) == TRUE

\* The candidate's log is at least as up to date as the voter's.
UpToDate(i, m) ==
  \/ m.lastLogTerm > LastLogTerm(i)
  \/ /\ m.lastLogTerm = LastLogTerm(i)
     /\ m.lastLogIndex >= LastLogIndex(i)

\* Seeded fault: the vote already cast is not looked at.
GrantsTwice(i, m) == m.term >= currentTerm[i] /\ UpToDate(i, m)

GrantsVote(i, m) ==
  LET vote == IF m.term > currentTerm[i] THEN None ELSE voteFor[i]
  IN  /\ m.term >= currentTerm[i]
      /\ \/ vote = m.from
         \/ vote = None /\ UpToDate(i, m)

\* Seeded fault: the candidate is taken for the leader.
LeaderIDIsCandidate(i, m) ==
  IF m.term > currentTerm[i] THEN m.from ELSE leaderID[i]

LeaderIDAfterVote(i, m) ==
  IF m.term > currentTerm[i] THEN None ELSE leaderID[i]

\* Peer m.to executes the RequestVote handler.
RequestVote(m) ==
  LET i == m.to
      newer == m.term > currentTerm[i]
      grant == GrantsVote(i, m)
  IN  /\ currentTerm' = [currentTerm EXCEPT ![i] = IF newer THEN m.term ELSE @]
      /\ raftState' = [raftState EXCEPT ![i] = IF newer THEN Follower ELSE @]
      /\ leaderID' = [leaderID EXCEPT ![i] = LeaderIDAfterVote(i, m)]
      /\ gotVotes' = [gotVotes EXCEPT ![i] = IF newer THEN 0 ELSE @]
      /\ voteFor' = [voteFor EXCEPT ![i] = IF grant THEN m.from
                                           ELSE IF newer THEN None ELSE @]
      /\ UNCHANGED <<logs, snapshotIndex>>
      /\ Persist(i)
      /\ voteReplies' = WithReply(voteReplies,
           [args |-> m, term |-> currentTerm'[i], voteGranted |-> grant])
      /\ votes' = IF grant THEN votes \cup {<<m.term, i, m.from>>} ELSE votes
      /\ UNCHANGED <<pendingVotes, applyVars, leaderVars, restarts,
                     voteRequests, appendMsgs, snapMsgs, elected, applied>>

InitialMatch(i) == [j \in Server |-> IF j = i THEN LastLogIndex(i) ELSE 0]

BecomeLeader(i) ==
  /\ gotVotes' = [gotVotes EXCEPT ![i] = 0]
  /\ raftState' = [raftState EXCEPT ![i] = Leader]
  /\ voteFor' = [voteFor EXCEPT ![i] = None]
  /\ leaderID' = [leaderID EXCEPT ![i] = i]
  /\ UNCHANGED <<currentTerm, logs, snapshotIndex>>
  /\ Persist(i)
  /\ nextIndex' = [nextIndex EXCEPT ![i] =
                     [j \in Server |-> LastLogIndex(i) + 1]]
  /\ matchIndex' = [matchIndex EXCEPT ![i] = InitialMatch(i)]
  /\ elected' = elected \cup {<<currentTerm[i], i>>}

IsMajority(count) == count > Cardinality(Server) \div 2

\* One more vote; the candidate becomes leader when it has a majority.
CountVote(i) ==
  \/ /\ IsMajority(gotVotes[i] + 1)
     /\ BecomeLeader(i)
  \/ /\ ~IsMajority(gotVotes[i] + 1)
     /\ gotVotes' = [gotVotes EXCEPT ![i] = @ + 1]
     /\ UNCHANGED <<raftState, leaderID, persistVars, leaderVars, elected>>

\* The reply finds a candidate that still counts the votes of its term.
Counting(i, r) ==
  /\ ReplyOfThisTerm(i, r)
  /\ raftState[i] = Candidate
  /\ gotVotes[i] > 0

\* Seeded fault: a refusal counts as a vote.
IsVoteAlways(r) == TRUE

IsVote(r) == r.voteGranted

\* sendRequestVote gets the reply r; the goroutine for that peer returns, so
\* a peer's vote is counted once.  A reply that meets no candidate any more
\* changes nothing.
HandleVoteReply(r) ==
  LET i == r.args.from
  IN  /\ r.args.boot = restarts[i]
      /\ r.args.term = currentTerm[i]
      /\ r.args.to \in pendingVotes[i]
      /\ pendingVotes' = [pendingVotes EXCEPT ![i] = @ \ {r.args.to}]
      /\ \/ /\ ReplyFromNewerTerm(i, r)
            /\ UNCHANGED <<leaderVars, elected>>
         \/ /\ Counting(i, r) /\ IsVote(r)
            /\ CountVote(i)
         \/ /\ Counting(i, r) /\ ~IsVote(r)
            /\ UNCHANGED <<raftState, gotVotes, leaderID, persistVars,
                           leaderVars, elected>>
      /\ UNCHANGED <<applyVars, restarts, voteMsgs, appendMsgs, snapMsgs,
                     votes, applied>>

-----------------------------------------------------------------------------
(* Replication.                                                            *)

\* Seeded fault: a new leader replaces the last entry of an older term.
StartedOver(i, cmd) ==
  LET keep == IF LastLogIndex(i) > commitIndex[i]
                 /\ LastLogTerm(i) < currentTerm[i]
              THEN SubSeq(logs[i], 1, Len(logs[i]) - 1)
              ELSE logs[i]
  IN  Append(keep, [term |-> currentTerm[i], cmd |-> cmd])

Started(i, cmd) == Append(logs[i], [term |-> currentTerm[i], cmd |-> cmd])

Start(i, cmd) ==
  /\ raftState[i] = Leader
  /\ LastLogIndex(i) < MaxLog[currentTerm[i]]
  /\ logs' = [logs EXCEPT ![i] = Started(i, cmd)]
  /\ UNCHANGED <<currentTerm, voteFor, snapshotIndex>>
  /\ Persist(i)
  /\ UNCHANGED <<electionVars, applyVars, leaderVars, restarts, voteMsgs,
                 appendMsgs, snapMsgs, historyVars>>

AppendEntriesArgs(i, j) ==
  [term |-> currentTerm[i], from |-> i, to |-> j, boot |-> restarts[i],
   prevLogIndex |-> nextIndex[i][j] - 1,
   prevLogTerm |-> Log(i, nextIndex[i][j] - 1).term,
   entries |-> SubSeq(logs[i], Slot(i, nextIndex[i][j]), Len(logs[i])),
   leaderCommit |-> commitIndex[i]]

InstallSnapshotArgs(i, j) ==
  [term |-> currentTerm[i], from |-> i, to |-> j, boot |-> restarts[i],
   lastIncludedIndex |-> snapshotIndex[i],
   lastIncludedTerm |-> logs[i][1].term]

\* The peers that need the leader's snapshot, and those that need entries.
Lagging(i) == {j \in Server \ {i} : nextIndex[i][j] <= snapshotIndex[i]}

Following(i) == (Server \ {i}) \ Lagging(i)

\* rf.logs[rf.index(nextIndex):] and rf.log(nextIndex - 1) are in range; the
\* process panics otherwise, which NoPanic excludes.
SendableTo(i, j) == nextIndex[i][j] \in 1 .. LastLogIndex(i) + 1

\* One round of the heartBeat loop: one RPC to every other peer.
HeartBeat(i) ==
  /\ raftState[i] = Leader
  /\ \A j \in Following(i) : SendableTo(i, j)
  /\ snapRequests' = snapRequests \cup
       {InstallSnapshotArgs(i, j) : j \in Lagging(i)}
  /\ appendRequests' = appendRequests \cup
       {AppendEntriesArgs(i, j) : j \in Following(i)}
  /\ Cardinality({m \in snapRequests' \cup appendRequests' :
                    m.term = currentTerm[i]}) <= MaxSent[currentTerm[i]]
  /\ UNCHANGED <<electionVars, persistVars, applyVars, leaderVars, restarts,
                 voteMsgs, appendReplies, snapReplies, historyVars>>

\* Seeded fault: a leader of an older term is obeyed.
AcceptsAlways(i, m) == TRUE

\* A call of AppendEntries or InstallSnapshot is not from an older term.
Accepts(i, m) == m.term >= currentTerm[i]

\* Seeded fault: the term of the previous entry is not compared.
PrevInRange(i, m) == m.prevLogIndex \in snapshotIndex[i] .. LastLogIndex(i)

\* The previous entry of the leader is in the peer's log.
PrevMatches(i, m) ==
  /\ m.prevLogIndex \in snapshotIndex[i] .. LastLogIndex(i)
  /\ Log(i, m.prevLogIndex).term = m.prevLogTerm

\* The hint of a failed AppendEntries: [xLen, xIndex, xTerm].
Conflict(i, m) ==
  LET skip == [xLen |-> snapshotIndex[i] + 1, xIndex |-> -1, xTerm |-> -1]
      term == Log(i, m.prevLogIndex).term
      \* XIndex after the loop: everything above it up to prevLogIndex has
      \* the conflicting term, or it is the snapshot's index.
      stop == Max({snapshotIndex[i]} \cup
                  {k \in snapshotIndex[i] .. m.prevLogIndex :
                     Log(i, k).term # term})
  IN  IF m.prevLogIndex < snapshotIndex[i] THEN skip
      ELSE IF m.prevLogIndex > LastLogIndex(i)
      THEN [xLen |-> LastLogIndex(i) + 1, xIndex |-> -1, xTerm |-> -1]
      ELSE IF stop = snapshotIndex[i] THEN skip
      ELSE [xLen |-> -1, xIndex |-> stop + 1, xTerm |-> term]

\* How many of the entries the peer already has: the longest run from
\* prevLogIndex on whose terms agree.
Matched(i, m) ==
  Max({n \in 0 .. Len(m.entries) :
         \A k \in 1 .. n : /\ m.prevLogIndex + k <= LastLogIndex(i)
                           /\ Log(i, m.prevLogIndex + k).term
                                = m.entries[k].term})

\* The log after the entries are merged: cut at the first difference, but
\* only when entries are left to append.
Merged(i, m) ==
  LET n == Matched(i, m)
  IN  IF n = Len(m.entries) THEN logs[i]
      ELSE SubSeq(logs[i], 1, Slot(i, m.prevLogIndex) + n)
             \o SubSeq(m.entries, n + 1, Len(m.entries))

\* Seeded fault: the leader's commit index is taken as it comes.
FollowerCommitAny(i, m, last) == Min({m.leaderCommit, last})

\* commitIndex after a successful AppendEntries that left the log at last.
FollowerCommit(i, m, last) ==
  IF m.leaderCommit > commitIndex[i] THEN Min({m.leaderCommit, last})
  ELSE commitIndex[i]

AppendReply(m, term, success, hint) ==
  appendReplies' = WithReply(appendReplies,
    [args |-> [term |-> m.term, from |-> m.from, to |-> m.to, boot |-> m.boot,
               match |-> m.prevLogIndex + Len(m.entries)],
     term |-> term, success |-> success, hint |-> hint])

NoHint == [xLen |-> 0, xIndex |-> 0, xTerm |-> 0]

\* Peer m.to executes the AppendEntries handler.  reply.Term is read before
\* the term is updated.
AppendEntries(m) ==
  LET i == m.to
      follow == m.term > currentTerm[i] \/ raftState[i] # Follower
  IN  /\ \/ /\ ~Accepts(i, m)
            /\ AppendReply(m, currentTerm[i], FALSE, NoHint)
            /\ UNCHANGED <<electionVars, persistVars, commitIndex>>
         \/ /\ Accepts(i, m)
            /\ currentTerm' = [currentTerm EXCEPT ![i] = m.term]
            /\ raftState' = [raftState EXCEPT ![i] = Follower]
            /\ voteFor' = [voteFor EXCEPT ![i] = IF follow THEN None ELSE @]
            /\ gotVotes' = [gotVotes EXCEPT ![i] = IF follow THEN 0 ELSE @]
            /\ leaderID' = [leaderID EXCEPT ![i] = m.from]
            /\ UNCHANGED <<snapshotIndex, pendingVotes>>
            /\ \/ /\ ~PrevMatches(i, m)
                  /\ AppendReply(m, currentTerm[i], FALSE, Conflict(i, m))
                  /\ UNCHANGED <<logs, commitIndex>>
               \/ /\ PrevMatches(i, m)
                  /\ AppendReply(m, currentTerm[i], TRUE, NoHint)
                  /\ logs' = [logs EXCEPT ![i] = Merged(i, m)]
                  /\ commitIndex' = [commitIndex EXCEPT ![i] =
                       FollowerCommit(i, m, LastLogIndex(i)')]
            /\ Persist(i)
      /\ UNCHANGED <<lastApplied, svcIndex, leaderVars, restarts, voteMsgs,
                     appendRequests, snapMsgs, historyVars>>

\* Seeded faults: the length in the hint is taken for an index; a hint that
\* names a term is ignored.
BackUpOneLess(i, hint, next) ==
  IF hint.xLen # -1 THEN hint.xLen - 1 ELSE hint.xIndex

BackUpIgnoresTerm(i, hint, next) ==
  IF hint.xLen # -1 THEN hint.xLen ELSE next

\* What a failed reply does to nextIndex.
BackUp(i, hint, next) ==
  IF hint.xLen # -1 THEN hint.xLen
  ELSE IF hint.xIndex = -1 THEN next
  ELSE IF LastIndexForTerm(i, hint.xTerm) = 0 THEN hint.xIndex
  ELSE LastIndexForTerm(i, hint.xTerm) + 1

\* sendAppendEntries gets the reply r.
HandleAppendReply(r) ==
  LET i == r.args.from
      j == r.args.to
      match == r.args.match
  IN  /\ r.args.boot = restarts[i]
      /\ \/ ReplyFromNewerTerm(i, r) /\ UNCHANGED leaderVars
         \/ /\ ReplyOfThisTerm(i, r)
            /\ \/ /\ r.success
                  /\ nextIndex' = [nextIndex EXCEPT ![i][j] =
                                     Max({@, match + 1})]
                  /\ matchIndex' = [matchIndex EXCEPT ![i][j] =
                                     Max({@, match})]
               \/ /\ ~r.success
                  /\ nextIndex' = [nextIndex EXCEPT ![i][j] =
                                     BackUp(i, r.hint, @)]
                  /\ UNCHANGED matchIndex
            /\ UNCHANGED <<raftState, gotVotes, leaderID, persistVars>>
      /\ UNCHANGED <<pendingVotes, applyVars, restarts, voteMsgs, appendMsgs,
                     snapMsgs, historyVars>>

\* Seeded fault: an entry of an older term is committed by counting.
CommittableAnyTerm(i, index) == index > commitIndex[i]

Committable(i, index) ==
  /\ index > commitIndex[i]
  /\ Log(i, index).term = currentTerm[i]

\* One round of the commit loop: the leader refreshes its own matchIndex and
\* commits up to the majority's index if it may.
Commit(i) ==
  LET match == [matchIndex[i] EXCEPT ![i] = LastLogIndex(i)]
      index == MajorityIndex(match)
  IN  /\ raftState[i] = Leader
      /\ matchIndex' = [matchIndex EXCEPT ![i] = match]
      /\ commitIndex' = [commitIndex EXCEPT ![i] =
                           IF Committable(i, index) THEN index ELSE @]
      /\ UNCHANGED <<electionVars, persistVars, lastApplied, svcIndex,
                     nextIndex, restarts, voteMsgs, appendMsgs, snapMsgs,
                     historyVars>>

\* One round of the apply loop, the messages delivered to the service.  The
\* log must reach commitIndex, or rf.log panics: see NoPanic.
Apply(i) ==
  /\ lastApplied[i] < commitIndex[i]
  /\ commitIndex[i] <= LastLogIndex(i)
  /\ lastApplied' = [lastApplied EXCEPT ![i] = commitIndex[i]]
  /\ svcIndex' = [svcIndex EXCEPT ![i] = commitIndex[i]]
  /\ applied' = applied \cup
       {<<k, Log(i, k)>> : k \in lastApplied[i] + 1 .. commitIndex[i]}
  /\ UNCHANGED <<electionVars, persistVars, commitIndex, leaderVars,
                 restarts, voteMsgs, appendMsgs, snapMsgs, votes, elected>>

-----------------------------------------------------------------------------
(* Snapshots.                                                              *)

\* The service hands over a snapshot of everything up to index, which it has
\* executed.  Beyond the log, the code stops with log.Fatalf.
Snapshot(i, index) ==
  /\ index \in snapshotIndex[i] .. lastApplied[i]
  /\ index <= LastLogIndex(i)
  /\ logs' = [logs EXCEPT ![i] = SubSeq(@, Slot(i, index), Len(@))]
  /\ snapshotIndex' = [snapshotIndex EXCEPT ![i] = index]
  /\ UNCHANGED <<currentTerm, voteFor>>
  /\ Persist(i)
  /\ UNCHANGED <<electionVars, applyVars, leaderVars, restarts, voteMsgs,
                 appendMsgs, snapMsgs, historyVars>>

\* Seeded faults: the dummy entry is forgotten; the kept entries start one
\* too late.
LogAfterSnapshotNoDummy(i, m) ==
  IF LastLogIndex(i) > m.lastIncludedIndex
  THEN SubSeq(logs[i], Slot(i, m.lastIncludedIndex + 1), Len(logs[i]))
  ELSE << >>

LogAfterSnapshotOneLess(i, m) ==
  <<Dummy(m.lastIncludedTerm)>> \o
    (IF LastLogIndex(i) > m.lastIncludedIndex
     THEN SubSeq(logs[i], Slot(i, m.lastIncludedIndex + 2), Len(logs[i]))
     ELSE << >>)

\* The log behind an installed snapshot: what lies above it is kept.
LogAfterSnapshot(i, m) ==
  <<Dummy(m.lastIncludedTerm)>> \o
    (IF LastLogIndex(i) > m.lastIncludedIndex
     THEN SubSeq(logs[i], Slot(i, m.lastIncludedIndex + 1), Len(logs[i]))
     ELSE << >>)

\* commitIndex and lastApplied after an installed snapshot.
Raised(old, index) == IF old < index THEN index ELSE old

SnapReply(m, term) ==
  snapReplies' = WithReply(snapReplies, [args |-> m, term |-> term])

\* Peer m.to executes the InstallSnapshot handler; the snapshot goes to the
\* service whether or not the service is already past it.
InstallSnapshot(m) ==
  LET i == m.to
      index == m.lastIncludedIndex
      newer == m.term > currentTerm[i]
  IN  /\ \/ /\ ~Accepts(i, m)
            /\ SnapReply(m, currentTerm[i])
            /\ UNCHANGED <<electionVars, persistVars, applyVars>>
         \/ /\ Accepts(i, m)
            /\ SnapReply(m, m.term)
            /\ currentTerm' = [currentTerm EXCEPT ![i] = m.term]
            /\ raftState' = [raftState EXCEPT ![i] =
                               IF newer THEN Follower ELSE @]
            /\ voteFor' = [voteFor EXCEPT ![i] = IF newer THEN None ELSE @]
            /\ gotVotes' = [gotVotes EXCEPT ![i] = IF newer THEN 0 ELSE @]
            /\ leaderID' = [leaderID EXCEPT ![i] = m.from]
            /\ \/ /\ index <= snapshotIndex[i]
                  /\ UNCHANGED <<logs, snapshotIndex, applyVars>>
               \/ /\ index > snapshotIndex[i]
                  /\ logs' = [logs EXCEPT ![i] = LogAfterSnapshot(i, m)]
                  /\ snapshotIndex' = [snapshotIndex EXCEPT ![i] = index]
                  /\ commitIndex' = [commitIndex EXCEPT ![i] = Raised(@, index)]
                  /\ lastApplied' = [lastApplied EXCEPT ![i] = Raised(@, index)]
                  /\ svcIndex' = [svcIndex EXCEPT ![i] = index]
            /\ UNCHANGED pendingVotes
            /\ Persist(i)
      /\ UNCHANGED <<leaderVars, restarts, voteMsgs, appendMsgs,
                     snapRequests, historyVars>>

\* sendInstallSnapshot gets the reply r.
HandleSnapReply(r) ==
  LET i == r.args.from
      j == r.args.to
      index == r.args.lastIncludedIndex
  IN  /\ r.args.boot = restarts[i]
      /\ \/ ReplyFromNewerTerm(i, r) /\ UNCHANGED leaderVars
         \/ /\ ReplyOfThisTerm(i, r)
            /\ matchIndex' = [matchIndex EXCEPT ![i][j] = Max({@, index})]
            /\ nextIndex' = [nextIndex EXCEPT ![i][j] = Max({@, index + 1})]
            /\ UNCHANGED <<raftState, gotVotes, leaderID, persistVars>>
      /\ UNCHANGED <<pendingVotes, applyVars, restarts, voteMsgs, appendMsgs,
                     snapMsgs, historyVars>>

-----------------------------------------------------------------------------
\* What persist() saved is read back.  Before the first persist() the disk of
\* the model holds the initial values that Make sets.
ReadPersist(i) ==
  /\ currentTerm' = [currentTerm EXCEPT ![i] = disk[i].currentTerm]
  /\ voteFor' = [voteFor EXCEPT ![i] = disk[i].voteFor]
  /\ logs' = [logs EXCEPT ![i] = disk[i].logs]
  /\ snapshotIndex' = [snapshotIndex EXCEPT ![i] = disk[i].snapshotIndex]

\* The peer crashes and Make starts it again from the persister.  The reply
\* goroutines of the old incarnation are gone.
Restart(i) ==
  /\ restarts[i] < MaxRestarts
  /\ restarts' = [restarts EXCEPT ![i] = @ + 1]
  /\ raftState' = [raftState EXCEPT ![i] = Follower]
  /\ gotVotes' = [gotVotes EXCEPT ![i] = 0]
  /\ leaderID' = [leaderID EXCEPT ![i] = None]
  /\ pendingVotes' = [pendingVotes EXCEPT ![i] = {}]
  /\ ReadPersist(i)
  /\ commitIndex' = [commitIndex EXCEPT ![i] = disk[i].snapshotIndex]
  /\ lastApplied' = [lastApplied EXCEPT ![i] = disk[i].snapshotIndex]
  /\ svcIndex' = [svcIndex EXCEPT ![i] = disk[i].snapshotIndex]
  /\ nextIndex' = [nextIndex EXCEPT ![i] = [j \in Server |-> 0]]
  /\ matchIndex' = [matchIndex EXCEPT ![i] = [j \in Server |-> 0]]
  /\ UNCHANGED <<disk, voteMsgs, appendMsgs, snapMsgs, historyVars>>

Init ==
  /\ currentTerm = [i \in Server |-> 0]
  /\ voteFor = [i \in Server |-> None]
  /\ logs = [i \in Server |-> <<Dummy(0)>>]
  /\ snapshotIndex = [i \in Server |-> 0]
  /\ disk = [i \in Server |-> Persisted(i)]
  /\ raftState = [i \in Server |-> Follower]
  /\ gotVotes = [i \in Server |-> 0]
  /\ leaderID = [i \in Server |-> None]
  /\ pendingVotes = [i \in Server |-> {}]
  /\ commitIndex = [i \in Server |-> 0]
  /\ lastApplied = [i \in Server |-> 0]
  /\ svcIndex = [i \in Server |-> 0]
  /\ nextIndex = [i \in Server |-> [j \in Server |-> 0]]
  /\ matchIndex = [i \in Server |-> [j \in Server |-> 0]]
  /\ restarts = [i \in Server |-> 0]
  /\ voteRequests = {} /\ voteReplies = {}
  /\ appendRequests = {} /\ appendReplies = {}
  /\ snapRequests = {} /\ snapReplies = {}
  /\ votes = {} /\ elected = {} /\ applied = {}

Next ==
  \/ \E i \in Server :
       \/ StartAElection(i)
       \/ HeartBeat(i)
       \/ Commit(i)
       \/ Apply(i)
       \/ Restart(i)
       \/ \E cmd \in Command : Start(i, cmd)
       \/ \E index \in SnapshotAt : Snapshot(i, index)
  \/ \E m \in voteRequests : RequestVote(m)
  \/ \E m \in appendRequests : AppendEntries(m)
  \/ \E m \in snapRequests : InstallSnapshot(m)
  \/ \E r \in voteReplies : HandleVoteReply(r)
  \/ \E r \in appendReplies : HandleAppendReply(r)
  \/ \E r \in snapReplies : HandleSnapReply(r)

Spec == Init /\ [][Next]_vars

-----------------------------------------------------------------------------
(* Fairness.  The loops of every peer keep running, and a call that the    *)
(* leader keeps making is answered in the end: the network loses and       *)
(* delays messages, but not all of them for ever.  Strong fairness where   *)
(* stale answers, of which there are only finitely many for one call, may  *)
(* move nextIndex away and back.                                           *)

NewestLeader(i) ==
  raftState[i] = Leader /\ \A e \in elected : e[1] <= currentTerm[i]

\* Some peer handles the call that leader i makes to it now.
Deliver(i) ==
  \/ \E m \in appendRequests :
       /\ m.from = i /\ m.to \in Following(i)
       /\ m = AppendEntriesArgs(i, m.to)
       /\ AppendEntries(m)
  \/ \E m \in snapRequests :
       /\ m.from = i /\ m.to \in Lagging(i)
       /\ m = InstallSnapshotArgs(i, m.to)
       /\ InstallSnapshot(m)

\* Leader i handles a good answer of j to the call it makes to j now.
Ack(i, j) ==
  \/ \E r \in appendReplies :
       /\ r.args.from = i /\ r.args.to = j
       /\ r.args.match = LastLogIndex(i) /\ r.success
       /\ HandleAppendReply(r)
  \/ \E r \in snapReplies :
       /\ r.args.from = i /\ r.args.to = j
       /\ r.args.lastIncludedIndex = snapshotIndex[i]
       /\ HandleSnapReply(r)

\* Leader i handles a failed answer of j.
Nack(i, j) ==
  \E r \in appendReplies :
    /\ r.args.from = i /\ r.args.to = j
    /\ r.args.match = LastLogIndex(i) /\ ~r.success
    /\ HandleAppendReply(r)

Fairness ==
  /\ SF_vars(\E i \in Server : NewestLeader(i) /\ HeartBeat(i))
  /\ WF_vars(\E i \in Server : Commit(i))
  /\ WF_vars(\E i \in Server : Apply(i))
  /\ SF_vars(\E i \in Server : NewestLeader(i) /\ Deliver(i))
  /\ \A j \in Server :
       /\ SF_vars(\E i \in Server : NewestLeader(i) /\ Ack(i, j))
       /\ SF_vars(\E i \in Server : NewestLeader(i) /\ Nack(i, j))

FairSpec == Spec /\ Fairness

-----------------------------------------------------------------------------
(* Correctness.                                                            *)

VoteArgs == [term : Nat, from : Server, to : Server, boot : Nat,
             lastLogIndex : Nat, lastLogTerm : Nat]

AppendArgs == [term : Nat, from : Server, to : Server, boot : Nat,
               prevLogIndex : Nat, prevLogTerm : Nat,
               entries : Seq(LogEntry), leaderCommit : Nat]

\* What sendAppendEntries uses of the arguments when the reply comes: their
\* term and matchIndexShouleBe.
AppendCall == [term : Nat, from : Server, to : Server, boot : Nat, match : Nat]

SnapArgs == [term : Nat, from : Server, to : Server, boot : Nat,
             lastIncludedIndex : Nat, lastIncludedTerm : Nat]

Hint == [xLen : Nat \cup {-1}, xIndex : Nat \cup {-1}, xTerm : Nat \cup {-1}]

\* Type correctness of the peer state of raft.go (type Raft), of the RPC
\* argument and reply structures, and of the history variables.  A log is
\* never empty: slot 0 of rf.logs always exists.
TypeOK ==
  /\ currentTerm \in [Server -> Nat]
  /\ voteFor \in [Server -> Server \cup {None}]
  /\ logs \in [Server -> Seq(LogEntry) \ {<< >>}]
  /\ snapshotIndex \in [Server -> Nat]
  /\ disk \in [Server -> [currentTerm : Nat, voteFor : Server \cup {None},
                          logs : Seq(LogEntry) \ {<< >>},
                          snapshotIndex : Nat]]
  /\ raftState \in [Server -> {Leader, Candidate, Follower}]
  /\ gotVotes \in [Server -> Nat]
  /\ leaderID \in [Server -> Server \cup {None}]
  /\ pendingVotes \in [Server -> SUBSET Server]
  /\ commitIndex \in [Server -> Nat]
  /\ lastApplied \in [Server -> Nat]
  /\ svcIndex \in [Server -> Nat]
  /\ nextIndex \in [Server -> [Server -> Nat]]
  /\ matchIndex \in [Server -> [Server -> Nat]]
  /\ restarts \in [Server -> Nat]
  /\ voteRequests \subseteq VoteArgs
  /\ voteReplies \subseteq [args : VoteArgs, term : Nat, voteGranted : BOOLEAN]
  /\ appendRequests \subseteq AppendArgs
  /\ appendReplies \subseteq [args : AppendCall, term : Nat,
                              success : BOOLEAN, hint : Hint]
  /\ snapRequests \subseteq SnapArgs
  /\ snapReplies \subseteq [args : SnapArgs, term : Nat]
  /\ votes \subseteq Nat \X Server \X Server
  /\ elected \subseteq Nat \X Server
  /\ applied \subseteq Nat \X LogEntry

\* Whenever rf.mu is free, a crash loses nothing that Raft must remember:
\* the persister holds the term, the vote, the log and the snapshot's index.
\* Every handler that changes one of them calls persist() before it unlocks.
DiskInSync == \A i \in Server : disk[i] = Persisted(i)

VotersFor(t, i) == {v \in Server : <<t, v, i>> \in votes}

\* A peer runs becomeLeader only after a majority of distinct peers, itself
\* included, granted it a vote in that term: a lost, repeated or late
\* RequestVote reply, a step down or a restart never makes gotVotes overcount.
LeaderHasQuorum ==
  \A e \in elected :
    2 * Cardinality(VotersFor(e[1], e[2])) > Cardinality(Server)

\* Two leaders of one term imply a peer that voted for both in that term.
\* (The code does let a peer vote twice: becomeLeader and a same-term
\* AppendEntries clear voteFor.)
SplitBrainNeedsDoubleVote ==
  \A e, f \in elected :
    e[1] = f[1] /\ e[2] # f[2] =>
      VotersFor(e[1], e[2]) \cap VotersFor(f[1], f[2]) # {}

\* At most one leader per term, over the whole history: what checkOneLeader
\* of raft1/test.go demands and the comment of AppendEntries warns about.
ElectionSafety ==
  \A e, f \in elected : e[1] = f[1] => e[2] = f[2]

\* The peer that GetLeader names, and that the services send clients to, did
\* win an election, in this peer's term or an older one.
LeaderHintWasElected ==
  \A i \in Server : leaderID[i] # None =>
    \E t \in 0 .. currentTerm[i] : <<t, leaderID[i]>> \in elected

\* No two peers, nor one peer before and after a restart, ever send different
\* entries for the same index on applyCh.
StateMachineSafety ==
  \A a, b \in applied : a[1] = b[1] => a[2] = b[2]

\* The newest leader's log holds every entry any peer has applied: neither
\* the vote, nor a conflicting AppendEntries, nor InstallSnapshot, nor the
\* commit rule lets an applied entry be left behind by an election.
LeaderCompleteness ==
  \A i \in Server :
    (raftState[i] = Leader /\ \A e \in elected : e[1] <= currentTerm[i]) =>
      \A a \in applied :
        \/ a[1] <= snapshotIndex[i]
        \/ a[1] <= LastLogIndex(i) /\ Log(i, a[1]) = a[2]

\* Entries of one index and term are the same entry, and so is everything
\* between them and the snapshots: AppendEntries merges logs correctly, also
\* over the suffix InstallSnapshot keeps without looking at its terms.
LogMatching ==
  \A i, j \in Server :
    LET base == Max({snapshotIndex[i], snapshotIndex[j]})
        top  == Min({LastLogIndex(i), LastLogIndex(j)})
    IN  \A k \in base + 1 .. top :
          Log(i, k).term = Log(j, k).term =>
            \A n \in base + 1 .. k : Log(i, n) = Log(j, n)

\* What the leader counts as replicated is replicated: a peer of the leader's
\* term has every entry up to matchIndex, whatever order replies came in.
MatchIndexIsReplicated ==
  \A i, j \in Server :
    (raftState[i] = Leader /\ currentTerm[j] = currentTerm[i]) =>
      /\ matchIndex[i][j] <= LastLogIndex(j)
      /\ \A k \in 1 .. matchIndex[i][j] :
           k > snapshotIndex[i] /\ k > snapshotIndex[j] =>
             Log(i, k) = Log(j, k)

\* No slice or index expression of raft.go is out of range: the apply loop,
\* the heartBeat loop and rf.log never reach outside rf.logs, and make never
\* gets a negative length.
NoPanic ==
  \A i \in Server :
    /\ snapshotIndex[i] <= lastApplied[i]
    /\ lastApplied[i] <= commitIndex[i]
    /\ commitIndex[i] <= LastLogIndex(i)
    /\ raftState[i] = Leader => \A j \in Server \ {i} : SendableTo(i, j)

\* A peer's term never goes back, a crash included.
TermMonotone == [][\A i \in Server : currentTerm'[i] >= currentTerm[i]]_vars

\* While a peer stays leader of a term its log only grows at the end; what
\* is compacted away was committed.
LeaderAppendOnly ==
  [][\A i \in Server :
       (/\ raftState[i] = Leader /\ raftState'[i] = Leader
        /\ currentTerm'[i] = currentTerm[i]) =>
          /\ LastLogIndex(i)' >= LastLogIndex(i)
          /\ snapshotIndex'[i] <= commitIndex[i]
          /\ \A k \in snapshotIndex'[i] + 1 .. LastLogIndex(i) :
               logs'[i][k - snapshotIndex'[i] + 1] = Log(i, k)]_vars

\* commitIndex, and with it what the service has seen, only goes back when
\* the peer restarts.
CommitMonotone ==
  [][\A i \in Server :
       restarts'[i] = restarts[i] => commitIndex'[i] >= commitIndex[i]]_vars

\* The service never goes back to an older state while its peer runs: what
\* rfsrv.applier checks ("apply out of order", raft1/server.go).
NoServiceRollback ==
  [][\A i \in Server :
       restarts'[i] = restarts[i] => svcIndex'[i] >= svcIndex[i]]_vars

\* A leader that is not deposed replicates: an entry that it started in its
\* term is in the end applied by every peer, although the first reply of a
\* peer is dropped (its term is read before it is updated), nextIndex is
\* backed up by hints of any age, and a snapshot replaces missing entries.
ReplicationCompletes ==
  \A k \in 1 .. MaxLog[MaxTerm] :
    (\E i \in Server :
       /\ raftState[i] = Leader /\ currentTerm[i] = MaxTerm
       /\ k \in snapshotIndex[i] + 1 .. LastLogIndex(i)
       /\ Log(i, k).term = MaxTerm)
      ~> \A j \in Server : lastApplied[j] >= k
=============================================================================
