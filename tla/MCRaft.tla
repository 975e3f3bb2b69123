------------------------------ MODULE MCRaft ------------------------------
(***************************************************************************)
(* Instances of Raft for TLC: which timers may fire into which term, how   *)
(* many calls the leaders may make, and, for the runs about later terms,   *)
(* states in which earlier terms may have left the cluster.                *)
(***************************************************************************)
EXTENDS Raft

CONSTANTS s1, s2, s3

Servers2 == {s1, s2}
Servers3 == {s1, s2, s3}

\* Candidates: anybody, or one given peer per term.
Anybody      == <<Servers3>>
AnyOfTwo     == <<Servers2, Servers2>>
OnlyOne      == <<{s1}>>
InTurn       == <<{s2}, {s1}, {s2}, {s3}>>
TwoHistories == <<{s1}, {s2}, {}, {s1}, {s2}>>

\* MaxSent, per term; 99 is never reached.
Calls4     == <<4>>
Calls8     == <<8>>
Calls22    == <<2, 2>>
Calls000n  == <<0, 0, 0, 99>>
Calls04030 == <<0, 4, 0, 3, 0>>

\* MaxLog, per term.
NoLog    == <<0>>
Log2     == <<2>>
Log11    == <<1, 1>>
Log0003  == <<0, 0, 0, 3>>
Log22444 == <<2, 2, 4, 4, 4>>

Entry(t) == [term |-> t, cmd |-> CHOOSE c \in Command : TRUE]

\* A log above the dummy entry, given by the terms of its entries.
LogOf(terms) == <<Dummy(0)>> \o [k \in 1 .. Len(terms) |-> Entry(terms[k])]

\* Nothing is committed and nothing is in the network: the messages of the
\* earlier terms are handled or lost.  The commit loop of a present leader has
\* seen its log, and no other peer's answer.
Quiet(lead) ==
  /\ snapshotIndex = [i \in Server |-> 0]
  /\ disk = [i \in Server |-> Persisted(i)]
  /\ raftState = [i \in Server |->
                    IF <<currentTerm[i], i>> \in lead THEN Leader ELSE Follower]
  /\ gotVotes = [i \in Server |-> 0]
  /\ pendingVotes = [i \in Server |-> {}]
  /\ commitIndex = [i \in Server |-> 0]
  /\ lastApplied = [i \in Server |-> 0]
  /\ svcIndex = [i \in Server |-> 0]
  /\ matchIndex = [i \in Server |-> [j \in Server |->
                     CASE j # i \/ nextIndex[i][i] = 0    -> 0
                       [] <<currentTerm[i], i>> \in lead -> LastLogIndex(i)
                       [] OTHER                          -> nextIndex[i][i] - 1]]
  /\ restarts = [i \in Server |-> 0]
  /\ voteRequests = {} /\ voteReplies = {}
  /\ appendRequests = {} /\ appendReplies = {}
  /\ snapRequests = {} /\ snapReplies = {}
  /\ elected = lead
  /\ applied = {}

\* The end of term 1: s1 was elected by all and started up to two commands, of
\* which s2 and s3 got a prefix; every reply was lost.
InitDiverged ==
  /\ currentTerm = [i \in Server |-> 1]
  /\ voteFor = [i \in Server |-> IF i = s1 THEN None ELSE s1]
  /\ leaderID = [i \in Server |-> s1]
  /\ nextIndex = [i \in Server |-> [j \in Server |-> IF i = s1 THEN 1 ELSE 0]]
  /\ \E n \in [Server -> 0 .. MaxLog[1]] :
       /\ n[s2] <= n[s1] /\ n[s3] <= n[s1]
       /\ logs = [i \in Server |-> LogOf([k \in 1 .. n[i] |-> 1])]
  /\ votes = {<<1, i, s1>> : i \in Server}
  /\ Quiet({<<1, s1>>})

\* s2, s1, s2 and s3 were elected in turn.  The commands of s1 in term 2 reached
\* nobody; that of s2 in term 3 reached s3, and that of s3 in term 4 reached
\* s2, with the acknowledgement lost.  s1 still believes to lead term 2.
InitDeposed ==
  /\ currentTerm = [i \in Server |-> IF i = s1 THEN 2 ELSE 4]
  /\ voteFor = [i \in Server |-> IF i = s2 THEN s3 ELSE None]
  /\ leaderID = [i \in Server |-> IF i = s2 THEN s3 ELSE i]
  /\ logs = [i \in Server |-> LogOf(IF i = s1 THEN <<1, 2, 2>> ELSE <<1, 3, 4>>)]
  /\ nextIndex = [i \in Server |-> [j \in Server |-> IF i = s3 THEN 3 ELSE 2]]
  /\ votes = {<<1, i, s2>> : i \in Server} \cup {<<2, i, s1>> : i \in Server}
               \cup {<<3, s2, s2>>, <<3, s3, s2>>, <<4, s3, s3>>, <<4, s2, s3>>}
  /\ Quiet({<<1, s2>>, <<2, s1>>, <<3, s2>>, <<4, s3>>})

FairSpecDeposed == InitDeposed /\ [][Next]_vars /\ Fairness

\* s3, s1 and s2 were elected in turn; the second command of s1 in term 2 and
\* that of s2 in term 3, which s1 refused to elect, reached nobody.
InitRivals ==
  /\ currentTerm = [i \in Server |-> 3]
  /\ voteFor = [i \in Server |-> IF i = s3 THEN s2 ELSE None]
  /\ leaderID = [i \in Server |-> IF i = s2 THEN s2 ELSE None]
  /\ logs = [i \in Server |-> CASE i = s1 -> LogOf(<<1, 2, 2>>)
                                [] i = s2 -> LogOf(<<1, 2, 3>>)
                                [] OTHER  -> LogOf(<<1, 2>>)]
  /\ nextIndex = [i \in Server |-> [j \in Server |->
                    CASE i = s1 -> 2 [] i = s2 -> 3 [] OTHER -> 1]]
  /\ votes = {<<1, i, s3>> : i \in Server} \cup {<<2, i, s1>> : i \in Server}
               \cup {<<3, s2, s2>>, <<3, s3, s2>>}
  /\ Quiet({<<1, s3>>, <<2, s1>>, <<3, s2>>})

\* Two histories, one up to term 1 and one up to term 3.
SpecHistories == (InitDiverged \/ InitRivals) /\ [][Next]_vars
=============================================================================
