----------------------------- MODULE RaftProofs -----------------------------
(***************************************************************************)
(* What the operators that Raft is built from return: maxima of sets of    *)
(* indices, the median of matchIndex, majorities, the operators on the     *)
(* log.  Then type correctness of the peer, that the persister is never    *)
(* behind, and that terms never go back, for any number of peers and any   *)
(* bounds.  Then what an election guarantees: a leader has the votes of a  *)
(* majority, so two leaders of one term share a voter; the leader a peer   *)
(* points to did win an election; and a term has one leader if there are   *)
(* two peers, or if no two timers fire into the same term.                 *)
(***************************************************************************)
EXTENDS Raft, FiniteSetTheorems, WellFoundedInduction, SequenceTheorems,
        TLAPS

\* The least-number principle, for a set.
LEMMA LeastNumber ==
  ASSUME NEW T \in SUBSET Nat, T # {}
  PROVE  \E x \in T : \A y \in T : x <= y
<1> DEFINE R == {ss \in Nat \X Nat : ss[1] < ss[2]}
<1>1. IsWellFoundedOn(R, Nat)
  BY NatLessThanWellFounded DEF OpToRel
<1>2. \A x, y \in Nat : <<y, x>> \in R <=> y < x
  OBVIOUS
<1> HIDE DEF R
<1>3. PICK x \in T : \A y \in T : ~ (<<y, x>> \in R)
  BY <1>1, WFMin
<1>4. \A y \in T : ~ (y < x)
  BY <1>2, <1>3
<1> QED BY <1>4

\* A set of integers with an upper bound has a maximum.
LEMMA MaxBounded ==
  ASSUME NEW S \in SUBSET Int, S # {}, NEW b \in Int, \A x \in S : x <= b
  PROVE  Max(S) \in S /\ \A x \in S : Max(S) >= x
<1> DEFINE T == {b - x : x \in S}
<1>1. T \in SUBSET Nat /\ T # {}
  <2>1. \A x \in S : b - x \in Nat
    OBVIOUS
  <2> QED BY <2>1
<1>2. PICK d \in T : \A e \in T : d <= e
  BY <1>1, LeastNumber
<1>3. PICK x \in S : d = b - x
  BY <1>2
<1>4. \A y \in S : x >= y
  BY <1>2, <1>3
<1> QED BY <1>4 DEF Max

\* A finite nonempty set of natural numbers has an upper bound in it.
LEMMA MaxFinite ==
  ASSUME NEW S \in SUBSET Nat, S # {}, IsFiniteSet(S)
  PROVE  Max(S) \in S /\ \A x \in S : Max(S) >= x
<1> DEFINE Bad == {X \in SUBSET S : X # {} /\ ~\E x \in X : \A y \in X : x >= y}
           T == {Cardinality(X) : X \in Bad}
<1>1. T \in SUBSET Nat
  BY FS_Subset, FS_CardinalityType
<1>2. ASSUME Bad # {} PROVE FALSE
  <2>1. T # {}
    BY <1>2
  <2> HIDE DEF T
  <2>2. PICK n \in T : \A k \in T : n <= k
    BY <1>1, <2>1, LeastNumber
  <2> USE DEF T
  <2>3. PICK X \in Bad : n = Cardinality(X)
    BY <2>2
  <2>4. PICK x \in X : TRUE
    BY <2>3
  <2> DEFINE Y == X \ {x}
  <2>5. IsFiniteSet(X) /\ Cardinality(X) \in Nat
    BY <2>3, FS_Subset, FS_CardinalityType
  <2>6. Cardinality(Y) = n - 1
    BY <2>3, <2>4, <2>5, FS_RemoveElement
  <2>7. Y \notin Bad
    <3>1. ASSUME Y \in Bad PROVE Cardinality(Y) \in T
      BY <3>1
    <3>2. n \in Nat
      BY <2>3, <2>5
    <3> HIDE DEF T, Y, Bad
    <3> QED BY <2>2, <2>6, <3>1, <3>2
  <2>8. Y # {}
    BY <2>3, <2>4
  <2>9. PICK y \in Y : \A z \in Y : y >= z
    BY <2>3, <2>7, <2>8
  <2>10. \E z \in {x, y} : \A w \in X : z >= w
    BY <2>3, <2>4, <2>9
  <2> QED BY <2>3, <2>4, <2>9, <2>10
<1>3. \E x \in S : \A y \in S : x >= y
  BY <1>2
<1> QED BY <1>3 DEF Max

\* The two elements case.
LEMMA MinMaxPair ==
  ASSUME NEW a \in Int, NEW b \in Int
  PROVE  /\ Max({a, b}) = IF a >= b THEN a ELSE b
         /\ Min({a, b}) = IF a <= b THEN a ELSE b
BY DEF Max, Min

\* The median that commit() takes of matchIndex: ceil(n/2) peers have reached
\* it, for odd and for even n.
LEMMA MajorityIndexReached ==
  ASSUME NEW match \in [Server -> Nat]
  PROVE  /\ MajorityIndex(match) \in Nat
         /\ Cardinality({j \in Server : match[j] >= MajorityIndex(match)})
              >= Cardinality(Server) - Cardinality(Server) \div 2
<1> DEFINE n == Cardinality(Server)
           V == {match[j] : j \in Server}
           Reached(v) == {j \in Server : match[j] >= v}
           S == {v \in V : Cardinality(Reached(v)) >= n - n \div 2}
<1>1. V \in SUBSET Nat /\ V # {}
  BY ServerAssumption
<1>2. PICK least \in V : \A v \in V : least <= v
  BY <1>1, LeastNumber
<1>3. Reached(least) = Server
  BY <1>2
<1>4. n \in Nat
  BY ServerAssumption, FS_CardinalityType
<1>5. n >= n - n \div 2
  BY <1>4
<1>6. least \in S
  BY <1>2, <1>3, <1>5
<1>7. IsFiniteSet(V)
  <2>1. match \in Surjection(Server, V)
    BY DEF Surjection
  <2> QED BY <2>1, ServerAssumption, FS_Surjection
<1>8. IsFiniteSet(S)
  BY <1>7, FS_Subset
<1>9. S \in SUBSET Nat /\ S # {}
  BY <1>1, <1>6
<1> HIDE DEF S
<1>10. Max(S) \in S
  BY <1>8, <1>9, MaxFinite
<1> USE DEF S
<1>11. MajorityIndex(match) = Max(S)
  BY DEF MajorityIndex
<1> HIDE DEF V
<1> QED BY <1>1, <1>10, <1>11

\* Any ceil(n/2) peers and any majority have a peer in common: the commit
\* rule and the election rule fit together although the first needs one peer
\* less than a majority when n is even.
LEMMA CommitMeetsMajority ==
  ASSUME NEW A \in SUBSET Server, NEW B \in SUBSET Server,
         Cardinality(A) >= Cardinality(Server) - Cardinality(Server) \div 2,
         IsMajority(Cardinality(B))
  PROVE  A \cap B # {}
<1>1. /\ Cardinality(Server) \in Nat /\ Cardinality(A) \in Nat
      /\ Cardinality(B) \in Nat
  BY ServerAssumption, FS_Subset, FS_CardinalityType
<1>2. Cardinality(A) + Cardinality(B) > Cardinality(Server)
  BY <1>1 DEF IsMajority
<1> QED BY <1>2, ServerAssumption, FS_MajoritiesIntersect

\* What commit() takes for replicated (sorted[n/2] of matchIndex) is held by
\* some peer of every majority that can elect a leader.
THEOREM CommitRuleMeetsVoteRule ==
  ASSUME NEW match \in [Server -> Nat], NEW B \in SUBSET Server,
         IsMajority(Cardinality(B))
  PROVE  \E j \in B : match[j] >= MajorityIndex(match)
<1> DEFINE A == {j \in Server : match[j] >= MajorityIndex(match)}
<1>1. A \in SUBSET Server
  OBVIOUS
<1>2. Cardinality(A) >= Cardinality(Server) - Cardinality(Server) \div 2
  BY MajorityIndexReached
<1> HIDE DEF A
<1>3. A \cap B # {}
  BY <1>1, <1>2, CommitMeetsMajority
<1> QED BY <1>3 DEF A

-----------------------------------------------------------------------------
\* A log that is never empty has a last index, and every index from the
\* snapshot's to the last names an entry.
LEMMA LogTypes ==
  ASSUME TypeOK, NEW i \in Server
  PROVE  /\ logs[i] \in Seq(LogEntry) /\ Len(logs[i]) \in Nat \ {0}
         /\ snapshotIndex[i] \in Nat
         /\ LastLogIndex(i) \in Nat /\ LastLogIndex(i) >= snapshotIndex[i]
         /\ LastLogTerm(i) \in Nat
         /\ \A k \in snapshotIndex[i] .. LastLogIndex(i) :
              /\ Slot(i, k) \in 1 .. Len(logs[i])
              /\ Log(i, k) \in LogEntry
              /\ Log(i, k).term \in Nat
<1>1. logs[i] \in Seq(LogEntry) /\ logs[i] # << >> /\ snapshotIndex[i] \in Nat
  BY DEF TypeOK
<1>2. Len(logs[i]) \in Nat \ {0}
  BY <1>1
<1>3. \A s \in 1 .. Len(logs[i]) : logs[i][s] \in LogEntry
  BY <1>1
<1>4. LastLogTerm(i) \in Nat
  BY <1>2, <1>3 DEF LastLogTerm, LogEntry
<1>5. LastLogIndex(i) \in Nat /\ LastLogIndex(i) >= snapshotIndex[i]
  BY <1>1, <1>2 DEF LastLogIndex
<1>6. ASSUME NEW k \in snapshotIndex[i] .. LastLogIndex(i)
      PROVE  /\ Slot(i, k) \in 1 .. Len(logs[i])
             /\ Log(i, k) \in LogEntry
             /\ Log(i, k).term \in Nat
  <2>1. Slot(i, k) \in 1 .. Len(logs[i])
    BY <1>1, <1>2 DEF LastLogIndex, Slot
  <2>2. Log(i, k) \in LogEntry
    BY <1>3, <2>1 DEF Log
  <2> QED BY <2>1, <2>2 DEF LogEntry
<1> QED BY <1>1, <1>2, <1>4, <1>5, <1>6

\* A piece of a log is a sequence of entries.
LEMMA PieceType ==
  ASSUME NEW s \in Seq(LogEntry), NEW a \in Int, a >= 1, NEW b \in Int,
         b <= Len(s)
  PROVE  /\ SubSeq(s, a, b) \in Seq(LogEntry)
         /\ Len(SubSeq(s, a, b)) = IF a <= b THEN b - a + 1 ELSE 0
<1>1. Len(s) \in Nat /\ \A k \in 1 .. Len(s) : s[k] \in LogEntry
  OBVIOUS
<1>2. \A k \in a .. b : s[k] \in LogEntry
  BY <1>1
<1> QED BY <1>2, SubSeqProperties

\* The entries AppendEntries finds in place are a prefix of those it got.
LEMMA MatchedType ==
  ASSUME TypeOK, NEW m \in AppendArgs, NEW i \in Server
  PROVE  /\ Matched(i, m) \in 0 .. Len(m.entries)
         /\ \A k \in 1 .. Matched(i, m) :
              /\ m.prevLogIndex + k <= LastLogIndex(i)
              /\ Log(i, m.prevLogIndex + k).term = m.entries[k].term
<1> DEFINE S == {n \in 0 .. Len(m.entries) :
                   \A k \in 1 .. n : /\ m.prevLogIndex + k <= LastLogIndex(i)
                                     /\ Log(i, m.prevLogIndex + k).term
                                          = m.entries[k].term}
<1>1. Len(m.entries) \in Nat
  BY DEF AppendArgs
<1>2. 0 \in S
  BY <1>1
<1>3. S \in SUBSET Int /\ \A n \in S : n <= Len(m.entries)
  <2>1. S \subseteq 0 .. Len(m.entries)
    OBVIOUS
  <2> HIDE DEF S
  <2> QED BY <1>1, <2>1
<1> HIDE DEF S
<1>4. Max(S) \in S
  <2>1. PICK b \in Int : b = Len(m.entries)
    BY <1>1
  <2>2. S # {} /\ \A n \in S : n <= b
    BY <1>2, <1>3, <2>1
  <2> QED BY ONLY <1>3, <2>2, MaxBounded
<1>5. Matched(i, m) = Max(S)
  BY DEF Matched, S
<1> QED BY <1>4, <1>5 DEF S

\* AppendEntries keeps the log and its slot 0: it cuts behind prevLogIndex.
LEMMA MergedType ==
  ASSUME TypeOK, NEW m \in AppendArgs, NEW i \in Server, PrevMatches(i, m)
  PROVE  Merged(i, m) \in Seq(LogEntry) \ {<< >>}
<1> DEFINE n == Matched(i, m)
           s == Slot(i, m.prevLogIndex)
           keep == SubSeq(logs[i], 1, s + n)
           new == SubSeq(m.entries, n + 1, Len(m.entries))
<1>1. m.entries \in Seq(LogEntry) /\ m.prevLogIndex \in Nat
  BY DEF AppendArgs
<1>2. n \in Nat /\ n <= Len(m.entries) /\ Len(m.entries) \in Nat
  BY <1>1, MatchedType
<1>3. s \in 1 .. Len(logs[i])
  BY LogTypes DEF PrevMatches
<1>4. m.prevLogIndex + n <= LastLogIndex(i)
  <2>1. CASE n = 0
    BY <1>1, <2>1 DEF PrevMatches
  <2>2. CASE n # 0
    <3>1. n \in 1 .. n
      BY <1>2, <2>2
    <3> QED BY <3>1, MatchedType
  <2> QED BY <2>1, <2>2
<1>5. s + n <= Len(logs[i]) /\ s + n >= 1
  BY <1>1, <1>2, <1>3, <1>4, LogTypes DEF Slot, LastLogIndex
<1>6. /\ logs[i] \in Seq(LogEntry) /\ logs[i] # << >> /\ Len(logs[i]) \in Nat
      /\ s \in Int
  BY <1>3, LogTypes
<1> HIDE DEF n, s
<1>7. keep \in Seq(LogEntry) /\ Len(keep) = s + n
  BY <1>2, <1>5, <1>6, PieceType
<1>8. new \in Seq(LogEntry)
  BY <1>1, <1>2, PieceType
<1> HIDE DEF keep, new
<1>9. keep \o new \in Seq(LogEntry) /\ keep \o new # << >>
  <2>1. /\ keep \o new \in Seq(LogEntry)
        /\ Len(keep \o new) = Len(keep) + Len(new)
    BY <1>7, <1>8, ConcatProperties
  <2>2. Len(new) \in Nat
    BY <1>8
  <2>3. Len(keep \o new) > 0
    BY <1>2, <1>5, <1>6, <1>7, <2>1, <2>2
  <2> QED BY <2>1, <2>3
<1>10. Merged(i, m) = IF n = Len(m.entries) THEN logs[i] ELSE keep \o new
  BY DEF Merged, n, s, keep, new
<1> QED BY <1>6, <1>9, <1>10

\* The log InstallSnapshot leaves behind.
LEMMA LogAfterSnapshotType ==
  ASSUME TypeOK, NEW m \in SnapArgs, NEW i \in Server,
         m.lastIncludedIndex > snapshotIndex[i]
  PROVE  LogAfterSnapshot(i, m) \in Seq(LogEntry) \ {<< >>}
<1> DEFINE a == Slot(i, m.lastIncludedIndex + 1)
           rest == IF LastLogIndex(i) > m.lastIncludedIndex
                   THEN SubSeq(logs[i], a, Len(logs[i])) ELSE << >>
           dummy == <<Dummy(m.lastIncludedTerm)>>
<1>1. m.lastIncludedIndex \in Nat /\ m.lastIncludedTerm \in Nat
  BY DEF SnapArgs
<1>2. a \in Int /\ a >= 1
  BY <1>1, LogTypes DEF Slot
<1>3. rest \in Seq(LogEntry)
  <2>1. SubSeq(logs[i], a, Len(logs[i])) \in Seq(LogEntry)
    <3> HIDE DEF a
    <3>1. /\ logs[i] \in Seq(LogEntry) /\ Len(logs[i]) \in Int
          /\ Len(logs[i]) <= Len(logs[i])
      BY LogTypes
    <3> QED BY <1>2, <3>1, PieceType
  <2> QED BY <2>1
<1>4. dummy \in Seq(LogEntry) /\ Len(dummy) = 1
  BY <1>1 DEF Dummy, LogEntry
<1> HIDE DEF rest, dummy
<1>5. /\ dummy \o rest \in Seq(LogEntry)
      /\ Len(dummy \o rest) = 1 + Len(rest) /\ Len(rest) \in Nat
  BY <1>3, <1>4, ConcatProperties
<1>6. dummy \o rest # << >>
  BY <1>5
<1>7. LogAfterSnapshot(i, m) = dummy \o rest
  BY DEF LogAfterSnapshot, dummy, rest
<1> QED BY <1>5, <1>6, <1>7

\* The maximum of a set of indices from an interval.
LEMMA MaxWithin ==
  ASSUME NEW a \in Int, NEW b \in Int, NEW S \in SUBSET (a .. b), S # {}
  PROVE  Max(S) \in S
<1>1. S \in SUBSET Int /\ \A x \in S : x <= b
  OBVIOUS
<1> QED BY <1>1, MaxBounded

\* lastIndexForTerm returns an index of the log, or 0.
LEMMA LastIndexForTermType ==
  ASSUME TypeOK, NEW i \in Server, NEW term
  PROVE  LastIndexForTerm(i, term) \in Nat
<1> DEFINE S == {0} \cup {k \in snapshotIndex[i] + 1 .. LastLogIndex(i) :
                          Log(i, k).term = term}
<1>1. PICK b \in Int : b = LastLogIndex(i) /\ b >= 0
  BY LogTypes
<1>2. S \in SUBSET (0 .. b) /\ S # {}
  BY <1>1, LogTypes
<1> HIDE DEF S
<1>3. Max(S) \in S
  <2>1. 0 \in Int
    OBVIOUS
  <2> QED BY ONLY <1>2, <2>1, MaxWithin
<1>4. LastIndexForTerm(i, term) = Max(S)
  BY DEF LastIndexForTerm, S
<1>5. Max(S) \in 0 .. b
  BY ONLY <1>2, <1>3
<1> QED BY <1>4, <1>5

\* The hint of a failed AppendEntries.
LEMMA ConflictType ==
  ASSUME TypeOK, NEW m \in AppendArgs, NEW i \in Server
  PROVE  Conflict(i, m) \in Hint
<1> DEFINE p == m.prevLogIndex
           s == snapshotIndex[i]
           term == Log(i, p).term
           S == {s} \cup {k \in s .. p : Log(i, k).term # term}
           stop == Max(S)
<1>1. p \in Nat /\ s \in Nat /\ LastLogIndex(i) \in Nat
  BY LogTypes DEF AppendArgs
<1>2. CASE p < s
  BY <1>1, <1>2 DEF Conflict, Hint
<1>3. CASE p > LastLogIndex(i)
  BY <1>1, <1>3 DEF Conflict, Hint
<1>4. CASE ~(p < s) /\ ~(p > LastLogIndex(i))
  <2>1. S \in SUBSET (s .. p) /\ S # {} /\ s \in Int /\ p \in Int
    BY <1>1, <1>4
  <2>2. p \in s .. LastLogIndex(i)
    BY <1>1, <1>4
  <2>3. term \in Nat
    BY <2>2, LogTypes
  <2> HIDE DEF S, s, p
  <2>4. stop \in s .. p
    BY ONLY <2>1, MaxWithin
  <2>5. stop \in Nat
    BY <1>1, <2>4
  <2>6. Conflict(i, m) =
          IF stop = s THEN [xLen |-> s + 1, xIndex |-> -1, xTerm |-> -1]
          ELSE [xLen |-> -1, xIndex |-> stop + 1, xTerm |-> term]
    BY <1>4 DEF Conflict, S, s, p
  <2> HIDE DEF stop, term
  <2> QED BY <1>1, <2>3, <2>5, <2>6 DEF Hint
<1> QED BY <1>2, <1>3, <1>4

\* nextIndex stays a natural number when it is backed up.
LEMMA BackUpType ==
  ASSUME TypeOK, NEW i \in Server, NEW hint \in Hint, NEW next \in Nat
  PROVE  BackUp(i, hint, next) \in Nat
<1>1. LastIndexForTerm(i, hint.xTerm) \in Nat
  BY LastIndexForTermType
<1> QED BY <1>1 DEF BackUp, Hint

-----------------------------------------------------------------------------
(* Type correctness.                                                       *)

Stored == [currentTerm : Nat, voteFor : Server \cup {None},
           logs : Seq(LogEntry) \ {<< >>}, snapshotIndex : Nat]

\* What persist() writes has the persister's type.
LEMMA PersistType ==
  ASSUME disk \in [Server -> Stored], NEW i \in Server, Persist(i),
         currentTerm' \in [Server -> Nat],
         voteFor' \in [Server -> Server \cup {None}],
         logs' \in [Server -> Seq(LogEntry) \ {<< >>}],
         snapshotIndex' \in [Server -> Nat]
  PROVE  disk' \in [Server -> Stored]
<1>1. Persisted(i)' \in Stored
  BY DEF Persisted, Stored
<1> QED BY <1>1 DEF Persist

\* A peer that learns of a newer term.
LEMMA StepDownType ==
  ASSUME TypeOK, NEW i \in Server, NEW term \in Nat,
         UpdateTermAndBecomeFollower(i, term)
  PROVE  /\ currentTerm' \in [Server -> Nat]
         /\ voteFor' \in [Server -> Server \cup {None}]
         /\ logs' \in [Server -> Seq(LogEntry) \ {<< >>}]
         /\ snapshotIndex' \in [Server -> Nat]
         /\ disk' \in [Server -> Stored]
         /\ raftState' \in [Server -> {Leader, Candidate, Follower}]
         /\ gotVotes' \in [Server -> Nat]
         /\ leaderID' \in [Server -> Server \cup {None}]
<1> USE DEF UpdateTermAndBecomeFollower
<1>1. /\ currentTerm' \in [Server -> Nat]
      /\ voteFor' \in [Server -> Server \cup {None}]
      /\ logs' \in [Server -> Seq(LogEntry) \ {<< >>}]
      /\ snapshotIndex' \in [Server -> Nat]
  BY DEF TypeOK
<1>2. disk' \in [Server -> Stored]
  BY <1>1, PersistType DEF TypeOK, Stored
<1> QED BY <1>1, <1>2 DEF TypeOK

\* The state Make builds from an empty persister is well typed.
LEMMA TypeInit == Init => TypeOK
<1> SUFFICES ASSUME Init PROVE TypeOK
  OBVIOUS
<1>1. Dummy(0) \in LogEntry
  BY DEF Dummy, LogEntry
<1>2. <<Dummy(0)>> \in Seq(LogEntry) \ {<< >>}
  BY <1>1
<1> HIDE DEF Dummy, LogEntry
<1>3. disk \in [Server -> Stored]
  BY <1>2 DEF Init, Persisted, Stored
<1> QED BY <1>2, <1>3 DEF Init, TypeOK, Stored

\* startAElection keeps the types.
LEMMA StartAElectionType ==
  ASSUME TypeOK, NEW i \in Server, StartAElection(i)
  PROVE  TypeOK'
<1> USE DEF StartAElection
<1>1. /\ currentTerm' \in [Server -> Nat]
      /\ voteFor' \in [Server -> Server \cup {None}]
      /\ logs' \in [Server -> Seq(LogEntry) \ {<< >>}]
      /\ snapshotIndex' \in [Server -> Nat]
  BY DEF TypeOK
<1>2. disk' \in [Server -> Stored]
  BY <1>1, PersistType DEF TypeOK, Stored
<1>3. voteRequests' \subseteq VoteArgs
  <2>1. /\ LastLogIndex(i) \in Nat /\ LastLogTerm(i) \in Nat
        /\ currentTerm[i] + 1 \in Nat /\ restarts[i] \in Nat
    <3>1. currentTerm[i] \in Nat /\ restarts[i] \in Nat
      BY DEF TypeOK
    <3>2. LastLogIndex(i) \in Nat /\ LastLogTerm(i) \in Nat
      BY LogTypes
    <3> QED BY <3>1, <3>2
  <2>2. ASSUME NEW j \in Server
        PROVE  [term |-> currentTerm[i] + 1, from |-> i, to |-> j,
                boot |-> restarts[i], lastLogIndex |-> LastLogIndex(i),
                lastLogTerm |-> LastLogTerm(i)] \in VoteArgs
    BY ONLY <2>1, <2>2, i \in Server DEF VoteArgs
  <2> QED BY <2>2 DEF TypeOK
<1>4. votes' \subseteq Nat \X Server \X Server
  BY DEF TypeOK
<1> QED BY <1>1, <1>2, <1>3, <1>4
        DEF TypeOK, Stored, applyVars, leaderVars, appendMsgs, snapMsgs

\* The RequestVote handler keeps the types.
LEMMA RequestVoteType ==
  ASSUME TypeOK, NEW m \in voteRequests, RequestVote(m)
  PROVE  TypeOK'
<1> USE DEF RequestVote
<1>0. m \in VoteArgs /\ m.to \in Server /\ m.from \in Server /\ m.term \in Nat
  BY DEF TypeOK, VoteArgs
<1>1. /\ currentTerm' \in [Server -> Nat]
      /\ voteFor' \in [Server -> Server \cup {None}]
      /\ logs' \in [Server -> Seq(LogEntry) \ {<< >>}]
      /\ snapshotIndex' \in [Server -> Nat]
  BY <1>0 DEF TypeOK
<1>2. disk' \in [Server -> Stored]
  BY <1>0, <1>1, PersistType DEF TypeOK, Stored
<1>3. voteReplies' \subseteq [args : VoteArgs, term : Nat, voteGranted : BOOLEAN]
  <2> DEFINE r == [args |-> m, term |-> currentTerm'[m.to],
                   voteGranted |-> GrantsVote(m.to, m)]
  <2>1. GrantsVote(m.to, m) \in BOOLEAN
    BY DEF GrantsVote
  <2>2. r \in [args : VoteArgs, term : Nat, voteGranted : BOOLEAN]
    BY <1>0, <1>1, <2>1
  <2>3. voteReplies' = WithReply(voteReplies, r)
    OBVIOUS
  <2> HIDE DEF r
  <2> QED BY <2>2, <2>3 DEF WithReply, TypeOK
<1>4. votes' \subseteq Nat \X Server \X Server
  <2>1. <<m.term, m.to, m.from>> \in Nat \X Server \X Server
    BY <1>0
  <2>2. votes' \subseteq votes \cup {<<m.term, m.to, m.from>>}
    OBVIOUS
  <2>3. votes \subseteq Nat \X Server \X Server
    BY DEF TypeOK
  <2> QED BY ONLY <2>1, <2>2, <2>3
<1>5. leaderID' \in [Server -> Server \cup {None}]
  <2>1. LeaderIDAfterVote(m.to, m) \in Server \cup {None}
    BY <1>0 DEF TypeOK, LeaderIDAfterVote
  <2> QED BY <1>0, <2>1 DEF TypeOK
<1> QED BY <1>0, <1>1, <1>2, <1>3, <1>4, <1>5
        DEF TypeOK, Stored, applyVars, leaderVars, appendMsgs, snapMsgs

\* sendRequestVote keeps the types, becomeLeader included.
LEMMA HandleVoteReplyType ==
  ASSUME TypeOK, NEW r \in voteReplies, HandleVoteReply(r)
  PROVE  TypeOK'
<1> DEFINE i == r.args.from
<1>0. i \in Server /\ r.args.to \in Server /\ r.term \in Nat
  BY DEF TypeOK, VoteArgs
<1>1. /\ pendingVotes' \in [Server -> SUBSET Server]
      /\ UNCHANGED <<applyVars, restarts, voteMsgs, appendMsgs, snapMsgs,
                     votes, applied>>
  BY <1>0 DEF HandleVoteReply, TypeOK
<1> DEFINE Changed ==
             /\ currentTerm \in [Server -> Nat]
             /\ voteFor \in [Server -> Server \cup {None}]
             /\ logs \in [Server -> Seq(LogEntry) \ {<< >>}]
             /\ snapshotIndex \in [Server -> Nat]
             /\ disk \in [Server -> Stored]
             /\ raftState \in [Server -> {Leader, Candidate, Follower}]
             /\ gotVotes \in [Server -> Nat]
             /\ leaderID \in [Server -> Server \cup {None}]
             /\ nextIndex \in [Server -> [Server -> Nat]]
             /\ matchIndex \in [Server -> [Server -> Nat]]
             /\ elected \subseteq Nat \X Server
<1>2. Changed
  BY DEF TypeOK, Stored
<1>3. CASE ReplyFromNewerTerm(i, r) /\ UNCHANGED <<leaderVars, elected>>
  <2>1. UpdateTermAndBecomeFollower(i, r.term)
    BY <1>3 DEF ReplyFromNewerTerm
  <2>2. Changed'
    BY <1>0, <1>2, <1>3, <2>1, StepDownType DEF leaderVars
  <2> QED BY <1>1, <2>2
          DEF TypeOK, Stored, applyVars, voteMsgs, appendMsgs, snapMsgs
<1>4. CASE BecomeLeader(i)
  <2>1. LastLogIndex(i) \in Nat
    BY <1>0, LogTypes
  <2>2. /\ currentTerm' \in [Server -> Nat]
        /\ voteFor' \in [Server -> Server \cup {None}]
        /\ logs' \in [Server -> Seq(LogEntry) \ {<< >>}]
        /\ snapshotIndex' \in [Server -> Nat]
    BY <1>2, <1>4 DEF BecomeLeader
  <2>3. disk' \in [Server -> Stored]
    BY <1>0, <1>2, <1>4, <2>2, PersistType DEF BecomeLeader
  <2>4. nextIndex' \in [Server -> [Server -> Nat]]
    <3>1. [j \in Server |-> LastLogIndex(i) + 1] \in [Server -> Nat]
      BY <2>1
    <3> QED BY <1>0, <1>2, <1>4, <3>1 DEF BecomeLeader
  <2>5. matchIndex' \in [Server -> [Server -> Nat]]
    <3>1. InitialMatch(i) \in [Server -> Nat]
      BY <2>1 DEF InitialMatch
    <3> QED BY <1>0, <1>2, <1>4, <3>1 DEF BecomeLeader
  <2>6. /\ raftState' \in [Server -> {Leader, Candidate, Follower}]
        /\ gotVotes' \in [Server -> Nat]
        /\ leaderID' \in [Server -> Server \cup {None}]
    BY <1>0, <1>2, <1>4 DEF BecomeLeader
  <2>7. elected' \subseteq Nat \X Server
    <3>1. <<currentTerm[i], i>> \in Nat \X Server
      BY <1>0, <1>2
    <3>2. elected' = elected \cup {<<currentTerm[i], i>>}
      BY <1>4 DEF BecomeLeader
    <3> QED BY ONLY <1>2, <3>1, <3>2
  <2> QED BY <1>1, <2>2, <2>3, <2>4, <2>5, <2>6, <2>7
          DEF TypeOK, Stored, applyVars, voteMsgs, appendMsgs, snapMsgs
<1>5. CASE /\ gotVotes' \in [Server -> Nat]
           /\ UNCHANGED <<raftState, leaderID, persistVars, leaderVars, elected>>
  BY <1>1, <1>5
     DEF TypeOK, persistVars, leaderVars, applyVars, voteMsgs, appendMsgs,
         snapMsgs
<1>6. CASE CountVote(i)
  <2>1. [gotVotes EXCEPT ![i] = @ + 1] \in [Server -> Nat]
    <3>1. gotVotes \in [Server -> Nat]
      BY DEF TypeOK
    <3> QED BY ONLY <1>0, <3>1
  <2> QED BY <1>4, <1>5, <1>6, <2>1 DEF CountVote
<1>7. CASE UNCHANGED <<raftState, gotVotes, leaderID, persistVars, leaderVars,
                       elected>>
  BY <1>2, <1>5, <1>7
<1> HIDE DEF Changed
<1> QED BY <1>3, <1>6, <1>7 DEF HandleVoteReply

\* Start keeps the types.
LEMMA StartType ==
  ASSUME TypeOK, NEW i \in Server, NEW cmd \in Command, Start(i, cmd)
  PROVE  TypeOK'
<1>1. Started(i, cmd) \in Seq(LogEntry) \ {<< >>}
  <2> DEFINE e == [term |-> currentTerm[i], cmd |-> cmd]
  <2>1. currentTerm[i] \in Nat /\ logs[i] \in Seq(LogEntry)
    BY DEF TypeOK
  <2>2. e \in LogEntry
    BY <2>1 DEF LogEntry
  <2> HIDE DEF e
  <2>3. Append(logs[i], e) \in Seq(LogEntry) /\ Append(logs[i], e) # << >>
    BY <2>1, <2>2
  <2> QED BY <2>3 DEF Started, e
<1>2. /\ currentTerm' \in [Server -> Nat]
      /\ voteFor' \in [Server -> Server \cup {None}]
      /\ logs' \in [Server -> Seq(LogEntry) \ {<< >>}]
      /\ snapshotIndex' \in [Server -> Nat]
  BY <1>1 DEF Start, TypeOK
<1>3. disk' \in [Server -> Stored]
  BY <1>2, PersistType DEF Start, TypeOK, Stored
<1> QED BY <1>2, <1>3
        DEF Start, TypeOK, Stored, electionVars, applyVars, leaderVars,
            voteMsgs, appendMsgs, snapMsgs, historyVars

\* The arguments the heartBeat loop builds for a peer.
LEMMA AppendArgsType ==
  ASSUME TypeOK, NEW i \in Server, NEW j \in Following(i), SendableTo(i, j)
  PROVE  AppendEntriesArgs(i, j) \in AppendArgs
<1> DEFINE n == nextIndex[i][j]
<1>1. j \in Server /\ ~(n <= snapshotIndex[i])
  BY DEF Following, Lagging
<1>2. n \in Nat /\ snapshotIndex[i] \in Nat /\ LastLogIndex(i) \in Nat
  BY <1>1, LogTypes DEF TypeOK
<1>3. n - 1 \in snapshotIndex[i] .. LastLogIndex(i) /\ n - 1 \in Nat
  BY <1>1, <1>2 DEF SendableTo
<1>4. Log(i, n - 1).term \in Nat
  BY <1>3, LogTypes
<1>5. SubSeq(logs[i], Slot(i, n), Len(logs[i])) \in Seq(LogEntry)
  <2>1. PICK a \in Int : a = Slot(i, n) /\ a >= 1
    BY <1>1, <1>2 DEF Slot
  <2>2. /\ logs[i] \in Seq(LogEntry) /\ Len(logs[i]) \in Int
        /\ Len(logs[i]) <= Len(logs[i])
    BY LogTypes
  <2>3. SubSeq(logs[i], a, Len(logs[i])) \in Seq(LogEntry)
    BY <2>1, <2>2, PieceType
  <2> QED BY <2>1, <2>3
<1>6. currentTerm[i] \in Nat /\ restarts[i] \in Nat /\ commitIndex[i] \in Nat
  BY DEF TypeOK
<1> QED BY ONLY <1>1, <1>3, <1>4, <1>5, <1>6, i \in Server
        DEF AppendEntriesArgs, AppendArgs

\* The heartBeat loop keeps the types: the log entries it reads are in range.
LEMMA HeartBeatType ==
  ASSUME TypeOK, NEW i \in Server, HeartBeat(i)
  PROVE  TypeOK'
<1>1. appendRequests' \subseteq AppendArgs
  <2>1. \A j \in Following(i) : AppendEntriesArgs(i, j) \in AppendArgs
    BY AppendArgsType DEF HeartBeat
  <2>2. appendRequests' = appendRequests \cup
          {AppendEntriesArgs(i, j) : j \in Following(i)}
    BY DEF HeartBeat
  <2> QED BY <2>1, <2>2 DEF TypeOK
<1>2. snapRequests' \subseteq SnapArgs
  <2>1. ASSUME NEW j \in Server PROVE InstallSnapshotArgs(i, j) \in SnapArgs
    <3>1. /\ currentTerm[i] \in Nat /\ restarts[i] \in Nat
          /\ snapshotIndex[i] \in Nat
      BY DEF TypeOK
    <3>2. logs[i] \in Seq(LogEntry) /\ 1 \in 1 .. Len(logs[i])
      BY LogTypes
    <3>3. logs[i][1] \in LogEntry
      BY ONLY <3>2
    <3>4. logs[i][1].term \in Nat
      BY ONLY <3>3 DEF LogEntry
    <3> QED BY ONLY <2>1, <3>1, <3>4, i \in Server
            DEF InstallSnapshotArgs, SnapArgs
  <2>2. snapRequests' = snapRequests \cup
          {InstallSnapshotArgs(i, j) : j \in Lagging(i)}
    BY DEF HeartBeat
  <2>3. Lagging(i) \subseteq Server
    BY DEF Lagging
  <2> QED BY <2>1, <2>2, <2>3 DEF TypeOK
<1> QED BY <1>1, <1>2
        DEF HeartBeat, TypeOK, electionVars, persistVars, applyVars,
            leaderVars, voteMsgs, historyVars

\* The commit loop keeps the types.
LEMMA CommitType ==
  ASSUME TypeOK, NEW i \in Server, Commit(i)
  PROVE  TypeOK'
<1> DEFINE match == [matchIndex[i] EXCEPT ![i] = LastLogIndex(i)]
<1>1. match \in [Server -> Nat]
  BY LogTypes DEF TypeOK
<1> HIDE DEF match
<1>2. MajorityIndex(match) \in Nat
  BY <1>1, MajorityIndexReached
<1>3. matchIndex' = [matchIndex EXCEPT ![i] = match]
  BY DEF Commit, match
<1>4. commitIndex' = [commitIndex EXCEPT ![i] =
         IF Committable(i, MajorityIndex(match)) THEN MajorityIndex(match)
         ELSE @]
  BY DEF Commit, match
<1>5. /\ matchIndex' \in [Server -> [Server -> Nat]]
      /\ commitIndex' \in [Server -> Nat]
  BY <1>1, <1>2, <1>3, <1>4 DEF TypeOK
<1> QED BY <1>5
        DEF Commit, TypeOK, electionVars, persistVars, voteMsgs, appendMsgs,
            snapMsgs, historyVars

\* Make keeps the types: readPersist finds what persist wrote.
LEMMA RestartType ==
  ASSUME TypeOK, NEW i \in Server, Restart(i)
  PROVE  TypeOK'
<1>1. /\ disk[i].currentTerm \in Nat /\ disk[i].snapshotIndex \in Nat
      /\ disk[i].voteFor \in Server \cup {None}
      /\ disk[i].logs \in Seq(LogEntry) \ {<< >>}
  BY DEF TypeOK
<1>2. [j \in Server |-> 0] \in [Server -> Nat]
  OBVIOUS
<1>3. /\ currentTerm' \in [Server -> Nat]
      /\ voteFor' \in [Server -> Server \cup {None}]
      /\ logs' \in [Server -> Seq(LogEntry) \ {<< >>}]
      /\ snapshotIndex' \in [Server -> Nat]
  BY <1>1 DEF Restart, ReadPersist, TypeOK
<1>4. /\ commitIndex' \in [Server -> Nat]
      /\ lastApplied' \in [Server -> Nat]
      /\ svcIndex' \in [Server -> Nat]
  BY <1>1 DEF Restart, ReadPersist, TypeOK
<1>5. /\ nextIndex' \in [Server -> [Server -> Nat]]
      /\ matchIndex' \in [Server -> [Server -> Nat]]
      /\ restarts' \in [Server -> Nat]
  BY SMTT(30), <1>2 DEF Restart, ReadPersist, TypeOK
<1>6. /\ raftState' \in [Server -> {Leader, Candidate, Follower}]
      /\ gotVotes' \in [Server -> Nat]
      /\ leaderID' \in [Server -> Server \cup {None}]
      /\ pendingVotes' \in [Server -> SUBSET Server]
  BY DEF Restart, ReadPersist, TypeOK
<1> QED BY <1>3, <1>4, <1>5, <1>6
        DEF Restart, ReadPersist, TypeOK, voteMsgs, appendMsgs, snapMsgs,
            historyVars

\* The service has seen everything that is compacted away, so rf.log finds
\* every entry that the apply loop asks for.
SnapshotIsApplied == \A i \in Server : snapshotIndex[i] <= lastApplied[i]

\* The apply loop keeps the types.
LEMMA ApplyType ==
  ASSUME TypeOK, SnapshotIsApplied, NEW i \in Server, Apply(i)
  PROVE  TypeOK'
<1>1. applied' \subseteq Nat \X LogEntry
  <2>1. ASSUME NEW k \in lastApplied[i] + 1 .. commitIndex[i]
        PROVE  <<k, Log(i, k)>> \in Nat \X LogEntry
    <3>1. /\ lastApplied[i] \in Nat /\ commitIndex[i] \in Nat
          /\ snapshotIndex[i] \in Nat /\ snapshotIndex[i] <= lastApplied[i]
          /\ LastLogIndex(i) \in Nat /\ commitIndex[i] <= LastLogIndex(i)
      BY LogTypes DEF TypeOK, SnapshotIsApplied, Apply
    <3>2. k \in snapshotIndex[i] .. LastLogIndex(i) /\ k \in Nat
      BY ONLY <2>1, <3>1
    <3>3. Log(i, k) \in LogEntry
      BY <3>2, LogTypes
    <3> QED BY <3>2, <3>3
  <2>2. applied' = applied \cup
          {<<k, Log(i, k)>> : k \in lastApplied[i] + 1 .. commitIndex[i]}
    BY DEF Apply
  <2> QED BY <2>1, <2>2 DEF TypeOK
<1> QED BY <1>1
        DEF Apply, TypeOK, electionVars, persistVars, leaderVars, voteMsgs,
            appendMsgs, snapMsgs

\* Snapshot keeps the types: the log keeps its first slot.
LEMMA SnapshotType ==
  ASSUME TypeOK, NEW i \in Server, NEW index, Snapshot(i, index)
  PROVE  TypeOK'
<1>1. /\ index \in snapshotIndex[i] .. LastLogIndex(i) /\ index \in Nat
      /\ snapshotIndex[i] \in Nat
  BY LogTypes DEF Snapshot, TypeOK
<1>2. SubSeq(logs[i], Slot(i, index), Len(logs[i])) \in Seq(LogEntry) \ {<< >>}
  <2>1. PICK a \in Int : a = Slot(i, index) /\ a \in 1 .. Len(logs[i])
    BY <1>1, LogTypes
  <2>2. logs[i] \in Seq(LogEntry) /\ Len(logs[i]) \in Int
    BY LogTypes
  <2>3. /\ SubSeq(logs[i], a, Len(logs[i])) \in Seq(LogEntry)
        /\ Len(SubSeq(logs[i], a, Len(logs[i]))) = Len(logs[i]) - a + 1
    <3>1. a >= 1 /\ a <= Len(logs[i]) /\ Len(logs[i]) <= Len(logs[i])
      BY <2>1, <2>2
    <3> QED BY <2>1, <2>2, <3>1, PieceType
  <2>4. Len(SubSeq(logs[i], a, Len(logs[i]))) # 0
    BY <2>1, <2>2, <2>3
  <2>5. SubSeq(logs[i], a, Len(logs[i])) # << >>
    <3>1. Len(<< >>) = 0
      OBVIOUS
    <3> QED BY ONLY <2>4, <3>1
  <2> QED BY <2>1, <2>3, <2>5
<1>3. /\ currentTerm' \in [Server -> Nat]
      /\ voteFor' \in [Server -> Server \cup {None}]
      /\ logs' \in [Server -> Seq(LogEntry) \ {<< >>}]
      /\ snapshotIndex' \in [Server -> Nat]
  BY <1>1, <1>2 DEF Snapshot, TypeOK
<1>4. disk' \in [Server -> Stored]
  BY <1>3, PersistType DEF Snapshot, TypeOK, Stored
<1> QED BY <1>3, <1>4
        DEF Snapshot, TypeOK, Stored, electionVars, applyVars, leaderVars,
            voteMsgs, appendMsgs, snapMsgs, historyVars

\* sendAppendEntries keeps the types, whatever hint it backs up by.
LEMMA HandleAppendReplyType ==
  ASSUME TypeOK, NEW r \in appendReplies, HandleAppendReply(r)
  PROVE  TypeOK'
<1> DEFINE i == r.args.from
           j == r.args.to
<1>0. /\ i \in Server /\ j \in Server /\ r.term \in Nat
      /\ r.args.match \in Nat /\ r.hint \in Hint
      /\ nextIndex[i][j] \in Nat /\ matchIndex[i][j] \in Nat
  BY DEF TypeOK, AppendCall
<1>1. UNCHANGED <<pendingVotes, applyVars, restarts, voteMsgs, appendMsgs,
                  snapMsgs, historyVars>>
  BY DEF HandleAppendReply
<1> USE DEF applyVars, voteMsgs, appendMsgs, snapMsgs, historyVars, leaderVars,
            persistVars
<1>2. CASE ReplyFromNewerTerm(i, r) /\ UNCHANGED leaderVars
  <2>1. UpdateTermAndBecomeFollower(i, r.term)
    BY <1>2 DEF ReplyFromNewerTerm
  <2> QED BY <1>0, <1>1, <1>2, <2>1, StepDownType DEF TypeOK, Stored
<1>3. CASE /\ nextIndex' \in [Server -> [Server -> Nat]]
           /\ matchIndex' \in [Server -> [Server -> Nat]]
           /\ UNCHANGED <<raftState, gotVotes, leaderID, persistVars>>
  BY <1>1, <1>3 DEF TypeOK
<1>4. CASE /\ nextIndex' = [nextIndex EXCEPT ![i][j] =
                             Max({@, r.args.match + 1})]
           /\ matchIndex' = [matchIndex EXCEPT ![i][j] =
                              Max({@, r.args.match})]
           /\ UNCHANGED <<raftState, gotVotes, leaderID, persistVars>>
  <2>1. /\ Max({nextIndex[i][j], r.args.match + 1}) \in Nat
        /\ Max({matchIndex[i][j], r.args.match}) \in Nat
    BY <1>0, MinMaxPair
  <2>2. /\ nextIndex' \in [Server -> [Server -> Nat]]
        /\ matchIndex' \in [Server -> [Server -> Nat]]
    BY <1>0, <1>4, <2>1 DEF TypeOK
  <2> QED BY <1>3, <1>4, <2>2
<1>5. CASE /\ nextIndex' = [nextIndex EXCEPT ![i][j] = BackUp(i, r.hint, @)]
           /\ UNCHANGED matchIndex
           /\ UNCHANGED <<raftState, gotVotes, leaderID, persistVars>>
  <2>1. BackUp(i, r.hint, nextIndex[i][j]) \in Nat
    BY <1>0, BackUpType
  <2>2. /\ nextIndex' \in [Server -> [Server -> Nat]]
        /\ matchIndex' \in [Server -> [Server -> Nat]]
    BY <1>0, <1>5, <2>1 DEF TypeOK
  <2> QED BY <1>3, <1>5, <2>2
<1> QED BY <1>2, <1>4, <1>5 DEF HandleAppendReply

\* sendInstallSnapshot keeps the types.
LEMMA HandleSnapReplyType ==
  ASSUME TypeOK, NEW r \in snapReplies, HandleSnapReply(r)
  PROVE  TypeOK'
<1> DEFINE i == r.args.from
           j == r.args.to
           index == r.args.lastIncludedIndex
<1>0. /\ i \in Server /\ j \in Server /\ r.term \in Nat /\ index \in Nat
      /\ nextIndex[i][j] \in Nat /\ matchIndex[i][j] \in Nat
  BY DEF TypeOK, SnapArgs
<1>1. UNCHANGED <<pendingVotes, applyVars, restarts, voteMsgs, appendMsgs,
                  snapMsgs, historyVars>>
  BY DEF HandleSnapReply
<1> USE DEF applyVars, voteMsgs, appendMsgs, snapMsgs, historyVars, leaderVars,
            persistVars
<1>2. CASE ReplyFromNewerTerm(i, r) /\ UNCHANGED leaderVars
  <2>1. UpdateTermAndBecomeFollower(i, r.term)
    BY <1>2 DEF ReplyFromNewerTerm
  <2> QED BY <1>0, <1>1, <1>2, <2>1, StepDownType DEF TypeOK, Stored
<1>3. CASE /\ matchIndex' = [matchIndex EXCEPT ![i][j] = Max({@, index})]
           /\ nextIndex' = [nextIndex EXCEPT ![i][j] = Max({@, index + 1})]
           /\ UNCHANGED <<raftState, gotVotes, leaderID, persistVars>>
  <2>1. /\ Max({nextIndex[i][j], index + 1}) \in Nat
        /\ Max({matchIndex[i][j], index}) \in Nat
    BY <1>0, MinMaxPair
  <2>2. /\ nextIndex' \in [Server -> [Server -> Nat]]
        /\ matchIndex' \in [Server -> [Server -> Nat]]
    BY <1>0, <1>3, <2>1 DEF TypeOK
  <2> QED BY <1>1, <1>3, <2>2 DEF TypeOK
<1> QED BY <1>2, <1>3 DEF HandleSnapReply

\* A reply to AppendEntries is well typed.
LEMMA AppendReplyType ==
  ASSUME TypeOK, NEW m \in AppendArgs, NEW term \in Nat,
         NEW success \in BOOLEAN, NEW hint \in Hint,
         AppendReply(m, term, success, hint)
  PROVE  appendReplies' \subseteq [args : AppendCall, term : Nat,
                                  success : BOOLEAN, hint : Hint]
<1> DEFINE call == [term |-> m.term, from |-> m.from, to |-> m.to,
                    boot |-> m.boot,
                    match |-> m.prevLogIndex + Len(m.entries)]
           r == [args |-> call, term |-> term, success |-> success,
                 hint |-> hint]
<1>1. call \in AppendCall
  BY DEF AppendArgs, AppendCall
<1>2. appendReplies' = WithReply(appendReplies, r)
  BY DEF AppendReply
<1> HIDE DEF call
<1>3. r \in [args : AppendCall, term : Nat, success : BOOLEAN, hint : Hint]
  BY <1>1
<1> HIDE DEF r
<1> QED BY <1>2, <1>3 DEF WithReply, TypeOK

\* The AppendEntries handler keeps the types, the merged log included.
LEMMA AppendEntriesType ==
  ASSUME TypeOK, NEW m \in appendRequests, AppendEntries(m)
  PROVE  TypeOK'
<1> DEFINE i == m.to
           follow == m.term > currentTerm[i] \/ raftState[i] # Follower
<1>0. /\ m \in AppendArgs /\ i \in Server /\ m.from \in Server
      /\ m.term \in Nat /\ m.leaderCommit \in Nat
      /\ currentTerm[i] \in Nat
  BY DEF TypeOK, AppendArgs
<1>1. UNCHANGED <<lastApplied, svcIndex, leaderVars, restarts, voteMsgs,
                  appendRequests, snapMsgs, historyVars>>
  BY DEF AppendEntries
<1>2. NoHint \in Hint
  BY DEF NoHint, Hint
<1> USE DEF leaderVars, voteMsgs, snapMsgs, historyVars, electionVars,
            persistVars
<1>3. CASE ~Accepts(i, m)
  <2>0. /\ AppendReply(m, currentTerm[i], FALSE, NoHint)
        /\ UNCHANGED <<electionVars, persistVars, commitIndex>>
    BY <1>3 DEF AppendEntries
  <2>1. appendReplies' \subseteq [args : AppendCall, term : Nat,
                                 success : BOOLEAN, hint : Hint]
    BY <1>0, <1>2, <2>0, AppendReplyType
  <2> QED BY <1>1, <2>0, <2>1 DEF TypeOK
<1>4. CASE Accepts(i, m)
  <2>1. /\ currentTerm' = [currentTerm EXCEPT ![i] = m.term]
        /\ raftState' = [raftState EXCEPT ![i] = Follower]
        /\ voteFor' = [voteFor EXCEPT ![i] = IF follow THEN None ELSE @]
        /\ gotVotes' = [gotVotes EXCEPT ![i] = IF follow THEN 0 ELSE @]
        /\ leaderID' = [leaderID EXCEPT ![i] = m.from]
        /\ UNCHANGED <<snapshotIndex, pendingVotes>>
        /\ Persist(i)
    BY <1>4 DEF AppendEntries
  <2>2. \/ /\ AppendReply(m, currentTerm[i], FALSE, Conflict(i, m))
           /\ UNCHANGED <<logs, commitIndex>>
        \/ /\ PrevMatches(i, m)
           /\ AppendReply(m, currentTerm[i], TRUE, NoHint)
           /\ logs' = [logs EXCEPT ![i] = Merged(i, m)]
           /\ commitIndex' = [commitIndex EXCEPT ![i] =
                                FollowerCommit(i, m, LastLogIndex(i)')]
    BY <1>4 DEF AppendEntries
  <2> HIDE DEF follow
  <2>3. /\ currentTerm' \in [Server -> Nat]
        /\ raftState' \in [Server -> {Leader, Candidate, Follower}]
        /\ voteFor' \in [Server -> Server \cup {None}]
        /\ gotVotes' \in [Server -> Nat]
        /\ leaderID' \in [Server -> Server \cup {None}]
        /\ snapshotIndex' \in [Server -> Nat]
        /\ pendingVotes' \in [Server -> SUBSET Server]
    BY <1>0, <2>1 DEF TypeOK
  <2>4. /\ logs' \in [Server -> Seq(LogEntry) \ {<< >>}]
        /\ commitIndex' \in [Server -> Nat]
        /\ appendReplies' \subseteq [args : AppendCall, term : Nat,
                                     success : BOOLEAN, hint : Hint]
    <3>1. CASE /\ AppendReply(m, currentTerm[i], FALSE, Conflict(i, m))
               /\ UNCHANGED <<logs, commitIndex>>
      <4>1. appendReplies' \subseteq [args : AppendCall, term : Nat,
                                     success : BOOLEAN, hint : Hint]
        BY <1>0, <3>1, ConflictType, AppendReplyType
      <4> QED BY <3>1, <4>1 DEF TypeOK
    <3>2. CASE /\ PrevMatches(i, m)
               /\ AppendReply(m, currentTerm[i], TRUE, NoHint)
               /\ logs' = [logs EXCEPT ![i] = Merged(i, m)]
               /\ commitIndex' = [commitIndex EXCEPT ![i] =
                                    FollowerCommit(i, m, LastLogIndex(i)')]
      <4>1. appendReplies' \subseteq [args : AppendCall, term : Nat,
                                     success : BOOLEAN, hint : Hint]
        BY <1>0, <1>2, <3>2, AppendReplyType
      <4>2. logs' \in [Server -> Seq(LogEntry) \ {<< >>}]
        BY <1>0, <3>2, MergedType DEF TypeOK
      <4>3. LastLogIndex(i)' \in Nat
        <5>1. logs'[i] \in Seq(LogEntry) /\ logs'[i] # << >>
          BY <1>0, <4>2
        <5>2. Len(logs'[i]) \in Nat \ {0}
          BY <5>1
        <5>3. snapshotIndex'[i] \in Nat
          BY <1>0, <2>3
        <5>4. LastLogIndex(i)' = Len(logs'[i]) - 1 + snapshotIndex'[i]
          BY <1>1 DEF LastLogIndex
        <5> QED BY ONLY <5>2, <5>3, <5>4
      <4>4. FollowerCommit(i, m, LastLogIndex(i)') \in Nat
        <5>1. commitIndex[i] \in Nat
          BY <1>0 DEF TypeOK
        <5>2. PICK last \in Nat : last = LastLogIndex(i)'
          BY <4>3
        <5>3. PICK lc \in Nat : lc = m.leaderCommit
          BY <1>0
        <5>4. Min({lc, last}) \in Nat
          <6>1. lc \in Int /\ last \in Int
            OBVIOUS
          <6>2. Min({lc, last}) = IF lc <= last THEN lc ELSE last
            BY ONLY <6>1, MinMaxPair
          <6> QED BY <6>2
        <5> QED BY <5>1, <5>2, <5>3, <5>4 DEF FollowerCommit
      <4>5. commitIndex' \in [Server -> Nat]
        BY <1>0, <3>2, <4>4 DEF TypeOK
      <4> QED BY <4>1, <4>2, <4>5
    <3> QED BY <2>2, <3>1, <3>2
  <2>5. disk' \in [Server -> Stored]
    BY <1>0, <2>1, <2>3, <2>4, PersistType DEF TypeOK, Stored
  <2> QED BY <1>1, <2>3, <2>4, <2>5 DEF TypeOK, Stored
<1> QED BY <1>3, <1>4

\* The InstallSnapshot handler keeps the types.
LEMMA InstallSnapshotType ==
  ASSUME TypeOK, NEW m \in snapRequests, InstallSnapshot(m)
  PROVE  TypeOK'
<1> DEFINE i == m.to
           index == m.lastIncludedIndex
           newer == m.term > currentTerm[i]
<1>0. /\ m \in SnapArgs /\ i \in Server /\ m.from \in Server
      /\ m.term \in Nat /\ index \in Nat /\ currentTerm[i] \in Nat
  BY DEF TypeOK, SnapArgs
<1>1. UNCHANGED <<leaderVars, restarts, voteMsgs, appendMsgs, snapRequests,
                  historyVars>>
  BY DEF InstallSnapshot
<1>2. snapReplies' \subseteq [args : SnapArgs, term : Nat]
  <2>1. PICK t \in Nat : SnapReply(m, t)
    BY <1>0 DEF InstallSnapshot
  <2>2. [args |-> m, term |-> t] \in [args : SnapArgs, term : Nat]
    BY <1>0
  <2> QED BY <2>1, <2>2 DEF SnapReply, WithReply, TypeOK
<1> USE DEF leaderVars, voteMsgs, appendMsgs, historyVars, electionVars,
            persistVars, applyVars
<1>3. CASE ~Accepts(i, m)
  <2>1. UNCHANGED <<electionVars, persistVars, applyVars>>
    BY <1>0, <1>3 DEF InstallSnapshot
  <2> QED BY <1>1, <1>2, <2>1 DEF TypeOK
<1>4. CASE Accepts(i, m)
  <2>1. /\ currentTerm' = [currentTerm EXCEPT ![i] = m.term]
        /\ raftState' = [raftState EXCEPT ![i] = IF newer THEN Follower ELSE @]
        /\ voteFor' = [voteFor EXCEPT ![i] = IF newer THEN None ELSE @]
        /\ gotVotes' = [gotVotes EXCEPT ![i] = IF newer THEN 0 ELSE @]
        /\ leaderID' = [leaderID EXCEPT ![i] = m.from]
        /\ UNCHANGED pendingVotes
        /\ Persist(i)
    BY <1>4 DEF InstallSnapshot
  <2>2. \/ UNCHANGED <<logs, snapshotIndex, applyVars>>
        \/ /\ index > snapshotIndex[i]
           /\ logs' = [logs EXCEPT ![i] = LogAfterSnapshot(i, m)]
           /\ snapshotIndex' = [snapshotIndex EXCEPT ![i] = index]
           /\ commitIndex' = [commitIndex EXCEPT ![i] = Raised(@, index)]
           /\ lastApplied' = [lastApplied EXCEPT ![i] = Raised(@, index)]
           /\ svcIndex' = [svcIndex EXCEPT ![i] = index]
    BY <1>4 DEF InstallSnapshot
  <2> HIDE DEF newer
  <2>3. /\ currentTerm' \in [Server -> Nat]
        /\ raftState' \in [Server -> {Leader, Candidate, Follower}]
        /\ voteFor' \in [Server -> Server \cup {None}]
        /\ gotVotes' \in [Server -> Nat]
        /\ leaderID' \in [Server -> Server \cup {None}]
        /\ pendingVotes' \in [Server -> SUBSET Server]
    BY <1>0, <2>1 DEF TypeOK
  <2>4. /\ logs' \in [Server -> Seq(LogEntry) \ {<< >>}]
        /\ snapshotIndex' \in [Server -> Nat]
    <3>1. CASE UNCHANGED <<logs, snapshotIndex, applyVars>>
      BY <3>1 DEF TypeOK
    <3>2. CASE /\ index > snapshotIndex[i]
               /\ logs' = [logs EXCEPT ![i] = LogAfterSnapshot(i, m)]
               /\ snapshotIndex' = [snapshotIndex EXCEPT ![i] = index]
      <4>1. LogAfterSnapshot(i, m) \in Seq(LogEntry) \ {<< >>}
        BY <1>0, <3>2, LogAfterSnapshotType
      <4> QED BY <1>0, <3>2, <4>1 DEF TypeOK
    <3> QED BY <2>2, <3>1, <3>2
  <2>5. /\ commitIndex' \in [Server -> Nat]
        /\ lastApplied' \in [Server -> Nat]
        /\ svcIndex' \in [Server -> Nat]
    <3>1. Raised(commitIndex[i], index) \in Nat
      BY <1>0 DEF TypeOK, Raised
    <3>2. Raised(lastApplied[i], index) \in Nat
      BY <1>0 DEF TypeOK, Raised
    <3>3. CASE UNCHANGED applyVars
      BY <3>3 DEF TypeOK
    <3>4. CASE /\ commitIndex' = [commitIndex EXCEPT ![i] = Raised(@, index)]
               /\ lastApplied' = [lastApplied EXCEPT ![i] = Raised(@, index)]
               /\ svcIndex' = [svcIndex EXCEPT ![i] = index]
      BY <1>0, <3>1, <3>2, <3>4 DEF TypeOK
    <3> QED BY <2>2, <3>3, <3>4
  <2>6. disk' \in [Server -> Stored]
    BY <1>0, <2>1, <2>3, <2>4, PersistType DEF TypeOK, Stored
  <2> QED BY <1>1, <1>2, <2>3, <2>4, <2>5, <2>6 DEF TypeOK, Stored
<1> QED BY <1>3, <1>4

\* A step that changes nothing keeps the types.
LEMMA StutterType == ASSUME TypeOK, UNCHANGED vars PROVE TypeOK'
BY DEF TypeOK, vars, electionVars, persistVars, applyVars, leaderVars,
       voteMsgs, appendMsgs, snapMsgs, historyVars

\* What is compacted away stays applied.
LEMMA SnapshotIsAppliedNext ==
  ASSUME TypeOK, SnapshotIsApplied, [Next]_vars
  PROVE  SnapshotIsApplied'
<1> USE DEF SnapshotIsApplied, applyVars, persistVars
<1>1. ASSUME NEW i \in Server, Apply(i) PROVE SnapshotIsApplied'
  BY <1>1 DEF Apply, TypeOK
<1>2. ASSUME NEW i \in Server, Restart(i) PROVE SnapshotIsApplied'
  <2>1. disk[i].snapshotIndex \in Nat
    BY DEF TypeOK
  <2> QED BY <1>2, <2>1 DEF Restart, ReadPersist, TypeOK
<1>3. ASSUME NEW i \in Server, NEW index, Snapshot(i, index)
      PROVE  SnapshotIsApplied'
  BY <1>3 DEF Snapshot, TypeOK
<1>4. ASSUME NEW m \in snapRequests, InstallSnapshot(m)
      PROVE  SnapshotIsApplied'
  <2>1. m.to \in Server /\ m.lastIncludedIndex \in Nat
    BY DEF TypeOK, SnapArgs
  <2>2. CASE UNCHANGED <<snapshotIndex, lastApplied>>
    BY <2>2
  <2>3. CASE /\ snapshotIndex' = [snapshotIndex EXCEPT ![m.to] =
                                   m.lastIncludedIndex]
             /\ lastApplied' = [lastApplied EXCEPT ![m.to] =
                                 Raised(@, m.lastIncludedIndex)]
    <3>1. snapshotIndex \in [Server -> Nat] /\ lastApplied \in [Server -> Nat]
      BY DEF TypeOK
    <3> QED BY ONLY <2>1, <2>3, <3>1, SnapshotIsApplied
            DEF SnapshotIsApplied, Raised
  <2> QED BY <1>4, <2>2, <2>3 DEF InstallSnapshot, Accepts
<1>5. CASE UNCHANGED <<snapshotIndex, lastApplied>>
  BY <1>5
<1>6. ASSUME NEW i \in Server,
             \/ StartAElection(i) \/ HeartBeat(i) \/ Commit(i)
             \/ \E cmd \in Command : Start(i, cmd)
      PROVE  UNCHANGED <<snapshotIndex, lastApplied>>
  BY <1>6 DEF StartAElection, HeartBeat, Commit, Start
<1>7. ASSUME NEW m \in voteRequests, RequestVote(m)
      PROVE  UNCHANGED <<snapshotIndex, lastApplied>>
  BY <1>7 DEF RequestVote
<1>8. ASSUME NEW m \in appendRequests, AppendEntries(m)
      PROVE  UNCHANGED <<snapshotIndex, lastApplied>>
  BY <1>8 DEF AppendEntries, Accepts
<1>9. ASSUME NEW r, \/ HandleVoteReply(r) \/ HandleAppendReply(r)
                    \/ HandleSnapReply(r)
      PROVE  UNCHANGED <<snapshotIndex, lastApplied>>
  BY <1>9
     DEF HandleVoteReply, HandleAppendReply, HandleSnapReply, CountVote,
         BecomeLeader, ReplyFromNewerTerm, UpdateTermAndBecomeFollower
<1>10. CASE UNCHANGED vars
  BY <1>5, <1>10 DEF vars
<1> QED BY <1>1, <1>2, <1>3, <1>4, <1>5, <1>6, <1>7, <1>8, <1>9, <1>10
        DEF Next

TypeInv == TypeOK /\ SnapshotIsApplied

\* Every step of the peer keeps the types.
LEMMA TypeNext == ASSUME TypeInv, [Next]_vars PROVE TypeInv'
<1>1. TypeOK /\ SnapshotIsApplied
  BY DEF TypeInv
<1>2. SnapshotIsApplied'
  BY <1>1, SnapshotIsAppliedNext
<1>3. TypeOK'
  <2>1. ASSUME NEW i \in Server, StartAElection(i) PROVE TypeOK'
    BY <1>1, <2>1, StartAElectionType
  <2>2. ASSUME NEW i \in Server, HeartBeat(i) PROVE TypeOK'
    BY <1>1, <2>2, HeartBeatType
  <2>3. ASSUME NEW i \in Server, Commit(i) PROVE TypeOK'
    BY <1>1, <2>3, CommitType
  <2>4. ASSUME NEW i \in Server, Apply(i) PROVE TypeOK'
    BY <1>1, <2>4, ApplyType
  <2>5. ASSUME NEW i \in Server, Restart(i) PROVE TypeOK'
    BY <1>1, <2>5, RestartType
  <2>6. ASSUME NEW i \in Server, NEW cmd \in Command, Start(i, cmd)
        PROVE  TypeOK'
    BY <1>1, <2>6, StartType
  <2>7. ASSUME NEW i \in Server, NEW index \in SnapshotAt, Snapshot(i, index)
        PROVE  TypeOK'
    BY <1>1, <2>7, SnapshotType
  <2>8. ASSUME NEW m \in voteRequests, RequestVote(m) PROVE TypeOK'
    BY <1>1, <2>8, RequestVoteType
  <2>9. ASSUME NEW m \in appendRequests, AppendEntries(m) PROVE TypeOK'
    BY <1>1, <2>9, AppendEntriesType
  <2>10. ASSUME NEW m \in snapRequests, InstallSnapshot(m) PROVE TypeOK'
    BY <1>1, <2>10, InstallSnapshotType
  <2>11. ASSUME NEW r \in voteReplies, HandleVoteReply(r) PROVE TypeOK'
    BY <1>1, <2>11, HandleVoteReplyType
  <2>12. ASSUME NEW r \in appendReplies, HandleAppendReply(r) PROVE TypeOK'
    BY <1>1, <2>12, HandleAppendReplyType
  <2>13. ASSUME NEW r \in snapReplies, HandleSnapReply(r) PROVE TypeOK'
    BY <1>1, <2>13, HandleSnapReplyType
  <2>14. CASE UNCHANGED vars
    BY <1>1, <2>14, StutterType
  <2> QED BY <2>1, <2>2, <2>3, <2>4, <2>5, <2>6, <2>7, <2>8, <2>9, <2>10,
             <2>11, <2>12, <2>13, <2>14
          DEF Next
<1> QED BY <1>2, <1>3 DEF TypeInv

\* The inductive invariant holds when the peers start.
LEMMA TypeInvInit == Init => TypeInv
<1>1. Init => SnapshotIsApplied
  BY DEF Init, SnapshotIsApplied
<1> QED BY <1>1, TypeInit DEF TypeInv

\* The inductive invariant of type correctness: what the apply loop reads must
\* lie above the snapshot.
THEOREM TypeInvariant == Spec => []TypeInv
<1> QED BY TypeInvInit, TypeNext, PTL DEF Spec

\* Every variable of the peer (type Raft), every RPC and every reply keeps
\* its type; above all no log loses slot 0, whatever is cut, merged,
\* compacted or installed, and nextIndex is never negative.
THEOREM TypeCorrect == Spec => []TypeOK
<1>1. TypeInv => TypeOK
  BY DEF TypeInv
<1> QED BY <1>1, TypeInvariant, PTL

-----------------------------------------------------------------------------
(* The persister.                                                          *)

\* A handler of peer i that ends with persist() and touches nothing durable
\* of the others.
LEMMA PersistKeepsSync ==
  ASSUME TypeOK, DiskInSync, NEW i \in Server, Persist(i),
         \A j \in Server \ {i} :
           /\ currentTerm'[j] = currentTerm[j] /\ voteFor'[j] = voteFor[j]
           /\ logs'[j] = logs[j] /\ snapshotIndex'[j] = snapshotIndex[j]
  PROVE  DiskInSync'
<1> SUFFICES ASSUME NEW j \in Server PROVE disk'[j] = Persisted(j)'
  BY DEF DiskInSync
<1>1. CASE j = i
  BY <1>1 DEF Persist, TypeOK
<1>2. CASE j # i
  <2>1. disk'[j] = disk[j]
    BY <1>2 DEF Persist, TypeOK
  <2>2. Persisted(j)' = Persisted(j)
    BY <1>2 DEF Persisted
  <2> QED BY <2>1, <2>2 DEF DiskInSync
<1> QED BY <1>1, <1>2

\* A step that leaves the durable state alone keeps the persister in sync.
LEMMA SyncUnchanged ==
  ASSUME DiskInSync, UNCHANGED persistVars PROVE DiskInSync'
BY DEF DiskInSync, Persisted, persistVars

\* updateTermAndBecomeFollower keeps the persister in sync.
LEMMA StepDownSync ==
  ASSUME TypeOK, DiskInSync, NEW i \in Server, NEW term,
         UpdateTermAndBecomeFollower(i, term)
  PROVE  DiskInSync'
<1>1. Persist(i)
  BY DEF UpdateTermAndBecomeFollower
<1>2. \A j \in Server \ {i} :
        /\ currentTerm'[j] = currentTerm[j] /\ voteFor'[j] = voteFor[j]
        /\ logs'[j] = logs[j] /\ snapshotIndex'[j] = snapshotIndex[j]
  BY DEF UpdateTermAndBecomeFollower, TypeOK
<1> QED BY <1>1, <1>2, PersistKeepsSync

\* No step leaves the persister behind.
LEMMA SyncNext == ASSUME TypeOK, DiskInSync, [Next]_vars PROVE DiskInSync'
<1> DEFINE OthersKeep(i) ==
             \A j \in Server \ {i} :
               /\ currentTerm'[j] = currentTerm[j] /\ voteFor'[j] = voteFor[j]
               /\ logs'[j] = logs[j] /\ snapshotIndex'[j] = snapshotIndex[j]
<1>1. ASSUME NEW i \in Server, StartAElection(i) PROVE DiskInSync'
  <2>1. Persist(i) /\ OthersKeep(i)
    BY <1>1 DEF StartAElection, TypeOK
  <2> QED BY <2>1, PersistKeepsSync
<1>2. ASSUME NEW i \in Server, HeartBeat(i) \/ Commit(i) \/ Apply(i)
      PROVE  DiskInSync'
  BY <1>2, SyncUnchanged DEF HeartBeat, Commit, Apply
<1>3. ASSUME NEW i \in Server, Restart(i) PROVE DiskInSync'
  <2> SUFFICES ASSUME NEW j \in Server PROVE disk'[j] = Persisted(j)'
    BY DEF DiskInSync
  <2>1. disk' = disk /\ disk[j] = Persisted(j)
    BY <1>3 DEF Restart, ReadPersist, DiskInSync
  <2>2. /\ currentTerm'[j] = disk[j].currentTerm
        /\ voteFor'[j] = disk[j].voteFor
        /\ logs'[j] = disk[j].logs
        /\ snapshotIndex'[j] = disk[j].snapshotIndex
    BY <1>3, <2>1 DEF Restart, ReadPersist, TypeOK, Persisted
  <2> QED BY <2>1, <2>2 DEF Persisted
<1>4. ASSUME NEW i \in Server, NEW cmd \in Command, Start(i, cmd)
      PROVE  DiskInSync'
  <2>1. Persist(i) /\ OthersKeep(i)
    BY <1>4 DEF Start, TypeOK
  <2> QED BY <2>1, PersistKeepsSync
<1>5. ASSUME NEW i \in Server, NEW index \in SnapshotAt, Snapshot(i, index)
      PROVE  DiskInSync'
  <2>1. Persist(i) /\ OthersKeep(i)
    BY <1>5 DEF Snapshot, TypeOK
  <2> QED BY <2>1, PersistKeepsSync
<1>6. ASSUME NEW m \in voteRequests, RequestVote(m) PROVE DiskInSync'
  <2>1. m.to \in Server
    BY DEF TypeOK, VoteArgs
  <2>2. Persist(m.to) /\ OthersKeep(m.to)
    BY <1>6, <2>1 DEF RequestVote, TypeOK
  <2> QED BY <2>1, <2>2, PersistKeepsSync
<1>7. ASSUME NEW m \in appendRequests, AppendEntries(m) PROVE DiskInSync'
  <2>1. m.to \in Server
    BY DEF TypeOK, AppendArgs
  <2>2. CASE UNCHANGED persistVars
    BY <2>2, SyncUnchanged
  <2>3. CASE ~UNCHANGED persistVars
    <3>1. Persist(m.to) /\ OthersKeep(m.to)
      BY <1>7, <2>1, <2>3 DEF AppendEntries, Accepts, TypeOK
    <3> QED BY <2>1, <3>1, PersistKeepsSync
  <2> QED BY <2>2, <2>3
<1>8. ASSUME NEW m \in snapRequests, InstallSnapshot(m) PROVE DiskInSync'
  <2>1. m.to \in Server
    BY DEF TypeOK, SnapArgs
  <2>2. CASE UNCHANGED persistVars
    BY <2>2, SyncUnchanged
  <2>3. CASE ~UNCHANGED persistVars
    <3>1. Persist(m.to) /\ OthersKeep(m.to)
      BY <1>8, <2>1, <2>3 DEF InstallSnapshot, Accepts, TypeOK
    <3> QED BY <2>1, <3>1, PersistKeepsSync
  <2> QED BY <2>2, <2>3
<1>9. ASSUME NEW r \in voteReplies, HandleVoteReply(r) PROVE DiskInSync'
  <2>1. r.args.from \in Server
    BY DEF TypeOK, VoteArgs
  <2>2. CASE ReplyFromNewerTerm(r.args.from, r)
    BY <2>1, <2>2, StepDownSync DEF ReplyFromNewerTerm
  <2>3. CASE BecomeLeader(r.args.from)
    <3>1. Persist(r.args.from) /\ OthersKeep(r.args.from)
      BY <2>1, <2>3 DEF BecomeLeader, TypeOK
    <3> QED BY <2>1, <3>1, PersistKeepsSync
  <2> QED BY <1>9, <2>2, <2>3, SyncUnchanged DEF HandleVoteReply, CountVote
<1>10. ASSUME NEW r \in appendReplies, HandleAppendReply(r) PROVE DiskInSync'
  <2>1. r.args.from \in Server
    BY DEF TypeOK, AppendCall
  <2> QED BY <1>10, <2>1, StepDownSync, SyncUnchanged
          DEF HandleAppendReply, ReplyFromNewerTerm
<1>11. ASSUME NEW r \in snapReplies, HandleSnapReply(r) PROVE DiskInSync'
  <2>1. r.args.from \in Server
    BY DEF TypeOK, SnapArgs
  <2> QED BY <1>11, <2>1, StepDownSync, SyncUnchanged
          DEF HandleSnapReply, ReplyFromNewerTerm
<1>12. CASE UNCHANGED vars
  BY <1>12, SyncUnchanged DEF vars
<1> QED BY <1>1, <1>2, <1>3, <1>4, <1>5, <1>6, <1>7, <1>8, <1>9, <1>10,
           <1>11, <1>12
        DEF Next

\* A crash at any moment between two handlers loses nothing that persist()
\* is for.
THEOREM DiskIsInSync == Spec => []DiskInSync
<1>1. Init => DiskInSync
  BY DEF Init, DiskInSync
<1>2. TypeInv => TypeOK
  BY DEF TypeInv
<1>3. TypeInv /\ DiskInSync /\ [Next]_vars => DiskInSync'
  BY <1>2, SyncNext
<1> QED BY <1>1, <1>3, TypeInvariant, PTL DEF Spec

TermsGrow == \A i \in Server : currentTerm'[i] >= currentTerm[i]

\* No step, a restart included, takes a term back.
LEMMA TermStep ==
  ASSUME TypeOK, DiskInSync, [Next]_vars
  PROVE  TermsGrow
<1>0. currentTerm \in [Server -> Nat]
  BY DEF TypeOK
<1>1. ASSUME NEW k \in Server, NEW t \in Nat, t >= currentTerm[k],
             currentTerm' = [currentTerm EXCEPT ![k] = t]
      PROVE  TermsGrow
  BY <1>0, <1>1 DEF TermsGrow
<1>2. ASSUME currentTerm' = currentTerm PROVE TermsGrow
  BY <1>0, <1>2 DEF TermsGrow
<1>3. ASSUME NEW i \in Server, StartAElection(i) PROVE TermsGrow
  <2>1. /\ currentTerm[i] + 1 \in Nat /\ currentTerm[i] + 1 >= currentTerm[i]
        /\ currentTerm' = [currentTerm EXCEPT ![i] = currentTerm[i] + 1]
    BY <1>0, <1>3 DEF StartAElection
  <2> QED BY <1>1, <2>1
<1>4. ASSUME NEW i \in Server, Restart(i) PROVE TermsGrow
  <2>1. currentTerm' = [currentTerm EXCEPT ![i] = currentTerm[i]]
    <3>1. disk[i] = Persisted(i)
      BY DEF DiskInSync
    <3>2. Persisted(i).currentTerm = currentTerm[i]
      BY DEF Persisted
    <3> QED BY <1>4, <3>1, <3>2 DEF Restart, ReadPersist
  <2>2. currentTerm[i] \in Nat /\ currentTerm[i] >= currentTerm[i]
    BY <1>0
  <2> QED BY <1>1, <2>1, <2>2
<1>5. ASSUME NEW i \in Server,
             \/ HeartBeat(i) \/ Commit(i) \/ Apply(i)
             \/ \E cmd \in Command : Start(i, cmd)
             \/ \E index \in SnapshotAt : Snapshot(i, index)
      PROVE  TermsGrow
  BY <1>2, <1>5 DEF HeartBeat, Commit, Apply, Start, Snapshot, persistVars
<1>6. ASSUME NEW m \in voteRequests, RequestVote(m) PROVE TermsGrow
  <2>1. m.to \in Server /\ m.term \in Nat
    BY DEF TypeOK, VoteArgs
  <2> DEFINE t == IF m.term > currentTerm[m.to] THEN m.term
                  ELSE currentTerm[m.to]
  <2>2. /\ currentTerm' = [currentTerm EXCEPT ![m.to] = t]
        /\ t \in Nat /\ t >= currentTerm[m.to]
    BY <1>0, <1>6, <2>1 DEF RequestVote
  <2> QED BY <1>1, <2>1, <2>2
<1>7. ASSUME NEW m \in appendRequests, AppendEntries(m) PROVE TermsGrow
  <2>1. m.to \in Server /\ m.term \in Nat
    BY DEF TypeOK, AppendArgs
  <2>2. \/ currentTerm' = currentTerm
        \/ /\ m.term >= currentTerm[m.to]
           /\ currentTerm' = [currentTerm EXCEPT ![m.to] = m.term]
    BY <1>7 DEF AppendEntries, Accepts, persistVars
  <2> QED BY <1>1, <1>2, <2>1, <2>2
<1>8. ASSUME NEW m \in snapRequests, InstallSnapshot(m) PROVE TermsGrow
  <2>1. m.to \in Server /\ m.term \in Nat
    BY DEF TypeOK, SnapArgs
  <2>2. \/ currentTerm' = currentTerm
        \/ /\ m.term >= currentTerm[m.to]
           /\ currentTerm' = [currentTerm EXCEPT ![m.to] = m.term]
    BY <1>8 DEF InstallSnapshot, Accepts, persistVars
  <2> QED BY <1>1, <1>2, <2>1, <2>2
<1>9. ASSUME NEW r, NEW i \in Server, r.term \in Nat, ReplyFromNewerTerm(i, r)
      PROVE  TermsGrow
  <2>1. /\ r.term >= currentTerm[i]
        /\ currentTerm' = [currentTerm EXCEPT ![i] = r.term]
    BY <1>0, <1>9 DEF ReplyFromNewerTerm, UpdateTermAndBecomeFollower
  <2> QED BY <1>1, <1>9, <2>1
<1>10. ASSUME NEW r \in voteReplies, HandleVoteReply(r) PROVE TermsGrow
  <2>1. r.args.from \in Server /\ r.term \in Nat
    BY DEF TypeOK, VoteArgs
  <2>2. ReplyFromNewerTerm(r.args.from, r) \/ currentTerm' = currentTerm
    BY <1>10 DEF HandleVoteReply, CountVote, BecomeLeader, persistVars
  <2> QED BY <1>2, <1>9, <2>1, <2>2
<1>11. ASSUME NEW r \in appendReplies, HandleAppendReply(r) PROVE TermsGrow
  <2>1. r.args.from \in Server /\ r.term \in Nat
    BY DEF TypeOK, AppendCall
  <2>2. ReplyFromNewerTerm(r.args.from, r) \/ currentTerm' = currentTerm
    BY <1>11 DEF HandleAppendReply, persistVars
  <2> QED BY <1>2, <1>9, <2>1, <2>2
<1>12. ASSUME NEW r \in snapReplies, HandleSnapReply(r) PROVE TermsGrow
  <2>1. r.args.from \in Server /\ r.term \in Nat
    BY DEF TypeOK, SnapArgs
  <2>2. ReplyFromNewerTerm(r.args.from, r) \/ currentTerm' = currentTerm
    BY <1>12 DEF HandleSnapReply, persistVars
  <2> QED BY <1>2, <1>9, <2>1, <2>2
<1>13. CASE UNCHANGED vars
  BY <1>2, <1>13 DEF vars, persistVars
<1> QED BY <1>3, <1>4, <1>5, <1>6, <1>7, <1>8, <1>10, <1>11, <1>12, <1>13
        DEF Next

\* Terms only grow, through crashes too: it rests on the persister being in
\* sync whenever the peer can crash.
THEOREM TermsNeverGoBack == Spec => TermMonotone
<1>1. TypeInv => TypeOK
  BY DEF TypeInv
<1>2. TypeInv /\ DiskInSync /\ [Next]_vars =>
        [\A i \in Server : currentTerm'[i] >= currentTerm[i]]_vars
  BY <1>1, TermStep DEF TermsGrow
<1> QED BY <1>2, TypeInvariant, DiskIsInSync, PTL DEF Spec, TermMonotone

-----------------------------------------------------------------------------
(* Elections.                                                              *)

\* The votes for the current term that the candidate's goroutines have
\* already brought home, its own included.
Counted(i) ==
  {v \in Server : <<currentTerm[i], v, i>> \in votes /\ v \notin pendingVotes[i]}

\* A granted reply stands for a vote that was cast.
RepliesAreVotes ==
  \A r \in voteReplies :
    r.voteGranted => <<r.args.term, r.args.to, r.args.from>> \in votes

\* gotVotes never counts a vote that was not cast, or one vote twice.
NoOvercount == \A i \in Server : gotVotes[i] <= Cardinality(Counted(i))

QuorumInv == RepliesAreVotes /\ NoOvercount /\ LeaderHasQuorum

-----------------------------------------------------------------------------
\* A subset of the peers has no more members.
LEMMA CardinalityMonotone ==
  ASSUME NEW A \in SUBSET Server, NEW B \in SUBSET Server, A \subseteq B
  PROVE  /\ Cardinality(A) \in Nat /\ Cardinality(B) \in Nat
         /\ Cardinality(A) <= Cardinality(B)
<1>1. IsFiniteSet(B) /\ A \in SUBSET B /\ IsFiniteSet(A)
  BY ServerAssumption, FS_Subset
<1> QED BY <1>1, FS_Subset, FS_CardinalityType

\* Votes are never taken back, so a quorum stays a quorum.
LEMMA QuorumsStay ==
  ASSUME LeaderHasQuorum, votes \subseteq votes', NEW e \in elected
  PROVE  2 * Cardinality(VotersFor(e[1], e[2])') > Cardinality(Server)
<1> DEFINE A == VotersFor(e[1], e[2])
           B == VotersFor(e[1], e[2])'
<1>1. A \in SUBSET Server /\ B \in SUBSET Server /\ A \subseteq B
  BY DEF VotersFor
<1>2. 2 * Cardinality(A) > Cardinality(Server)
  BY DEF LeaderHasQuorum
<1>3. Cardinality(Server) \in Nat
  BY ServerAssumption, FS_CardinalityType
<1> HIDE DEF A, B
<1>4. /\ Cardinality(A) \in Nat /\ Cardinality(B) \in Nat
      /\ Cardinality(A) <= Cardinality(B)
  BY <1>1, CardinalityMonotone
<1>5. 2 * Cardinality(B) > Cardinality(Server)
  BY <1>2, <1>3, <1>4
<1> QED BY <1>5 DEF B

\* A peer of which gotVotes does not grow, and whose term changes only when
\* gotVotes is cleared, still does not overcount.
LEMMA OvercountStays ==
  ASSUME TypeOK, TypeOK', NoOvercount, votes \subseteq votes', NEW i \in Server,
         \/ gotVotes'[i] = 0
         \/ /\ gotVotes'[i] = gotVotes[i] /\ currentTerm'[i] = currentTerm[i]
            /\ pendingVotes'[i] \subseteq pendingVotes[i]
  PROVE  gotVotes'[i] <= Cardinality(Counted(i)')
<1> DEFINE A == Counted(i)
           B == Counted(i)'
<1>1. A \in SUBSET Server /\ B \in SUBSET Server
  BY DEF Counted
<1>2. Cardinality(B) \in Nat /\ gotVotes[i] \in Nat
  BY <1>1, CardinalityMonotone DEF TypeOK
<1>3. CASE gotVotes'[i] = 0
  BY <1>2, <1>3
<1>4. CASE /\ gotVotes'[i] = gotVotes[i] /\ currentTerm'[i] = currentTerm[i]
           /\ pendingVotes'[i] \subseteq pendingVotes[i]
  <2>1. A \subseteq B
    BY <1>4 DEF Counted
  <2>2. gotVotes[i] <= Cardinality(A)
    BY DEF NoOvercount
  <2> HIDE DEF A, B
  <2>3. /\ Cardinality(A) \in Nat /\ Cardinality(B) \in Nat
        /\ Cardinality(A) <= Cardinality(B)
    BY <1>1, <2>1, CardinalityMonotone
  <2>4. gotVotes'[i] <= Cardinality(B)
    BY <1>2, <1>4, <2>2, <2>3
  <2> QED BY <2>4 DEF B
<1> QED BY <1>3, <1>4

\* Steps that leave the elections alone, or only clear a count.
LEMMA QuorumInvQuiet ==
  ASSUME TypeOK, TypeOK', QuorumInv,
         UNCHANGED <<voteReplies, votes, elected>>,
         \A i \in Server :
           \/ gotVotes'[i] = 0
           \/ /\ gotVotes'[i] = gotVotes[i] /\ currentTerm'[i] = currentTerm[i]
              /\ pendingVotes'[i] \subseteq pendingVotes[i]
  PROVE  QuorumInv'
<1>1. RepliesAreVotes'
  BY DEF QuorumInv, RepliesAreVotes
<1>2. NoOvercount'
  <2> SUFFICES ASSUME NEW i \in Server
               PROVE  gotVotes'[i] <= Cardinality(Counted(i)')
    BY DEF NoOvercount
  <2> QED BY OvercountStays DEF QuorumInv
<1>3. LeaderHasQuorum'
  <2> SUFFICES ASSUME NEW e \in elected
               PROVE  2 * Cardinality(VotersFor(e[1], e[2])')
                        > Cardinality(Server)
    BY DEF LeaderHasQuorum
  <2> QED BY QuorumsStay DEF QuorumInv
<1> QED BY <1>1, <1>2, <1>3 DEF QuorumInv

\* A new candidate has counted its own vote and no other.
LEMMA StartAElectionQuorum ==
  ASSUME TypeOK, TypeOK', QuorumInv, NEW i \in Server, StartAElection(i)
  PROVE  QuorumInv'
<1>1. RepliesAreVotes'
  BY DEF QuorumInv, RepliesAreVotes, StartAElection
<1>2. votes \subseteq votes' /\ elected' = elected
  BY DEF StartAElection
<1>3. NoOvercount'
  <2> SUFFICES ASSUME NEW j \in Server
               PROVE  gotVotes'[j] <= Cardinality(Counted(j)')
    BY DEF NoOvercount
  <2>1. CASE j # i
    <3>1. /\ gotVotes'[j] = gotVotes[j] /\ currentTerm'[j] = currentTerm[j]
          /\ pendingVotes'[j] = pendingVotes[j]
      BY <2>1 DEF StartAElection, TypeOK
    <3> QED BY <1>2, <3>1, OvercountStays DEF QuorumInv
  <2>2. CASE j = i
    <3>1. i \in Counted(i)'
      <4>1. currentTerm'[i] = currentTerm[i] + 1 /\ i \notin pendingVotes'[i]
        BY DEF StartAElection, TypeOK
      <4>2. <<currentTerm[i] + 1, i, i>> \in votes'
        BY DEF StartAElection
      <4> QED BY <4>1, <4>2 DEF Counted
    <3>2. Counted(i)' \in SUBSET Server /\ {i} \in SUBSET Server
      BY DEF Counted
    <3>3. Cardinality({i}) = 1
      BY FS_Singleton
    <3>4. /\ Cardinality(Counted(i)') \in Nat
          /\ Cardinality({i}) <= Cardinality(Counted(i)')
      BY <3>1, <3>2, CardinalityMonotone
    <3>5. gotVotes'[i] = 1
      BY DEF StartAElection, TypeOK
    <3> QED BY <2>2, <3>3, <3>4, <3>5
  <2> QED BY <2>1, <2>2
<1>4. LeaderHasQuorum'
  <2> SUFFICES ASSUME NEW e \in elected
               PROVE  2 * Cardinality(VotersFor(e[1], e[2])')
                        > Cardinality(Server)
    BY <1>2 DEF LeaderHasQuorum
  <2> QED BY <1>2, QuorumsStay DEF QuorumInv
<1> QED BY <1>1, <1>3, <1>4 DEF QuorumInv

\* A reply that grants a vote is sent with the vote.
LEMMA RequestVoteQuorum ==
  ASSUME TypeOK, TypeOK', QuorumInv, NEW m \in voteRequests, RequestVote(m)
  PROVE  QuorumInv'
<1> DEFINE k == m.to
           grant == GrantsVote(k, m)
           r == [args |-> m, term |-> currentTerm'[k], voteGranted |-> grant]
<1>0. k \in Server
  BY DEF TypeOK, VoteArgs
<1>1. /\ votes \subseteq votes' /\ elected' = elected
      /\ grant => <<m.term, k, m.from>> \in votes'
      /\ voteReplies' \subseteq voteReplies \cup {r}
  BY DEF RequestVote, WithReply
<1>2. RepliesAreVotes'
  <2> SUFFICES ASSUME NEW x \in voteReplies', x.voteGranted
               PROVE  <<x.args.term, x.args.to, x.args.from>> \in votes'
    BY DEF RepliesAreVotes
  <2>1. CASE x \in voteReplies
    BY <1>1, <2>1 DEF QuorumInv, RepliesAreVotes
  <2>2. CASE x = r
    <3>1. r.args = m /\ r.voteGranted = grant
      OBVIOUS
    <3> HIDE DEF r, grant
    <3> QED BY <1>1, <2>2, <3>1
  <2> QED BY <1>1, <2>1, <2>2
<1>3. NoOvercount'
  <2> SUFFICES ASSUME NEW j \in Server
               PROVE  gotVotes'[j] <= Cardinality(Counted(j)')
    BY DEF NoOvercount
  <2>1. \/ gotVotes'[j] = 0
        \/ /\ gotVotes'[j] = gotVotes[j] /\ currentTerm'[j] = currentTerm[j]
           /\ pendingVotes'[j] \subseteq pendingVotes[j]
    BY <1>0 DEF RequestVote, TypeOK
  <2> QED BY <1>1, <2>1, OvercountStays DEF QuorumInv
<1>4. LeaderHasQuorum'
  <2> SUFFICES ASSUME NEW e \in elected
               PROVE  2 * Cardinality(VotersFor(e[1], e[2])')
                        > Cardinality(Server)
    BY <1>1 DEF LeaderHasQuorum
  <2> QED BY <1>1, QuorumsStay DEF QuorumInv
<1> QED BY <1>2, <1>3, <1>4 DEF QuorumInv

\* The vote a reply brings home is one more of Counted.
LEMMA OneMoreVote ==
  ASSUME TypeOK, QuorumInv, NEW r \in voteReplies, HandleVoteReply(r),
         r.voteGranted, UNCHANGED currentTerm
  PROVE  LET i == r.args.from IN
         /\ gotVotes[i] + 1 <= Cardinality(Counted(i)')
         /\ Counted(i)' \subseteq VotersFor(currentTerm[i], i)
<1> DEFINE i == r.args.from
           v == r.args.to
           A == Counted(i)
           B == Counted(i)'
<1>1. i \in Server /\ v \in Server /\ gotVotes[i] \in Nat
  BY DEF TypeOK, VoteArgs
<1>2. /\ r.args.term = currentTerm[i] /\ v \in pendingVotes[i]
      /\ pendingVotes' = [pendingVotes EXCEPT ![i] = @ \ {v}]
      /\ votes' = votes
  BY DEF HandleVoteReply
<1>3. <<currentTerm[i], v, i>> \in votes
  BY <1>2 DEF QuorumInv, RepliesAreVotes
<1>4. v \notin A /\ v \in B /\ A \subseteq B
  BY <1>1, <1>2, <1>3 DEF Counted, TypeOK
<1>5. B \subseteq VotersFor(currentTerm[i], i)
  BY <1>2 DEF Counted, VotersFor
<1>6. A \in SUBSET Server /\ B \in SUBSET Server
  BY DEF Counted
<1>7. gotVotes[i] <= Cardinality(A)
  BY <1>1 DEF QuorumInv, NoOvercount
<1> HIDE DEF A, B
<1>8. IsFiniteSet(A) /\ Cardinality(A) \in Nat
  BY <1>6, ServerAssumption, FS_Subset, FS_CardinalityType
<1>9. Cardinality(A \cup {v}) = Cardinality(A) + 1
  BY <1>4, <1>8, FS_AddElement
<1>10. /\ Cardinality(B) \in Nat
       /\ Cardinality(A \cup {v}) <= Cardinality(B)
  <2>1. A \cup {v} \in SUBSET Server /\ A \cup {v} \subseteq B
    BY <1>1, <1>4, <1>6
  <2> QED BY <1>6, <2>1, CardinalityMonotone
<1>11. gotVotes[i] + 1 <= Cardinality(B)
  BY <1>1, <1>7, <1>8, <1>9, <1>10
<1> QED BY <1>5, <1>11 DEF B

\* sendRequestVote counts a vote; becomeLeader runs when it makes a majority.
LEMMA HandleVoteReplyQuorum ==
  ASSUME TypeOK, TypeOK', QuorumInv, NEW r \in voteReplies,
         HandleVoteReply(r)
  PROVE  QuorumInv'
<1> DEFINE k == r.args.from
<1>0. k \in Server /\ gotVotes[k] \in Nat
  BY DEF TypeOK, VoteArgs
<1>1. UNCHANGED <<voteReplies, votes>>
  BY DEF HandleVoteReply, voteMsgs
<1>2. pendingVotes' = [pendingVotes EXCEPT ![k] = @ \ {r.args.to}]
  BY DEF HandleVoteReply
<1>3. \A j \in Server : pendingVotes'[j] \subseteq pendingVotes[j]
  <2>1. pendingVotes \in [Server -> SUBSET Server]
    BY DEF TypeOK
  <2> QED BY <1>2, <2>1
<1>4. CASE ReplyFromNewerTerm(k, r) /\ UNCHANGED <<leaderVars, elected>>
  <2>1. \A j \in Server :
          \/ gotVotes'[j] = 0
          \/ /\ gotVotes'[j] = gotVotes[j] /\ currentTerm'[j] = currentTerm[j]
             /\ pendingVotes'[j] \subseteq pendingVotes[j]
    BY <1>0, <1>3, <1>4
       DEF ReplyFromNewerTerm, UpdateTermAndBecomeFollower, TypeOK
  <2> QED BY <1>1, <1>4, <2>1, QuorumInvQuiet
<1>5. CASE UNCHANGED <<gotVotes, persistVars, elected>>
  <2>1. \A j \in Server :
          /\ gotVotes'[j] = gotVotes[j] /\ currentTerm'[j] = currentTerm[j]
          /\ pendingVotes'[j] \subseteq pendingVotes[j]
    BY <1>3, <1>5 DEF persistVars
  <2> QED BY <1>1, <1>5, <2>1, QuorumInvQuiet
<1>6. CASE r.voteGranted /\ CountVote(k)
  <2>1. UNCHANGED currentTerm
    BY <1>6 DEF CountVote, BecomeLeader, persistVars
  <2>2. /\ gotVotes[k] + 1 <= Cardinality(Counted(k)')
        /\ Counted(k)' \subseteq VotersFor(currentTerm[k], k)
    BY <1>6, <2>1, OneMoreVote
  <2>3. RepliesAreVotes'
    BY <1>1 DEF QuorumInv, RepliesAreVotes
  <2>4. CASE BecomeLeader(k) /\ IsMajority(gotVotes[k] + 1)
    <3>1. NoOvercount'
      <4> SUFFICES ASSUME NEW j \in Server
                   PROVE  gotVotes'[j] <= Cardinality(Counted(j)')
        BY DEF NoOvercount
      <4>1. \/ gotVotes'[j] = 0
            \/ /\ gotVotes'[j] = gotVotes[j] /\ currentTerm'[j] = currentTerm[j]
               /\ pendingVotes'[j] \subseteq pendingVotes[j]
        BY <1>0, <1>3, <2>1, <2>4 DEF BecomeLeader, TypeOK
      <4> QED BY <1>1, <4>1, OvercountStays DEF QuorumInv
    <3>2. LeaderHasQuorum'
      <4> SUFFICES ASSUME NEW e \in elected'
                   PROVE  2 * Cardinality(VotersFor(e[1], e[2])')
                            > Cardinality(Server)
        BY DEF LeaderHasQuorum
      <4>1. CASE e \in elected
        BY <1>1, <4>1, QuorumsStay DEF QuorumInv
      <4>2. CASE e = <<currentTerm[k], k>>
        <5> DEFINE A == Counted(k)'
                   B == VotersFor(currentTerm[k], k)
        <5>1. A \in SUBSET Server /\ B \in SUBSET Server
          BY DEF Counted, VotersFor
        <5>2. A \subseteq B /\ gotVotes[k] + 1 <= Cardinality(A)
          BY <2>2
        <5>3. Cardinality(Server) \in Nat
          BY ServerAssumption, FS_CardinalityType
        <5>4. VotersFor(e[1], e[2])' = B
          BY <1>1, <4>2 DEF VotersFor
        <5>5. gotVotes[k] + 1 > Cardinality(Server) \div 2
          BY <2>4 DEF IsMajority
        <5> HIDE DEF A, B
        <5>6. /\ Cardinality(A) \in Nat /\ Cardinality(B) \in Nat
              /\ Cardinality(A) <= Cardinality(B)
          BY <5>1, <5>2, CardinalityMonotone
        <5>7. Cardinality(B) > Cardinality(Server) \div 2
          BY <1>0, <5>2, <5>3, <5>5, <5>6
        <5>8. 2 * Cardinality(B) > Cardinality(Server)
          BY <5>3, <5>6, <5>7
        <5> QED BY <5>4, <5>8
      <4> QED BY <2>4, <4>1, <4>2 DEF BecomeLeader
    <3> QED BY <2>3, <3>1, <3>2 DEF QuorumInv
  <2>5. CASE /\ gotVotes' = [gotVotes EXCEPT ![k] = @ + 1]
             /\ UNCHANGED <<raftState, leaderID, persistVars, leaderVars,
                            elected>>
    <3>1. NoOvercount'
      <4> SUFFICES ASSUME NEW j \in Server
                   PROVE  gotVotes'[j] <= Cardinality(Counted(j)')
        BY DEF NoOvercount
      <4>1. CASE j = k
        BY <2>2, <2>5, <4>1 DEF TypeOK
      <4>2. CASE j # k
        <5>1. gotVotes'[j] = gotVotes[j] /\ currentTerm'[j] = currentTerm[j]
          BY <2>1, <2>5, <4>2 DEF TypeOK
        <5> QED BY <1>1, <1>3, <5>1, OvercountStays DEF QuorumInv
      <4> QED BY <4>1, <4>2
    <3>2. LeaderHasQuorum'
      <4> SUFFICES ASSUME NEW e \in elected
                   PROVE  2 * Cardinality(VotersFor(e[1], e[2])')
                            > Cardinality(Server)
        BY <2>5 DEF LeaderHasQuorum
      <4> QED BY <1>1, QuorumsStay DEF QuorumInv
    <3> QED BY <2>3, <3>1, <3>2 DEF QuorumInv
  <2> QED BY <1>6, <2>4, <2>5 DEF CountVote
<1> QED BY <1>4, <1>5, <1>6 DEF HandleVoteReply, IsVote

\* The inductive step.
LEMMA QuorumNext ==
  ASSUME TypeOK, TypeOK', QuorumInv, [Next]_vars
  PROVE  QuorumInv'
<1> DEFINE Quiet ==
             /\ UNCHANGED <<voteReplies, votes, elected>>
             /\ \A i \in Server :
                  \/ gotVotes'[i] = 0
                  \/ /\ gotVotes'[i] = gotVotes[i]
                     /\ currentTerm'[i] = currentTerm[i]
                     /\ pendingVotes'[i] \subseteq pendingVotes[i]
<1>0. Quiet => QuorumInv'
  BY QuorumInvQuiet
<1>1. ASSUME NEW i \in Server, StartAElection(i) PROVE QuorumInv'
  BY <1>1, StartAElectionQuorum
<1>2. ASSUME NEW m \in voteRequests, RequestVote(m) PROVE QuorumInv'
  BY <1>2, RequestVoteQuorum
<1>3. ASSUME NEW r \in voteReplies, HandleVoteReply(r) PROVE QuorumInv'
  BY <1>3, HandleVoteReplyQuorum
<1> USE DEF electionVars, persistVars, voteMsgs, historyVars
<1>4. ASSUME NEW i \in Server,
             \/ HeartBeat(i) \/ Commit(i) \/ Apply(i)
             \/ \E cmd \in Command : Start(i, cmd)
             \/ \E index \in SnapshotAt : Snapshot(i, index)
      PROVE  Quiet
  BY <1>4 DEF HeartBeat, Commit, Apply, Start, Snapshot
<1>5. ASSUME NEW i \in Server, Restart(i) PROVE Quiet
  BY <1>5 DEF Restart, ReadPersist, TypeOK, DiskInSync
<1>6. ASSUME NEW m \in appendRequests, AppendEntries(m) PROVE Quiet
  <2>1. m.to \in Server /\ m.term \in Nat /\ currentTerm[m.to] \in Nat
    BY DEF TypeOK, AppendArgs
  <2> DEFINE k == m.to
             clear == m.term > currentTerm[k] \/ raftState[k] # Follower
  <2>2. UNCHANGED <<voteReplies, votes, elected, pendingVotes>>
    BY <1>6 DEF AppendEntries, Accepts
  <2>3. \/ gotVotes' = gotVotes /\ currentTerm' = currentTerm
        \/ /\ m.term >= currentTerm[k]
           /\ gotVotes' = [gotVotes EXCEPT ![k] = IF clear THEN 0 ELSE @]
           /\ currentTerm' = [currentTerm EXCEPT ![k] = m.term]
    BY <1>6 DEF AppendEntries, Accepts
  <2>4. ~clear /\ m.term >= currentTerm[k] => m.term = currentTerm[k]
    BY <2>1
  <2>5. gotVotes \in [Server -> Nat] /\ currentTerm \in [Server -> Nat]
    BY DEF TypeOK
  <2> HIDE DEF clear
  <2> QED BY ONLY <2>1, <2>2, <2>3, <2>4, <2>5
<1>7. ASSUME NEW m \in snapRequests, InstallSnapshot(m) PROVE Quiet
  <2>1. m.to \in Server /\ m.term \in Nat /\ currentTerm[m.to] \in Nat
    BY DEF TypeOK, SnapArgs
  <2> DEFINE k == m.to
             clear == m.term > currentTerm[k]
  <2>2. UNCHANGED <<voteReplies, votes, elected, pendingVotes>>
    BY <1>7 DEF InstallSnapshot, Accepts
  <2>3. \/ gotVotes' = gotVotes /\ currentTerm' = currentTerm
        \/ /\ m.term >= currentTerm[k]
           /\ gotVotes' = [gotVotes EXCEPT ![k] = IF clear THEN 0 ELSE @]
           /\ currentTerm' = [currentTerm EXCEPT ![k] = m.term]
    BY <1>7 DEF InstallSnapshot, Accepts
  <2>4. ~clear /\ m.term >= currentTerm[k] => m.term = currentTerm[k]
    BY <2>1
  <2>5. gotVotes \in [Server -> Nat] /\ currentTerm \in [Server -> Nat]
    BY DEF TypeOK
  <2> HIDE DEF clear
  <2> QED BY ONLY <2>1, <2>2, <2>3, <2>4, <2>5
<1>8. ASSUME NEW r \in appendReplies, HandleAppendReply(r) PROVE Quiet
  <2>1. r.args.from \in Server
    BY DEF TypeOK, AppendCall
  <2> QED BY <1>8, <2>1
          DEF HandleAppendReply, ReplyFromNewerTerm,
              UpdateTermAndBecomeFollower, TypeOK
<1>9. ASSUME NEW r \in snapReplies, HandleSnapReply(r) PROVE Quiet
  <2>1. r.args.from \in Server
    BY DEF TypeOK, SnapArgs
  <2> QED BY <1>9, <2>1
          DEF HandleSnapReply, ReplyFromNewerTerm,
              UpdateTermAndBecomeFollower, TypeOK
<1>10. CASE UNCHANGED vars
  BY <1>0, <1>10 DEF vars
<1> HIDE DEF Quiet
<1> QED BY <1>0, <1>1, <1>2, <1>3, <1>4, <1>5, <1>6, <1>7, <1>8, <1>9, <1>10
        DEF Next

\* The inductive invariant behind LeadersHaveQuorums holds for ever.
THEOREM QuorumInvariant == Spec => []QuorumInv
<1>1. Init => QuorumInv
  <2> SUFFICES ASSUME Init PROVE QuorumInv
    OBVIOUS
  <2>1. RepliesAreVotes /\ LeaderHasQuorum
    BY DEF Init, RepliesAreVotes, LeaderHasQuorum
  <2>2. NoOvercount
    <3> SUFFICES ASSUME NEW i \in Server
                 PROVE  0 <= Cardinality(Counted(i))
      BY DEF Init, NoOvercount
    <3>1. Counted(i) \in SUBSET Server
      BY DEF Counted
    <3> QED BY <3>1, CardinalityMonotone
  <2> QED BY <2>1, <2>2 DEF QuorumInv
<1>2. TypeInv /\ TypeInv' /\ QuorumInv /\ [Next]_vars => QuorumInv'
  BY QuorumNext DEF TypeInv
<1> QED BY <1>1, <1>2, TypeInvariant, PTL DEF Spec

\* becomeLeader runs only with the votes of a majority, for any number of
\* peers and however replies are lost, repeated, delayed or cut off by a
\* restart.
THEOREM LeadersHaveQuorums == Spec => []LeaderHasQuorum
<1>1. QuorumInv => LeaderHasQuorum
  BY DEF QuorumInv
<1> QED BY <1>1, QuorumInvariant, PTL

\* Two leaders of a term need a peer that voted for both.  It is what the
\* code's clearing of voteFor makes possible, and nothing else does.
THEOREM TwoLeadersShareAVoter == Spec => []SplitBrainNeedsDoubleVote
<1>1. LeaderHasQuorum => SplitBrainNeedsDoubleVote
  <2> SUFFICES ASSUME LeaderHasQuorum, NEW e \in elected, NEW f \in elected
               PROVE  VotersFor(e[1], e[2]) \cap VotersFor(f[1], f[2]) # {}
    BY DEF SplitBrainNeedsDoubleVote
  <2> DEFINE A == VotersFor(e[1], e[2])
             B == VotersFor(f[1], f[2])
  <2>1. /\ 2 * Cardinality(A) > Cardinality(Server)
        /\ 2 * Cardinality(B) > Cardinality(Server)
    BY DEF LeaderHasQuorum
  <2>2. A \in SUBSET Server /\ B \in SUBSET Server
    BY DEF VotersFor
  <2> HIDE DEF A, B
  <2>3. /\ Cardinality(A) \in Nat /\ Cardinality(B) \in Nat
        /\ Cardinality(Server) \in Nat
    BY <2>2, CardinalityMonotone, ServerAssumption, FS_CardinalityType
  <2>4. Cardinality(A) + Cardinality(B) > Cardinality(Server)
    BY <2>1, <2>3
  <2>5. A \cap B # {}
    BY <2>2, <2>4, ServerAssumption, FS_MajoritiesIntersect
  <2> QED BY <2>5 DEF A, B
<1> QED BY <1>1, LeadersHaveQuorums, PTL

-----------------------------------------------------------------------------
(* The leader a peer points to.                                            *)

LeadersAreElected ==
  \A i \in Server : raftState[i] = Leader => <<currentTerm[i], i>> \in elected

\* AppendEntries and InstallSnapshot are only called by elected leaders.
CallersAreElected ==
  /\ \A m \in appendRequests : <<m.term, m.from>> \in elected
  /\ \A m \in snapRequests : <<m.term, m.from>> \in elected

HintInv == LeadersAreElected /\ CallersAreElected /\ LeaderHintWasElected

\* Steps after which every peer is a leader that was one, or none, and points
\* where it did, nowhere, or to an elected leader of its term.
LEMMA HintSteps ==
  ASSUME TypeOK, TypeOK', HintInv, elected \subseteq elected',
         UNCHANGED <<appendRequests, snapRequests>>, TermsGrow,
         \A i \in Server :
           raftState'[i] = Leader =>
             \/ raftState[i] = Leader /\ currentTerm'[i] = currentTerm[i]
             \/ <<currentTerm'[i], i>> \in elected',
         \A i \in Server :
           \/ leaderID'[i] \in {leaderID[i], None}
           \/ <<currentTerm'[i], leaderID'[i]>> \in elected'
  PROVE  HintInv'
<1>1. LeadersAreElected'
  BY DEF HintInv, LeadersAreElected
<1>2. CallersAreElected'
  BY DEF HintInv, CallersAreElected
<1>3. LeaderHintWasElected'
  <2> SUFFICES ASSUME NEW i \in Server, leaderID'[i] # None
               PROVE  \E t \in 0 .. currentTerm'[i] :
                        <<t, leaderID'[i]>> \in elected'
    BY DEF LeaderHintWasElected
  <2>1. /\ currentTerm'[i] \in Nat /\ currentTerm[i] \in Nat
        /\ currentTerm'[i] >= currentTerm[i]
    BY DEF TypeOK, TermsGrow
  <2>2. CASE leaderID'[i] = leaderID[i]
    <3>1. PICK t \in 0 .. currentTerm[i] : <<t, leaderID[i]>> \in elected
      BY <2>2 DEF HintInv, LeaderHintWasElected
    <3>2. t \in 0 .. currentTerm'[i]
      BY <2>1, <3>1
    <3> QED BY <2>2, <3>1, <3>2
  <2>3. CASE <<currentTerm'[i], leaderID'[i]>> \in elected'
    <3>1. currentTerm'[i] \in 0 .. currentTerm'[i]
      BY <2>1
    <3> QED BY <2>3, <3>1
  <2> QED BY <2>2, <2>3
<1> QED BY <1>1, <1>2, <1>3 DEF HintInv

\* Every step keeps the invariant behind LeaderHintsAreElected.
LEMMA HintNext ==
  ASSUME TypeOK, TypeOK', DiskInSync, HintInv, [Next]_vars
  PROVE  HintInv'
<1> DEFINE Steps ==
             /\ elected \subseteq elected'
             /\ UNCHANGED <<appendRequests, snapRequests>>
             /\ \A i \in Server :
                  raftState'[i] = Leader =>
                    \/ raftState[i] = Leader /\ currentTerm'[i] = currentTerm[i]
                    \/ <<currentTerm'[i], i>> \in elected'
             /\ \A i \in Server :
                  \/ leaderID'[i] \in {leaderID[i], None}
                  \/ <<currentTerm'[i], leaderID'[i]>> \in elected'
<1>0. Steps => HintInv'
  BY TermStep, HintSteps
<1>a. Leader # Follower /\ Leader # Candidate
  BY DEF Leader, Follower, Candidate
<1> USE DEF electionVars, persistVars, appendMsgs, snapMsgs, historyVars
<1>1. ASSUME NEW i \in Server, StartAElection(i) PROVE Steps
  BY <1>1, <1>a DEF StartAElection, TypeOK
<1>2. ASSUME NEW i \in Server,
             \/ Commit(i) \/ Apply(i) \/ \E cmd \in Command : Start(i, cmd)
             \/ \E index \in SnapshotAt : Snapshot(i, index)
      PROVE  Steps
  BY <1>2 DEF Commit, Apply, Start, Snapshot
<1>3. ASSUME NEW i \in Server, HeartBeat(i) PROVE HintInv'
  <2>1. <<currentTerm[i], i>> \in elected
    BY <1>3 DEF HeartBeat, HintInv, LeadersAreElected
  <2>2. UNCHANGED <<raftState, leaderID, currentTerm, elected>>
    BY <1>3 DEF HeartBeat
  <2>3. /\ appendRequests' = appendRequests \cup
             {AppendEntriesArgs(i, j) : j \in Following(i)}
        /\ snapRequests' = snapRequests \cup
             {InstallSnapshotArgs(i, j) : j \in Lagging(i)}
    BY <1>3 DEF HeartBeat
  <2>4. \A j : /\ AppendEntriesArgs(i, j).term = currentTerm[i]
               /\ AppendEntriesArgs(i, j).from = i
               /\ InstallSnapshotArgs(i, j).term = currentTerm[i]
               /\ InstallSnapshotArgs(i, j).from = i
    BY DEF AppendEntriesArgs, InstallSnapshotArgs
  <2>5. CallersAreElected'
    BY <2>1, <2>2, <2>3, <2>4 DEF HintInv, CallersAreElected
  <2>6. (LeadersAreElected /\ LeaderHintWasElected)'
    BY <2>2 DEF HintInv, LeadersAreElected, LeaderHintWasElected
  <2> QED BY <2>5, <2>6 DEF HintInv
<1>4. ASSUME NEW i \in Server, Restart(i) PROVE Steps
  <2>1. /\ raftState' = [raftState EXCEPT ![i] = Follower]
        /\ leaderID' = [leaderID EXCEPT ![i] = None]
        /\ currentTerm' = [currentTerm EXCEPT ![i] = disk[i].currentTerm]
        /\ UNCHANGED <<elected, appendRequests, snapRequests>>
    BY <1>4 DEF Restart, ReadPersist
  <2> QED BY <1>4, <1>a, <2>1 DEF TypeOK
<1>5. ASSUME NEW m \in voteRequests, RequestVote(m) PROVE Steps
  <2>1. m.to \in Server
    BY DEF TypeOK, VoteArgs
  <2>2. /\ currentTerm' = [currentTerm EXCEPT ![m.to] =
                             IF m.term > currentTerm[m.to] THEN m.term ELSE @]
        /\ raftState' = [raftState EXCEPT ![m.to] =
                           IF m.term > currentTerm[m.to] THEN Follower ELSE @]
        /\ leaderID' = [leaderID EXCEPT ![m.to] =
                          IF m.term > currentTerm[m.to] THEN None ELSE @]
        /\ UNCHANGED <<elected, appendRequests, snapRequests>>
    BY <1>5 DEF RequestVote, LeaderIDAfterVote
  <2> QED BY <1>a, <2>1, <2>2 DEF TypeOK
<1>6. ASSUME NEW m \in appendRequests, AppendEntries(m) PROVE Steps
  <2>1. m.to \in Server /\ <<m.term, m.from>> \in elected
    BY DEF TypeOK, AppendArgs, HintInv, CallersAreElected
  <2>2. \/ UNCHANGED <<currentTerm, raftState, leaderID>>
        \/ /\ currentTerm' = [currentTerm EXCEPT ![m.to] = m.term]
           /\ raftState' = [raftState EXCEPT ![m.to] = Follower]
           /\ leaderID' = [leaderID EXCEPT ![m.to] = m.from]
    BY <1>6 DEF AppendEntries, Accepts
  <2>3. UNCHANGED <<elected, appendRequests, snapRequests>>
    BY <1>6 DEF AppendEntries, Accepts
  <2>4. /\ DOMAIN currentTerm = Server /\ DOMAIN raftState = Server
        /\ DOMAIN leaderID = Server
    BY DEF TypeOK
  <2>5. CASE UNCHANGED <<currentTerm, raftState, leaderID>>
    BY ONLY <2>3, <2>5
  <2>6. CASE /\ currentTerm' = [currentTerm EXCEPT ![m.to] = m.term]
             /\ raftState' = [raftState EXCEPT ![m.to] = Follower]
             /\ leaderID' = [leaderID EXCEPT ![m.to] = m.from]
    BY ONLY <1>a, <2>1, <2>3, <2>4, <2>6
  <2> QED BY <2>2, <2>5, <2>6
<1>7. ASSUME NEW m \in snapRequests, InstallSnapshot(m) PROVE Steps
  <2>1. /\ m.to \in Server /\ <<m.term, m.from>> \in elected
        /\ m.term \in Nat /\ currentTerm[m.to] \in Nat
    BY DEF TypeOK, SnapArgs, HintInv, CallersAreElected
  <2> DEFINE newer == m.term > currentTerm[m.to]
  <2>2. \/ UNCHANGED <<currentTerm, raftState, leaderID>>
        \/ /\ m.term >= currentTerm[m.to]
           /\ currentTerm' = [currentTerm EXCEPT ![m.to] = m.term]
           /\ raftState' = [raftState EXCEPT ![m.to] =
                              IF newer THEN Follower ELSE @]
           /\ leaderID' = [leaderID EXCEPT ![m.to] = m.from]
    BY <1>7 DEF InstallSnapshot, Accepts
  <2>3. UNCHANGED <<elected, appendRequests, snapRequests>>
    BY <1>7 DEF InstallSnapshot, Accepts
  <2>4. m.term >= currentTerm[m.to] /\ ~newer => m.term = currentTerm[m.to]
    BY <2>1
  <2> HIDE DEF newer
  <2>5. /\ DOMAIN currentTerm = Server /\ DOMAIN raftState = Server
        /\ DOMAIN leaderID = Server
    BY DEF TypeOK
  <2>6. CASE UNCHANGED <<currentTerm, raftState, leaderID>>
    BY ONLY <2>3, <2>6
  <2>7. CASE /\ m.term >= currentTerm[m.to]
             /\ currentTerm' = [currentTerm EXCEPT ![m.to] = m.term]
             /\ raftState' = [raftState EXCEPT ![m.to] =
                                IF newer THEN Follower ELSE @]
             /\ leaderID' = [leaderID EXCEPT ![m.to] = m.from]
    BY ONLY <1>a, <2>1, <2>3, <2>4, <2>5, <2>7
  <2> QED BY <2>2, <2>6, <2>7
<1>8. ASSUME NEW r, NEW i \in Server, ReplyFromNewerTerm(i, r),
             UNCHANGED <<elected, appendRequests, snapRequests>>
      PROVE  Steps
  BY <1>8, <1>a DEF ReplyFromNewerTerm, UpdateTermAndBecomeFollower, TypeOK
<1>9. CASE UNCHANGED <<raftState, leaderID, currentTerm, elected,
                       appendRequests, snapRequests>>
  BY <1>0, <1>9
<1>10. ASSUME NEW r \in voteReplies, HandleVoteReply(r) PROVE HintInv'
  <2>1. r.args.from \in Server
    BY DEF TypeOK, VoteArgs
  <2>2. UNCHANGED <<appendRequests, snapRequests>>
    BY <1>10 DEF HandleVoteReply
  <2>3. CASE BecomeLeader(r.args.from)
    BY SMTT(30), <1>0, <2>1, <2>2, <2>3 DEF BecomeLeader, TypeOK
  <2>4. \/ BecomeLeader(r.args.from)
        \/ ReplyFromNewerTerm(r.args.from, r) /\ UNCHANGED elected
        \/ UNCHANGED <<raftState, leaderID, currentTerm, elected>>
    BY <1>10 DEF HandleVoteReply, CountVote
  <2> HIDE DEF Steps
  <2> QED BY <1>0, <1>8, <1>9, <2>1, <2>2, <2>3, <2>4
<1>11. ASSUME NEW r \in appendReplies, HandleAppendReply(r) PROVE HintInv'
  <2>1. r.args.from \in Server
    BY DEF TypeOK, AppendCall
  <2>2. UNCHANGED <<appendRequests, snapRequests, elected>>
    BY <1>11 DEF HandleAppendReply
  <2>3. \/ ReplyFromNewerTerm(r.args.from, r)
        \/ UNCHANGED <<raftState, leaderID, currentTerm>>
    BY <1>11 DEF HandleAppendReply
  <2> HIDE DEF Steps
  <2> QED BY <1>0, <1>8, <1>9, <2>1, <2>2, <2>3
<1>12. ASSUME NEW r \in snapReplies, HandleSnapReply(r) PROVE HintInv'
  <2>1. r.args.from \in Server
    BY DEF TypeOK, SnapArgs
  <2>2. UNCHANGED <<appendRequests, snapRequests, elected>>
    BY <1>12 DEF HandleSnapReply
  <2>3. \/ ReplyFromNewerTerm(r.args.from, r)
        \/ UNCHANGED <<raftState, leaderID, currentTerm>>
    BY <1>12 DEF HandleSnapReply
  <2> HIDE DEF Steps
  <2> QED BY <1>0, <1>8, <1>9, <2>1, <2>2, <2>3
<1>13. CASE UNCHANGED vars
  BY <1>9, <1>13 DEF vars
<1> HIDE DEF Steps
<1> QED BY <1>0, <1>1, <1>2, <1>3, <1>4, <1>5, <1>6, <1>7, <1>10, <1>11,
           <1>12, <1>13
        DEF Next

\* The inductive invariant behind LeaderHintsAreElected holds for ever.
THEOREM HintInvariant == Spec => []HintInv
<1>1. Init => HintInv
  BY DEF Init, HintInv, LeadersAreElected, CallersAreElected,
         LeaderHintWasElected, Leader, Follower
<1>2. TypeInv /\ TypeInv' /\ DiskInSync /\ HintInv /\ [Next]_vars => HintInv'
  BY HintNext DEF TypeInv
<1> QED BY <1>1, <1>2, TypeInvariant, DiskIsInSync, PTL DEF Spec

\* The peer that GetLeader names did win an election, in this peer's term or
\* an older one, for any number of peers.
THEOREM LeaderHintsAreElected == Spec => []LeaderHintWasElected
<1>1. HintInv => LeaderHintWasElected
  BY DEF HintInv
<1> QED BY <1>1, HintInvariant, PTL

-----------------------------------------------------------------------------
(* Votes, candidates and callers.                                          *)

Terms == {e[1] : e \in elected}

VotesArePast ==
  \A x \in votes : x[1] <= currentTerm[x[2]] /\ x[1] <= currentTerm[x[3]]

VoteIsRecorded ==
  \A i \in Server : voteFor[i] # None => <<currentTerm[i], i, voteFor[i]>> \in votes

ElectedArePast == \A e \in elected : 1 <= e[1] /\ e[1] <= currentTerm[e[2]]

CandidateIsFresh ==
  \A i \in Server : raftState[i] = Candidate =>
    1 <= currentTerm[i] /\ <<currentTerm[i], i>> \notin elected

\* A call of RequestVote tells the candidate's log, as long as the candidate
\* has not lost the election.
VoteCallOK(m) ==
  /\ m.term <= currentTerm[m.from] /\ m.to # m.from
  /\ (/\ raftState[m.from] = Candidate /\ currentTerm[m.from] = m.term
      /\ m.term \notin Terms) =>
        /\ m.lastLogIndex = LastLogIndex(m.from)
        /\ m.lastLogTerm = LastLogTerm(m.from)

ReplyIsToLeader(r) ==
  r.args.to # r.args.from /\ <<r.args.term, r.args.from>> \in elected

\* No peer calls itself, and the replies go to peers that were elected.
CallersAreOthers ==
  /\ \A m \in appendRequests : m.to # m.from
  /\ \A m \in snapRequests : m.to # m.from
  /\ \A r \in appendReplies : ReplyIsToLeader(r)
  /\ \A r \in snapReplies : ReplyIsToLeader(r)

ElectInv ==
  /\ VotesArePast /\ VoteIsRecorded /\ ElectedArePast /\ CandidateIsFresh
  /\ \A m \in voteRequests : VoteCallOK(m)
  /\ CallersAreOthers

\* A step that keeps this, seen from what it adds.
LEMMA ElectFrame ==
  ASSUME TypeOK, TypeOK', ElectInv, TermsGrow,
         votes \subseteq votes', elected \subseteq elected',
         \A x \in votes' \ votes :
           x[1] <= currentTerm'[x[2]] /\ x[1] <= currentTerm'[x[3]],
         \A i \in Server : voteFor'[i] # None =>
           \/ voteFor'[i] = voteFor[i] /\ currentTerm'[i] = currentTerm[i]
           \/ <<currentTerm'[i], i, voteFor'[i]>> \in votes',
         \A e \in elected' \ elected :
           /\ 1 <= e[1] /\ e[1] <= currentTerm'[e[2]]
           /\ raftState'[e[2]] # Candidate,
         \A i \in Server : raftState'[i] = Candidate =>
           \/ currentTerm'[i] > currentTerm[i]
           \/ /\ raftState[i] = Candidate /\ currentTerm'[i] = currentTerm[i]
              /\ \/ currentTerm[i] \in Terms
                 \/ /\ LastLogIndex(i)' = LastLogIndex(i)
                    /\ LastLogTerm(i)' = LastLogTerm(i),
         \A m \in voteRequests' \ voteRequests :
           /\ m.term <= currentTerm'[m.from] /\ m.to # m.from
           /\ m.lastLogIndex = LastLogIndex(m.from)'
           /\ m.lastLogTerm = LastLogTerm(m.from)',
         \A m \in appendRequests' \ appendRequests : m.to # m.from,
         \A m \in snapRequests' \ snapRequests : m.to # m.from,
         \A r \in appendReplies' \ appendReplies :
           r.args.to # r.args.from /\ <<r.args.term, r.args.from>> \in elected,
         \A r \in snapReplies' \ snapReplies :
           r.args.to # r.args.from /\ <<r.args.term, r.args.from>> \in elected
  PROVE  ElectInv'
<1>0. /\ \A i \in Server : currentTerm[i] \in Nat /\ currentTerm'[i] \in Nat
                           /\ currentTerm'[i] >= currentTerm[i]
  BY DEF TypeOK, TermsGrow
<1>1. /\ \A x \in votes : x[1] \in Nat /\ x[2] \in Server /\ x[3] \in Server
      /\ \A e \in elected : e[1] \in Nat /\ e[2] \in Server
      /\ \A e \in elected' : e[1] \in Nat /\ e[2] \in Server
      /\ \A m \in voteRequests : m.term \in Nat /\ m.from \in Server
      /\ \A m \in voteRequests' : m.term \in Nat /\ m.from \in Server
  <2>1. \A x \in votes : x[1] \in Nat /\ x[2] \in Server /\ x[3] \in Server
    BY DEF TypeOK
  <2>2. \A e \in elected : e[1] \in Nat /\ e[2] \in Server
    BY DEF TypeOK
  <2>3. \A e \in elected' : e[1] \in Nat /\ e[2] \in Server
    BY DEF TypeOK
  <2>4. \A m \in voteRequests : m.term \in Nat /\ m.from \in Server
    BY DEF TypeOK, VoteArgs
  <2>5. \A m \in voteRequests' : m.term \in Nat /\ m.from \in Server
    BY DEF TypeOK, VoteArgs
  <2> QED BY <2>1, <2>2, <2>3, <2>4, <2>5
<1>2. VotesArePast'
  <2> SUFFICES ASSUME NEW x \in votes'
               PROVE  x[1] <= currentTerm'[x[2]] /\ x[1] <= currentTerm'[x[3]]
    BY DEF VotesArePast
  <2>1. CASE x \in votes
    <3>1. x[1] <= currentTerm[x[2]] /\ x[1] <= currentTerm[x[3]]
      BY <2>1 DEF ElectInv, VotesArePast
    <3>2. x[1] \in Nat /\ x[2] \in Server /\ x[3] \in Server
      BY <1>1, <2>1
    <3> QED BY <1>0, <3>1, <3>2
  <2> QED BY <2>1
<1>3. VoteIsRecorded'
  BY DEF ElectInv, VoteIsRecorded
<1>4. ElectedArePast'
  <2> SUFFICES ASSUME NEW e \in elected' PROVE 1 <= e[1] /\ e[1] <= currentTerm'[e[2]]
    BY DEF ElectedArePast
  <2>1. CASE e \in elected
    <3>1. 1 <= e[1] /\ e[1] <= currentTerm[e[2]]
      BY <2>1 DEF ElectInv, ElectedArePast
    <3>2. e[1] \in Nat /\ e[2] \in Server
      BY <1>1, <2>1
    <3> QED BY <1>0, <3>1, <3>2
  <2> QED BY <2>1
<1>5. CandidateIsFresh'
  <2> SUFFICES ASSUME NEW i \in Server, raftState'[i] = Candidate
               PROVE  1 <= currentTerm'[i] /\ <<currentTerm'[i], i>> \notin elected'
    BY DEF CandidateIsFresh
  <2>1. CASE currentTerm'[i] > currentTerm[i]
    <3>1. 1 <= currentTerm'[i]
      BY <1>0, <2>1
    <3>2. ASSUME <<currentTerm'[i], i>> \in elected PROVE FALSE
      <4>1. currentTerm'[i] <= currentTerm[i]
        BY <3>2 DEF ElectInv, ElectedArePast
      <4> QED BY <1>0, <2>1, <4>1
    <3> QED BY <3>1, <3>2
  <2>2. CASE raftState[i] = Candidate /\ currentTerm'[i] = currentTerm[i]
    BY <2>2 DEF ElectInv, CandidateIsFresh
  <2> QED BY <2>1, <2>2
<1>6. ASSUME NEW m \in voteRequests' PROVE VoteCallOK(m)'
  <2>1. CASE m \in voteRequests
    <3>1. VoteCallOK(m) /\ m.term \in Nat /\ m.from \in Server
      BY <1>1, <2>1 DEF ElectInv
    <3>2. m.term <= currentTerm'[m.from] /\ m.to # m.from
      BY <1>0, <3>1 DEF VoteCallOK
    <3>3. Terms \subseteq Terms'
      BY DEF Terms
    <3>4. ASSUME raftState'[m.from] = Candidate, currentTerm'[m.from] = m.term,
                 m.term \notin Terms'
          PROVE  /\ m.lastLogIndex = LastLogIndex(m.from)'
                 /\ m.lastLogTerm = LastLogTerm(m.from)'
      <4>1. ~(currentTerm'[m.from] > currentTerm[m.from])
        BY <1>0, <3>1, <3>4 DEF VoteCallOK
      <4> QED BY <3>1, <3>3, <3>4, <4>1 DEF VoteCallOK
    <3> QED BY <3>2, <3>4 DEF VoteCallOK
  <2>2. CASE m \notin voteRequests
    BY <2>2 DEF VoteCallOK
  <2> QED BY <2>1, <2>2
<1>7. CallersAreOthers'
  BY DEF ElectInv, CallersAreOthers, ReplyIsToLeader
<1> QED BY <1>2, <1>3, <1>4, <1>5, <1>6, <1>7 DEF ElectInv

\* A step that casts no vote, elects nobody and asks for no vote.
LEMMA ElectQuiet ==
  ASSUME TypeOK, TypeOK', ElectInv, TermsGrow,
         UNCHANGED <<votes, elected, voteRequests>>,
         \A i \in Server : voteFor'[i] # None =>
           voteFor'[i] = voteFor[i] /\ currentTerm'[i] = currentTerm[i],
         \A i \in Server : raftState'[i] = Candidate =>
           /\ raftState[i] = Candidate /\ currentTerm'[i] = currentTerm[i]
           /\ \/ currentTerm[i] \in Terms
              \/ /\ LastLogIndex(i)' = LastLogIndex(i)
                 /\ LastLogTerm(i)' = LastLogTerm(i),
         \A m \in appendRequests' \ appendRequests : m.to # m.from,
         \A m \in snapRequests' \ snapRequests : m.to # m.from,
         \A r \in appendReplies' \ appendReplies :
           r.args.to # r.args.from /\ <<r.args.term, r.args.from>> \in elected,
         \A r \in snapReplies' \ snapReplies :
           r.args.to # r.args.from /\ <<r.args.term, r.args.from>> \in elected
  PROVE  ElectInv'
<1>1. /\ votes \subseteq votes' /\ elected \subseteq elected'
      /\ votes' \ votes = {} /\ elected' \ elected = {}
      /\ voteRequests' \ voteRequests = {}
  OBVIOUS
<1> QED BY <1>1, ElectFrame

\* Peers whose logs are not touched.
LEMMA LogUntouched ==
  ASSUME NEW i, logs'[i] = logs[i], snapshotIndex'[i] = snapshotIndex[i]
  PROVE  LastLogIndex(i)' = LastLogIndex(i) /\ LastLogTerm(i)' = LastLogTerm(i)
BY DEF LastLogIndex, LastLogTerm

\* Steps that change neither terms, states nor votes.
LEMMA ElectSteady ==
  ASSUME TypeOK, TypeOK', ElectInv,
         UNCHANGED <<currentTerm, raftState, voteFor, votes, elected, voteRequests>>,
         \A i \in Server : raftState[i] = Candidate =>
           /\ LastLogIndex(i)' = LastLogIndex(i)
           /\ LastLogTerm(i)' = LastLogTerm(i),
         \A m \in appendRequests' \ appendRequests : m.to # m.from,
         \A m \in snapRequests' \ snapRequests : m.to # m.from,
         UNCHANGED <<appendReplies, snapReplies>>
  PROVE  ElectInv'
<1>1. TermsGrow
  BY DEF TermsGrow, TypeOK
<1>2. appendReplies' \ appendReplies = {} /\ snapReplies' \ snapReplies = {}
  OBVIOUS
<1> QED BY <1>1, <1>2, ElectQuiet

\* The step down of a caller that gets a reply of a newer term.
LEMMA ElectStepDown ==
  ASSUME TypeOK, TypeOK', ElectInv, TermsGrow, NEW i \in Server, NEW term,
         UpdateTermAndBecomeFollower(i, term),
         UNCHANGED <<votes, elected, voteMsgs, appendMsgs, snapMsgs>>
  PROVE  ElectInv'
<1>1. /\ raftState' = [raftState EXCEPT ![i] = Follower]
      /\ voteFor' = [voteFor EXCEPT ![i] = None]
      /\ currentTerm' = [currentTerm EXCEPT ![i] = term]
      /\ UNCHANGED <<logs, snapshotIndex>>
  BY DEF UpdateTermAndBecomeFollower
<1>2. /\ raftState'[i] = Follower /\ voteFor'[i] = None
      /\ \A j \in Server : j # i =>
           /\ raftState'[j] = raftState[j] /\ voteFor'[j] = voteFor[j]
           /\ currentTerm'[j] = currentTerm[j]
  BY <1>1 DEF TypeOK
<1>3. Follower # Candidate
  BY DEF Follower, Candidate
<1>4. \A j \in Server : LastLogIndex(j)' = LastLogIndex(j)
                        /\ LastLogTerm(j)' = LastLogTerm(j)
  BY <1>1, LogUntouched
<1>5. /\ appendRequests' \ appendRequests = {} /\ snapRequests' \ snapRequests = {}
      /\ appendReplies' \ appendReplies = {} /\ snapReplies' \ snapReplies = {}
      /\ voteRequests' = voteRequests
  BY DEF voteMsgs, appendMsgs, snapMsgs
<1> QED BY <1>2, <1>3, <1>4, <1>5, ElectQuiet

\* The timer fires.
LEMMA ElectStart ==
  ASSUME TypeOK, TypeOK', ElectInv, TermsGrow, NEW i \in Server, StartAElection(i)
  PROVE  ElectInv'
<1>1. /\ currentTerm' = [currentTerm EXCEPT ![i] = @ + 1]
      /\ raftState' = [raftState EXCEPT ![i] = Candidate]
      /\ voteFor' = [voteFor EXCEPT ![i] = i]
      /\ UNCHANGED <<logs, snapshotIndex>>
      /\ votes' = votes \cup {<<currentTerm[i] + 1, i, i>>}
      /\ UNCHANGED <<elected, appendRequests, appendReplies, snapRequests, snapReplies>>
      /\ voteRequests' = voteRequests \cup
           {[term |-> currentTerm[i] + 1, from |-> i, to |-> j,
             boot |-> restarts[i], lastLogIndex |-> LastLogIndex(i),
             lastLogTerm |-> LastLogTerm(i)] : j \in Server \ {i}}
  BY DEF StartAElection, appendMsgs, snapMsgs
<1>2. /\ currentTerm'[i] = currentTerm[i] + 1 /\ currentTerm[i] \in Nat
      /\ voteFor'[i] = i
      /\ \A j \in Server : j # i =>
           /\ raftState'[j] = raftState[j] /\ voteFor'[j] = voteFor[j]
           /\ currentTerm'[j] = currentTerm[j]
  BY <1>1 DEF TypeOK
<1>3. \A j \in Server : LastLogIndex(j)' = LastLogIndex(j)
                        /\ LastLogTerm(j)' = LastLogTerm(j)
  BY <1>1, LogUntouched
<1>4. /\ appendRequests' \ appendRequests = {} /\ snapRequests' \ snapRequests = {}
      /\ appendReplies' \ appendReplies = {} /\ snapReplies' \ snapReplies = {}
      /\ elected' \ elected = {} /\ votes \subseteq votes' /\ elected \subseteq elected'
  BY <1>1
<1>5. \A x \in votes' \ votes :
        x[1] <= currentTerm'[x[2]] /\ x[1] <= currentTerm'[x[3]]
  BY <1>1, <1>2
<1>6. ASSUME NEW m \in voteRequests' \ voteRequests
      PROVE  /\ m.term <= currentTerm'[m.from] /\ m.to # m.from
             /\ m.lastLogIndex = LastLogIndex(m.from)'
             /\ m.lastLogTerm = LastLogTerm(m.from)'
  <2>1. PICK j \in Server \ {i} :
          m = [term |-> currentTerm[i] + 1, from |-> i, to |-> j,
               boot |-> restarts[i], lastLogIndex |-> LastLogIndex(i),
               lastLogTerm |-> LastLogTerm(i)]
    BY <1>1
  <2>2. /\ m.term = currentTerm[i] + 1 /\ m.from = i /\ m.to = j
        /\ m.lastLogIndex = LastLogIndex(i) /\ m.lastLogTerm = LastLogTerm(i)
    BY <2>1
  <2> QED BY <1>2, <1>3, <2>2
<1>7. \A j \in Server : voteFor'[j] # None =>
        \/ voteFor'[j] = voteFor[j] /\ currentTerm'[j] = currentTerm[j]
        \/ <<currentTerm'[j], j, voteFor'[j]>> \in votes'
  BY <1>1, <1>2
<1>8. \A j \in Server : raftState'[j] = Candidate =>
        \/ currentTerm'[j] > currentTerm[j]
        \/ /\ raftState[j] = Candidate /\ currentTerm'[j] = currentTerm[j]
           /\ LastLogIndex(j)' = LastLogIndex(j)
           /\ LastLogTerm(j)' = LastLogTerm(j)
  BY <1>2, <1>3
<1> QED BY <1>4, <1>5, <1>6, <1>7, <1>8, ElectFrame

\* A vote, or a refusal.
LEMMA ElectVote ==
  ASSUME TypeOK, TypeOK', ElectInv, TermsGrow, NEW m \in voteRequests, RequestVote(m)
  PROVE  ElectInv'
<1> DEFINE i == m.to
           newer == m.term > currentTerm[i]
           grant == GrantsVote(i, m)
<1>1. /\ i \in Server /\ m.from \in Server /\ m.term \in Nat
      /\ m.term <= currentTerm[m.from] /\ m.from # i
  BY DEF TypeOK, VoteArgs, ElectInv, VoteCallOK
<1>2. /\ currentTerm' = [currentTerm EXCEPT ![i] = IF newer THEN m.term ELSE @]
      /\ raftState' = [raftState EXCEPT ![i] = IF newer THEN Follower ELSE @]
      /\ voteFor' = [voteFor EXCEPT ![i] = IF grant THEN m.from
                                           ELSE IF newer THEN None ELSE @]
      /\ UNCHANGED <<logs, snapshotIndex>>
      /\ votes' = IF grant THEN votes \cup {<<m.term, i, m.from>>} ELSE votes
      /\ UNCHANGED <<elected, voteRequests, appendRequests, appendReplies,
                     snapRequests, snapReplies>>
  BY DEF RequestVote, appendMsgs, snapMsgs
<1>3. grant => m.term >= currentTerm[i]
  BY DEF GrantsVote
<1> HIDE DEF i, grant
<1>4. /\ currentTerm \in [Server -> Nat] /\ voteFor \in [Server -> Server \cup {None}]
      /\ raftState \in [Server -> {Leader, Candidate, Follower}]
  BY DEF TypeOK
<1>5. /\ currentTerm'[i] = IF newer THEN m.term ELSE currentTerm[i]
      /\ raftState'[i] = IF newer THEN Follower ELSE raftState[i]
      /\ voteFor'[i] = IF grant THEN m.from ELSE IF newer THEN None ELSE voteFor[i]
      /\ \A j \in Server : j # i =>
           /\ raftState'[j] = raftState[j] /\ voteFor'[j] = voteFor[j]
           /\ currentTerm'[j] = currentTerm[j]
  BY <1>1, <1>2, <1>4
<1>6. currentTerm[i] \in Nat /\ (grant => currentTerm'[i] = m.term)
  BY <1>1, <1>3, <1>4, <1>5
<1>7. Follower # Candidate
  BY DEF Follower, Candidate
<1>8. \A j \in Server : LastLogIndex(j)' = LastLogIndex(j)
                        /\ LastLogTerm(j)' = LastLogTerm(j)
  BY <1>2, LogUntouched
<1>9. /\ appendRequests' \ appendRequests = {} /\ snapRequests' \ snapRequests = {}
      /\ appendReplies' \ appendReplies = {} /\ snapReplies' \ snapReplies = {}
      /\ elected' \ elected = {} /\ votes \subseteq votes' /\ elected \subseteq elected'
      /\ voteRequests' \ voteRequests = {}
  BY <1>2
<1>10. \A x \in votes' \ votes :
        x[1] <= currentTerm'[x[2]] /\ x[1] <= currentTerm'[x[3]]
  <2>1. currentTerm'[m.from] = currentTerm[m.from]
    BY <1>1, <1>5
  <2>2. grant => m.term <= currentTerm'[i] /\ m.term <= currentTerm'[m.from]
    BY <1>1, <1>6, <2>1
  <2> QED BY <1>2, <2>2
<1>11. \A j \in Server : voteFor'[j] # None =>
        \/ voteFor'[j] = voteFor[j] /\ currentTerm'[j] = currentTerm[j]
        \/ <<currentTerm'[j], j, voteFor'[j]>> \in votes'
  <2> SUFFICES ASSUME NEW j \in Server, voteFor'[j] # None
               PROVE  \/ voteFor'[j] = voteFor[j] /\ currentTerm'[j] = currentTerm[j]
                      \/ <<currentTerm'[j], j, voteFor'[j]>> \in votes'
    OBVIOUS
  <2>1. CASE j # i
    BY <1>5, <2>1
  <2>2. CASE j = i /\ grant
    BY <1>2, <1>5, <1>6, <2>2
  <2>3. CASE j = i /\ ~grant
    BY <1>5, <2>3
  <2> QED BY <2>1, <2>2, <2>3
<1>12. \A j \in Server : raftState'[j] = Candidate =>
        /\ raftState[j] = Candidate /\ currentTerm'[j] = currentTerm[j]
        /\ LastLogIndex(j)' = LastLogIndex(j)
        /\ LastLogTerm(j)' = LastLogTerm(j)
  <2> SUFFICES ASSUME NEW j \in Server, raftState'[j] = Candidate
               PROVE  raftState[j] = Candidate /\ currentTerm'[j] = currentTerm[j]
    BY <1>8
  <2>1. CASE j # i
    BY <1>5, <2>1
  <2>2. CASE j = i
    BY <1>5, <1>7, <2>2
  <2> QED BY <2>1, <2>2
<1> QED BY <1>9, <1>10, <1>11, <1>12, ElectFrame

\* A reply to RequestVote: a vote counted, an election won, or a step down.
LEMMA ElectReply ==
  ASSUME TypeOK, TypeOK', ElectInv, TermsGrow, NEW r \in voteReplies, HandleVoteReply(r)
  PROVE  ElectInv'
<1> DEFINE i == r.args.from
<1>1. i \in Server
  BY DEF TypeOK, VoteArgs
<1>2. UNCHANGED <<votes, voteRequests, appendRequests, appendReplies, snapRequests,
                  snapReplies>>
  BY DEF HandleVoteReply, voteMsgs, appendMsgs, snapMsgs
<1>3. /\ appendRequests' \ appendRequests = {} /\ snapRequests' \ snapRequests = {}
      /\ appendReplies' \ appendReplies = {} /\ snapReplies' \ snapReplies = {}
      /\ voteRequests' \ voteRequests = {} /\ votes' \ votes = {}
      /\ votes \subseteq votes'
  BY <1>2
<1>4. CASE ReplyFromNewerTerm(i, r) /\ UNCHANGED elected
  <2>1. UpdateTermAndBecomeFollower(i, r.term)
    BY <1>4 DEF ReplyFromNewerTerm
  <2>2. UNCHANGED <<voteMsgs, appendMsgs, snapMsgs>>
    BY DEF HandleVoteReply
  <2> QED BY <1>1, <1>2, <1>4, <2>1, <2>2, ElectStepDown
<1>5. CASE UNCHANGED <<raftState, persistVars, elected>>
  <2>1. /\ UNCHANGED <<currentTerm, voteFor, raftState, elected>>
        /\ \A j \in Server : /\ LastLogIndex(j)' = LastLogIndex(j)
                             /\ LastLogTerm(j)' = LastLogTerm(j)
    BY <1>5, LogUntouched DEF persistVars
  <2> QED BY <1>2, <1>3, <2>1, ElectSteady
<1>6. CASE raftState[i] = Candidate /\ BecomeLeader(i)
  <2>1. /\ raftState' = [raftState EXCEPT ![i] = Leader]
        /\ voteFor' = [voteFor EXCEPT ![i] = None]
        /\ UNCHANGED <<currentTerm, logs, snapshotIndex>>
        /\ elected' = elected \cup {<<currentTerm[i], i>>}
    BY <1>6 DEF BecomeLeader
  <2>2. /\ raftState'[i] = Leader /\ voteFor'[i] = None
        /\ \A j \in Server : j # i =>
             raftState'[j] = raftState[j] /\ voteFor'[j] = voteFor[j]
    BY <1>1, <2>1 DEF TypeOK
  <2>3. Leader # Candidate
    BY DEF Leader, Candidate
  <2>4. \A j \in Server : LastLogIndex(j)' = LastLogIndex(j)
                          /\ LastLogTerm(j)' = LastLogTerm(j)
    BY <2>1, LogUntouched
  <2>5. ASSUME NEW e \in elected' \ elected
        PROVE  /\ 1 <= e[1] /\ e[1] <= currentTerm'[e[2]]
               /\ raftState'[e[2]] # Candidate
    <3>1. e[1] = currentTerm[i] /\ e[2] = i
      BY <2>1
    <3>2. 1 <= currentTerm[i] /\ currentTerm[i] \in Nat
      BY <1>1, <1>6 DEF ElectInv, CandidateIsFresh, TypeOK
    <3> QED BY <2>1, <2>2, <2>3, <3>1, <3>2
  <2>6. elected \subseteq elected'
    BY <2>1
  <2>7. \A j \in Server : voteFor'[j] # None =>
          voteFor'[j] = voteFor[j] /\ currentTerm'[j] = currentTerm[j]
    BY <2>1, <2>2
  <2>8. \A j \in Server : raftState'[j] = Candidate =>
          /\ raftState[j] = Candidate /\ currentTerm'[j] = currentTerm[j]
          /\ LastLogIndex(j)' = LastLogIndex(j)
          /\ LastLogTerm(j)' = LastLogTerm(j)
    BY <2>1, <2>2, <2>3, <2>4
  <2> QED BY <1>3, <2>5, <2>6, <2>7, <2>8, ElectFrame
<1> QED BY <1>4, <1>5, <1>6 DEF HandleVoteReply, CountVote, Counting

\* A peer that obeys a leader's call: it leaves its candidacy, unless the call
\* is an InstallSnapshot of its own term, and then the term has a leader.
LEMMA ElectObey ==
  ASSUME TypeOK, TypeOK', ElectInv, TermsGrow, NEW i \in Server, NEW term \in Terms,
         UNCHANGED <<votes, elected, voteRequests, appendRequests, snapRequests>>,
         currentTerm' = [currentTerm EXCEPT ![i] = term],
         voteFor'[i] # None => voteFor'[i] = voteFor[i] /\ term = currentTerm[i],
         raftState'[i] = Candidate => raftState[i] = Candidate /\ term = currentTerm[i],
         \A j \in Server : j # i =>
           /\ raftState'[j] = raftState[j] /\ voteFor'[j] = voteFor[j]
           /\ logs'[j] = logs[j] /\ snapshotIndex'[j] = snapshotIndex[j],
         \A r \in appendReplies' \ appendReplies :
           r.args.to # r.args.from /\ <<r.args.term, r.args.from>> \in elected,
         \A r \in snapReplies' \ snapReplies :
           r.args.to # r.args.from /\ <<r.args.term, r.args.from>> \in elected
  PROVE  ElectInv'
<1>1. /\ currentTerm'[i] = term
      /\ \A j \in Server : j # i => currentTerm'[j] = currentTerm[j]
  BY DEF TypeOK
<1>2. appendRequests' \ appendRequests = {} /\ snapRequests' \ snapRequests = {}
  OBVIOUS
<1>3. \A j \in Server : j # i =>
        LastLogIndex(j)' = LastLogIndex(j) /\ LastLogTerm(j)' = LastLogTerm(j)
  BY LogUntouched
<1>4. \A j \in Server : voteFor'[j] # None =>
        voteFor'[j] = voteFor[j] /\ currentTerm'[j] = currentTerm[j]
  BY <1>1
<1>5. \A j \in Server : raftState'[j] = Candidate =>
        /\ raftState[j] = Candidate /\ currentTerm'[j] = currentTerm[j]
        /\ \/ currentTerm[j] \in Terms
           \/ /\ LastLogIndex(j)' = LastLogIndex(j)
              /\ LastLogTerm(j)' = LastLogTerm(j)
  BY <1>1, <1>3
<1> QED BY <1>2, <1>4, <1>5, ElectQuiet

\* AppendEntries.
LEMMA ElectAppend ==
  ASSUME TypeOK, TypeOK', HintInv, ElectInv, TermsGrow,
         NEW m \in appendRequests, AppendEntries(m)
  PROVE  ElectInv'
<1>1. m.to \in Server /\ m.from \in Server /\ m.term \in Nat
  BY DEF TypeOK, AppendArgs
<1>2. m.to # m.from /\ <<m.term, m.from>> \in elected
  BY DEF ElectInv, CallersAreOthers, HintInv, CallersAreElected
<1>3. m.term \in Terms
  BY <1>2 DEF Terms
<1>4. UNCHANGED <<votes, elected, voteRequests, appendRequests, snapRequests, snapReplies>>
  BY DEF AppendEntries, voteMsgs, snapMsgs, historyVars
<1>5. \A r \in appendReplies' \ appendReplies :
        r.args.to # r.args.from /\ <<r.args.term, r.args.from>> \in elected
  <2>1. ASSUME NEW term, NEW success, NEW hint, AppendReply(m, term, success, hint),
               NEW r \in appendReplies' \ appendReplies
        PROVE  r.args.to = m.to /\ r.args.from = m.from /\ r.args.term = m.term
    BY <2>1 DEF AppendReply, WithReply
  <2> QED BY <1>2, <2>1 DEF AppendEntries
<1>6. snapReplies' \ snapReplies = {}
  BY <1>4
<1>7. CASE Accepts(m.to, m)
  <2>1. /\ currentTerm' = [currentTerm EXCEPT ![m.to] = m.term]
        /\ raftState' = [raftState EXCEPT ![m.to] = Follower]
        /\ voteFor' = [voteFor EXCEPT ![m.to] =
             IF m.term > currentTerm[m.to] \/ raftState[m.to] # Follower
             THEN None ELSE @]
        /\ snapshotIndex' = snapshotIndex
        /\ \A j \in Server : j # m.to => logs'[j] = logs[j]
        /\ m.term >= currentTerm[m.to]
    BY <1>7 DEF AppendEntries, Accepts, TypeOK
  <2>0. /\ raftState \in [Server -> {Leader, Candidate, Follower}]
        /\ voteFor \in [Server -> Server \cup {None}] /\ currentTerm[m.to] \in Nat
    BY <1>1 DEF TypeOK
  <2>9. m.term > currentTerm[m.to] \/ m.term = currentTerm[m.to]
    BY <1>1, <2>0, <2>1
  <2>2. /\ raftState'[m.to] = Follower
        /\ voteFor'[m.to] # None =>
             voteFor'[m.to] = voteFor[m.to] /\ m.term = currentTerm[m.to]
        /\ \A j \in Server : j # m.to =>
             raftState'[j] = raftState[j] /\ voteFor'[j] = voteFor[j]
    BY <1>1, <2>0, <2>1, <2>9
  <2>3. Follower # Candidate
    BY DEF Follower, Candidate
  <2> QED BY <1>1, <1>3, <1>4, <1>5, <1>6, <2>1, <2>2, <2>3, ElectObey
<1>8. CASE ~Accepts(m.to, m)
  <2>1. UNCHANGED <<electionVars, persistVars>>
    BY <1>8 DEF AppendEntries
  <2>2. UNCHANGED <<currentTerm, raftState, voteFor, logs, snapshotIndex>>
    BY <2>1 DEF electionVars, persistVars
  <2>3. \A j \in Server : LastLogIndex(j)' = LastLogIndex(j)
                          /\ LastLogTerm(j)' = LastLogTerm(j)
    BY <2>2, LogUntouched
  <2>4. appendRequests' \ appendRequests = {} /\ snapRequests' \ snapRequests = {}
    BY <1>4
  <2> QED BY <1>4, <1>5, <1>6, <2>2, <2>3, <2>4, ElectQuiet
<1> QED BY <1>7, <1>8

\* InstallSnapshot.
LEMMA ElectInstall ==
  ASSUME TypeOK, TypeOK', HintInv, ElectInv, TermsGrow,
         NEW m \in snapRequests, InstallSnapshot(m)
  PROVE  ElectInv'
<1>1. m.to \in Server /\ m.from \in Server /\ m.term \in Nat
  BY DEF TypeOK, SnapArgs
<1>2. m.to # m.from /\ <<m.term, m.from>> \in elected
  BY DEF ElectInv, CallersAreOthers, HintInv, CallersAreElected
<1>3. m.term \in Terms
  BY <1>2 DEF Terms
<1>4. UNCHANGED <<votes, elected, voteRequests, appendRequests, snapRequests, appendReplies>>
  BY DEF InstallSnapshot, voteMsgs, appendMsgs, historyVars
<1>5. \A r \in snapReplies' \ snapReplies :
        r.args.to # r.args.from /\ <<r.args.term, r.args.from>> \in elected
  <2>1. ASSUME NEW term, SnapReply(m, term), NEW r \in snapReplies' \ snapReplies
        PROVE  r.args = m
    BY <2>1 DEF SnapReply, WithReply
  <2> QED BY <1>2, <2>1 DEF InstallSnapshot
<1>6. appendReplies' \ appendReplies = {}
  BY <1>4
<1>7. CASE Accepts(m.to, m)
  <2>1. /\ currentTerm' = [currentTerm EXCEPT ![m.to] = m.term]
        /\ raftState' = [raftState EXCEPT ![m.to] =
             IF m.term > currentTerm[m.to] THEN Follower ELSE @]
        /\ voteFor' = [voteFor EXCEPT ![m.to] =
             IF m.term > currentTerm[m.to] THEN None ELSE @]
        /\ \A j \in Server : j # m.to =>
             logs'[j] = logs[j] /\ snapshotIndex'[j] = snapshotIndex[j]
        /\ m.term >= currentTerm[m.to]
    BY <1>7 DEF InstallSnapshot, Accepts, TypeOK
  <2>2. Follower # Candidate
    BY DEF Follower, Candidate
  <2>0. /\ raftState \in [Server -> {Leader, Candidate, Follower}]
        /\ voteFor \in [Server -> Server \cup {None}] /\ currentTerm[m.to] \in Nat
    BY <1>1 DEF TypeOK
  <2>9. m.term > currentTerm[m.to] \/ m.term = currentTerm[m.to]
    BY <1>1, <2>0, <2>1
  <2>3. /\ raftState'[m.to] = Candidate =>
             raftState[m.to] = Candidate /\ m.term = currentTerm[m.to]
        /\ voteFor'[m.to] # None =>
             voteFor'[m.to] = voteFor[m.to] /\ m.term = currentTerm[m.to]
        /\ \A j \in Server : j # m.to =>
             raftState'[j] = raftState[j] /\ voteFor'[j] = voteFor[j]
    BY <1>1, <2>0, <2>1, <2>2, <2>9
  <2> QED BY <1>1, <1>3, <1>4, <1>5, <1>6, <2>1, <2>3, ElectObey
<1>8. CASE ~Accepts(m.to, m)
  <2>1. UNCHANGED <<electionVars, persistVars>>
    BY <1>8 DEF InstallSnapshot
  <2>2. UNCHANGED <<currentTerm, raftState, voteFor, logs, snapshotIndex>>
    BY <2>1 DEF electionVars, persistVars
  <2>3. \A j \in Server : LastLogIndex(j)' = LastLogIndex(j)
                          /\ LastLogTerm(j)' = LastLogTerm(j)
    BY <2>2, LogUntouched
  <2>4. appendRequests' \ appendRequests = {} /\ snapRequests' \ snapRequests = {}
    BY <1>4
  <2> QED BY <1>4, <1>5, <1>6, <2>2, <2>3, <2>4, ElectQuiet
<1> QED BY <1>7, <1>8

\* A log as a value: f gives the entries from the snapshot's index s, where the
\* dummy entry is, to the last index n.
IsLog(f, s, n) == s \in Nat /\ n \in Nat /\ s <= n /\ f \in [s .. n -> LogEntry]

\* The log of peer i as a function from index to entry.
Entries(i) == [k \in snapshotIndex[i] .. LastLogIndex(i) |-> Log(i, k)]

\* It is a log, and its last entry has the last term.
LEMMA EntriesType ==
  ASSUME TypeOK, NEW i \in Server
  PROVE  /\ IsLog(Entries(i), snapshotIndex[i], LastLogIndex(i))
         /\ Entries(i)[LastLogIndex(i)].term = LastLogTerm(i)
         /\ \A k \in snapshotIndex[i] .. LastLogIndex(i) : Entries(i)[k] = Log(i, k)
         /\ Entries(i)[snapshotIndex[i]] = logs[i][1]
<1>1. /\ snapshotIndex[i] \in Nat /\ LastLogIndex(i) \in Nat
      /\ LastLogIndex(i) >= snapshotIndex[i] /\ Len(logs[i]) \in Nat \ {0}
      /\ \A k \in snapshotIndex[i] .. LastLogIndex(i) : Log(i, k) \in LogEntry
  BY LogTypes
<1>2. IsLog(Entries(i), snapshotIndex[i], LastLogIndex(i))
  BY <1>1 DEF IsLog, Entries
<1>3. \A k \in snapshotIndex[i] .. LastLogIndex(i) : Entries(i)[k] = Log(i, k)
  BY DEF Entries
<1>4. /\ LastLogIndex(i) \in snapshotIndex[i] .. LastLogIndex(i)
      /\ snapshotIndex[i] \in snapshotIndex[i] .. LastLogIndex(i)
  BY <1>1
<1>5. Slot(i, LastLogIndex(i)) = Len(logs[i]) /\ Slot(i, snapshotIndex[i]) = 1
  BY <1>1 DEF Slot, LastLogIndex
<1>6. Log(i, LastLogIndex(i)).term = LastLogTerm(i) /\ Log(i, snapshotIndex[i]) = logs[i][1]
  BY <1>5 DEF Log, LastLogTerm
<1> QED BY <1>2, <1>3, <1>4, <1>6

\* Snapshot compacts the log and keeps what is above the index.
LEMMA SnapshotLog ==
  ASSUME TypeOK, TypeOK', NEW i \in Server, NEW index, Snapshot(i, index)
  PROVE  /\ LastLogIndex(i)' = LastLogIndex(i) /\ LastLogTerm(i)' = LastLogTerm(i)
         /\ index \in Nat /\ snapshotIndex'[i] = index
         /\ snapshotIndex[i] <= index /\ index <= lastApplied[i]
         /\ \A k \in index .. LastLogIndex(i) : Entries(i)'[k] = Entries(i)[k]
<1>1. /\ snapshotIndex[i] \in Nat /\ LastLogIndex(i) \in Nat
      /\ logs[i] \in Seq(LogEntry) /\ Len(logs[i]) \in Nat \ {0}
  BY LogTypes
<1>2. lastApplied[i] \in Nat
  BY DEF TypeOK
<1>3. /\ index \in snapshotIndex[i] .. lastApplied[i] /\ index <= LastLogIndex(i)
      /\ logs'[i] = SubSeq(logs[i], Slot(i, index), Len(logs[i]))
      /\ snapshotIndex'[i] = index
  BY DEF Snapshot, TypeOK
<1>4. PICK a \in Nat : a = Slot(i, index) /\ a >= 1 /\ a <= Len(logs[i])
  BY <1>1, <1>2, <1>3 DEF Slot, LastLogIndex
<1>5. PICK z \in Nat : z = Len(logs[i])
  BY <1>1
<1>6. \A k \in a .. z : logs[i][k] \in LogEntry
  BY <1>1, <1>4, <1>5
<1>7. /\ Len(SubSeq(logs[i], a, z)) = z - a + 1
      /\ \A k \in 1 .. z - a + 1 : SubSeq(logs[i], a, z)[k] = logs[i][a + k - 1]
  BY <1>4, <1>5, <1>6, SubSeqProperties
<1>8. /\ Len(logs'[i]) = z - a + 1
      /\ \A k \in 1 .. z - a + 1 : logs'[i][k] = logs[i][a + k - 1]
  BY <1>3, <1>4, <1>5, <1>7
<1>9. index \in Nat /\ a = index - snapshotIndex[i] + 1
  BY <1>1, <1>2, <1>3, <1>4 DEF Slot
<1>13. PICK s \in Nat : s = snapshotIndex[i]
  BY <1>1
<1>14. LastLogIndex(i) = z - 1 + s /\ LastLogIndex(i)' = (z - a + 1) - 1 + index
  BY <1>3, <1>5, <1>8, <1>13 DEF LastLogIndex
<1>15. a = index - s + 1
  BY <1>9, <1>13
<1>17. z \in Nat /\ a \in Nat /\ s \in Nat /\ index \in Nat
  BY <1>9
<1>16. (z - a + 1) - 1 + index = z - 1 + s
  BY ONLY <1>15, <1>17
<1>10. LastLogIndex(i)' = LastLogIndex(i)
  BY <1>14, <1>16
<1>11. LastLogTerm(i)' = LastLogTerm(i)
  <2>1. z - a + 1 \in 1 .. z - a + 1 /\ a + (z - a + 1) - 1 = z
    BY <1>4, <1>5
  <2> QED BY <1>5, <1>8, <2>1 DEF LastLogTerm
<1>12. ASSUME NEW k \in index .. LastLogIndex(i) PROVE Entries(i)'[k] = Entries(i)[k]
  <2>1. Entries(i)'[k] = Log(i, k)' /\ Entries(i)[k] = Log(i, k)
    BY <1>1, <1>3, <1>9, <1>10 DEF Entries
  <2>2. k - index + 1 \in 1 .. z - a + 1
        /\ a + (k - index + 1) - 1 = k - snapshotIndex[i] + 1
    <3>1. k \in index .. z - 1 + s
      BY <1>14
    <3>2. k - index + 1 \in 1 .. z - a + 1 /\ a + (k - index + 1) - 1 = k - s + 1
      BY ONLY <1>15, <1>17, <3>1
    <3> QED BY <1>13, <3>2
  <2>3. Log(i, k)' = logs'[i][k - index + 1]
    BY <1>3 DEF Log, Slot
  <2>4. Log(i, k) = logs[i][k - snapshotIndex[i] + 1]
    BY DEF Log, Slot
  <2> QED BY <1>8, <2>1, <2>2, <2>3, <2>4
<1> QED BY <1>2, <1>3, <1>9, <1>10, <1>11, <1>12

\* Every step keeps it.
LEMMA ElectNext ==
  ASSUME TypeOK, TypeOK', DiskInSync, HintInv, ElectInv, TermsGrow, [Next]_vars
  PROVE  ElectInv'
<1>0. Leader # Candidate /\ Follower # Candidate
  BY DEF Leader, Candidate, Follower
<1>1. ASSUME NEW i \in Server, StartAElection(i) PROVE ElectInv'
  BY <1>1, ElectStart
<1>2. ASSUME NEW i \in Server, HeartBeat(i) PROVE ElectInv'
  <2>1. /\ UNCHANGED <<currentTerm, raftState, voteFor, votes, elected, voteRequests,
                       appendReplies, snapReplies, logs, snapshotIndex>>
        /\ snapRequests' = snapRequests \cup
             {InstallSnapshotArgs(i, j) : j \in Lagging(i)}
        /\ appendRequests' = appendRequests \cup
             {AppendEntriesArgs(i, j) : j \in Following(i)}
    BY <1>2 DEF HeartBeat, electionVars, persistVars, voteMsgs, historyVars
  <2>2. \A j \in Server : LastLogIndex(j)' = LastLogIndex(j)
                          /\ LastLogTerm(j)' = LastLogTerm(j)
    BY <2>1, LogUntouched
  <2>3. \A m \in snapRequests' \ snapRequests : m.to # m.from
    BY <2>1 DEF InstallSnapshotArgs, Lagging
  <2>4. \A m \in appendRequests' \ appendRequests : m.to # m.from
    BY <2>1 DEF AppendEntriesArgs, Following
  <2> QED BY <2>1, <2>2, <2>3, <2>4, ElectSteady
<1>3. ASSUME NEW i \in Server, Commit(i) \/ Apply(i) PROVE ElectInv'
  <2>1. UNCHANGED <<currentTerm, raftState, voteFor, votes, elected, voteRequests,
                    appendRequests, snapRequests, appendReplies, snapReplies, logs,
                    snapshotIndex>>
    BY <1>3 DEF Commit, Apply, electionVars, persistVars, voteMsgs, appendMsgs,
                snapMsgs, historyVars
  <2>2. \A j \in Server : LastLogIndex(j)' = LastLogIndex(j)
                          /\ LastLogTerm(j)' = LastLogTerm(j)
    BY <2>1, LogUntouched
  <2>3. appendRequests' \ appendRequests = {} /\ snapRequests' \ snapRequests = {}
    BY <2>1
  <2> QED BY <2>1, <2>2, <2>3, ElectSteady
<1>4. ASSUME NEW i \in Server, Restart(i) PROVE ElectInv'
  <2>1. disk[i] = Persisted(i)
    BY DEF DiskInSync
  <2>2. /\ currentTerm' = [currentTerm EXCEPT ![i] = currentTerm[i]]
        /\ voteFor' = [voteFor EXCEPT ![i] = voteFor[i]]
        /\ logs' = [logs EXCEPT ![i] = logs[i]]
        /\ snapshotIndex' = [snapshotIndex EXCEPT ![i] = snapshotIndex[i]]
    BY <1>4, <2>1 DEF Restart, ReadPersist, Persisted
  <2>3. UNCHANGED <<currentTerm, voteFor, logs, snapshotIndex>>
    BY <2>2 DEF TypeOK
  <2>4. UNCHANGED <<votes, elected, voteRequests, appendRequests, snapRequests,
                    appendReplies, snapReplies>>
    BY <1>4 DEF Restart, voteMsgs, appendMsgs, snapMsgs, historyVars
  <2>5. \A j \in Server : raftState'[j] = Candidate => raftState[j] = Candidate
    BY <1>0, <1>4 DEF Restart, TypeOK
  <2>6. \A j \in Server : LastLogIndex(j)' = LastLogIndex(j)
                          /\ LastLogTerm(j)' = LastLogTerm(j)
    BY <2>3, LogUntouched
  <2>7. /\ appendRequests' \ appendRequests = {} /\ snapRequests' \ snapRequests = {}
        /\ appendReplies' \ appendReplies = {} /\ snapReplies' \ snapReplies = {}
    BY <2>4
  <2> QED BY <2>3, <2>4, <2>5, <2>6, <2>7, ElectQuiet
<1>5. ASSUME NEW i \in Server, NEW cmd \in Command, Start(i, cmd) PROVE ElectInv'
  <2>1. /\ UNCHANGED <<currentTerm, raftState, voteFor, votes, elected, voteRequests,
                       appendRequests, snapRequests, appendReplies, snapReplies,
                       snapshotIndex>>
        /\ raftState[i] = Leader
        /\ \A j \in Server : j # i => logs'[j] = logs[j]
    BY <1>5 DEF Start, electionVars, voteMsgs, appendMsgs, snapMsgs, historyVars, TypeOK
  <2>2. \A j \in Server : j # i =>
          LastLogIndex(j)' = LastLogIndex(j) /\ LastLogTerm(j)' = LastLogTerm(j)
    BY <2>1, LogUntouched
  <2>3. appendRequests' \ appendRequests = {} /\ snapRequests' \ snapRequests = {}
    BY <2>1
  <2> QED BY <1>0, <2>1, <2>2, <2>3, ElectSteady
<1>6. ASSUME NEW i \in Server, NEW index \in SnapshotAt, Snapshot(i, index)
      PROVE  ElectInv'
  <2>1. /\ UNCHANGED <<currentTerm, raftState, voteFor, votes, elected, voteRequests,
                       appendRequests, snapRequests, appendReplies, snapReplies>>
        /\ \A j \in Server : j # i =>
             logs'[j] = logs[j] /\ snapshotIndex'[j] = snapshotIndex[j]
    BY <1>6 DEF Snapshot, electionVars, voteMsgs, appendMsgs, snapMsgs, historyVars, TypeOK
  <2>2. \A j \in Server : j # i =>
          LastLogIndex(j)' = LastLogIndex(j) /\ LastLogTerm(j)' = LastLogTerm(j)
    BY <2>1, LogUntouched
  <2>3. LastLogIndex(i)' = LastLogIndex(i) /\ LastLogTerm(i)' = LastLogTerm(i)
    BY <1>6, SnapshotLog
  <2>4. appendRequests' \ appendRequests = {} /\ snapRequests' \ snapRequests = {}
    BY <2>1
  <2> QED BY <2>1, <2>2, <2>3, <2>4, ElectSteady
<1>7. ASSUME NEW m \in voteRequests, RequestVote(m) PROVE ElectInv'
  BY <1>7, ElectVote
<1>8. ASSUME NEW m \in appendRequests, AppendEntries(m) PROVE ElectInv'
  BY <1>8, ElectAppend
<1>9. ASSUME NEW m \in snapRequests, InstallSnapshot(m) PROVE ElectInv'
  BY <1>9, ElectInstall
<1>10. ASSUME NEW r \in voteReplies, HandleVoteReply(r) PROVE ElectInv'
  BY <1>10, ElectReply
<1>13. ASSUME NEW r, \/ r \in appendReplies /\ HandleAppendReply(r)
                     \/ r \in snapReplies /\ HandleSnapReply(r)
       PROVE  ElectInv'
  <2>1. r.args.from \in Server
    BY <1>13 DEF TypeOK, AppendCall, SnapArgs
  <2>2. UNCHANGED <<voteMsgs, appendMsgs, snapMsgs, votes, elected>>
    BY <1>13 DEF HandleAppendReply, HandleSnapReply, historyVars
  <2>3. CASE ReplyFromNewerTerm(r.args.from, r)
    <3>1. UpdateTermAndBecomeFollower(r.args.from, r.term)
      BY <2>3 DEF ReplyFromNewerTerm
    <3> QED BY <2>1, <2>2, <3>1, ElectStepDown
  <2>4. CASE UNCHANGED <<raftState, persistVars>>
    <3>1. /\ UNCHANGED <<currentTerm, voteFor, raftState, logs, snapshotIndex>>
          /\ UNCHANGED <<voteRequests, appendRequests, snapRequests, appendReplies,
                         snapReplies>>
      BY <2>2, <2>4 DEF persistVars, voteMsgs, appendMsgs, snapMsgs
    <3>2. \A j \in Server : /\ LastLogIndex(j)' = LastLogIndex(j)
                            /\ LastLogTerm(j)' = LastLogTerm(j)
      BY <3>1, LogUntouched
    <3>3. appendRequests' \ appendRequests = {} /\ snapRequests' \ snapRequests = {}
      BY <3>1
    <3> QED BY <2>2, <3>1, <3>2, <3>3, ElectSteady
  <2> QED BY <1>13, <2>3, <2>4 DEF HandleAppendReply, HandleSnapReply
<1>11. ASSUME NEW r \in appendReplies, HandleAppendReply(r) PROVE ElectInv'
  BY <1>11, <1>13
<1>14. ASSUME NEW r \in snapReplies, HandleSnapReply(r) PROVE ElectInv'
  BY <1>14, <1>13
<1>12. CASE UNCHANGED vars
  <2>1. UNCHANGED <<currentTerm, raftState, voteFor, votes, elected, voteRequests,
                    appendRequests, snapRequests, appendReplies, snapReplies, logs,
                    snapshotIndex>>
    BY <1>12 DEF vars, electionVars, persistVars, voteMsgs, appendMsgs, snapMsgs,
                 historyVars
  <2>2. \A j \in Server : LastLogIndex(j)' = LastLogIndex(j)
                          /\ LastLogTerm(j)' = LastLogTerm(j)
    BY <2>1, LogUntouched
  <2>3. appendRequests' \ appendRequests = {} /\ snapRequests' \ snapRequests = {}
    BY <2>1
  <2> QED BY <2>1, <2>2, <2>3, ElectSteady
<1> QED BY <1>1, <1>2, <1>3, <1>4, <1>5, <1>6, <1>7, <1>8, <1>9, <1>10, <1>11,
           <1>12, <1>14
        DEF Next

\* Votes and elections lie in the past, candidates were not elected yet, and
\* only elected peers are answered: the facts log safety rests on.
THEOREM ElectInvariant == Spec => []ElectInv
<1>1. Init => ElectInv
  BY DEF Init, ElectInv, VotesArePast, VoteIsRecorded, ElectedArePast,
         CandidateIsFresh, CallersAreOthers, Candidate, Follower
<1>2. TypeInv => TypeOK
  BY DEF TypeInv
<1>3. TypeInv /\ TypeInv' /\ DiskInSync /\ HintInv /\ ElectInv /\ [Next]_vars => ElectInv'
  BY <1>2, TermStep, ElectNext DEF TypeInv
<1> QED BY <1>1, <1>3, TypeInvariant, DiskIsInSync, HintInvariant, PTL DEF Spec

-----------------------------------------------------------------------------
(* When no term has two leaders.                                           *)

\* A candidate's timer fired into its term.
CandidateIsTimed(i) ==
  raftState[i] = Candidate => currentTerm[i] \in 1 .. MaxTerm /\ i \in Candidates[currentTerm[i]]

ElectedAreTimed ==
  \A e \in elected : e[1] \in 1 .. MaxTerm /\ e[2] \in Candidates[e[1]]

\* A peer that voted for itself keeps that vote until its term has a leader.
SelfVoteStays(i) ==
  <<currentTerm[i], i, i>> \in votes => voteFor[i] = i \/ currentTerm[i] \in Terms

TimerInv ==
  /\ \A i \in Server : CandidateIsTimed(i) /\ SelfVoteStays(i)
  /\ ElectedAreTimed

\* A step of peer i: who is elected was a candidate.
LEMMA TimerFrame ==
  ASSUME TypeOK, TimerInv, NEW i \in Server,
         elected \subseteq elected',
         \A e \in elected' \ elected :
           e[1] = currentTerm[i] /\ e[2] = i /\ raftState[i] = Candidate,
         \A x \in votes' \ votes : x[2] = i,
         \A j \in Server : j # i =>
           /\ currentTerm'[j] = currentTerm[j] /\ voteFor'[j] = voteFor[j]
           /\ raftState'[j] = raftState[j],
         CandidateIsTimed(i)', SelfVoteStays(i)'
  PROVE  TimerInv'
<1>1. Terms \subseteq Terms'
  BY DEF Terms
<1>2. ASSUME NEW j \in Server, j # i PROVE CandidateIsTimed(j)'
  <2>1. CandidateIsTimed(j)
    BY DEF TimerInv
  <2> QED BY <1>2, <2>1 DEF CandidateIsTimed
<1>3. ASSUME NEW j \in Server, j # i PROVE SelfVoteStays(j)'
  <2>1. SelfVoteStays(j)
    BY DEF TimerInv
  <2>2. <<currentTerm[j], j, j>> \in votes' => <<currentTerm[j], j, j>> \in votes
    <3> DEFINE x == <<currentTerm[j], j, j>>
    <3>1. x[2] = j
      OBVIOUS
    <3> HIDE DEF x
    <3>2. x \in votes' => x \in votes
      BY <1>3, <3>1
    <3> QED BY <3>2 DEF x
  <2> QED BY <1>1, <1>3, <2>1, <2>2 DEF SelfVoteStays
<1>4. ElectedAreTimed'
  <2>1. CandidateIsTimed(i) /\ ElectedAreTimed
    BY DEF TimerInv
  <2>2. \A e \in elected' \ elected : e[1] \in 1 .. MaxTerm /\ e[2] \in Candidates[e[1]]
    BY <2>1 DEF CandidateIsTimed
  <2> QED BY <2>1, <2>2 DEF ElectedAreTimed
<1> QED BY <1>2, <1>3, <1>4 DEF TimerInv

\* Steps without votes and elections: a peer that stays candidate stays in its
\* term, and loses its vote only in a new term or to an elected leader.
LEMMA TimerQuiet ==
  ASSUME TypeOK, TypeOK', ElectInv, TimerInv, TermsGrow, NEW i \in Server,
         UNCHANGED <<votes, elected>>,
         \A j \in Server : j # i =>
           /\ currentTerm'[j] = currentTerm[j] /\ voteFor'[j] = voteFor[j]
           /\ raftState'[j] = raftState[j],
         raftState'[i] = Candidate =>
           raftState[i] = Candidate /\ currentTerm'[i] = currentTerm[i],
         currentTerm'[i] = currentTerm[i] =>
           voteFor'[i] = voteFor[i] \/ currentTerm[i] \in Terms
  PROVE  TimerInv'
<1>1. CandidateIsTimed(i)'
  BY DEF TimerInv, CandidateIsTimed
<1>2. Terms' = Terms
  BY DEF Terms
<1>3. SelfVoteStays(i)'
  <2>1. CASE currentTerm'[i] = currentTerm[i]
    BY <1>2, <2>1 DEF TimerInv, SelfVoteStays
  <2>2. CASE currentTerm'[i] # currentTerm[i]
    <3>1. currentTerm[i] \in Nat /\ currentTerm'[i] \in Nat /\ currentTerm[i] < currentTerm'[i]
      BY <2>2 DEF TypeOK, TermsGrow
    <3>2. <<currentTerm'[i], i, i>> \notin votes
      <4>1. ASSUME NEW x \in votes, x[1] = currentTerm'[i], x[2] = i PROVE FALSE
        BY <3>1, <4>1 DEF ElectInv, VotesArePast
      <4> QED BY <4>1
    <3> QED BY <3>2 DEF SelfVoteStays
  <2> QED BY <2>1, <2>2
<1> QED BY <1>1, <1>3, TimerFrame

\* The timer fires.
LEMMA TimerStart ==
  ASSUME TypeOK, TypeOK', ElectInv, TimerInv, NEW i \in Server, StartAElection(i)
  PROVE  TimerInv'
<1>1. /\ currentTerm' = [currentTerm EXCEPT ![i] = @ + 1]
      /\ raftState' = [raftState EXCEPT ![i] = Candidate]
      /\ voteFor' = [voteFor EXCEPT ![i] = i]
      /\ votes' = votes \cup {<<currentTerm[i] + 1, i, i>>} /\ elected' = elected
      /\ currentTerm[i] < MaxTerm /\ i \in Candidates[currentTerm[i] + 1]
  BY DEF StartAElection
<1>2. /\ currentTerm'[i] = currentTerm[i] + 1 /\ currentTerm[i] \in Nat
      /\ voteFor'[i] = i
      /\ \A j \in Server : j # i =>
           /\ currentTerm'[j] = currentTerm[j] /\ voteFor'[j] = voteFor[j]
           /\ raftState'[j] = raftState[j]
  BY <1>1 DEF TypeOK
<1>3. CandidateIsTimed(i)'
  BY <1>1, <1>2, BoundAssumption DEF CandidateIsTimed
<1>4. SelfVoteStays(i)'
  BY <1>2 DEF SelfVoteStays
<1>5. /\ \A x \in votes' \ votes : x[2] = i
      /\ elected' \ elected = {} /\ elected \subseteq elected'
  BY <1>1
<1> QED BY <1>2, <1>3, <1>4, <1>5, TimerFrame

\* A vote.
LEMMA TimerVote ==
  ASSUME TypeOK, TypeOK', ElectInv, TimerInv, NEW m \in voteRequests, RequestVote(m)
  PROVE  TimerInv'
<1>1. PICK i \in Server, t \in Nat, c \in Server, newer \in BOOLEAN, grant \in BOOLEAN :
        /\ i = m.to /\ t = m.term /\ c = m.from /\ c # i
        /\ newer <=> t > currentTerm[i]
        /\ grant <=> GrantsVote(i, m)
  <2>1. /\ m.to \in Server /\ m.term \in Nat /\ m.from \in Server /\ m.from # m.to
    BY DEF TypeOK, VoteArgs, ElectInv, VoteCallOK
  <2> QED BY <2>1
<1>2. /\ currentTerm' = [currentTerm EXCEPT ![i] = IF newer THEN t ELSE @]
      /\ raftState' = [raftState EXCEPT ![i] = IF newer THEN Follower ELSE @]
      /\ voteFor' = [voteFor EXCEPT ![i] = IF grant THEN c ELSE IF newer THEN None ELSE @]
      /\ votes' = (IF grant THEN votes \cup {<<t, i, c>>} ELSE votes)
      /\ elected' = elected
  BY <1>1 DEF RequestVote
<1>3. /\ currentTerm'[i] = (IF newer THEN t ELSE currentTerm[i])
      /\ raftState'[i] = (IF newer THEN Follower ELSE raftState[i])
      /\ voteFor'[i] = (IF grant THEN c ELSE IF newer THEN None ELSE voteFor[i])
      /\ currentTerm[i] \in Nat
      /\ \A j \in Server : j # i =>
           /\ currentTerm'[j] = currentTerm[j] /\ voteFor'[j] = voteFor[j]
           /\ raftState'[j] = raftState[j]
  BY <1>2 DEF TypeOK
<1>4. CandidateIsTimed(i)'
  <2>1. Follower # Candidate
    BY DEF Follower, Candidate
  <2>2. CandidateIsTimed(i)
    BY DEF TimerInv
  <2> QED BY <1>3, <2>1, <2>2 DEF CandidateIsTimed
<1>5. SelfVoteStays(i)'
  <2>1. ASSUME <<currentTerm'[i], i, i>> \in votes' PROVE <<currentTerm'[i], i, i>> \in votes
    <3>1. \A z : <<z, i, i>> # <<t, i, c>>
      BY <1>1
    <3> QED BY <1>2, <2>1, <3>1
  <2>2. CASE newer
    <3>1. <<t, i, i>> \notin votes
      <4>1. ASSUME NEW x \in votes, x[1] = t, x[2] = i PROVE FALSE
        <5>1. t <= currentTerm[i]
          BY <4>1 DEF ElectInv, VotesArePast
        <5> QED BY <1>1, <1>3, <2>2, <5>1
      <4> QED BY <4>1
    <3> QED BY <1>3, <2>1, <2>2, <3>1 DEF SelfVoteStays
  <2>3. CASE ~newer /\ ~grant
    BY <1>2, <1>3, <2>1, <2>3 DEF TimerInv, SelfVoteStays, Terms
  <2>4. CASE ~newer /\ grant
    <3>1. voteFor[i] # i
      BY <1>1, <2>4, NoneAssumption DEF GrantsVote
    <3> QED BY <1>2, <1>3, <2>1, <2>4, <3>1 DEF TimerInv, SelfVoteStays, Terms
  <2> QED BY <2>2, <2>3, <2>4
<1>6. /\ \A x \in votes' \ votes : x[2] = i
      /\ elected' \ elected = {} /\ elected \subseteq elected'
  BY <1>2
<1> QED BY <1>3, <1>4, <1>5, <1>6, TimerFrame

\* A step down.
LEMMA TimerStepDown ==
  ASSUME TypeOK, TypeOK', ElectInv, TimerInv, TermsGrow, NEW i \in Server, NEW term,
         UpdateTermAndBecomeFollower(i, term), term > currentTerm[i],
         UNCHANGED <<votes, elected>>
  PROVE  TimerInv'
<1>1. /\ raftState' = [raftState EXCEPT ![i] = Follower]
      /\ voteFor' = [voteFor EXCEPT ![i] = None]
      /\ currentTerm' = [currentTerm EXCEPT ![i] = term]
  BY DEF UpdateTermAndBecomeFollower
<1>2. /\ raftState'[i] = Follower /\ currentTerm'[i] = term
      /\ \A j \in Server : j # i =>
           /\ raftState'[j] = raftState[j] /\ voteFor'[j] = voteFor[j]
           /\ currentTerm'[j] = currentTerm[j]
  BY <1>1 DEF TypeOK
<1>3. Follower # Candidate
  BY DEF Follower, Candidate
<1>4. currentTerm'[i] # currentTerm[i]
  <2>1. currentTerm[i] \in Nat /\ currentTerm'[i] \in Nat
    BY DEF TypeOK
  <2> QED BY <1>2, <2>1
<1> QED BY <1>2, <1>3, <1>4, TimerQuiet

\* A reply to RequestVote.
LEMMA TimerReply ==
  ASSUME TypeOK, TypeOK', ElectInv, TimerInv, TermsGrow,
         NEW r \in voteReplies, HandleVoteReply(r)
  PROVE  TimerInv'
<1>1. PICK i \in Server : i = r.args.from
  <2>1. r.args.from \in Server
    BY DEF TypeOK, VoteArgs
  <2> QED BY <2>1
<1>2. UNCHANGED votes
  BY DEF HandleVoteReply
<1>3. CASE ReplyFromNewerTerm(i, r) /\ UNCHANGED elected
  BY <1>2, <1>3, TimerStepDown DEF ReplyFromNewerTerm
<1>4. CASE UNCHANGED <<raftState, persistVars, elected>>
  BY <1>2, <1>4, TimerQuiet DEF persistVars
<1>5. CASE raftState[i] = Candidate /\ BecomeLeader(i)
  <2>1. /\ raftState' = [raftState EXCEPT ![i] = Leader]
        /\ voteFor' = [voteFor EXCEPT ![i] = None]
        /\ UNCHANGED currentTerm
        /\ elected' = elected \cup {<<currentTerm[i], i>>}
    BY <1>5 DEF BecomeLeader
  <2>2. /\ raftState'[i] = Leader
        /\ \A j \in Server : j # i =>
             raftState'[j] = raftState[j] /\ voteFor'[j] = voteFor[j]
    BY <2>1 DEF TypeOK
  <2>3. CandidateIsTimed(i)'
    BY <2>2 DEF CandidateIsTimed, Leader, Candidate
  <2>4. currentTerm'[i] \in Terms'
    <3>1. <<currentTerm[i], i>> \in elected' /\ <<currentTerm[i], i>>[1] = currentTerm[i]
      BY <2>1
    <3> QED BY <2>1, <3>1 DEF Terms
  <2>5. SelfVoteStays(i)'
    BY <2>4 DEF SelfVoteStays
  <2>6. /\ elected \subseteq elected' /\ votes' \ votes = {}
        /\ \A e \in elected' \ elected : e[1] = currentTerm[i] /\ e[2] = i
    BY <1>2, <2>1
  <2> QED BY <1>5, <2>1, <2>2, <2>3, <2>5, <2>6, TimerFrame
<1> QED BY <1>1, <1>3, <1>4, <1>5 DEF HandleVoteReply, CountVote, Counting

\* Every action keeps it.
LEMMA TimerNext ==
  ASSUME TypeOK, TypeOK', DiskInSync, HintInv, ElectInv, TimerInv, TermsGrow, [Next]_vars
  PROVE  TimerInv'
<1>1. ASSUME NEW i \in Server, StartAElection(i) PROVE TimerInv'
  BY <1>1, TimerStart
<1>2. ASSUME NEW m \in voteRequests, RequestVote(m) PROVE TimerInv'
  BY <1>2, TimerVote
<1>3. ASSUME NEW r \in voteReplies, HandleVoteReply(r) PROVE TimerInv'
  BY <1>3, TimerReply
<1>4. ASSUME UNCHANGED <<raftState, currentTerm, voteFor, votes, elected>> PROVE TimerInv'
  <2>1. PICK i \in Server : TRUE
    BY ServerAssumption
  <2> QED BY <1>4, TimerQuiet
<1>5. ASSUME NEW i \in Server,
             \/ HeartBeat(i) \/ Commit(i) \/ Apply(i)
             \/ \E cmd \in Command : Start(i, cmd)
             \/ \E index \in SnapshotAt : Snapshot(i, index)
      PROVE  TimerInv'
  <2>1. UNCHANGED <<raftState, currentTerm, voteFor, votes, elected>>
    BY <1>5 DEF HeartBeat, Commit, Apply, Start, Snapshot, electionVars, persistVars,
                historyVars
  <2> QED BY <1>4, <2>1
<1>6. ASSUME NEW i \in Server, Restart(i) PROVE TimerInv'
  <2>1. /\ raftState' = [raftState EXCEPT ![i] = Follower]
        /\ currentTerm' = [currentTerm EXCEPT ![i] = disk[i].currentTerm]
        /\ voteFor' = [voteFor EXCEPT ![i] = disk[i].voteFor]
        /\ UNCHANGED <<votes, elected>>
    BY <1>6 DEF Restart, ReadPersist, historyVars
  <2>2. disk[i].currentTerm = currentTerm[i] /\ disk[i].voteFor = voteFor[i]
    <3>1. disk[i] = Persisted(i)
      BY DEF DiskInSync
    <3> QED BY <3>1 DEF Persisted
  <2>3. /\ raftState'[i] = Follower /\ voteFor'[i] = voteFor[i]
        /\ \A j \in Server : j # i =>
             /\ raftState'[j] = raftState[j] /\ voteFor'[j] = voteFor[j]
             /\ currentTerm'[j] = currentTerm[j]
    BY <2>1, <2>2 DEF TypeOK
  <2>4. Follower # Candidate
    BY DEF Follower, Candidate
  <2> QED BY <2>1, <2>3, <2>4, TimerQuiet
<1>7. ASSUME NEW m \in appendRequests, AppendEntries(m) PROVE TimerInv'
  <2>1. CASE ~Accepts(m.to, m)
    <3>1. UNCHANGED <<raftState, currentTerm, voteFor, votes, elected>>
      BY <1>7, <2>1 DEF AppendEntries, electionVars, persistVars, historyVars
    <3> QED BY <1>4, <3>1
  <2>2. CASE Accepts(m.to, m)
    <3>1. m.to \in Server /\ m.term \in Terms
      <4>1. m.to \in Server /\ <<m.term, m.from>> \in elected
        BY DEF TypeOK, AppendArgs, HintInv, CallersAreElected
      <4>2. <<m.term, m.from>>[1] = m.term
        OBVIOUS
      <4> QED BY <4>1, <4>2 DEF Terms
    <3>2. /\ raftState' = [raftState EXCEPT ![m.to] = Follower]
          /\ currentTerm' = [currentTerm EXCEPT ![m.to] = m.term]
          /\ voteFor' = [voteFor EXCEPT ![m.to] =
               IF m.term > currentTerm[m.to] \/ raftState[m.to] # Follower THEN None ELSE @]
          /\ UNCHANGED <<votes, elected>>
      BY <1>7, <2>2 DEF AppendEntries, historyVars
    <3>3. /\ raftState'[m.to] = Follower /\ currentTerm'[m.to] = m.term
          /\ \A j \in Server : j # m.to =>
               /\ raftState'[j] = raftState[j] /\ voteFor'[j] = voteFor[j]
               /\ currentTerm'[j] = currentTerm[j]
      BY <3>1, <3>2 DEF TypeOK
    <3>4. Follower # Candidate
      BY DEF Follower, Candidate
    <3> QED BY <3>1, <3>2, <3>3, <3>4, TimerQuiet
  <2> QED BY <2>1, <2>2
<1>8. ASSUME NEW m \in snapRequests, InstallSnapshot(m) PROVE TimerInv'
  <2>1. CASE ~Accepts(m.to, m)
    <3>1. UNCHANGED <<raftState, currentTerm, voteFor, votes, elected>>
      BY <1>8, <2>1 DEF InstallSnapshot, electionVars, persistVars, historyVars
    <3> QED BY <1>4, <3>1
  <2>2. CASE Accepts(m.to, m)
    <3>1. m.to \in Server /\ m.term \in Nat /\ currentTerm[m.to] \in Nat
      BY DEF TypeOK, SnapArgs
    <3>2. /\ raftState' = [raftState EXCEPT ![m.to] =
                             IF m.term > currentTerm[m.to] THEN Follower ELSE @]
          /\ currentTerm' = [currentTerm EXCEPT ![m.to] = m.term]
          /\ voteFor' = [voteFor EXCEPT ![m.to] =
                           IF m.term > currentTerm[m.to] THEN None ELSE @]
          /\ UNCHANGED <<votes, elected>>
      BY <1>8, <2>2 DEF InstallSnapshot, historyVars
    <3>3. /\ raftState'[m.to] = (IF m.term > currentTerm[m.to] THEN Follower
                                 ELSE raftState[m.to])
          /\ voteFor'[m.to] = (IF m.term > currentTerm[m.to] THEN None ELSE voteFor[m.to])
          /\ currentTerm'[m.to] = m.term
          /\ \A j \in Server : j # m.to =>
               /\ raftState'[j] = raftState[j] /\ voteFor'[j] = voteFor[j]
               /\ currentTerm'[j] = currentTerm[j]
      BY <3>1, <3>2 DEF TypeOK
    <3>4. Follower # Candidate
      BY DEF Follower, Candidate
    <3>5. m.term >= currentTerm[m.to]
      BY <2>2 DEF Accepts
    <3>6. /\ raftState'[m.to] = Candidate =>
               raftState[m.to] = Candidate /\ currentTerm'[m.to] = currentTerm[m.to]
          /\ currentTerm'[m.to] = currentTerm[m.to] => voteFor'[m.to] = voteFor[m.to]
      BY <3>1, <3>3, <3>4, <3>5
    <3> QED BY <3>1, <3>2, <3>3, <3>6, TimerQuiet
  <2> QED BY <2>1, <2>2
<1>9. ASSUME NEW r, \/ r \in appendReplies /\ HandleAppendReply(r)
                    \/ r \in snapReplies /\ HandleSnapReply(r)
      PROVE  TimerInv'
  <2>1. r.args.from \in Server
    BY <1>9 DEF TypeOK, AppendCall, SnapArgs
  <2>2. UNCHANGED <<votes, elected>>
    BY <1>9 DEF HandleAppendReply, HandleSnapReply, historyVars
  <2>3. CASE ReplyFromNewerTerm(r.args.from, r)
    BY <2>1, <2>2, <2>3, TimerStepDown DEF ReplyFromNewerTerm
  <2>4. CASE UNCHANGED <<raftState, persistVars>>
    BY <1>4, <2>2, <2>4 DEF persistVars
  <2> QED BY <1>9, <2>3, <2>4 DEF HandleAppendReply, HandleSnapReply
<1>10. CASE UNCHANGED vars
  BY <1>4, <1>10 DEF vars, electionVars, persistVars, historyVars
<1> QED BY <1>1, <1>2, <1>3, <1>5, <1>6, <1>7, <1>8, <1>9, <1>10 DEF Next

\* Candidates were timed, and a vote for oneself stays.
THEOREM TimerInvariant == Spec => []TimerInv
<1>1. Init => TimerInv
  <2> SUFFICES ASSUME Init PROVE TimerInv
    OBVIOUS
  <2>1. votes = {} /\ elected = {} /\ \A i \in Server : raftState[i] = Follower
    BY DEF Init
  <2>2. Follower # Candidate
    BY DEF Follower, Candidate
  <2> QED BY <2>1, <2>2 DEF TimerInv, CandidateIsTimed, SelfVoteStays, ElectedAreTimed
<1>2. TypeInv => TypeOK
  BY DEF TypeInv
<1>3. (/\ TypeInv /\ DiskInSync /\ HintInv /\ ElectInv /\ TimerInv /\ TypeInv'
       /\ [Next]_vars)
        => TimerInv'
  BY <1>2, TermStep, TimerNext DEF TypeInv
<1> QED BY <1>1, <1>3, TypeInvariant, DiskIsInSync, HintInvariant, ElectInvariant, PTL
        DEF Spec

\* At most one peer's timer fires into each term.
OneTimer == \A t \in 1 .. MaxTerm : \A a, b \in Candidates[t] : a = b

\* As long as two timers never fire into the same term, a term has one leader:
\* the votes that becomeLeader and AppendEntries forget do no harm.
THEOREM OneCandidateOneLeader ==
  ASSUME OneTimer
  PROVE  Spec => []ElectionSafety
<1>1. TimerInv => ElectionSafety
  BY DEF OneTimer, TimerInv, ElectedAreTimed, ElectionSafety
<1> QED BY <1>1, TimerInvariant, PTL

\* Of two candidates of a term neither votes for the other.
NoCrossVote ==
  \A a, b \in Server : \A t \in Nat :
    a # b /\ <<t, a, a>> \in votes /\ <<t, b, b>> \in votes => <<t, a, b>> \notin votes

\* With two peers, a leader was elected by both.
LEMMA AllVote ==
  ASSUME LeaderHasQuorum, Cardinality(Server) <= 2, NEW e \in elected
  PROVE  VotersFor(e[1], e[2]) = Server
<1> DEFINE Q == VotersFor(e[1], e[2])
<1>1. Q \in SUBSET Server
  BY DEF VotersFor
<1>2. 2 * Cardinality(Q) > Cardinality(Server)
  BY DEF LeaderHasQuorum
<1> HIDE DEF Q
<1>3. /\ Cardinality(Q) <= Cardinality(Server) /\ IsFiniteSet(Q)
      /\ Cardinality(Server) = Cardinality(Q) => Server = Q
  BY <1>1, ServerAssumption, FS_Subset
<1>4. Cardinality(Q) \in Nat /\ Cardinality(Server) \in Nat
  BY <1>3, ServerAssumption, FS_CardinalityType
<1>5. Cardinality(Q) = Cardinality(Server)
  BY <1>2, <1>3, <1>4
<1> QED BY <1>3, <1>5 DEF Q

\* With two peers, a term of two candidates has no leader.
LEMMA NoLeaderOfRivals ==
  ASSUME TypeOK, LeaderHasQuorum, Cardinality(Server) <= 2, NoCrossVote,
         NEW a \in Server, NEW b \in Server, a # b, NEW t \in Nat,
         <<t, a, a>> \in votes, <<t, b, b>> \in votes
  PROVE  t \notin Terms
<1> SUFFICES ASSUME t \in Terms PROVE FALSE
  OBVIOUS
<1>1. PICK e \in elected : e[1] = t
  BY DEF Terms
<1>2. PICK c \in Server : c = e[2]
  BY DEF TypeOK
<1>3. VotersFor(t, c) = Server
  BY <1>1, <1>2, AllVote
<1>4. \A v \in Server : <<t, v, c>> \in votes
  BY <1>3 DEF VotersFor
<1>5. CASE c # a
  BY <1>4, <1>5 DEF NoCrossVote
<1>6. CASE c = a
  BY <1>4, <1>6 DEF NoCrossVote
<1> QED BY <1>5, <1>6

\* A vote does not cross another, since the voter still has its own.
LEMMA NoCrossVoteStep ==
  ASSUME TypeOK, LeaderHasQuorum, Cardinality(Server) <= 2, ElectInv, TimerInv,
         NoCrossVote, NEW m \in voteRequests, RequestVote(m)
  PROVE  NoCrossVote'
<1>1. PICK i \in Server, t \in Nat, c \in Server : i = m.to /\ t = m.term /\ c = m.from /\ c # i
  <2>1. /\ m.to \in Server /\ m.term \in Nat /\ m.from \in Server /\ m.from # m.to
    BY DEF TypeOK, VoteArgs, ElectInv, VoteCallOK
  <2> QED BY <2>1
<1>2. votes' = (IF GrantsVote(i, m) THEN votes \cup {<<t, i, c>>} ELSE votes)
  BY <1>1 DEF RequestVote
<1>3. CASE ~GrantsVote(i, m)
  BY <1>2, <1>3 DEF NoCrossVote
<1>4. CASE GrantsVote(i, m)
  <2> SUFFICES ASSUME NEW a \in Server, NEW b \in Server, NEW u \in Nat, a # b,
                      <<u, a, a>> \in votes', <<u, b, b>> \in votes', <<u, a, b>> \in votes'
               PROVE  FALSE
    BY DEF NoCrossVote
  <2>1. \A d, w : <<w, d, d>> # <<t, i, c>>
    BY <1>1
  <2>2. <<u, a, a>> \in votes /\ <<u, b, b>> \in votes
    BY <1>2, <1>4, <2>1
  <2>3. <<u, a, b>> = <<t, i, c>>
    BY <1>2, <1>4, <2>2 DEF NoCrossVote
  <2>4. u = t /\ a = i /\ b = c
    BY <2>3
  <2>5. t \notin Terms
    BY <1>1, <2>2, <2>4, NoLeaderOfRivals
  <2>6. currentTerm[i] \in Nat /\ t >= currentTerm[i] /\ t <= currentTerm[i]
    <3>1. ASSUME NEW x \in votes, x[1] = t, x[2] = i PROVE t <= currentTerm[i]
      BY <3>1 DEF ElectInv, VotesArePast
    <3>2. <<t, i, i>>[1] = t /\ <<t, i, i>>[2] = i
      OBVIOUS
    <3> QED BY <1>1, <1>4, <2>2, <2>4, <3>1, <3>2 DEF GrantsVote, TypeOK
  <2>7. t = currentTerm[i]
    BY <1>1, <2>6
  <2>8. voteFor[i] = i
    BY <2>2, <2>4, <2>5, <2>7 DEF TimerInv, SelfVoteStays
  <2>9. ~(m.term > currentTerm[i])
    BY <1>1, <2>6, <2>7
  <2> QED BY <1>1, <1>4, <2>8, <2>9, NoneAssumption DEF GrantsVote
<1> QED BY <1>3, <1>4

\* Every action keeps it.
LEMMA NoCrossVoteNext ==
  ASSUME TypeOK, LeaderHasQuorum, Cardinality(Server) <= 2, ElectInv, TimerInv,
         NoCrossVote, [Next]_vars
  PROVE  NoCrossVote'
<1>1. ASSUME UNCHANGED votes PROVE NoCrossVote'
  BY <1>1 DEF NoCrossVote
<1>2. ASSUME NEW m \in voteRequests, RequestVote(m) PROVE NoCrossVote'
  BY <1>2, NoCrossVoteStep
<1>3. ASSUME NEW i \in Server, StartAElection(i) PROVE NoCrossVote'
  <2>1. PICK t \in Nat : t = currentTerm[i] + 1 /\ currentTerm[i] \in Nat
    <3>1. currentTerm[i] \in Nat
      BY DEF TypeOK
    <3> QED BY <3>1
  <2>2. votes' = votes \cup {<<t, i, i>>}
    BY <1>3, <2>1 DEF StartAElection
  <2>3. ASSUME NEW x \in votes, x[1] = t PROVE x[2] # i /\ x[3] # i
    <3>1. x[1] <= currentTerm[x[2]] /\ x[1] <= currentTerm[x[3]]
      BY DEF ElectInv, VotesArePast
    <3> QED BY <2>1, <2>3, <3>1
  <2> SUFFICES ASSUME NEW a \in Server, NEW b \in Server, NEW u \in Nat, a # b,
                      <<u, a, a>> \in votes', <<u, b, b>> \in votes', <<u, a, b>> \in votes'
               PROVE  FALSE
    BY DEF NoCrossVote
  <2>4. <<u, a, b>> \in votes
    <3>1. <<u, a, b>> # <<t, i, i>>
      OBVIOUS
    <3> QED BY <2>2, <3>1
  <2>5. u = t => a # i /\ b # i
    <3> DEFINE x == <<u, a, b>>
    <3>1. x[1] = u /\ x[2] = a /\ x[3] = b
      OBVIOUS
    <3> HIDE DEF x
    <3>2. x \in votes
      BY <2>4 DEF x
    <3> QED BY <2>3, <3>1, <3>2
  <2>6. <<u, a, a>> # <<t, i, i>> /\ <<u, b, b>> # <<t, i, i>>
    BY <2>5
  <2>7. <<u, a, a>> \in votes /\ <<u, b, b>> \in votes
    BY <2>2, <2>6
  <2> QED BY <2>4, <2>7 DEF NoCrossVote
<1>4. ASSUME NEW i \in Server,
             \/ HeartBeat(i) \/ Commit(i) \/ Apply(i) \/ Restart(i)
             \/ \E cmd \in Command : Start(i, cmd)
             \/ \E index \in SnapshotAt : Snapshot(i, index)
      PROVE  NoCrossVote'
  <2>1. UNCHANGED votes
    BY <1>4 DEF HeartBeat, Commit, Apply, Restart, Start, Snapshot, historyVars
  <2> QED BY <1>1, <2>1
<1>5. ASSUME \/ \E m \in appendRequests : AppendEntries(m)
             \/ \E m \in snapRequests : InstallSnapshot(m)
             \/ \E r \in voteReplies : HandleVoteReply(r)
             \/ \E r \in appendReplies : HandleAppendReply(r)
             \/ \E r \in snapReplies : HandleSnapReply(r)
             \/ UNCHANGED vars
      PROVE  NoCrossVote'
  <2>1. UNCHANGED votes
    BY <1>5 DEF AppendEntries, InstallSnapshot, HandleVoteReply, HandleAppendReply,
                HandleSnapReply, vars, historyVars
  <2> QED BY <1>1, <2>1
<1> QED BY <1>2, <1>3, <1>4, <1>5 DEF Next

\* With two peers a term has one leader, however many timers fire, messages are
\* repeated and peers restart: ElectionSafety needs a third peer to fail.
THEOREM TwoPeersOneLeader ==
  ASSUME Cardinality(Server) <= 2
  PROVE  Spec => []ElectionSafety
<1>1. Init => NoCrossVote
  BY DEF Init, NoCrossVote
<1>2. TypeInv => TypeOK
  BY DEF TypeInv
<1>3. TypeInv /\ LeaderHasQuorum /\ ElectInv /\ TimerInv /\ NoCrossVote /\ [Next]_vars
        => NoCrossVote'
  BY <1>2, NoCrossVoteNext
<1>4. TypeInv /\ LeaderHasQuorum /\ NoCrossVote => ElectionSafety
  <2> SUFFICES ASSUME TypeOK, LeaderHasQuorum, NoCrossVote,
                      NEW e \in elected, NEW f \in elected, e[1] = f[1], e[2] # f[2]
               PROVE  FALSE
    BY <1>2 DEF ElectionSafety
  <2>1. e[1] \in Nat /\ e[2] \in Server /\ f[2] \in Server
    BY DEF TypeOK
  <2>2. VotersFor(e[1], e[2]) = Server /\ VotersFor(e[1], f[2]) = Server
    BY AllVote
  <2>3. /\ <<e[1], e[2], e[2]>> \in votes /\ <<e[1], f[2], f[2]>> \in votes
        /\ <<e[1], e[2], f[2]>> \in votes
    BY <2>1, <2>2 DEF VotersFor
  <2> QED BY <2>1, <2>3 DEF NoCrossVote
<1> QED BY <1>1, <1>3, <1>4, TypeInvariant, LeadersHaveQuorums, ElectInvariant,
           TimerInvariant, PTL DEF Spec
=============================================================================
