---------------------------- MODULE ShardProofs -----------------------------
(***************************************************************************)
(* Proofs about module ShardKv, for every set of groups, controllers and   *)
(* clients: at most one group serves a shard, no group meets a state its   *)
(* server takes for impossible, whoever serves the key's shard has its     *)
(* last write, the sharded store implements one atomic versioned register, *)
(* and every configuration is balanced.  The first part is about the       *)
(* configurations that Join and Leave make, the last about how they spread *)
(* the shards.                                                             *)
(***************************************************************************)
EXTENDS ShardKv, FiniteSetTheorems, WellFoundedInduction, TLAPS

InOrder == [i \in 1 .. NShards |-> i - 1]

\* A set of natural numbers that is not empty has a least element.
LEMMA LeastNumber ==
  ASSUME NEW T \in SUBSET Nat, T # {}
  PROVE  \E x \in T : \A y \in T : x <= y
<1> DEFINE R == {ss \in Nat \X Nat : ss[1] < ss[2]}
<1>1. IsWellFoundedOn(R, Nat)
  BY NatLessThanWellFounded DEF OpToRel
<1>2. \A x, y \in Nat : <<y, x>> \in R <=> y < x
  OBVIOUS
<1> HIDE DEF R
<1>3. PICK x \in T : \A y \in T : ~ (<<y, x>> \in R)
  BY <1>1, WFMin
<1>4. \A y \in T : ~ (y < x)
  BY <1>2, <1>3
<1> QED BY <1>4

\* Induction up to a bound, for a set.
LEMMA UpTo ==
  ASSUME NEW n \in Nat, NEW P, 0 \in P, \A k \in 0 .. n - 1 : k \in P => k + 1 \in P
  PROVE  \A k \in 0 .. n : k \in P
<1> DEFINE T == {k \in 0 .. n : k \notin P}
<1>1. SUFFICES ASSUME T # {} PROVE FALSE
  OBVIOUS
<1>2. PICK k \in T : \A j \in T : k <= j
  <2>1. T \in SUBSET Nat
    OBVIOUS
  <2> HIDE DEF T
  <2> QED BY <1>1, <2>1, LeastNumber
<1>3. k # 0 /\ k - 1 \in 0 .. n - 1
  BY <1>2
<1>4. k - 1 \notin T
  BY <1>2, <1>3
<1>5. k - 1 \in P
  BY <1>3, <1>4
<1>6. (k - 1) + 1 = k
  BY <1>2
<1> QED BY <1>2, <1>3, <1>5, <1>6

\* The largest element of a set of numbers up to k + 1 that contains k + 1.
LEMMA MaxLast ==
  ASSUME NEW k \in Nat, NEW s \in SUBSET (1 .. k + 1), k + 1 \in s
  PROVE  Max(s) = k + 1 /\ s \ {k + 1} \in SUBSET (1 .. k)
<1>1. \A x \in s : k + 1 >= x
  OBVIOUS
<1>2. \A y \in s : (\A x \in s : y >= x) => y = k + 1
  OBVIOUS
<1>3. Max(s) = k + 1
  BY <1>1, <1>2 DEF Max
<1>4. s \ {k + 1} \in SUBSET (1 .. k)
  OBVIOUS
<1> QED BY <1>3, <1>4

\* A set of positive numbers up to n has its maximum as an element.
LEMMA MaxUpTo ==
  ASSUME NEW n \in Nat, NEW s \in SUBSET (1 .. n), s # {}
  PROVE  Max(s) \in s
<1> DEFINE T == {n - x : x \in s}
<1>0. \A x \in s : n - x \in Nat /\ x \in Nat
  OBVIOUS
<1>1. T \in SUBSET Nat /\ T # {}
  BY <1>0
<1>2. PICK d \in T : \A e \in T : d <= e
  <2> HIDE DEF T
  <2> QED BY <1>1, LeastNumber
<1>3. PICK x \in s : d = n - x
  BY <1>2
<1>4. \A y \in s : n - x <= n - y
  BY <1>2, <1>3
<1>5. \A y \in s : x >= y
  BY <1>0, <1>3, <1>4
<1> QED BY <1>5 DEF Max

\* f is the fold of G over subsets of 1 .. n, from their least element on.
IsFold(f, n, base, G) ==
  f = [s \in SUBSET (1 .. n) |->
         IF s = {} THEN base ELSE G[<<f[s \ {Max(s)}], Max(s)>>]]

\* A fold from the left over the numbers 1 .. n, as SequencesExt defines it: the
\* function that it calls iter exists.
LEMMA FoldExists ==
  ASSUME NEW n \in Nat, NEW X, NEW base \in X, NEW G \in [X \X (1 .. n) -> X]
  PROVE  \E f \in [SUBSET (1 .. n) -> X] : IsFold(f, n, base, G)
<1> USE DEF IsFold
<1> DEFINE Eq(f, k) == IsFold(f, k, base, G)
           P == {k \in 0 .. n : \E f \in [SUBSET (1 .. k) -> X] : Eq(f, k)}
<1>1. 0 \in P
  <2>1. SUBSET (1 .. 0) = {{}}
    OBVIOUS
  <2>2. LET f == [s \in SUBSET (1 .. 0) |-> base]
        IN  f \in [SUBSET (1 .. 0) -> X] /\ Eq(f, 0)
    BY <2>1
  <2> QED BY <2>2
<1>2. ASSUME NEW k \in 0 .. n - 1, k \in P PROVE k + 1 \in P
  <2>1. PICK f \in [SUBSET (1 .. k) -> X] : Eq(f, k)
    BY <1>2
  <2> DEFINE g == [s \in SUBSET (1 .. k + 1) |->
                     IF k + 1 \in s THEN G[<<f[s \ {k + 1}], k + 1>>] ELSE f[s]]
  <2>2. \A s \in SUBSET (1 .. k + 1) : k + 1 \notin s => s \in SUBSET (1 .. k)
    OBVIOUS
  <2>3. g \in [SUBSET (1 .. k + 1) -> X]
    <3>1. ASSUME NEW s \in SUBSET (1 .. k + 1), k + 1 \in s
          PROVE  G[<<f[s \ {k + 1}], k + 1>>] \in X
      <4>1. f[s \ {k + 1}] \in X
        BY <3>1, MaxLast
      <4> QED BY <4>1
    <3> QED BY <2>2, <3>1
  <2>4. ASSUME NEW s \in SUBSET (1 .. k)
        PROVE  g[s] = f[s] /\ s \in SUBSET (1 .. k + 1)
    OBVIOUS
  <2>5. ASSUME NEW s \in SUBSET (1 .. k + 1)
        PROVE  g[s] = IF s = {} THEN base ELSE G[<<g[s \ {Max(s)}], Max(s)>>]
    <3>1. CASE k + 1 \in s
      <4>1. Max(s) = k + 1 /\ s \ {k + 1} \in SUBSET (1 .. k)
        BY <3>1, MaxLast
      <4>2. g[s \ {k + 1}] = f[s \ {k + 1}]
        BY <4>1, <2>4
      <4> QED BY <3>1, <4>1, <4>2
    <3>2. CASE k + 1 \notin s
      <4>1. s \in SUBSET (1 .. k) /\ s \ {Max(s)} \in SUBSET (1 .. k)
        BY <3>2, <2>2
      <4>2. f[s] = IF s = {} THEN base ELSE G[<<f[s \ {Max(s)}], Max(s)>>]
        BY <2>1, <4>1
      <4> HIDE DEF g
      <4> QED BY <4>1, <4>2, <2>4
    <3> QED BY <3>1, <3>2
  <2>6. Eq(g, k + 1)
    <3>1. g = [s \in SUBSET (1 .. k + 1) |-> g[s]]
      OBVIOUS
    <3> HIDE DEF g
    <3> QED BY <2>5, <3>1
  <2> HIDE DEF g, Eq
  <2>7. k + 1 \in 0 .. n
    OBVIOUS
  <2> QED BY <2>3, <2>6, <2>7
<1> HIDE DEF P
<1>3. \A k \in 0 .. n : k \in P
  BY <1>1, <1>2, UpTo
<1>4. n \in P
  BY <1>3
<1> QED BY <1>4 DEF P


OfGroups(gs, n) == {c \in Config : c.groups = gs /\ c.num = n}

\* The configurations of gs that give every shard to a group of gs.
Complete(gs, n) == {c \in OfGroups(gs, n) : \A s \in Shard : c.shards[s] \in gs}

\* Counts gives each group a natural number.
LEMMA CountsType ==
  ASSUME NEW c \in Config
  PROVE  Counts(c) \in [c.groups -> Nat]
<1>1. IsFiniteSet(Shard)
  BY NShardsAssumption, FS_Interval DEF Shard
<1>2. \A g \in c.groups : Cardinality({s \in Shard : c.shards[s] = g}) \in Nat
  <2> TAKE g \in c.groups
  <2>1. {s \in Shard : c.shards[s] = g} \in SUBSET Shard
    OBVIOUS
  <2> QED BY <1>1, <2>1, FS_Subset, FS_CardinalityType
<1> QED BY <1>2 DEF Counts

\* The group with the fewest shards has the fewest shards.
LEMMA LeastIs ==
  ASSUME NEW gs \in SUBSET Nat, gs # {}, NEW n \in [gs -> Nat]
  PROVE  Least(n) \in gs /\ \A h \in gs : n[Least(n)] <= n[h]
<1> DEFINE V == {n[g] : g \in gs}
           L == {g \in DOMAIN n : \A h \in DOMAIN n : n[h] >= n[g]}
<1>1. PICK v \in V : \A w \in V : v <= w
  <2>1. V \in SUBSET Nat /\ V # {}
    OBVIOUS
  <2> HIDE DEF V
  <2> QED BY <2>1, LeastNumber
<1>2. PICK g \in gs : n[g] = v
  BY <1>1
<1>3. g \in L
  BY <1>1, <1>2
<1>4. L \in SUBSET Nat
  OBVIOUS
<1>5. Min(L) \in L
  <2> HIDE DEF L
  <2>1. PICK x \in L : \A y \in L : x <= y
    BY <1>3, <1>4, LeastNumber
  <2> QED BY <2>1 DEF Min
<1>6. ASSUME NEW l \in L PROVE l \in gs /\ \A h \in gs : n[l] <= n[h]
  OBVIOUS
<1> HIDE DEF L
<1> QED BY <1>5, <1>6 DEF Least, L

\* Giving an orphaned shard to a group keeps the type of the assignment.
LEMMA AssignType ==
  ASSUME NEW gs \in SUBSET Gid, gs # {}, NEW n, NEW c \in OfGroups(gs, n),
         NEW s \in Shard
  PROVE  /\ AssignIfLost(c, s) \in OfGroups(gs, n)
         /\ AssignIfLost(c, s).shards[s] \in gs
         /\ \A t \in Shard : c.shards[t] \in gs => AssignIfLost(c, s).shards[t] \in gs
<1>1. Least(Counts(c)) \in gs
  BY CountsType, LeastIs, GidAssumption DEF OfGroups
<1> DEFINE l == Least(Counts(c))
<1> HIDE DEF l
<1>2. /\ Assign(c, s, l) \in OfGroups(gs, n)
      /\ Assign(c, s, l).shards = [c.shards EXCEPT ![s] = l]
  BY <1>1 DEF Assign, OfGroups, Config, l
<1>3. c.shards \in [Shard -> Gid \cup {0}] /\ c.groups = gs
  BY DEF OfGroups, Config
<1> QED BY <1>1, <1>2, <1>3 DEF AssignIfLost, l

\* Moving one shard from the fullest group keeps the type of the assignment.
LEMMA MoveOneType ==
  ASSUME NEW gs \in SUBSET Gid, gs # {}, NEW n, NEW c \in Complete(gs, n)
  PROVE  MoveOne(c) \in Complete(gs, n)
<1> DEFINE l == Least(Counts(c))
           s == Min({s \in Shard : c.shards[s] = Most(Counts(c))})
<1>1. l \in gs
  BY CountsType, LeastIs, GidAssumption DEF OfGroups, Complete
<1> HIDE DEF l, s
<1>2. Assign(c, s, l) \in Complete(gs, n)
  BY <1>1 DEF Assign, OfGroups, Complete, Config
<1>3. MoveOne(c) \in {c, Assign(c, s, l)}
  BY DEF MoveOne, l, s
<1> QED BY <1>2, <1>3

\* The first loop of Rebalance, turn by turn: f[k] is what its first k turns
\* make of c.
IsAssigning(f, c) ==
  f[0] = c /\ \A k \in 0 .. NShards - 1 : f[k + 1] = AssignIfLost(f[k], k)

LEMMA AssignSteps ==
  ASSUME NEW gs \in SUBSET Gid, gs # {}, NEW n, NEW c \in OfGroups(gs, n)
  PROVE  \E f : IsAssigning(f, c) /\ FoldLeft(AssignIfLost, c, InOrder) = f[NShards]
<1> DEFINE Eq(f) == f = [s \in SUBSET (1 .. NShards) |->
                           IF s = {} THEN c
                           ELSE AssignIfLost(f[s \ {Max(s)}], InOrder[Max(s)])]
           it == CHOOSE f : Eq(f)
           X == OfGroups(gs, n)
           G == [p \in X \X (1 .. NShards) |-> AssignIfLost(p[1], InOrder[p[2]])]
<1>0. NShards \in Nat
  BY NShardsAssumption
<1>1. DOMAIN InOrder = 1 .. NShards /\ \A i \in 1 .. NShards : InOrder[i] \in Shard
  BY NShardsAssumption DEF InOrder, Shard
<1>2. FoldLeft(AssignIfLost, c, InOrder) = it[1 .. NShards]
  BY <1>1 DEF FoldLeft, MapThenFoldSet
<1>3. G \in [X \X (1 .. NShards) -> X]
  BY <1>1, AssignType
<1>4. PICK f \in [SUBSET (1 .. NShards) -> X] : IsFold(f, NShards, c, G)
  <2>1. c \in X
    OBVIOUS
  <2> HIDE DEF G, X
  <2> QED BY <1>0, <1>3, <2>1, FoldExists
<1>5. ASSUME NEW s \in SUBSET (1 .. NShards), s # {}
      PROVE  Max(s) \in s
  BY <1>0, <1>5, MaxUpTo
<1>6. Eq(f)
  <2>1. ASSUME NEW s \in SUBSET (1 .. NShards)
        PROVE  f[s] = IF s = {} THEN c
                      ELSE AssignIfLost(f[s \ {Max(s)}], InOrder[Max(s)])
    <3>1. CASE s = {}
      BY <1>4, <3>1 DEF IsFold
    <3>2. CASE s # {}
      <4>1. Max(s) \in 1 .. NShards /\ f[s \ {Max(s)}] \in X
        BY <1>4, <1>5, <3>2
      <4>2. f[s] = G[<<f[s \ {Max(s)}], Max(s)>>]
        BY <1>4, <3>2 DEF IsFold
      <4> HIDE DEF X
      <4> QED BY <3>2, <4>1, <4>2
    <3> QED BY <3>1, <3>2
  <2> QED BY <1>4, <2>1 DEF IsFold
<1>7. Eq(it)
  <2> HIDE DEF Eq
  <2> QED BY <1>6
<1> HIDE DEF it
<1> DEFINE h == [k \in 0 .. NShards |-> it[1 .. k]]
<1>8. h[0] = c
  <2>1. 1 .. 0 = {} /\ it[{}] = c
    BY <1>7
  <2> QED BY <1>0, <2>1
<1>9. ASSUME NEW k \in 0 .. NShards - 1 PROVE h[k + 1] = AssignIfLost(h[k], k)
  <2>1. /\ 1 .. k + 1 \in SUBSET (1 .. k + 1) /\ k + 1 \in 1 .. k + 1
        /\ (1 .. k + 1) \ {k + 1} = 1 .. k
    BY <1>0
  <2>2. Max(1 .. k + 1) = k + 1
    BY <2>1, MaxLast
  <2>3. 1 .. k + 1 \in SUBSET (1 .. NShards) /\ 1 .. k + 1 # {}
    BY <1>0, <2>1
  <2>4. it[1 .. k + 1] = AssignIfLost(it[1 .. k], InOrder[k + 1])
    BY <1>7, <2>1, <2>2, <2>3
  <2>5. InOrder[k + 1] = k /\ k \in 0 .. NShards /\ k + 1 \in 0 .. NShards
    BY <1>0 DEF InOrder
  <2> QED BY <2>4, <2>5
<1>10. IsAssigning(h, c)
  <2> HIDE DEF h
  <2> QED BY <1>8, <1>9 DEF IsAssigning
<1>11. h[NShards] = it[1 .. NShards]
  BY <1>0
<1> QED BY <1>2, <1>10, <1>11

\* The second loop, likewise.
IsMoving(f, c) == f[0] = c /\ \A k \in 0 .. NShards - 1 : f[k + 1] = MoveOne(f[k])

LEMMA MoveSteps ==
  ASSUME NEW gs \in SUBSET Gid, gs # {}, NEW n, NEW c \in Complete(gs, n)
  PROVE  \E f : /\ IsMoving(f, c)
                /\ FoldLeft(LAMBDA d, s : MoveOne(d), c, InOrder) = f[NShards]
<1> DEFINE Eq(f) == f = [s \in SUBSET (1 .. NShards) |->
                           IF s = {} THEN c ELSE MoveOne(f[s \ {Max(s)}])]
           it == CHOOSE f : Eq(f)
           X == Complete(gs, n)
           G == [p \in X \X (1 .. NShards) |-> MoveOne(p[1])]
<1>0. NShards \in Nat
  BY NShardsAssumption
<1>1. DOMAIN InOrder = 1 .. NShards
  BY DEF InOrder
<1>2. FoldLeft(LAMBDA d, s : MoveOne(d), c, InOrder) = it[1 .. NShards]
  BY <1>1 DEF FoldLeft, MapThenFoldSet
<1>3. G \in [X \X (1 .. NShards) -> X]
  BY MoveOneType
<1>4. PICK f \in [SUBSET (1 .. NShards) -> X] : IsFold(f, NShards, c, G)
  <2>1. c \in X
    OBVIOUS
  <2> HIDE DEF G, X
  <2> QED BY <1>0, <1>3, <2>1, FoldExists
<1>5. Eq(f)
  <2>1. ASSUME NEW s \in SUBSET (1 .. NShards), s # {}
        PROVE  f[s] = MoveOne(f[s \ {Max(s)}])
    <3>1. Max(s) \in 1 .. NShards /\ f[s \ {Max(s)}] \in X
      BY <1>0, <1>4, <2>1, MaxUpTo
    <3>2. f[s] = G[<<f[s \ {Max(s)}], Max(s)>>]
      BY <1>4, <2>1 DEF IsFold
    <3> HIDE DEF X
    <3> QED BY <3>1, <3>2
  <2>2. f[{}] = c
    BY <1>4 DEF IsFold
  <2>3. f = [s \in SUBSET (1 .. NShards) |-> f[s]]
    BY <1>4
  <2> QED BY <2>1, <2>2, <2>3
<1>6. Eq(it)
  <2> HIDE DEF Eq
  <2> QED BY <1>5
<1> HIDE DEF it
<1> DEFINE h == [k \in 0 .. NShards |-> it[1 .. k]]
<1>7. h[0] = c
  <2>1. 1 .. 0 = {} /\ it[{}] = c
    BY <1>6
  <2> QED BY <1>0, <2>1
<1>8. ASSUME NEW k \in 0 .. NShards - 1 PROVE h[k + 1] = MoveOne(h[k])
  <2>1. /\ 1 .. k + 1 \in SUBSET (1 .. k + 1) /\ k + 1 \in 1 .. k + 1
        /\ (1 .. k + 1) \ {k + 1} = 1 .. k
    BY <1>0
  <2>2. Max(1 .. k + 1) = k + 1
    BY <2>1, MaxLast
  <2>3. 1 .. k + 1 \in SUBSET (1 .. NShards) /\ 1 .. k + 1 # {}
    BY <1>0, <2>1
  <2>4. it[1 .. k + 1] = MoveOne(it[1 .. k])
    BY <1>6, <2>1, <2>2, <2>3
  <2>5. k \in 0 .. NShards /\ k + 1 \in 0 .. NShards
    BY <1>0
  <2> QED BY <2>4, <2>5
<1>9. IsMoving(h, c)
  <2> HIDE DEF h
  <2> QED BY <1>7, <1>8 DEF IsMoving
<1>10. h[NShards] = it[1 .. NShards]
  BY <1>0
<1> QED BY <1>2, <1>9, <1>10

\* After the first loop of Rebalance every shard has a group.
LEMMA AssignAll ==
  ASSUME NEW gs \in SUBSET Gid, gs # {}, NEW n, NEW c \in OfGroups(gs, n)
  PROVE  FoldLeft(AssignIfLost, c, InOrder) \in Complete(gs, n)
<1>0. NShards \in Nat
  BY NShardsAssumption
<1>1. PICK f : IsAssigning(f, c) /\ FoldLeft(AssignIfLost, c, InOrder) = f[NShards]
  BY AssignSteps
<1> DEFINE Q == {k \in 0 .. NShards :
                   /\ f[k] \in OfGroups(gs, n)
                   /\ \A s \in Shard : s < k => f[k].shards[s] \in gs}
<1>2. 0 \in Q
  BY <1>0, <1>1 DEF IsAssigning, Shard
<1>3. ASSUME NEW k \in 0 .. NShards - 1, k \in Q PROVE k + 1 \in Q
  <2>1. f[k + 1] = AssignIfLost(f[k], k)
    BY <1>1 DEF IsAssigning
  <2>2. PICK d \in OfGroups(gs, n) : d = f[k] /\ \A s \in Shard : s < k => d.shards[s] \in gs
    BY <1>3
  <2>3. k \in Shard /\ k + 1 \in 0 .. NShards
        /\ \A s \in Shard : s < k + 1 => s < k \/ s = k
    BY <1>0 DEF Shard
  <2>4. /\ AssignIfLost(d, k) \in OfGroups(gs, n)
        /\ AssignIfLost(d, k).shards[k] \in gs
        /\ \A t \in Shard : d.shards[t] \in gs => AssignIfLost(d, k).shards[t] \in gs
    BY <2>3, AssignType
  <2> QED BY <2>1, <2>2, <2>3, <2>4
<1>4. NShards \in Q
  <2> HIDE DEF Q
  <2>1. \A k \in 0 .. NShards : k \in Q
    BY <1>0, <1>2, <1>3, UpTo
  <2> QED BY <1>0, <2>1
<1>5. \A s \in Shard : s < NShards
  BY <1>0 DEF Shard
<1> QED BY <1>1, <1>4, <1>5 DEF Complete

\* The loop that moves shards keeps every shard in a group of gs.
LEMMA MoveAll ==
  ASSUME NEW gs \in SUBSET Gid, gs # {}, NEW n, NEW c \in Complete(gs, n)
  PROVE  FoldLeft(LAMBDA d, s : MoveOne(d), c, InOrder) \in Complete(gs, n)
<1>0. NShards \in Nat
  BY NShardsAssumption
<1>1. PICK f : /\ IsMoving(f, c)
               /\ FoldLeft(LAMBDA d, s : MoveOne(d), c, InOrder) = f[NShards]
  BY MoveSteps
<1> DEFINE Q == {k \in 0 .. NShards : f[k] \in Complete(gs, n)}
<1>2. f[0] = c /\ \A k \in 0 .. NShards - 1 : f[k + 1] = MoveOne(f[k])
  <2>1. IsMoving(f, c)
    BY <1>1
  <2> QED BY <2>1 DEF IsMoving
<1>3. 0 \in Q
  BY <1>0, <1>2
<1>4. ASSUME NEW k \in 0 .. NShards - 1, k \in Q PROVE k + 1 \in Q
  <2>1. f[k + 1] = MoveOne(f[k]) /\ k + 1 \in 0 .. NShards
    BY <1>0, <1>2
  <2> QED BY <1>4, <2>1, MoveOneType
<1>5. NShards \in Q
  <2> HIDE DEF Q
  <2>1. \A k \in 0 .. NShards : k \in Q
    BY <1>0, <1>3, <1>4, UpTo
  <2> QED BY <1>0, <2>1
<1> QED BY <1>1, <1>5

\* rebalance: every shard gets a group, and Num and Groups stay.
LEMMA RebalanceType ==
  ASSUME NEW gs \in SUBSET Gid, gs # {}, NEW n, NEW c \in OfGroups(gs, n)
  PROVE  Rebalance(c) \in Complete(gs, n)
<1>1. c.groups # {}
  BY DEF OfGroups
<1>2. Rebalance(c) = FoldLeft(LAMBDA d, s : MoveOne(d),
                              FoldLeft(AssignIfLost, c, InOrder), InOrder)
  BY <1>1 DEF Rebalance, InOrder
<1> QED BY <1>2, AssignAll, MoveAll

\* Join and Leave, as long as a group is left.
LEMMA JoinType ==
  ASSUME NEW c \in Config, NEW g \in Gid
  PROVE  JoinBalance(c, {g}) \in Complete(c.groups \cup {g}, c.num + 1)
<1> DEFINE d == [c EXCEPT !.groups = @ \cup {g}, !.num = @ + 1]
<1>1. d \in OfGroups(c.groups \cup {g}, c.num + 1) /\ c.groups \cup {g} \in SUBSET Gid
  <2>1. /\ c.num \in Nat /\ c.num + 1 \in Nat /\ c.groups \cup {g} \in SUBSET Gid
        /\ c.shards \in [Shard -> Gid \cup {0}]
    BY DEF Config
  <2>2. \A m \in Nat, gs \in SUBSET Gid :
          LET e == [c EXCEPT !.groups = gs, !.num = m]
          IN  e \in Config /\ e.groups = gs /\ e.num = m
    BY DEF Config
  <2>3. d \in Config /\ d.groups = c.groups \cup {g} /\ d.num = c.num + 1
    BY <2>1, <2>2
  <2> QED BY <2>1, <2>3 DEF OfGroups
<1> HIDE DEF d
<1>2. Rebalance(d) \in Complete(c.groups \cup {g}, c.num + 1)
  BY <1>1, RebalanceType
<1> QED BY <1>2 DEF JoinBalance, d

\* What Leave returns: the next Num, the groups that stay, every shard placed.
LEMMA LeaveType ==
  ASSUME NEW c \in Config, NEW g \in Gid, c.groups \ {g} # {}
  PROVE  LeaveBalance(c, {g}) \in Complete(c.groups \ {g}, c.num + 1)
<1> DEFINE d == [c EXCEPT !.groups = @ \ {g}, !.num = @ + 1]
<1>1. d \in OfGroups(c.groups \ {g}, c.num + 1) /\ c.groups \ {g} \in SUBSET Gid
  <2>1. /\ c.num \in Nat /\ c.num + 1 \in Nat /\ c.groups \ {g} \in SUBSET Gid
        /\ c.shards \in [Shard -> Gid \cup {0}]
    BY DEF Config
  <2>2. \A m \in Nat, gs \in SUBSET Gid :
          LET e == [c EXCEPT !.groups = gs, !.num = m]
          IN  e \in Config /\ e.groups = gs /\ e.num = m
    BY DEF Config
  <2>3. d \in Config /\ d.groups = c.groups \ {g} /\ d.num = c.num + 1
    BY <2>1, <2>2
  <2> QED BY <2>1, <2>3 DEF OfGroups
<1> HIDE DEF d
<1>2. Rebalance(d) \in Complete(c.groups \ {g}, c.num + 1)
  BY <1>1, RebalanceType
<1> QED BY <1>2 DEF LeaveBalance, d

-----------------------------------------------------------------------------
(* The inductive invariant.  Its parts are stated of values: C and W for   *)
(* cur and new, G for grp, S for sent.                                     *)

Stored == [version : Nat, config : Config]
DataT == [value : {<< >>} \cup (Client \X Nat), version : Nat]
GroupT == [shards : [Shard -> {NoShard, Valid, Frozen}],
           nums : [Shard -> Nat],
           data : [Shard -> DataT]]

\* A configuration that gives every shard to a group.
FullConfig == {c \in Config : \A s \in Shard : c.shards[s] \in Gid}

St(G, g, s) == G[g].shards[s]
Nm(G, g, s) == G[g].nums[s]
Dt(G, g, s) == G[g].data[s]

\* The Num of the configuration that is, or will be, on its way.
NextNum(C) == C.version + 1

Owner(C, s) == IF C.version = 0 THEN Gid1 ELSE C.config.shards[s]
Dest(W, s) == W.config.shards[s]
Active(C, W) == C.version > 0 /\ W.version = C.version
Moves(C, W, s) == Active(C, W) /\ C.config.shards[s] # W.config.shards[s]

\* A freeze or a delete with Num n is without effect at group g.
Closed(G, g, s, n) ==
  Nm(G, g, s) > n \/ (Nm(G, g, s) = n /\ St(G, g, s) = NoShard)

\* An install with Num n is without effect at group g.
Reaches(G, g, s, n) == Nm(G, g, s) >= n

\* Shard s has moved from from's group to to's, for good.
DoneAt(G, from, to, s) ==
  /\ Closed(G, from.shards[s], s, to.num)
  /\ Reaches(G, to.shards[s], s, to.num)

AllDone(G, from, to) ==
  \A s \in Shard : from.shards[s] # to.shards[s] => DoneAt(G, from, to, s)

\* The next configuration is published only when the last one is stored.
StoreInv(C, W) ==
  /\ C \in Stored /\ W \in Stored
  /\ C.config.num = C.version
  /\ C.version > 0 => C.config \in FullConfig
  /\ W.version > 0 => W.config \in FullConfig /\ W.config.num = W.version + 1
  /\ W.version = 0 => W.config.num = 0
  /\ W.version \in {C.version, C.version - 1}

\* A shard that does not move is its owner's.
SettledOK(C, G, s) ==
  \A g \in Gid : /\ Nm(G, g, s) < NextNum(C)
                 /\ St(G, g, s) = IF g = Owner(C, s) THEN Valid ELSE NoShard

\* A shard that moves is valid at its owner, then frozen there, then valid at
\* its new group, then deleted at the old one.
MovingOK(G, n, g, h, s) ==
  /\ \A f \in Gid \ {g, h} : Nm(G, f, s) < n /\ St(G, f, s) = NoShard
  /\ Nm(G, g, s) <= n /\ Nm(G, h, s) <= n
  /\ St(G, g, s) = Valid <=> Nm(G, g, s) < n
  /\ Nm(G, h, s) = n => Nm(G, g, s) = n
  /\ St(G, g, s) = NoShard => Nm(G, h, s) = n
  /\ St(G, h, s) = IF Nm(G, h, s) = n THEN Valid ELSE NoShard

ShardOK(C, W, G, s) ==
  IF Moves(C, W, s) THEN MovingOK(G, NextNum(C), Owner(C, s), Dest(W, s), s)
  ELSE SettledOK(C, G, s)

GroupInv(C, W, G) ==
  /\ G \in [Gid -> GroupT]
  /\ \A s \in Shard : ShardOK(C, W, G, s)

\* Group g has the only copy of shard s that counts.
Holds(C, W, G, g, s) ==
  \/ St(G, g, s) = Valid
  \/ /\ St(G, g, s) = Frozen
     /\ Moves(C, W, s) /\ Nm(G, Dest(W, s), s) < NextNum(C)

DataInv(C, W, G, n) ==
  /\ \A g \in Gid, s \in Shard : St(G, g, s) = NoShard => Dt(G, g, s) = NoData
  /\ \A g \in Gid : Holds(C, W, G, g, KeyShard) => Dt(G, g, KeyShard).version = n

MoveT == [kind : {"freeze", "install", "delete"}, gid : Gid, shard : Shard,
          num : Nat, data : DataT]
PutT == [kind : {"put"}, gid : Gid, shard : {KeyShard}, version : Nat,
         writer : Client \X Nat]

\* A request of an earlier configuration is without effect.
OldOK(G, m) ==
  IF m.kind = "install" THEN Reaches(G, m.gid, m.shard, m.num)
  ELSE Closed(G, m.gid, m.shard, m.num)

\* A request of the configuration that is on its way.
NowOK(C, W, G, m) ==
  LET g == Owner(C, m.shard)
      h == Dest(W, m.shard)
  IN  /\ m.num = NextNum(C) /\ Moves(C, W, m.shard)
      /\ m.kind \in {"freeze", "delete"} => m.gid = g
      /\ m.kind = "install" =>
           /\ m.gid = h /\ Reaches(G, g, m.shard, m.num)
           /\ Nm(G, h, m.shard) < m.num => m.data = Dt(G, g, m.shard)
      /\ m.kind = "delete" => Reaches(G, h, m.shard, m.num)

SentOK(C, W, G, m) ==
  \/ m \in PutT
  \/ m \in MoveT /\ m.num < NextNum(C) /\ OldOK(G, m)
  \/ m \in MoveT /\ NowOK(C, W, G, m)

SentInv(C, W, G, S) == \A m \in S : SentOK(C, W, G, m)

CallPcs == {"freeze", "install", "delete"}
MovePcs == CallPcs \cup {"store"}
TargetPcs == {"publish", "check"} \cup MovePcs
VerPcs == {"recover"} \cup TargetPcs

CtlT == [pc : {"idle", "stopped", "fatal", "change"} \cup VerPcs,
         config : Config, ver : Nat, target : Config, shard : Nat, data : DataT]

\* What controller record c knows of the configurations ...
KnowsOK(C, c) ==
  /\ c.pc \in VerPcs =>
       /\ c.ver \in 1 .. C.version
       /\ c.config \in FullConfig /\ c.config.num = c.ver
       /\ c.ver = C.version => c.config = C.config
  /\ c.pc = "change" =>
       /\ C.version > 0
       /\ c.target \in FullConfig /\ c.target.num <= C.version + 1
  /\ c.pc \in TargetPcs => c.target \in FullConfig /\ c.target.num = c.ver + 1

\* ... and which shards have moved when it gets to where it is.
MovedOK(C, W, G, c) ==
  /\ c.pc = "recover" /\ c.ver < C.version /\ c.ver = W.version =>
       AllDone(G, c.config, W.config)
  /\ c.pc \in MovePcs =>
       /\ c.ver = C.version => W.version = C.version /\ c.target = W.config
       /\ c.ver < C.version \/ c.pc = "store" => AllDone(G, c.config, c.target)
       /\ \A s \in Shard : s < c.shard /\ c.config.shards[s] # c.target.shards[s]
                             => DoneAt(G, c.config, c.target, s)

CallOK(S, c) ==
  c.pc \in CallPcs => /\ c.shard \in Shard
                      /\ c.config.shards[c.shard] # c.target.shards[c.shard]
                      /\ Request(c, c.pc) \in S

CtlOK(C, W, G, S, c) ==
  c \in CtlT /\ KnowsOK(C, c) /\ MovedOK(C, W, G, c) /\ CallOK(S, c)

CtlInv(C, W, G, S, K) ==
  /\ K \in [Controller -> CtlT]
  /\ \A k \in Controller : CtlOK(C, W, G, S, K[k])

ClerkT == [pc : {"idle", "query", "call", "answer"}, gid : Gid \cup {0},
           isUpdate : BOOLEAN, rpcTimes : Nat,
           err : {"", "OK", "ErrWrongGroup", "ErrVersion", "ErrNoKey"}]
OpT == [kind : {"get", "put"}, version : Nat, low : Nat]

ClerkInv(C, K, o) ==
  /\ K \in [Client -> ClerkT] /\ o \in [Client -> Seq(OpT)]
  /\ \A c \in Client :
       /\ K[c].pc # "idle" => C.version > 0 /\ o[c] # << >>
       /\ K[c].pc \in {"call", "answer"} => K[c].gid \in Gid

ShardInv ==
  /\ StoreInv(cur, new)
  /\ GroupInv(cur, new, grp)
  /\ hist \in Seq(Client \X Nat) /\ DataInv(cur, new, grp, Len(hist))
  /\ SentInv(cur, new, grp, sent)
  /\ CtlInv(cur, new, grp, sent, ctl)
  /\ ClerkInv(cur, clerk, ops)
  /\ fatal = {}

-----------------------------------------------------------------------------
(* What a request does to the groups.                                      *)

\* H is G but for shard s of group g.
Changed(G, H, g, s, st, n, d) ==
  /\ H \in [Gid -> GroupT]
  /\ \A f \in Gid, t \in Shard :
       /\ St(H, f, t) = IF f = g /\ t = s THEN st ELSE St(G, f, t)
       /\ Nm(H, f, t) = IF f = g /\ t = s THEN n ELSE Nm(G, f, t)
       /\ Dt(H, f, t) = IF f = g /\ t = s THEN d ELSE Dt(G, f, t)

FreezeEff(G, H, m) ==
  LET st == St(G, m.gid, m.shard)
  IN  IF m.num < Nm(G, m.gid, m.shard) THEN H = G
      ELSE Changed(G, H, m.gid, m.shard,
                   IF st = NoShard THEN NoShard ELSE Frozen, m.num,
                   Dt(G, m.gid, m.shard))

InstallEff(G, H, m) ==
  IF m.num <= Nm(G, m.gid, m.shard) THEN H = G
  ELSE Changed(G, H, m.gid, m.shard, Valid, m.num,
               IF m.data.version = 0 THEN Dt(G, m.gid, m.shard) ELSE m.data)

DeleteEff(G, H, m) ==
  IF m.num < Nm(G, m.gid, m.shard) THEN H = G
  ELSE Changed(G, H, m.gid, m.shard, NoShard, m.num,
               IF St(G, m.gid, m.shard) = NoShard THEN Dt(G, m.gid, m.shard)
               ELSE NoData)

\* The fields of a group by shard have their types.
LEMMA GroupFields ==
  ASSUME NEW G \in [Gid -> GroupT], NEW g \in Gid, NEW s \in Shard
  PROVE  /\ St(G, g, s) \in {NoShard, Valid, Frozen}
         /\ Nm(G, g, s) \in Nat
         /\ Dt(G, g, s) \in DataT
<1>1. G[g] \in GroupT
  OBVIOUS
<1>2. /\ G[g].shards \in [Shard -> {NoShard, Valid, Frozen}]
      /\ G[g].nums \in [Shard -> Nat] /\ G[g].data \in [Shard -> DataT]
  BY <1>1 DEF GroupT
<1> QED BY <1>2 DEF St, Nm, Dt

\* Groups that agree on every shard are the same.
LEMMA GroupsAgree ==
  ASSUME NEW G \in [Gid -> GroupT], NEW H \in [Gid -> GroupT],
         \A f \in Gid, t \in Shard : /\ St(H, f, t) = St(G, f, t)
                                     /\ Nm(H, f, t) = Nm(G, f, t)
                                     /\ Dt(H, f, t) = Dt(G, f, t)
  PROVE  H = G
<1>1. ASSUME NEW f \in Gid PROVE H[f] = G[f]
  <2>1. /\ G[f].shards \in [Shard -> {NoShard, Valid, Frozen}]
        /\ G[f].nums \in [Shard -> Nat] /\ G[f].data \in [Shard -> DataT]
        /\ H[f].shards \in [Shard -> {NoShard, Valid, Frozen}]
        /\ H[f].nums \in [Shard -> Nat] /\ H[f].data \in [Shard -> DataT]
    BY DEF GroupT
  <2>2. /\ H[f].shards = G[f].shards /\ H[f].nums = G[f].nums
        /\ H[f].data = G[f].data
    BY <2>1 DEF St, Nm, Dt
  <2>3. \A r \in GroupT :
          r = [shards |-> r.shards, nums |-> r.nums, data |-> r.data]
    BY DEF GroupT
  <2> QED BY <2>2, <2>3
<1> QED BY <1>1

\* SetShard changes one shard of one group.
LEMMA SetShardEffect ==
  ASSUME grp \in [Gid -> GroupT], NEW m, m.gid \in Gid, m.shard \in Shard,
         m.num \in Nat,
         NEW st \in {NoShard, Valid, Frozen}, NEW d \in DataT,
         SetShard(m, st, d)
  PROVE  Changed(grp, grp', m.gid, m.shard, st, m.num, d)
<1> DEFINE g == m.gid  s == m.shard  n == m.num
<1>1. g \in Gid /\ s \in Shard /\ n \in Nat
  OBVIOUS
<1>2. grp' = [grp EXCEPT ![g].shards[s] = st, ![g].nums[s] = n,
                         ![g].data[s] = d]
  BY DEF SetShard
<1> HIDE DEF g, s, n
<1>3. /\ grp[g].shards \in [Shard -> {NoShard, Valid, Frozen}]
      /\ grp[g].nums \in [Shard -> Nat] /\ grp[g].data \in [Shard -> DataT]
  BY <1>1 DEF GroupT
<1>4. PICK r \in GroupT : /\ grp' = [grp EXCEPT ![g] = r]
                          /\ r.shards = [grp[g].shards EXCEPT ![s] = st]
                          /\ r.nums = [grp[g].nums EXCEPT ![s] = n]
                          /\ r.data = [grp[g].data EXCEPT ![s] = d]
  <2> DEFINE G1 == [grp EXCEPT ![g].shards[s] = st]
             G2 == [G1 EXCEPT ![g].nums[s] = n]
             G3 == [G2 EXCEPT ![g].data[s] = d]
             r1 == [grp[g] EXCEPT !.shards = [grp[g].shards EXCEPT ![s] = st]]
             r2 == [r1 EXCEPT !.nums = [r1.nums EXCEPT ![s] = n]]
             r3 == [r2 EXCEPT !.data = [r2.data EXCEPT ![s] = d]]
  <2>1. grp' = G3
    BY <1>2
  <2>2. G1 = [grp EXCEPT ![g] = r1] /\ G1[g] = r1
    BY <1>1
  <2>3. G2 = [G1 EXCEPT ![g] = r2]
    BY <1>1, <2>2
  <2>4. G2 = [grp EXCEPT ![g] = r2] /\ G2[g] = r2
    BY <1>1, <2>2, <2>3
  <2>5. G3 = [G2 EXCEPT ![g] = r3]
    BY <1>1, <2>4
  <2>6. G3 = [grp EXCEPT ![g] = r3]
    <3> HIDE DEF G3, G2, r3, r2
    <3> QED BY <1>1, <2>4, <2>5
  <2>7. /\ r1 \in GroupT /\ r1.nums = grp[g].nums /\ r1.data = grp[g].data
        /\ r1.shards = [grp[g].shards EXCEPT ![s] = st]
    BY <1>1, <1>3 DEF GroupT
  <2> HIDE DEF r1
  <2>8. /\ r2 \in GroupT /\ r2.shards = r1.shards /\ r2.data = r1.data
        /\ r2.nums = [grp[g].nums EXCEPT ![s] = n]
    BY <1>1, <1>3, <2>7 DEF GroupT
  <2> HIDE DEF r2
  <2>9. /\ r3 \in GroupT /\ r3.shards = r2.shards /\ r3.nums = r2.nums
        /\ r3.data = [grp[g].data EXCEPT ![s] = d]
    BY <1>1, <1>3, <2>7, <2>8 DEF GroupT
  <2> QED BY <2>1, <2>6, <2>7, <2>8, <2>9
<1>5. grp' \in [Gid -> GroupT]
  BY <1>1, <1>3, <1>4 DEF GroupT
<1>6. ASSUME NEW f \in Gid, NEW t \in Shard
      PROVE  /\ St(grp', f, t) = IF f = g /\ t = s THEN st ELSE St(grp, f, t)
             /\ Nm(grp', f, t) = IF f = g /\ t = s THEN n ELSE Nm(grp, f, t)
             /\ Dt(grp', f, t) = IF f = g /\ t = s THEN d ELSE Dt(grp, f, t)
  BY <1>1, <1>3, <1>4 DEF St, Nm, Dt
<1> QED BY <1>5, <1>6 DEF Changed, g, s, n

\* doFreezeShard
LEMMA FreezeEffect ==
  ASSUME grp \in [Gid -> GroupT], NEW m, m.gid \in Gid, m.shard \in Shard,
         m.num \in Nat, DoFreeze(m)
  PROVE  FreezeEff(grp, grp', m) /\ fatal' = fatal
<1> DEFINE st == FrozenState(m)  d == Data(m)
<1>1. st \in {NoShard, Valid, Frozen} /\ d \in DataT
  BY GroupFields DEF FrozenState, State, Data, St, Dt
<1>2. CASE m.num < Num(m)
  BY <1>2 DEF DoFreeze, FreezeEff, Num, Nm
<1>3. CASE ~(m.num < Num(m))
  <2>1. SetShard(m, st, d)
    BY <1>3 DEF DoFreeze
  <2>2. Changed(grp, grp', m.gid, m.shard, st, m.num, d)
    <3> HIDE DEF st, d
    <3> QED BY <1>1, <2>1, SetShardEffect
  <2> QED BY <1>3, <2>2 DEF DoFreeze, FreezeEff, FrozenState, State, Num, Data,
                            St, Nm, Dt
<1> QED BY <1>2, <1>3

\* doInstallShard
LEMMA InstallEffect ==
  ASSUME grp \in [Gid -> GroupT], NEW m, m.gid \in Gid, m.shard \in Shard,
         m.num \in Nat, m.data \in DataT, DoInstall(m)
  PROVE  /\ InstallEff(grp, grp', m)
         /\ m.num <= Nm(grp, m.gid, m.shard) \/ St(grp, m.gid, m.shard) # Frozen
              => fatal' = fatal
<1> DEFINE d == IF m.data.version = 0 THEN Data(m) ELSE m.data
<1>1. d \in DataT
  BY GroupFields DEF Data, Dt
<1>2. CASE m.num <= Num(m)
  BY <1>2 DEF DoInstall, InstallEff, InstallIsOld, Num, Nm
<1>3. CASE ~(m.num <= Num(m))
  <2>1. SetShard(m, Valid, d)
    BY <1>3 DEF DoInstall, InstallIsOld
  <2>2. Changed(grp, grp', m.gid, m.shard, Valid, m.num, d)
    <3> HIDE DEF d
    <3> QED BY <1>1, <2>1, SetShardEffect
  <2> QED BY <1>3, <2>2 DEF DoInstall, InstallEff, InstallIsOld, State, Num,
                            Data, St, Nm, Dt
<1> QED BY <1>2, <1>3

\* doDeleteShard
LEMMA DeleteEffect ==
  ASSUME grp \in [Gid -> GroupT], NEW m, m.gid \in Gid, m.shard \in Shard,
         m.num \in Nat, DoDelete(m)
  PROVE  /\ DeleteEff(grp, grp', m)
         /\ m.num < Nm(grp, m.gid, m.shard) \/ St(grp, m.gid, m.shard) # Valid
              => fatal' = fatal
<1> DEFINE d == IF State(m) = NoShard THEN Data(m) ELSE NoData
<1>1. d \in DataT
  BY GroupFields DEF Data, Dt, NoData, DataT
<1>2. CASE m.num < Num(m)
  BY <1>2 DEF DoDelete, DeleteEff, DeleteIsOld, Num, Nm
<1>3. CASE ~(m.num < Num(m))
  <2>1. SetShard(m, NoShard, d)
    BY <1>3 DEF DoDelete, DeleteIsOld
  <2>2. Changed(grp, grp', m.gid, m.shard, NoShard, m.num, d)
    <3> HIDE DEF d
    <3> QED BY <1>1, <2>1, SetShardEffect
  <2> QED BY <1>3, <2>2 DEF DoDelete, DeleteEff, DeleteIsOld, State, Num,
                            Data, St, Nm, Dt
<1> QED BY <1>2, <1>3

-----------------------------------------------------------------------------
(* A request that was sent, and is executed, keeps the invariant.          *)

\* The Nums of a shard never go back, and a deleted shard stays so until they
\* go on.
Grows(G, H) ==
  \A g \in Gid, s \in Shard :
    /\ Nm(G, g, s) <= Nm(H, g, s)
    /\ Nm(G, g, s) = Nm(H, g, s) /\ St(G, g, s) = NoShard
         => St(H, g, s) = NoShard

\* The data of a frozen shard stays until it is installed.
KeepsData(C, W, G, H) ==
  \A s \in Shard :
    /\ Moves(C, W, s) /\ Reaches(G, Owner(C, s), s, NextNum(C))
    /\ Nm(H, Dest(W, s), s) < NextNum(C)
    => Dt(H, Owner(C, s), s) = Dt(G, Owner(C, s), s)

\* What every execution of a request does, n and p being the number of writes
\* before and after.
GoodStep(C, W, G, H, n, p) ==
  /\ GroupInv(C, W, G) /\ DataInv(C, W, G, n)
  /\ GroupInv(C, W, H) /\ DataInv(C, W, H, p)
  /\ Grows(G, H) /\ KeepsData(C, W, G, H)

\* The groups a shard moves between.
LEMMA Ends ==
  ASSUME NEW C, NEW W, StoreInv(C, W), NEW s \in Shard
  PROVE  /\ Owner(C, s) \in Gid /\ NextNum(C) \in Nat
         /\ Moves(C, W, s) => /\ Dest(W, s) \in Gid /\ Owner(C, s) # Dest(W, s)
                              /\ Owner(C, s) = C.config.shards[s]
<1>1. C.version \in Nat /\ W.version \in Nat
  BY DEF StoreInv, Stored
<1>2. C.version > 0 => C.config.shards[s] \in Gid
  BY DEF StoreInv, FullConfig
<1>3. W.version > 0 => W.config.shards[s] \in Gid
  BY DEF StoreInv, FullConfig
<1> QED BY <1>1, <1>2, <1>3, GidAssumption
        DEF Owner, Gid1, NextNum, Moves, Active, Dest

\* What is known of a shard's Nums and states carries over when they stay.
LEMMA SameShard ==
  ASSUME NEW C, NEW W, StoreInv(C, W), NEW G, NEW H, NEW s \in Shard,
         ShardOK(C, W, G, s),
         \A f \in Gid : St(H, f, s) = St(G, f, s) /\ Nm(H, f, s) = Nm(G, f, s)
  PROVE  ShardOK(C, W, H, s)
<1>1. CASE Moves(C, W, s)
  <2> DEFINE g == Owner(C, s)  h == Dest(W, s)
  <2>1. g \in Gid /\ h \in Gid /\ MovingOK(G, NextNum(C), g, h, s)
    BY <1>1, Ends DEF ShardOK
  <2> HIDE DEF g, h
  <2>2. MovingOK(H, NextNum(C), g, h, s)
    BY <2>1 DEF MovingOK
  <2> QED BY <1>1, <2>2 DEF ShardOK, g, h
<1>2. CASE ~Moves(C, W, s)
  BY <1>2 DEF ShardOK, SettledOK
<1> QED BY <1>1, <1>2

\* A step that changes nothing is a good one.
LEMMA NoStep ==
  ASSUME NEW C, NEW W, StoreInv(C, W), NEW G, NEW n, GroupInv(C, W, G),
         DataInv(C, W, G, n)
  PROVE  GoodStep(C, W, G, G, n, n)
<1>1. \A g \in Gid, s \in Shard : Nm(G, g, s) \in Nat
  BY GroupFields DEF GroupInv
<1>2. Grows(G, G)
  BY <1>1 DEF Grows
<1>3. KeepsData(C, W, G, G)
  BY DEF KeepsData
<1> QED BY <1>2, <1>3 DEF GoodStep

\* A request of an earlier configuration changes nothing.
LEMMA OldRequest ==
  ASSUME NEW G \in [Gid -> GroupT], NEW H, NEW m \in MoveT, OldOK(G, m),
         \/ m.kind = "freeze" /\ FreezeEff(G, H, m)
         \/ m.kind = "install" /\ InstallEff(G, H, m)
         \/ m.kind = "delete" /\ DeleteEff(G, H, m)
  PROVE  /\ H = G
         /\ m.kind = "delete" =>
              m.num < Nm(G, m.gid, m.shard) \/ St(G, m.gid, m.shard) = NoShard
         /\ m.kind = "install" => m.num <= Nm(G, m.gid, m.shard)
<1> DEFINE g == m.gid  s == m.shard  n == m.num
<1>1. g \in Gid /\ s \in Shard /\ n \in Nat
  BY DEF MoveT
<1>2. Nm(G, g, s) \in Nat
  BY <1>1, GroupFields
<1>3. CASE m.kind = "install"
  BY <1>1, <1>2, <1>3 DEF OldOK, Reaches, InstallEff
<1>4. CASE m.kind # "install" /\ Nm(G, g, s) > n
  BY <1>1, <1>2, <1>4 DEF FreezeEff, DeleteEff
<1>5. CASE m.kind # "install" /\ Nm(G, g, s) = n /\ St(G, g, s) = NoShard
  <2>1. Changed(G, H, g, s, NoShard, n, Dt(G, g, s))
    BY <1>1, <1>2, <1>5 DEF FreezeEff, DeleteEff
  <2> HIDE DEF g, s, n
  <2>2. H \in [Gid -> GroupT] /\
        \A f \in Gid, t \in Shard : /\ St(H, f, t) = St(G, f, t)
                                    /\ Nm(H, f, t) = Nm(G, f, t)
                                    /\ Dt(H, f, t) = Dt(G, f, t)
    BY <1>1, <1>5, <2>1 DEF Changed
  <2>3. H = G
    BY <2>2, GroupsAgree
  <2> QED BY <1>5, <2>3 DEF g, s
<1>6. Closed(G, g, s, n) \/ m.kind = "install"
  BY DEF OldOK
<1> QED BY <1>3, <1>4, <1>5, <1>6 DEF Closed

\* The frame of a request of the present configuration: only the shard that
\* moves is changed.
LEMMA MoveFrame ==
  ASSUME NEW C, NEW W, StoreInv(C, W), NEW G, NEW H, NEW n \in Nat,
         GroupInv(C, W, G), DataInv(C, W, G, n),
         NEW s \in Shard, Moves(C, W, s), NEW f \in Gid,
         NEW st \in {NoShard, Valid, Frozen}, NEW d,
         Changed(G, H, f, s, st, NextNum(C), d),
         f \in {Owner(C, s), Dest(W, s)},
         MovingOK(H, NextNum(C), Owner(C, s), Dest(W, s), s),
         st = NoShard => d = NoData,
         st # NoShard /\ Nm(G, f, s) = NextNum(C) => St(G, f, s) # NoShard,
         Holds(C, W, H, f, s) =>
           \E e \in Gid : Holds(C, W, G, e, s) /\ d.version = Dt(G, e, s).version,
         Reaches(G, Owner(C, s), s, NextNum(C)) /\ f = Owner(C, s)
           /\ Nm(H, Dest(W, s), s) < NextNum(C) => d = Dt(G, f, s),
         \A e \in Gid : Holds(C, W, H, e, s) /\ e # f => Holds(C, W, G, e, s)
  PROVE  GoodStep(C, W, G, H, n, n)
<1> DEFINE N == NextNum(C)  g == Owner(C, s)  h == Dest(W, s)
<1>1. /\ g \in Gid /\ h \in Gid /\ g # h /\ N \in Nat
      /\ MovingOK(G, N, g, h, s)
  BY Ends DEF ShardOK, GroupInv
<1>2. \A e \in Gid, t \in Shard : /\ Nm(G, e, t) \in Nat
                                  /\ St(G, e, t) \in {NoShard, Valid, Frozen}
  BY GroupFields DEF GroupInv
<1>3. Nm(G, f, s) <= N
  BY <1>1 DEF MovingOK
<1> HIDE DEF N, g, h
<1>4. /\ H \in [Gid -> GroupT]
      /\ \A e \in Gid, t \in Shard : ~(e = f /\ t = s) =>
           /\ St(H, e, t) = St(G, e, t) /\ Nm(H, e, t) = Nm(G, e, t)
           /\ Dt(H, e, t) = Dt(G, e, t)
      /\ St(H, f, s) = st /\ Nm(H, f, s) = N /\ Dt(H, f, s) = d
  BY DEF Changed, N
<1>5. GroupInv(C, W, H)
  <2>1. ASSUME NEW t \in Shard, t # s PROVE ShardOK(C, W, H, t)
    <3>1. ShardOK(C, W, G, t)
      BY DEF GroupInv
    <3>2. \A e \in Gid : St(H, e, t) = St(G, e, t) /\ Nm(H, e, t) = Nm(G, e, t)
      BY <1>4, <2>1
    <3> QED BY <3>1, <3>2, SameShard
  <2>2. ShardOK(C, W, H, s)
    BY DEF ShardOK
  <2> QED BY <1>4, <2>1, <2>2 DEF GroupInv
<1>6. Grows(G, H)
  <2> SUFFICES ASSUME NEW e \in Gid, NEW t \in Shard
               PROVE  /\ Nm(G, e, t) <= Nm(H, e, t)
                      /\ Nm(G, e, t) = Nm(H, e, t) /\ St(G, e, t) = NoShard
                           => St(H, e, t) = NoShard
    BY DEF Grows
  <2>1. CASE e = f /\ t = s
    BY <1>1, <1>2, <1>3, <1>4, <2>1 DEF N
  <2>2. CASE ~(e = f /\ t = s)
    BY <1>2, <1>4, <2>2
  <2> QED BY <2>1, <2>2
<1>7. KeepsData(C, W, G, H)
  <2> SUFFICES ASSUME NEW t \in Shard, Moves(C, W, t),
                      Reaches(G, Owner(C, t), t, N), Nm(H, Dest(W, t), t) < N
               PROVE  Dt(H, Owner(C, t), t) = Dt(G, Owner(C, t), t)
    BY DEF KeepsData, N
  <2>1. CASE t = s
    BY <1>1, <1>4, <2>1 DEF N, g, h
  <2>2. CASE t # s
    BY <1>4, <2>2, Ends
  <2> QED BY <2>1, <2>2
<1>8. DataInv(C, W, H, n)
  <2>1. ASSUME NEW e \in Gid, NEW t \in Shard, St(H, e, t) = NoShard
        PROVE  Dt(H, e, t) = NoData
    BY <1>4, <2>1 DEF DataInv
  <2>2. ASSUME NEW e \in Gid, Holds(C, W, H, e, KeyShard)
        PROVE  Dt(H, e, KeyShard).version = n
    <3>0. KeyShard \in Shard
      BY KeyShardAssumption DEF Shard
    <3>1. CASE KeyShard # s
      <4>1. Holds(C, W, G, e, KeyShard)
        BY <1>4, <2>2, <3>0, <3>1, Ends DEF Holds
      <4> QED BY <1>4, <3>0, <3>1, <4>1 DEF DataInv
    <3>2. CASE KeyShard = s /\ e # f
      BY <1>4, <2>2, <3>0, <3>2 DEF DataInv
    <3>3. CASE KeyShard = s /\ e = f
      BY <1>4, <2>2, <3>0, <3>3 DEF DataInv
    <3> QED BY <3>1, <3>2, <3>3
  <2> QED BY <2>1, <2>2 DEF DataInv
<1> QED BY <1>5, <1>6, <1>7, <1>8 DEF GoodStep

\* Freeze, of the present configuration.
LEMMA FreezeNow ==
  ASSUME NEW C, NEW W, StoreInv(C, W), NEW G, NEW H, NEW n \in Nat,
         GroupInv(C, W, G), DataInv(C, W, G, n),
         NEW m \in MoveT, NowOK(C, W, G, m), m.kind = "freeze",
         FreezeEff(G, H, m)
  PROVE  GoodStep(C, W, G, H, n, n)
<1> DEFINE N == NextNum(C)  s == m.shard  g == Owner(C, s)  h == Dest(W, s)
           st == IF St(G, g, s) = NoShard THEN NoShard ELSE Frozen
<1>1. s \in Shard /\ m.num = N /\ Moves(C, W, s) /\ m.gid = g
  BY DEF NowOK, MoveT
<1>2. /\ g \in Gid /\ h \in Gid /\ g # h /\ N \in Nat /\ MovingOK(G, N, g, h, s)
      /\ G \in [Gid -> GroupT]
  BY <1>1, Ends DEF ShardOK, GroupInv
<1>3. \A e \in Gid, t \in Shard : /\ Nm(G, e, t) \in Nat
                                  /\ St(G, e, t) \in {NoShard, Valid, Frozen}
  BY <1>2, GroupFields
<1>4. Changed(G, H, g, s, st, N, Dt(G, g, s))
  BY <1>1, <1>2, <1>3 DEF FreezeEff, MovingOK
<1> HIDE DEF N, s, g, h
<1>5. MovingOK(H, N, g, h, s)
  BY <1>1, <1>2, <1>3, <1>4 DEF MovingOK, Changed, NoShard, Valid, Frozen
<1>6. Holds(C, W, H, g, s) => Holds(C, W, G, g, s)
  <2>1. St(H, g, s) = st /\ Nm(H, h, s) = Nm(G, h, s)
    BY <1>1, <1>2, <1>4 DEF Changed
  <2> QED BY <1>1, <1>2, <1>3, <2>1 DEF Holds, MovingOK, NoShard, Valid, Frozen,
                                        N, h
<1>7. \A e \in Gid : Holds(C, W, H, e, s) /\ e # g => Holds(C, W, G, e, s)
  <2>1. \A e \in Gid : e # g => St(H, e, s) = St(G, e, s)
                                /\ Nm(H, e, s) = Nm(G, e, s)
    BY <1>1, <1>2, <1>4 DEF Changed
  <2> QED BY <1>2, <2>1 DEF Holds, h
<1>8. st = NoShard => Dt(G, g, s) = NoData
  BY <1>1, <1>2 DEF DataInv, NoShard, Frozen
<1>9. st \in {NoShard, Valid, Frozen} /\ (st # NoShard => St(G, g, s) # NoShard)
  OBVIOUS
<1> HIDE DEF st
<1> QED BY <1>1, <1>2, <1>4, <1>5, <1>6, <1>7, <1>8, <1>9, MoveFrame DEF N, g, h

\* Install, of the present configuration; the shard is not frozen there.
LEMMA InstallNow ==
  ASSUME NEW C, NEW W, StoreInv(C, W), NEW G, NEW H, NEW n \in Nat,
         GroupInv(C, W, G), DataInv(C, W, G, n),
         NEW m \in MoveT, NowOK(C, W, G, m), m.kind = "install",
         InstallEff(G, H, m)
  PROVE  GoodStep(C, W, G, H, n, n) /\ St(G, m.gid, m.shard) # Frozen
<1> DEFINE N == NextNum(C)  s == m.shard  g == Owner(C, s)  h == Dest(W, s)
           d == IF m.data.version = 0 THEN Dt(G, h, s) ELSE m.data
<1>1. /\ s \in Shard /\ m.num = N /\ Moves(C, W, s) /\ m.gid = h
      /\ Reaches(G, g, s, N)
      /\ Nm(G, h, s) < N => m.data = Dt(G, g, s)
  BY DEF NowOK, MoveT
<1>2. /\ g \in Gid /\ h \in Gid /\ g # h /\ N \in Nat /\ MovingOK(G, N, g, h, s)
      /\ G \in [Gid -> GroupT]
  BY <1>1, Ends DEF ShardOK, GroupInv
<1>3. \A e \in Gid, t \in Shard : /\ Nm(G, e, t) \in Nat
                                  /\ St(G, e, t) \in {NoShard, Valid, Frozen}
  BY <1>2, GroupFields
<1>4. St(G, h, s) # Frozen
  BY <1>2 DEF MovingOK, NoShard, Valid, Frozen
<1>5. CASE N <= Nm(G, h, s)
  <2>1. H = G
    BY <1>1, <1>5 DEF InstallEff
  <2> QED BY <1>1, <1>4, <2>1, NoStep
<1>6. CASE ~(N <= Nm(G, h, s))
  <2>1. Changed(G, H, h, s, Valid, N, d)
    BY <1>1, <1>6 DEF InstallEff
  <2>2. Nm(G, h, s) < N /\ St(G, h, s) = NoShard /\ m.data = Dt(G, g, s)
    BY <1>1, <1>2, <1>3, <1>6 DEF MovingOK
  <2>3. d.version = Dt(G, g, s).version
    <3>1. Dt(G, h, s) = NoData
      BY <1>1, <1>2, <2>2 DEF DataInv
    <3> QED BY <2>2, <3>1 DEF NoData
  <2> HIDE DEF N, s, g, h, d
  <2>4. Holds(C, W, G, g, s)
    <3>1. Nm(G, g, s) = N /\ St(G, g, s) = Frozen
      BY <1>1, <1>2, <1>3, <2>2 DEF MovingOK, Reaches
    <3> QED BY <1>1, <2>2, <3>1 DEF Holds, N, h
  <2>5. /\ \A e \in Gid : e # h => /\ St(H, e, s) = St(G, e, s)
                                   /\ Nm(H, e, s) = Nm(G, e, s)
        /\ St(H, h, s) = Valid /\ Nm(H, h, s) = N
    BY <1>1, <1>2, <2>1 DEF Changed
  <2>6. MovingOK(H, N, g, h, s)
    BY <1>1, <1>2, <1>3, <2>2, <2>5 DEF MovingOK, Reaches, NoShard, Valid, Frozen
  <2>7. \A e \in Gid : Holds(C, W, H, e, s) /\ e # h => Holds(C, W, G, e, s)
    BY <1>2, <2>5 DEF Holds, h, N
  <2>8. Valid \in {NoShard, Valid, Frozen} /\ Valid # NoShard
    BY DEF Valid, NoShard
  <2>9. GoodStep(C, W, G, H, n, n)
    BY <1>1, <1>2, <2>1, <2>2, <2>3, <2>4, <2>6, <2>7, <2>8, MoveFrame
    DEF N, g, h
  <2> QED BY <1>1, <1>4, <2>9 DEF s, h
<1> QED BY <1>5, <1>6

\* Delete, of the present configuration; the shard is not valid there.
LEMMA DeleteNow ==
  ASSUME NEW C, NEW W, StoreInv(C, W), NEW G, NEW H, NEW n \in Nat,
         GroupInv(C, W, G), DataInv(C, W, G, n),
         NEW m \in MoveT, NowOK(C, W, G, m), m.kind = "delete",
         DeleteEff(G, H, m)
  PROVE  GoodStep(C, W, G, H, n, n) /\ St(G, m.gid, m.shard) # Valid
<1> DEFINE N == NextNum(C)  s == m.shard  g == Owner(C, s)  h == Dest(W, s)
           d == IF St(G, g, s) = NoShard THEN Dt(G, g, s) ELSE NoData
<1>1. /\ s \in Shard /\ m.num = N /\ Moves(C, W, s) /\ m.gid = g
      /\ Reaches(G, h, s, N)
  BY DEF NowOK, MoveT
<1>2. /\ g \in Gid /\ h \in Gid /\ g # h /\ N \in Nat /\ MovingOK(G, N, g, h, s)
      /\ G \in [Gid -> GroupT]
  BY <1>1, Ends DEF ShardOK, GroupInv
<1>3. \A e \in Gid, t \in Shard : /\ Nm(G, e, t) \in Nat
                                  /\ St(G, e, t) \in {NoShard, Valid, Frozen}
  BY <1>2, GroupFields
<1>4. Nm(G, h, s) = N /\ Nm(G, g, s) = N /\ St(G, g, s) # Valid
  BY <1>1, <1>2, <1>3 DEF MovingOK, Reaches
<1>5. Changed(G, H, g, s, NoShard, N, d)
  BY <1>1, <1>2, <1>4 DEF DeleteEff
<1>6. d = NoData
  BY <1>1, <1>2 DEF DataInv
<1> HIDE DEF N, s, g, h, d
<1>7. /\ \A e \in Gid : e # g => /\ St(H, e, s) = St(G, e, s)
                                 /\ Nm(H, e, s) = Nm(G, e, s)
      /\ St(H, g, s) = NoShard /\ Nm(H, g, s) = N
  BY <1>1, <1>2, <1>5 DEF Changed
<1>8. MovingOK(H, N, g, h, s)
  BY <1>1, <1>2, <1>3, <1>4, <1>7 DEF MovingOK, NoShard, Valid
<1>9. /\ ~Holds(C, W, H, g, s)
      /\ \A e \in Gid : Holds(C, W, H, e, s) /\ e # g => Holds(C, W, G, e, s)
  BY <1>2, <1>4, <1>7 DEF Holds, h, N, NoShard, Valid, Frozen
<1>10. ~(Nm(H, h, s) < N) /\ NoShard \in {NoShard, Valid, Frozen}
  BY <1>2, <1>4, <1>7
<1>11. GoodStep(C, W, G, H, n, n)
  BY <1>1, <1>2, <1>5, <1>6, <1>8, <1>9, <1>10, MoveFrame DEF N, g, h
<1> QED BY <1>1, <1>4, <1>11 DEF s, g

\* Whatever request of a controller is executed, early, late or again, it does
\* no harm.
LEMMA RequestStep ==
  ASSUME NEW C, NEW W, StoreInv(C, W), NEW G, NEW H, NEW n \in Nat,
         GroupInv(C, W, G), DataInv(C, W, G, n),
         NEW m \in MoveT, SentOK(C, W, G, m),
         \/ m.kind = "freeze" /\ FreezeEff(G, H, m)
         \/ m.kind = "install" /\ InstallEff(G, H, m)
         \/ m.kind = "delete" /\ DeleteEff(G, H, m)
  PROVE  /\ GoodStep(C, W, G, H, n, n)
         /\ m.kind = "install" => \/ m.num <= Nm(G, m.gid, m.shard)
                                  \/ St(G, m.gid, m.shard) # Frozen
         /\ m.kind = "delete" => \/ m.num < Nm(G, m.gid, m.shard)
                                 \/ St(G, m.gid, m.shard) # Valid
<1>1. m \notin PutT
  BY DEF MoveT, PutT
<1>2. CASE OldOK(G, m)
  <2>1. G \in [Gid -> GroupT]
    BY DEF GroupInv
  <2>2. /\ H = G
        /\ m.kind = "delete" =>
             m.num < Nm(G, m.gid, m.shard) \/ St(G, m.gid, m.shard) = NoShard
        /\ m.kind = "install" => m.num <= Nm(G, m.gid, m.shard)
    BY <1>2, <2>1, OldRequest
  <2> QED BY <2>2, NoStep DEF NoShard, Valid
<1>3. CASE NowOK(C, W, G, m)
  <2>1. CASE m.kind = "freeze"
    BY <1>3, <2>1, FreezeNow
  <2>2. CASE m.kind = "install"
    BY <1>3, <2>2, InstallNow
  <2>3. CASE m.kind = "delete"
    BY <1>3, <2>3, DeleteNow
  <2> QED BY <2>1, <2>2, <2>3 DEF MoveT
<1> QED BY <1>1, <1>2, <1>3 DEF SentOK

\* A group that serves a shard is its owner, or it is moving to it; no other
\* group holds the shard's data then.
LEMMA ServesHolds ==
  ASSUME NEW C, NEW W, StoreInv(C, W), NEW G, GroupInv(C, W, G),
         NEW s \in Shard, NEW g \in Gid, St(G, g, s) = Valid
  PROVE  /\ \A e \in Gid : Holds(C, W, G, e, s) => e = g
         /\ g = Owner(C, s) /\ Moves(C, W, s) =>
              ~Reaches(G, Owner(C, s), s, NextNum(C))
<1>0. ShardOK(C, W, G, s) /\ G \in [Gid -> GroupT]
  BY DEF GroupInv
<1>1. CASE Moves(C, W, s)
  <2> DEFINE N == NextNum(C)  o == Owner(C, s)  h == Dest(W, s)
  <2>1. o \in Gid /\ h \in Gid /\ o # h /\ N \in Nat /\ MovingOK(G, N, o, h, s)
    BY <1>0, <1>1, Ends DEF ShardOK
  <2>2. \A e \in Gid : Nm(G, e, s) \in Nat
    BY <1>0, GroupFields
  <2> HIDE DEF N, o, h
  <2>3. g = o => Nm(G, o, s) < N /\ Nm(G, h, s) < N
    BY <2>1, <2>2 DEF MovingOK
  <2>4. g \in {o, h} /\ (g = h => Nm(G, h, s) = N /\ Nm(G, o, s) = N)
    BY <2>1, <2>2 DEF MovingOK, NoShard, Valid
  <2>5. ASSUME NEW e \in Gid, Holds(C, W, G, e, s) PROVE e = g
    <3>1. St(G, e, s) = Valid \/ (St(G, e, s) = Frozen /\ Nm(G, h, s) < N)
      BY <2>5 DEF Holds, h, N
    <3> QED BY <2>1, <2>2, <2>3, <2>4, <3>1 DEF MovingOK, NoShard, Valid, Frozen
  <2> QED BY <2>1, <2>2, <2>3, <2>5 DEF Reaches, o, N
<1>2. CASE ~Moves(C, W, s)
  BY <1>0, <1>2 DEF ShardOK, SettledOK, Holds, NoShard, Valid, Frozen
<1> QED BY <1>1, <1>2

\* doPut, when it writes.
LEMMA WriteStep ==
  ASSUME NEW C, NEW W, StoreInv(C, W), NEW G, NEW H, NEW n \in Nat,
         GroupInv(C, W, G), DataInv(C, W, G, n),
         NEW g \in Gid, St(G, g, KeyShard) = Valid, NEW d \in DataT,
         d.version = n + 1,
         Changed(G, H, g, KeyShard, Valid, Nm(G, g, KeyShard), d)
  PROVE  GoodStep(C, W, G, H, n, n + 1)
<1>0. KeyShard \in Shard
  BY KeyShardAssumption DEF Shard
<1>1. \A e \in Gid, t \in Shard : Nm(G, e, t) \in Nat
  BY GroupFields DEF GroupInv
<1>2. /\ H \in [Gid -> GroupT]
      /\ \A e \in Gid, t \in Shard :
           /\ St(H, e, t) = St(G, e, t) /\ Nm(H, e, t) = Nm(G, e, t)
           /\ ~(e = g /\ t = KeyShard) => Dt(H, e, t) = Dt(G, e, t)
      /\ Dt(H, g, KeyShard) = d
  BY <1>0 DEF Changed
<1>3. GroupInv(C, W, H)
  BY <1>2, SameShard DEF GroupInv
<1>4. Grows(G, H)
  BY <1>1, <1>2 DEF Grows
<1>5. /\ \A e \in Gid : Holds(C, W, G, e, KeyShard) => e = g
      /\ g = Owner(C, KeyShard) /\ Moves(C, W, KeyShard) =>
           ~Reaches(G, Owner(C, KeyShard), KeyShard, NextNum(C))
  BY <1>0, ServesHolds
<1>6. KeepsData(C, W, G, H)
  <2> SUFFICES ASSUME NEW t \in Shard, Moves(C, W, t),
                      Reaches(G, Owner(C, t), t, NextNum(C))
               PROVE  Dt(H, Owner(C, t), t) = Dt(G, Owner(C, t), t)
    BY DEF KeepsData
  <2> QED BY <1>2, <1>5, Ends
<1>7. DataInv(C, W, H, n + 1)
  <2>1. ASSUME NEW e \in Gid, NEW t \in Shard, St(H, e, t) = NoShard
        PROVE  Dt(H, e, t) = NoData
    BY <1>0, <1>2, <2>1 DEF DataInv, NoShard, Valid
  <2>2. ASSUME NEW e \in Gid, Holds(C, W, H, e, KeyShard)
        PROVE  Dt(H, e, KeyShard).version = n + 1
    <3>1. Holds(C, W, G, e, KeyShard)
      BY <1>0, <1>2, <2>2, Ends DEF Holds
    <3> QED BY <1>2, <1>5, <3>1
  <2> QED BY <2>1, <2>2 DEF DataInv
<1> QED BY <1>3, <1>4, <1>6, <1>7 DEF GoodStep

\* A shard that has moved stays moved.
LEMMA DoneKeeps ==
  ASSUME NEW G \in [Gid -> GroupT], NEW H \in [Gid -> GroupT], Grows(G, H),
         NEW from \in FullConfig, NEW to \in FullConfig, NEW s \in Shard,
         DoneAt(G, from, to, s)
  PROVE  DoneAt(H, from, to, s)
<1> DEFINE g == from.shards[s]  h == to.shards[s]  n == to.num
<1>1. g \in Gid /\ h \in Gid /\ n \in Nat
  BY DEF FullConfig, Config
<1> HIDE DEF g, h, n
<1>2. /\ Nm(G, g, s) \in Nat /\ Nm(H, g, s) \in Nat
      /\ Nm(G, h, s) \in Nat /\ Nm(H, h, s) \in Nat
  BY <1>1, GroupFields
<1>3. Closed(G, g, s, n) /\ Reaches(G, h, s, n)
  BY DEF DoneAt, g, h, n
<1>4. Closed(H, g, s, n) /\ Reaches(H, h, s, n)
  BY <1>1, <1>2, <1>3 DEF Closed, Reaches, Grows
<1> QED BY <1>4 DEF DoneAt, g, h, n

\* What is known of a request stays true when another one is executed.
LEMMA SentKeeps ==
  ASSUME NEW C, NEW W, StoreInv(C, W), NEW G, NEW H, NEW n, NEW p,
         GoodStep(C, W, G, H, n, p), NEW m, SentOK(C, W, G, m)
  PROVE  SentOK(C, W, H, m)
<1>0. /\ G \in [Gid -> GroupT] /\ H \in [Gid -> GroupT]
      /\ Grows(G, H) /\ KeepsData(C, W, G, H)
  BY DEF GoodStep, GroupInv
<1>1. CASE m \in PutT
  BY <1>1 DEF SentOK
<1> DEFINE s == m.shard  k == m.num
<1>2. CASE m \in MoveT /\ m.num < NextNum(C) /\ OldOK(G, m)
  <2>1. m.gid \in Gid /\ s \in Shard /\ k \in Nat
    BY <1>2 DEF MoveT
  <2>2. Nm(G, m.gid, s) \in Nat /\ Nm(H, m.gid, s) \in Nat
    BY <1>0, <2>1, GroupFields
  <2>3. OldOK(H, m)
    BY <1>0, <1>2, <2>1, <2>2 DEF OldOK, Closed, Reaches, Grows
  <2> QED BY <1>2, <2>3 DEF SentOK
<1>3. CASE m \in MoveT /\ NowOK(C, W, G, m)
  <2> DEFINE g == Owner(C, s)  h == Dest(W, s)
  <2>1. s \in Shard /\ k = NextNum(C) /\ k \in Nat /\ Moves(C, W, s)
    BY <1>3 DEF MoveT, NowOK
  <2>2. g \in Gid /\ h \in Gid
    BY <2>1, Ends
  <2>3. /\ Nm(G, g, s) \in Nat /\ Nm(H, g, s) \in Nat
        /\ Nm(G, h, s) \in Nat /\ Nm(H, h, s) \in Nat
    BY <1>0, <2>1, <2>2, GroupFields
  <2>4. /\ Nm(G, g, s) <= Nm(H, g, s) /\ Nm(G, h, s) <= Nm(H, h, s)
        /\ Reaches(G, g, s, k) /\ Nm(H, h, s) < k => Dt(H, g, s) = Dt(G, g, s)
    BY <1>0, <2>1, <2>2 DEF Grows, KeepsData
  <2>5. NowOK(C, W, H, m)
    BY <1>3, <2>1, <2>3, <2>4 DEF NowOK, Reaches
  <2> QED BY <1>3, <2>5 DEF SentOK
<1> QED BY <1>1, <1>2, <1>3 DEF SentOK

\* What is known of a controller stays true when a request is executed.
LEMMA CtlKeeps ==
  ASSUME NEW C, NEW W, StoreInv(C, W), NEW G, NEW H, NEW n, NEW p,
         GoodStep(C, W, G, H, n, p), NEW S, NEW T, S \subseteq T,
         NEW c, CtlOK(C, W, G, S, c)
  PROVE  CtlOK(C, W, H, T, c)
<1>0. /\ G \in [Gid -> GroupT] /\ H \in [Gid -> GroupT] /\ Grows(G, H)
  BY DEF GoodStep, GroupInv
<1>1. c \in CtlT /\ KnowsOK(C, c) /\ MovedOK(C, W, G, c) /\ CallOK(S, c)
  BY DEF CtlOK
<1>2. ASSUME NEW from \in FullConfig, NEW to \in FullConfig, AllDone(G, from, to)
      PROVE  AllDone(H, from, to)
  BY <1>0, <1>2, DoneKeeps DEF AllDone
<1>3. MovedOK(C, W, H, c)
  <2>1. ASSUME c.pc = "recover", c.ver < C.version, c.ver = W.version
        PROVE  AllDone(H, c.config, W.config)
    <3>1. c.config \in FullConfig /\ c.ver > 0
      BY <1>1, <2>1 DEF KnowsOK, VerPcs
    <3>2. W.config \in FullConfig
      BY <2>1, <3>1 DEF StoreInv
    <3>3. AllDone(G, c.config, W.config)
      BY <1>1, <2>1 DEF MovedOK
    <3> QED BY <1>2, <3>1, <3>2, <3>3
  <2>2. ASSUME c.pc \in MovePcs
        PROVE  /\ c.ver = C.version => W.version = C.version /\ c.target = W.config
               /\ c.ver < C.version \/ c.pc = "store"
                    => AllDone(H, c.config, c.target)
               /\ \A s \in Shard :
                    s < c.shard /\ c.config.shards[s] # c.target.shards[s]
                      => DoneAt(H, c.config, c.target, s)
    <3>1. c.config \in FullConfig /\ c.target \in FullConfig
      BY <1>1, <2>2 DEF KnowsOK, VerPcs, TargetPcs
    <3> QED BY <1>0, <1>1, <1>2, <2>2, <3>1, DoneKeeps DEF MovedOK
  <2> QED BY <2>1, <2>2 DEF MovedOK
<1>4. CallOK(T, c)
  BY <1>1 DEF CallOK
<1> QED BY <1>1, <1>3, <1>4 DEF CtlOK

-----------------------------------------------------------------------------
(* The steps of a controller.                                              *)

\* What controller record c, which moves shards, must know.
KnowsMove(C, W, G, c) ==
  /\ c \in CtlT
  /\ c.ver \in 1 .. C.version
  /\ c.config \in FullConfig /\ c.config.num = c.ver
  /\ c.target \in FullConfig /\ c.target.num = c.ver + 1
  /\ c.ver = C.version =>
       c.config = C.config /\ W.version = C.version /\ c.target = W.config
  /\ c.ver < C.version => AllDone(G, c.config, c.target)

\* NextMove is the first shard from s on that changes its group.
LEMMA NextMoveIs ==
  ASSUME NEW from, NEW to, NEW s \in Nat, NEW t, t = NextMove(from, to, s)
  PROVE  /\ t \in 0 .. NShards
         /\ t < NShards => t \in Shard /\ from.shards[t] # to.shards[t] /\ s <= t
         /\ \A u \in Shard : s <= u /\ u < t => from.shards[u] = to.shards[u]
<1> DEFINE A == {u \in Shard : u >= s /\ from.shards[u] # to.shards[u]}
           B == A \cup {NShards}
<1>0. NShards \in Nat
  BY NShardsAssumption
<1>1. B \in SUBSET Nat /\ B # {}
  BY <1>0 DEF Shard
<1>2. t \in B /\ \A y \in B : t <= y
  <2>1. t = Min(B)
    BY DEF NextMove
  <2> HIDE DEF B
  <2>2. PICK x \in B : \A y \in B : x <= y
    BY <1>1, LeastNumber
  <2> QED BY <2>1, <2>2 DEF Min
<1>3. \A u \in Shard : u \in 0 .. NShards /\ u < NShards
  BY <1>0 DEF Shard
<1>4. ASSUME NEW u \in Shard, u < t PROVE u \notin A
  <2>1. u \in Nat /\ t \in Nat
    BY <1>1, <1>2, <1>3
  <2>2. ~(t <= u)
    BY <1>4, <2>1
  <2>3. u \notin B
    BY <1>2, <2>2
  <2> QED BY <2>3
<1> QED BY <1>0, <1>2, <1>3, <1>4

\* The fields of a controller's request.
LEMMA RequestFields ==
  ASSUME NEW c \in CtlT, c.shard \in Shard, c.config \in FullConfig,
         c.target \in FullConfig, NEW kind \in CallPcs
  PROVE  LET m == Request(c, kind)
         IN  /\ m \in MoveT /\ m.kind = kind /\ m.shard = c.shard
             /\ m.num = c.target.num
             /\ m.gid = IF kind = "install" THEN c.target.shards[c.shard]
                        ELSE c.config.shards[c.shard]
             /\ kind = "install" => m.data = c.data
<1>1. /\ c.config.shards[c.shard] \in Gid /\ c.target.shards[c.shard] \in Gid
      /\ c.target.num \in Nat
  BY DEF FullConfig, Config
<1>2. c.data \in DataT /\ NoData \in DataT
  BY DEF CtlT, NoData, DataT
<1> QED BY <1>1, <1>2 DEF Request, MoveT, CallPcs

\* The request for a shard that moves, when it may be sent.
LEMMA RequestOK ==
  ASSUME NEW C, NEW W, StoreInv(C, W), NEW G, NEW c, KnowsMove(C, W, G, c),
         NEW kind \in CallPcs, c.shard \in Shard,
         c.config.shards[c.shard] # c.target.shards[c.shard],
         c.ver = C.version /\ kind = "install" =>
           /\ Reaches(G, c.config.shards[c.shard], c.shard, NextNum(C))
           /\ Nm(G, c.target.shards[c.shard], c.shard) < NextNum(C) =>
                c.data = Dt(G, c.config.shards[c.shard], c.shard),
         c.ver = C.version /\ kind = "delete" =>
           Reaches(G, c.target.shards[c.shard], c.shard, NextNum(C))
  PROVE  SentOK(C, W, G, Request(c, kind))
<1> DEFINE m == Request(c, kind)
<1>1. /\ c \in CtlT /\ c.ver \in 1 .. C.version /\ C.version \in Nat
      /\ c.config \in FullConfig /\ c.target \in FullConfig
      /\ c.target.num = c.ver + 1
  BY DEF KnowsMove, StoreInv, Stored
<1>2. /\ m \in MoveT /\ m.kind = kind /\ m.shard = c.shard
      /\ m.num = c.target.num
      /\ m.gid = IF kind = "install" THEN c.target.shards[c.shard]
                 ELSE c.config.shards[c.shard]
      /\ kind = "install" => m.data = c.data
  BY <1>1, RequestFields
<1> HIDE DEF m
<1>3. CASE c.ver = C.version
  <2>1. /\ c.config = C.config /\ W.version = C.version /\ c.target = W.config
        /\ C.version > 0
    BY <1>1, <1>3 DEF KnowsMove
  <2>2. /\ Owner(C, c.shard) = c.config.shards[c.shard]
        /\ Dest(W, c.shard) = c.target.shards[c.shard]
        /\ Moves(C, W, c.shard) /\ m.num = NextNum(C)
    BY <1>1, <1>2, <1>3, <2>1 DEF Owner, Dest, Moves, Active, NextNum
  <2>3. NowOK(C, W, G, m)
    BY <1>2, <1>3, <2>2 DEF NowOK
  <2> QED BY <1>2, <2>3 DEF SentOK, m
<1>4. CASE c.ver < C.version
  <2>1. DoneAt(G, c.config, c.target, c.shard)
    BY <1>4 DEF KnowsMove, AllDone
  <2>2. OldOK(G, m)
    BY <1>2, <2>1 DEF OldOK, DoneAt
  <2>3. m.num < NextNum(C)
    BY <1>1, <1>2, <1>4 DEF NextNum
  <2> QED BY <1>2, <2>2, <2>3 DEF SentOK, m
<1> QED BY <1>1, <1>3, <1>4

\* changeConfig goes on with the first shard from s on, or with the Put of the
\* new configuration, when all shards before s have moved.
LEMMA MoveFromOK ==
  ASSUME NEW C, NEW W, StoreInv(C, W), NEW G, NEW c, KnowsMove(C, W, G, c),
         NEW s \in Nat,
         \A t \in Shard : t < s /\ c.config.shards[t] # c.target.shards[t]
                            => DoneAt(G, c.config, c.target, t),
         NEW d, d = MoveFrom(c, s)
  PROVE  /\ d \in CtlT /\ KnowsOK(C, d) /\ MovedOK(C, W, G, d)
         /\ d.pc \in CallPcs => /\ d.shard \in Shard
                                /\ d.config.shards[d.shard] # d.target.shards[d.shard]
                                /\ SentOK(C, W, G, Request(d, d.pc))
<1> DEFINE t == NextMove(c.config, c.target, s)
<1>1. /\ t \in 0 .. NShards
      /\ t < NShards =>
           t \in Shard /\ c.config.shards[t] # c.target.shards[t] /\ s <= t
      /\ \A u \in Shard : s <= u /\ u < t =>
           c.config.shards[u] = c.target.shards[u]
  BY NextMoveIs
<1>2. d = IF t < NShards THEN [c EXCEPT !.pc = "freeze", !.shard = t]
          ELSE [c EXCEPT !.pc = "store", !.shard = 0, !.data = NoData]
  BY DEF MoveFrom
<1> HIDE DEF t
<1>3. c \in CtlT /\ NShards \in Nat /\ NoData \in DataT
  BY NShardsAssumption DEF KnowsMove, NoData, DataT
<1>4. \A u \in Shard : u \in Nat /\ u < NShards
  BY <1>3 DEF Shard
<1>5. CASE t < NShards
  <2>1. /\ d \in CtlT /\ d.pc = "freeze" /\ d.shard = t /\ d.config = c.config
        /\ d.target = c.target /\ d.ver = c.ver
    <3>1. \A p \in VerPcs, u \in Nat :
            LET e == [c EXCEPT !.pc = p, !.shard = u]
            IN  /\ e \in CtlT /\ e.pc = p /\ e.shard = u /\ e.config = c.config
                /\ e.target = c.target /\ e.ver = c.ver
      BY <1>3 DEF CtlT
    <3>2. "freeze" \in VerPcs /\ t \in Nat
      BY <1>1, <1>3 DEF VerPcs, TargetPcs, MovePcs, CallPcs
    <3>3. d = [c EXCEPT !.pc = "freeze", !.shard = t]
      BY <1>2, <1>5
    <3>4. LET e == [c EXCEPT !.pc = "freeze", !.shard = t]
          IN  /\ e \in CtlT /\ e.pc = "freeze" /\ e.shard = t
              /\ e.config = c.config /\ e.target = c.target /\ e.ver = c.ver
      BY <3>1, <3>2
    <3> QED BY <3>3, <3>4
  <2>2. KnowsMove(C, W, G, d)
    BY <2>1 DEF KnowsMove
  <2>3. d.shard \in Shard /\ d.config.shards[d.shard] # d.target.shards[d.shard]
    BY <1>1, <1>5, <2>1
  <2>4. SentOK(C, W, G, Request(d, d.pc))
    BY <2>1, <2>2, <2>3, RequestOK DEF CallPcs
  <2>5. KnowsOK(C, d)
    BY <2>1, <2>2 DEF KnowsOK, KnowsMove, VerPcs, TargetPcs
  <2>6. \A u \in Shard : u < t /\ c.config.shards[u] # c.target.shards[u]
                            => DoneAt(G, c.config, c.target, u)
    BY <1>1, <1>4
  <2>7. MovedOK(C, W, G, d)
    BY <2>1, <2>2, <2>6 DEF MovedOK, KnowsMove
  <2> QED BY <2>1, <2>3, <2>4, <2>5, <2>7
<1>6. CASE ~(t < NShards)
  <2>1. /\ d \in CtlT /\ d.pc = "store" /\ d.shard = 0 /\ d.config = c.config
        /\ d.target = c.target /\ d.ver = c.ver
    <3>1. \A p \in VerPcs, x \in DataT :
            LET e == [c EXCEPT !.pc = p, !.shard = 0, !.data = x]
            IN  /\ e \in CtlT /\ e.pc = p /\ e.shard = 0 /\ e.config = c.config
                /\ e.target = c.target /\ e.ver = c.ver
      BY <1>3 DEF CtlT
    <3>2. "store" \in VerPcs
      BY DEF VerPcs, TargetPcs, MovePcs
    <3>3. d = [c EXCEPT !.pc = "store", !.shard = 0, !.data = NoData]
      BY <1>2, <1>6
    <3>4. LET e == [c EXCEPT !.pc = "store", !.shard = 0, !.data = NoData]
          IN  /\ e \in CtlT /\ e.pc = "store" /\ e.shard = 0
              /\ e.config = c.config /\ e.target = c.target /\ e.ver = c.ver
      BY <1>3, <3>1, <3>2
    <3> QED BY <3>3, <3>4
  <2>2. t = NShards
    BY <1>1, <1>3, <1>6
  <2>3. AllDone(G, c.config, c.target)
    BY <1>1, <1>4, <2>2 DEF AllDone
  <2>4. KnowsOK(C, d)
    BY <2>1 DEF KnowsOK, KnowsMove, VerPcs, TargetPcs
  <2>5. MovedOK(C, W, G, d)
    <3>1. \A u \in Shard : ~(u < 0)
      BY <1>4
    <3> QED BY <2>1, <2>3, <3>1 DEF MovedOK, KnowsMove
  <2>6. d.pc \notin CallPcs
    BY <2>1 DEF CallPcs
  <2> QED BY <2>1, <2>4, <2>5, <2>6
<1> QED BY <1>5, <1>6

\* Continue: controller k goes on as c.
LEMMA Continued ==
  ASSUME NEW C, NEW W, NEW G, NEW S, NEW T, NEW K \in [Controller -> CtlT],
         NEW k \in Controller, NEW c \in CtlT,
         T = IF c.pc \in CallPcs THEN S \cup {Request(c, c.pc)} ELSE S,
         SentInv(C, W, G, S),
         \A j \in Controller : CtlOK(C, W, G, S, K[j]) \/ j = k,
         KnowsOK(C, c), MovedOK(C, W, G, c),
         c.pc \in CallPcs => /\ c.shard \in Shard
                             /\ c.config.shards[c.shard] # c.target.shards[c.shard]
                             /\ SentOK(C, W, G, Request(c, c.pc))
  PROVE  CtlInv(C, W, G, T, [K EXCEPT ![k] = c]) /\ SentInv(C, W, G, T)
<1>1. S \subseteq T /\ (c.pc \in CallPcs => Request(c, c.pc) \in T)
  OBVIOUS
<1>2. SentInv(C, W, G, T)
  BY DEF SentInv
<1>3. CtlOK(C, W, G, T, c)
  BY <1>1 DEF CtlOK, CallOK
<1>4. ASSUME NEW j \in Controller, j # k PROVE CtlOK(C, W, G, T, K[j])
  BY <1>1, <1>4 DEF CtlOK, CallOK
<1> QED BY <1>2, <1>3, <1>4 DEF CtlInv

\* A new configuration is published: every shard is where the stored one has
\* it, and no request for a move from there was ever sent.
LEMMA PublishKeeps ==
  ASSUME NEW C, NEW W, StoreInv(C, W), NEW G, NEW n, GroupInv(C, W, G),
         DataInv(C, W, G, n), C.version > 0, W.version = C.version - 1,
         NEW target \in FullConfig, target.num = C.version + 1,
         NEW X, X = [version |-> C.version, config |-> target]
  PROVE  /\ StoreInv(C, X) /\ GroupInv(C, X, G) /\ DataInv(C, X, G, n)
         /\ \A m : SentOK(C, W, G, m) => SentOK(C, X, G, m)
         /\ \A S, c : CtlOK(C, W, G, S, c) => CtlOK(C, X, G, S, c)
<1>0. /\ C.version \in Nat /\ X.version = C.version /\ X.config = target
      /\ target \in Config
  BY DEF StoreInv, Stored, FullConfig
<1>1. \A s \in Shard : ~Moves(C, W, s)
  BY <1>0 DEF Moves, Active
<1>2. StoreInv(C, X)
  BY <1>0 DEF StoreInv, Stored
<1>3. G \in [Gid -> GroupT]
  BY DEF GroupInv
<1>4. ASSUME NEW s \in Shard
      PROVE  /\ ShardOK(C, X, G, s)
             /\ \A e \in Gid : Holds(C, X, G, e, s) => Holds(C, W, G, e, s)
  <2>1. SettledOK(C, G, s)
    BY <1>1 DEF GroupInv, ShardOK
  <2>2. CASE Moves(C, X, s)
    <3> DEFINE N == NextNum(C)  g == Owner(C, s)  h == Dest(X, s)
    <3>1. g \in Gid /\ h \in Gid /\ g # h /\ N \in Nat
      BY <1>2, <2>2, Ends
    <3>2. \A e \in Gid : /\ Nm(G, e, s) \in Nat /\ Nm(G, e, s) < N
                         /\ St(G, e, s) = IF e = g THEN Valid ELSE NoShard
      BY <1>3, <2>1, GroupFields DEF SettledOK
    <3> HIDE DEF N, g, h
    <3>3. MovingOK(G, N, g, h, s)
      BY <3>1, <3>2 DEF MovingOK, NoShard, Valid
    <3> QED BY <2>2, <3>2, <3>3 DEF ShardOK, Holds, NoShard, Valid, Frozen, N, g, h
  <2>3. CASE ~Moves(C, X, s)
    BY <2>1, <2>3 DEF ShardOK, Holds
  <2> QED BY <2>2, <2>3
<1>5. GroupInv(C, X, G)
  BY <1>3, <1>4 DEF GroupInv
<1>6. DataInv(C, X, G, n)
  <2>1. KeyShard \in Shard
    BY KeyShardAssumption DEF Shard
  <2> QED BY <1>4, <2>1 DEF DataInv
<1>7. ASSUME NEW m, SentOK(C, W, G, m) PROVE SentOK(C, X, G, m)
  <2>1. ~(m \in MoveT /\ NowOK(C, W, G, m))
    BY <1>1 DEF NowOK, MoveT
  <2> QED BY <1>7, <2>1 DEF SentOK
<1>8. ASSUME NEW S, NEW c, CtlOK(C, W, G, S, c) PROVE CtlOK(C, X, G, S, c)
  <2>1. c \in CtlT /\ KnowsOK(C, c) /\ MovedOK(C, W, G, c) /\ CallOK(S, c)
    BY <1>8 DEF CtlOK
  <2>2. c.ver \in Nat
    BY <2>1 DEF CtlT
  <2>3. c.pc \in MovePcs => c.ver # C.version
    BY <1>0, <2>1 DEF MovedOK
  <2>4. MovedOK(C, X, G, c)
    BY <1>0, <2>1, <2>2, <2>3 DEF MovedOK
  <2> QED BY <2>1, <2>4 DEF CtlOK
<1> QED BY <1>2, <1>5, <1>6, <1>7, <1>8

\* The new configuration is stored, all its shards having moved.
LEMMA StoreKeeps ==
  ASSUME NEW C, NEW W, StoreInv(C, W), NEW G, NEW n, GroupInv(C, W, G),
         DataInv(C, W, G, n), Active(C, W), AllDone(G, C.config, W.config),
         NEW X, X = [version |-> C.version + 1, config |-> W.config]
  PROVE  /\ StoreInv(X, W) /\ GroupInv(X, W, G) /\ DataInv(X, W, G, n)
         /\ \A m : SentOK(C, W, G, m) => SentOK(X, W, G, m)
         /\ \A S, c : CtlOK(C, W, G, S, c) => CtlOK(X, W, G, S, c)
<1>0. /\ C.version \in Nat /\ C.version > 0 /\ W.version = C.version
      /\ X.version = C.version + 1 /\ X.config = W.config
      /\ W.config \in FullConfig /\ W.config.num = C.version + 1
      /\ W.config \in Config
  BY DEF StoreInv, Stored, Active, FullConfig
<1>1. \A s \in Shard : ~Moves(X, W, s)
  BY <1>0 DEF Moves, Active
<1>2. StoreInv(X, W)
  BY <1>0 DEF StoreInv, Stored
<1>3. G \in [Gid -> GroupT]
  BY DEF GroupInv
<1>4. ASSUME NEW s \in Shard, Moves(C, W, s)
      PROVE  LET N == NextNum(C)
             IN  /\ St(G, Owner(C, s), s) = NoShard /\ Nm(G, Owner(C, s), s) = N
                 /\ St(G, Dest(W, s), s) = Valid /\ Nm(G, Dest(W, s), s) = N
                 /\ \A e \in Gid : /\ Nm(G, e, s) <= N
                                   /\ e # Dest(W, s) => St(G, e, s) = NoShard
  <2> DEFINE N == NextNum(C)  g == Owner(C, s)  h == Dest(W, s)
  <2>1. /\ g \in Gid /\ h \in Gid /\ g # h /\ N \in Nat
        /\ MovingOK(G, N, g, h, s)
    BY <1>4, Ends DEF GroupInv, ShardOK
  <2>2. \A e \in Gid : Nm(G, e, s) \in Nat
    BY <1>3, GroupFields
  <2>3. Closed(G, g, s, N) /\ Reaches(G, h, s, N)
    <3>1. g = C.config.shards[s] /\ h = W.config.shards[s] /\ N = W.config.num
      BY <1>0, <1>4, Ends DEF Dest, NextNum
    <3> QED BY <1>4, <3>1 DEF Moves, AllDone, DoneAt
  <2> HIDE DEF N, g, h
  <2>4. St(G, g, s) = NoShard /\ Nm(G, g, s) = N
    BY <2>1, <2>2, <2>3 DEF MovingOK, Closed
  <2>5. St(G, h, s) = Valid /\ Nm(G, h, s) = N
    BY <2>1, <2>2, <2>3 DEF MovingOK, Reaches
  <2>6. \A e \in Gid : Nm(G, e, s) <= N /\ (e # h => St(G, e, s) = NoShard)
    BY <2>1, <2>2, <2>4 DEF MovingOK
  <2> QED BY <2>4, <2>5, <2>6 DEF N, g, h
<1>5. ASSUME NEW s \in Shard
      PROVE  /\ SettledOK(X, G, s)
             /\ \A e \in Gid : Holds(X, W, G, e, s) => Holds(C, W, G, e, s)
  <2>1. Owner(X, s) = Dest(W, s) /\ NextNum(X) = NextNum(C) + 1
    BY <1>0 DEF Owner, Dest, NextNum
  <2>2. \A e \in Gid : Nm(G, e, s) \in Nat
    BY <1>3, GroupFields
  <2>3. CASE Moves(C, W, s)
    <3>1. NextNum(C) \in Nat /\ Dest(W, s) \in Gid
      BY <2>3, Ends
    <3> QED BY <1>1, <1>4, <2>1, <2>2, <2>3, <3>1 DEF SettledOK, Holds
  <2>4. CASE ~Moves(C, W, s)
    <3>1. SettledOK(C, G, s)
      BY <2>4 DEF GroupInv, ShardOK
    <3>2. Owner(C, s) = Owner(X, s) /\ NextNum(C) \in Nat
      BY <1>0, <2>4 DEF Owner, Moves, Active, NextNum
    <3>3. SettledOK(X, G, s)
      BY <2>1, <2>2, <3>1, <3>2 DEF SettledOK
    <3> QED BY <1>1, <3>3 DEF Holds
  <2> QED BY <2>3, <2>4
<1>6. GroupInv(X, W, G)
  BY <1>1, <1>3, <1>5 DEF GroupInv, ShardOK
<1>7. DataInv(X, W, G, n)
  <2>1. KeyShard \in Shard
    BY KeyShardAssumption DEF Shard
  <2> QED BY <1>5, <2>1 DEF DataInv
<1>8. ASSUME NEW m, SentOK(C, W, G, m) PROVE SentOK(X, W, G, m)
  <2>1. CASE m \in PutT
    BY <2>1 DEF SentOK
  <2>2. CASE m \in MoveT /\ m.num < NextNum(C) /\ OldOK(G, m)
    <3>1. m.num \in Nat
      BY <2>2 DEF MoveT
    <3>2. m.num < NextNum(X)
      BY <1>0, <2>2, <3>1 DEF NextNum
    <3> QED BY <2>2, <3>2 DEF SentOK
  <2>3. CASE m \in MoveT /\ NowOK(C, W, G, m)
    <3>1. m.shard \in Shard /\ m.num = NextNum(C) /\ Moves(C, W, m.shard)
      BY <2>3 DEF MoveT, NowOK
    <3>2. m.num < NextNum(X) /\ m.num \in Nat
      BY <1>0, <3>1 DEF NextNum
    <3>3. OldOK(G, m)
      BY <1>4, <2>3, <3>1, <3>2 DEF OldOK, NowOK, Closed, Reaches, MoveT
    <3> QED BY <2>3, <3>2, <3>3 DEF SentOK
  <2> QED BY <1>8, <2>1, <2>2, <2>3 DEF SentOK
<1>9. ASSUME NEW S, NEW c, CtlOK(C, W, G, S, c) PROVE CtlOK(X, W, G, S, c)
  <2>1. c \in CtlT /\ KnowsOK(C, c) /\ MovedOK(C, W, G, c) /\ CallOK(S, c)
    BY <1>9 DEF CtlOK
  <2>2. c.ver \in Nat /\ c.target \in Config /\ c.target.num \in Nat
    BY <2>1 DEF CtlT, Config
  <2>3. KnowsOK(X, c)
    BY <1>0, <2>1, <2>2 DEF KnowsOK
  <2>4. c.pc \in VerPcs /\ c.ver = C.version => AllDone(G, c.config, W.config)
    BY <2>1 DEF KnowsOK
  <2>5. MovedOK(X, W, G, c)
    <3>1. c.pc \in VerPcs => c.ver <= C.version
      BY <1>0, <2>1 DEF KnowsOK
    <3>2. MovePcs \subseteq VerPcs /\ "recover" \in VerPcs
      BY DEF VerPcs, TargetPcs
    <3>3. c.pc = "recover" /\ c.ver = W.version => AllDone(G, c.config, W.config)
      BY <1>0, <2>4, <3>2
    <3>4. c.pc \in MovePcs => c.ver < C.version \/ c.ver = C.version
      BY <1>0, <2>2, <3>1, <3>2
    <3>5. c.pc \in MovePcs => AllDone(G, c.config, c.target)
      BY <2>1, <2>4, <3>2, <3>4 DEF MovedOK
    <3>6. c.pc \in MovePcs => c.ver # X.version
      BY <1>0, <2>2, <3>4
    <3> QED BY <2>1, <3>3, <3>5, <3>6 DEF MovedOK
  <2> QED BY <2>1, <2>3, <2>5 DEF CtlOK
<1> QED BY <1>2, <1>6, <1>7, <1>8, <1>9

\* The first configuration is stored; it has all shards where they are.
LEMMA FirstKeeps ==
  ASSUME NEW C, NEW W, StoreInv(C, W), NEW G, NEW n, GroupInv(C, W, G),
         DataInv(C, W, G, n), C.version = 0,
         NEW first \in FullConfig, first.num = 1,
         \A s \in Shard : first.shards[s] = Gid1,
         NEW X, X = [version |-> 1, config |-> first]
  PROVE  /\ StoreInv(X, W) /\ GroupInv(X, W, G) /\ DataInv(X, W, G, n)
         /\ \A m : SentOK(C, W, G, m) => SentOK(X, W, G, m)
         /\ \A S, c : CtlOK(C, W, G, S, c) => CtlOK(X, W, G, S, c)
<1>0. /\ W.version = 0 /\ X.version = 1 /\ X.config = first
      /\ first \in Config /\ NextNum(C) = 1 /\ NextNum(X) = 2
  BY DEF StoreInv, Stored, FullConfig, NextNum
<1>1. \A s \in Shard : ~Moves(X, W, s) /\ ~Moves(C, W, s)
  BY <1>0 DEF Moves, Active
<1>2. StoreInv(X, W)
  BY <1>0 DEF StoreInv, Stored
<1>3. G \in [Gid -> GroupT]
  BY DEF GroupInv
<1>4. GroupInv(X, W, G)
  <2> SUFFICES ASSUME NEW s \in Shard PROVE SettledOK(X, G, s)
    BY <1>1, <1>3 DEF GroupInv, ShardOK
  <2>1. SettledOK(C, G, s) /\ Owner(C, s) = Owner(X, s)
    BY <1>0, <1>1 DEF GroupInv, ShardOK, Owner
  <2>2. \A e \in Gid : Nm(G, e, s) \in Nat
    BY <1>3, GroupFields
  <2> QED BY <1>0, <2>1, <2>2 DEF SettledOK
<1>5. DataInv(X, W, G, n)
  <2>1. KeyShard \in Shard
    BY KeyShardAssumption DEF Shard
  <2> QED BY <1>1, <2>1 DEF DataInv, Holds
<1>6. ASSUME NEW m, SentOK(C, W, G, m) PROVE SentOK(X, W, G, m)
  <2>1. ~(m \in MoveT /\ NowOK(C, W, G, m))
    BY <1>1 DEF NowOK, MoveT
  <2>2. m \in MoveT /\ m.num < NextNum(C) => m.num < NextNum(X)
    BY <1>0 DEF MoveT
  <2> QED BY <1>6, <2>1, <2>2 DEF SentOK
<1>7. ASSUME NEW S, NEW c, CtlOK(C, W, G, S, c) PROVE CtlOK(X, W, G, S, c)
  <2>1. c \in CtlT /\ KnowsOK(C, c) /\ CallOK(S, c)
    BY <1>7 DEF CtlOK
  <2>2. c.pc \notin VerPcs
    BY <2>1 DEF KnowsOK
  <2>3. c.target.num \in Nat
    BY <2>1 DEF CtlT, Config
  <2>4. KnowsOK(X, c)
    BY <1>0, <2>1, <2>2, <2>3 DEF KnowsOK, VerPcs
  <2>5. MovedOK(X, W, G, c)
    BY <2>2 DEF MovedOK, VerPcs, TargetPcs
  <2> QED BY <2>1, <2>4, <2>5 DEF CtlOK
<1> QED BY <1>2, <1>4, <1>5, <1>6, <1>7

-----------------------------------------------------------------------------
(* The steps of the specification.                                         *)

\* doPut
LEMMA PutEffect ==
  ASSUME ShardInv, NEW m, m.gid \in Gid, m.shard = KeyShard, m.version \in Nat,
         m.writer \in Client \X Nat, DoPut(m)
  PROVE  /\ GoodStep(cur, new, grp, grp', Len(hist), Len(hist'))
         /\ hist' \in Seq(Client \X Nat) /\ fatal' = fatal
<1> DEFINE g == m.gid  s == m.shard
           d == [value |-> m.writer, version |-> m.version + 1]
<1>1. /\ StoreInv(cur, new) /\ GroupInv(cur, new, grp)
      /\ hist \in Seq(Client \X Nat) /\ DataInv(cur, new, grp, Len(hist))
      /\ Len(hist) \in Nat /\ grp \in [Gid -> GroupT]
  BY DEF ShardInv, GroupInv
<1>2. g \in Gid /\ s = KeyShard /\ s \in Shard
  BY KeyShardAssumption DEF Shard
<1>3. fatal' = fatal
  BY DEF DoPut
<1>4. CASE PutErr(m) = "OK"
  <2>1. Serves(m) /\ Data(m).version = m.version
    BY <1>4 DEF PutErr
  <2>2. St(grp, g, s) = Valid /\ Dt(grp, g, s).version = m.version
    BY <2>1 DEF Serves, State, Data, St, Dt
  <2>3. m.version = Len(hist)
    BY <1>1, <1>2, <2>2 DEF DataInv, Holds
  <2>4. grp' = [grp EXCEPT ![g].data[s] = d] /\ hist' = Append(hist, m.writer)
    BY <1>4 DEF DoPut
  <2>5. hist' \in Seq(Client \X Nat) /\ Len(hist') = Len(hist) + 1
    BY <1>1, <2>4
  <2>6. d \in DataT /\ d.version = Len(hist) + 1
    BY <2>3 DEF DataT
  <2> HIDE DEF g, s, d
  <2>7. /\ grp[g].shards \in [Shard -> {NoShard, Valid, Frozen}]
        /\ grp[g].nums \in [Shard -> Nat] /\ grp[g].data \in [Shard -> DataT]
    BY <1>1, <1>2 DEF GroupT
  <2> DEFINE r == [grp[g] EXCEPT !.data = [grp[g].data EXCEPT ![s] = d]]
  <2>8. /\ r \in GroupT /\ r.shards = grp[g].shards /\ r.nums = grp[g].nums
        /\ r.data = [grp[g].data EXCEPT ![s] = d]
    BY <1>1, <1>2, <2>6, <2>7 DEF GroupT
  <2>9. grp' = [grp EXCEPT ![g] = r]
    BY <2>4
  <2> HIDE DEF r
  <2>10. grp' \in [Gid -> GroupT]
    BY <1>1, <1>2, <2>8, <2>9
  <2>11. ASSUME NEW f \in Gid, NEW t \in Shard
         PROVE  /\ St(grp', f, t) = St(grp, f, t)
                /\ Nm(grp', f, t) = Nm(grp, f, t)
                /\ Dt(grp', f, t) = IF f = g /\ t = s THEN d ELSE Dt(grp, f, t)
    BY <1>1, <1>2, <2>7, <2>8, <2>9 DEF St, Nm, Dt
  <2>12. Changed(grp, grp', g, s, Valid, Nm(grp, g, s), d)
    BY <1>2, <2>2, <2>10, <2>11 DEF Changed
  <2>13. GoodStep(cur, new, grp, grp', Len(hist), Len(hist) + 1)
    BY <1>1, <1>2, <2>2, <2>6, <2>12, WriteStep
  <2> QED BY <1>3, <2>5, <2>13
<1>5. CASE PutErr(m) # "OK"
  <2>1. grp' = grp /\ hist' = hist
    BY <1>5 DEF DoPut
  <2> QED BY <1>1, <1>3, <2>1, NoStep
<1> QED BY <1>4, <1>5

\* A request in the network is executed.
LEMMA RequestEffect ==
  ASSUME ShardInv, NEW m \in sent, m \in MoveT,
         \/ m.kind = "freeze" /\ DoFreeze(m)
         \/ m.kind = "install" /\ DoInstall(m)
         \/ m.kind = "delete" /\ DoDelete(m)
  PROVE  /\ GoodStep(cur, new, grp, grp', Len(hist), Len(hist))
         /\ fatal' = fatal
         /\ \/ m.kind = "freeze" /\ FreezeEff(grp, grp', m)
            \/ m.kind = "install" /\ InstallEff(grp, grp', m)
            \/ m.kind = "delete" /\ DeleteEff(grp, grp', m)
<1>1. /\ StoreInv(cur, new) /\ GroupInv(cur, new, grp)
      /\ hist \in Seq(Client \X Nat) /\ DataInv(cur, new, grp, Len(hist))
      /\ Len(hist) \in Nat /\ grp \in [Gid -> GroupT]
      /\ SentOK(cur, new, grp, m)
  BY DEF ShardInv, GroupInv, SentInv
<1>2. m.gid \in Gid /\ m.shard \in Shard /\ m.num \in Nat /\ m.data \in DataT
  BY DEF MoveT
<1>3. CASE m.kind = "freeze" /\ DoFreeze(m)
  <2>1. FreezeEff(grp, grp', m) /\ fatal' = fatal
    BY <1>1, <1>2, <1>3, FreezeEffect
  <2> QED BY <1>1, <1>3, <2>1, RequestStep
<1>4. CASE m.kind = "install" /\ DoInstall(m)
  <2>1. /\ InstallEff(grp, grp', m)
        /\ m.num <= Nm(grp, m.gid, m.shard) \/ St(grp, m.gid, m.shard) # Frozen
             => fatal' = fatal
    BY <1>1, <1>2, <1>4, InstallEffect
  <2> QED BY <1>1, <1>4, <2>1, RequestStep
<1>5. CASE m.kind = "delete" /\ DoDelete(m)
  <2>1. /\ DeleteEff(grp, grp', m)
        /\ m.num < Nm(grp, m.gid, m.shard) \/ St(grp, m.gid, m.shard) # Valid
             => fatal' = fatal
    BY <1>1, <1>2, <1>5, DeleteEffect
  <2> QED BY <1>1, <1>5, <2>1, RequestStep
<1> QED BY <1>3, <1>4, <1>5

\* After any execution at a group, everything but the clerks is as it should.
LEMMA AfterExecution ==
  ASSUME ShardInv, GoodStep(cur, new, grp, grp', Len(hist), Len(hist')),
         hist' \in Seq(Client \X Nat), fatal' = fatal,
         UNCHANGED <<cur, new, ctl, sent>>,
         ClerkInv(cur', clerk', ops')
  PROVE  ShardInv'
<1>1. /\ StoreInv(cur, new) /\ SentInv(cur, new, grp, sent)
      /\ CtlInv(cur, new, grp, sent, ctl) /\ fatal = {}
  BY DEF ShardInv
<1>2. GroupInv(cur, new, grp') /\ DataInv(cur, new, grp', Len(hist'))
  BY DEF GoodStep
<1>3. SentInv(cur, new, grp', sent)
  BY <1>1, SentKeeps DEF SentInv
<1>4. CtlInv(cur, new, grp', sent, ctl)
  BY <1>1, CtlKeeps DEF CtlInv
<1> QED BY <1>1, <1>2, <1>3, <1>4 DEF ShardInv

\* Unheard
LEMMA UnheardKeeps ==
  ASSUME ShardInv, NEW m \in sent, Unheard(m)
  PROVE  ShardInv'
<1>1. UNCHANGED <<cur, new, ctl, sent, clerk, ops>>
  BY DEF Unheard, ctlVars
<1>2. ClerkInv(cur', clerk', ops')
  BY <1>1 DEF ShardInv
<1>3. SentOK(cur, new, grp, m) /\ hist \in Seq(Client \X Nat)
  BY DEF ShardInv, SentInv
<1>4. CASE m \in PutT
  <2>1. m.kind = "put" /\ m.gid \in Gid /\ m.shard = KeyShard
        /\ m.version \in Nat /\ m.writer \in Client \X Nat
    BY <1>4 DEF PutT
  <2>2. DoPut(m)
    BY <2>1 DEF Unheard
  <2>3. /\ GoodStep(cur, new, grp, grp', Len(hist), Len(hist'))
        /\ hist' \in Seq(Client \X Nat) /\ fatal' = fatal
    BY <2>1, <2>2, PutEffect
  <2> QED BY <1>1, <1>2, <2>3, AfterExecution
<1>5. CASE m \in MoveT
  <2>1. m.kind \in {"freeze", "install", "delete"}
    BY <1>5 DEF MoveT
  <2>2. /\ hist' = hist
        /\ \/ m.kind = "freeze" /\ DoFreeze(m)
           \/ m.kind = "install" /\ DoInstall(m)
           \/ m.kind = "delete" /\ DoDelete(m)
    BY <2>1 DEF Unheard
  <2>3. GoodStep(cur, new, grp, grp', Len(hist), Len(hist')) /\ fatal' = fatal
    BY <1>5, <2>2, RequestEffect
  <2> QED BY <1>1, <1>2, <1>3, <2>2, <2>3, AfterExecution
<1> QED BY <1>3, <1>4, <1>5 DEF SentOK

\* Controller k goes on as c, after whatever happened to the configurations and
\* the groups.
LEMMA GoesOn ==
  ASSUME ShardInv, NEW k \in Controller, NEW c \in CtlT, Continue(k, c),
         UNCHANGED <<clerk, hist, ops>>, fatal' = fatal,
         cur'.version > 0 \/ cur.version = 0,
         StoreInv(cur', new'), GroupInv(cur', new', grp'),
         DataInv(cur', new', grp', Len(hist)),
         \A m \in sent : SentOK(cur', new', grp', m),
         \A j \in Controller : CtlOK(cur', new', grp', sent, ctl[j]),
         KnowsOK(cur', c), MovedOK(cur', new', grp', c),
         c.pc \in CallPcs => /\ c.shard \in Shard
                             /\ c.config.shards[c.shard] # c.target.shards[c.shard]
                             /\ SentOK(cur', new', grp', Request(c, c.pc))
  PROVE  ShardInv'
<1>1. /\ ctl' = [ctl EXCEPT ![k] = c]
      /\ sent' = IF c.pc \in CallPcs THEN sent \cup {Request(c, c.pc)} ELSE sent
  BY DEF Continue, CallPcs
<1>2. /\ hist \in Seq(Client \X Nat) /\ ClerkInv(cur, clerk, ops) /\ fatal = {}
      /\ ctl \in [Controller -> CtlT]
  BY DEF ShardInv, CtlInv
<1>3. SentInv(cur', new', grp', sent)
  BY DEF SentInv
<1>4. CtlInv(cur', new', grp', sent', ctl') /\ SentInv(cur', new', grp', sent')
  BY <1>1, <1>2, <1>3, Continued
<1>5. ClerkInv(cur', clerk', ops')
  <2>1. cur.version > 0 => cur'.version > 0
    OBVIOUS
  <2> QED BY <1>2, <2>1 DEF ClerkInv
<1> QED BY <1>2, <1>4, <1>5 DEF ShardInv

\* The same, when only the controller changes.
LEMMA OnlyGoesOn ==
  ASSUME ShardInv, NEW k \in Controller, NEW c \in CtlT, Continue(k, c),
         UNCHANGED <<cur, new, grp, fatal, clerk, hist, ops>>,
         KnowsOK(cur, c), MovedOK(cur, new, grp, c),
         c.pc \in CallPcs => /\ c.shard \in Shard
                             /\ c.config.shards[c.shard] # c.target.shards[c.shard]
                             /\ SentOK(cur, new, grp, Request(c, c.pc))
  PROVE  ShardInv'
<1>1. /\ StoreInv(cur, new) /\ GroupInv(cur, new, grp)
      /\ DataInv(cur, new, grp, Len(hist))
      /\ \A m \in sent : SentOK(cur, new, grp, m)
      /\ \A j \in Controller : CtlOK(cur, new, grp, sent, ctl[j])
  BY DEF ShardInv, SentInv, CtlInv
<1>2. cur.version > 0 \/ cur.version = 0
  BY <1>1 DEF StoreInv, Stored
<1>3. cur' = cur /\ new' = new /\ grp' = grp
  OBVIOUS
<1> QED BY <1>1, <1>2, <1>3, GoesOn

\* A controller that does nothing knows nothing.
LEMMA Rests ==
  ASSUME NEW c, c.pc \in {"idle", "stopped", "fatal"}, NEW C, NEW W, NEW G
  PROVE  KnowsOK(C, c) /\ MovedOK(C, W, G, c) /\ c.pc \notin CallPcs
BY DEF KnowsOK, MovedOK, VerPcs, TargetPcs, MovePcs, CallPcs

\* The record of a controller that does nothing has its type.
LEMMA IdleType ==
  ASSUME NEW p \in {"idle", "stopped", "fatal"}
  PROVE  /\ [IdleCtl EXCEPT !.pc = p] \in CtlT
         /\ [IdleCtl EXCEPT !.pc = p].pc = p
         /\ IdleCtl \in CtlT /\ IdleCtl.pc = "idle"
         /\ MakeShardConfig \in Config /\ NoData \in DataT
<1>1. MakeShardConfig \in Config /\ NoData \in DataT
  BY DEF MakeShardConfig, Config, NoData, DataT
<1> QED BY <1>1 DEF IdleCtl, CtlT

\* The parts of the invariant about controller k.
LEMMA CtlParts ==
  ASSUME ShardInv, NEW k \in Controller
  PROVE  /\ ctl \in [Controller -> CtlT] /\ ctl[k] \in CtlT
         /\ KnowsOK(cur, ctl[k]) /\ MovedOK(cur, new, grp, ctl[k])
         /\ CallOK(sent, ctl[k])
         /\ StoreInv(cur, new) /\ cur.version \in Nat /\ new.version \in Nat
         /\ cur.config \in Config /\ cur.config.num = cur.version
BY DEF ShardInv, CtlInv, CtlOK, StoreInv, Stored

\* InitConfig
LEMMA InitConfigKeeps ==
  ASSUME ShardInv, NEW k \in Controller, InitConfig(k)
  PROVE  ShardInv'
<1> DEFINE first == JoinBalance(MakeShardConfig, {Gid1})
<1>1. /\ ctl \in [Controller -> CtlT] /\ ctl[k] \in CtlT /\ StoreInv(cur, new)
  BY CtlParts
<1>2. /\ GroupInv(cur, new, grp) /\ DataInv(cur, new, grp, Len(hist))
      /\ \A m \in sent : SentOK(cur, new, grp, m)
      /\ \A j \in Controller : CtlOK(cur, new, grp, sent, ctl[j])
  BY DEF ShardInv, SentInv, CtlInv
<1>3. cur.version = 0 /\ UNCHANGED <<new, grp, sent, fatal, clerk, hist, ops>>
  BY DEF InitConfig, histVars
<1>4. first \in FullConfig /\ first.num = 1 /\ \A s \in Shard : first.shards[s] = Gid1
  <2>1. MakeShardConfig \in Config
    BY IdleType
  <2>2. MakeShardConfig.groups = {} /\ MakeShardConfig.num = 0
    BY DEF MakeShardConfig
  <2>3. first \in Complete({Gid1}, 1) /\ Gid1 \in Gid
    <3>1. Gid1 \in Gid
      BY GidAssumption DEF Gid1
    <3>2. first \in Complete({} \cup {Gid1}, 0 + 1)
      BY <2>1, <2>2, <3>1, JoinType
    <3>3. {} \cup {Gid1} = {Gid1} /\ 0 + 1 = 1
      OBVIOUS
    <3> QED BY <3>1, <3>2, <3>3
  <2> HIDE DEF first
  <2> QED BY <2>3 DEF Complete, OfGroups, FullConfig
<1>5. cur' = [version |-> 1, config |-> first]
  BY <1>3 DEF InitConfig, StorePut
<1> HIDE DEF first
<1>6. PICK p \in {"idle", "fatal"} : ctl' = [ctl EXCEPT ![k].pc = p]
  BY DEF InitConfig
<1> DEFINE c == [ctl[k] EXCEPT !.pc = p]
<1>7. c \in CtlT /\ c.pc = p
  BY <1>1 DEF CtlT
<1>8. ctl' = [ctl EXCEPT ![k] = c]
  BY <1>6
<1> HIDE DEF c
<1>9. c.pc \in {"idle", "stopped", "fatal"}
  BY <1>7
<1>10. Continue(k, c)
  BY <1>3, <1>8, <1>9 DEF Continue
<1>11. /\ StoreInv(cur', new) /\ GroupInv(cur', new, grp)
       /\ DataInv(cur', new, grp, Len(hist))
       /\ \A m \in sent : SentOK(cur', new, grp, m)
       /\ \A j \in Controller : CtlOK(cur', new, grp, sent, ctl[j])
  BY <1>1, <1>2, <1>3, <1>4, <1>5, FirstKeeps
<1>12. new' = new /\ grp' = grp /\ cur'.version > 0
  BY <1>3, <1>5
<1>13. KnowsOK(cur', c) /\ MovedOK(cur', new', grp', c) /\ c.pc \notin CallPcs
  BY <1>9, Rests
<1> QED BY <1>3, <1>7, <1>10, <1>11, <1>12, <1>13, GoesOn

\* InitController
LEMMA InitControllerKeeps ==
  ASSUME ShardInv, NEW k \in Controller, InitController(k)
  PROVE  ShardInv'
<1> DEFINE c == [ctl[k] EXCEPT !.pc = "recover", !.config = cur.config,
                               !.ver = cur.version]
<1>1. /\ ctl \in [Controller -> CtlT] /\ ctl[k] \in CtlT /\ StoreInv(cur, new)
      /\ cur.version \in Nat /\ cur.config \in Config
      /\ cur.config.num = cur.version
  BY CtlParts
<1>2. /\ cur.version > 0
      /\ UNCHANGED <<cur, new, grp, sent, fatal, clerk, hist, ops>>
  BY DEF InitController, histVars
<1>3. ctl' = [ctl EXCEPT ![k] = c]
  BY <1>1 DEF InitController
<1>4. /\ c \in CtlT /\ c.pc = "recover" /\ c.config = cur.config
      /\ c.ver = cur.version
  BY <1>1 DEF CtlT, VerPcs
<1> HIDE DEF c
<1>5. Continue(k, c)
  BY <1>2, <1>3, <1>4 DEF Continue
<1>6. KnowsOK(cur, c)
  BY <1>1, <1>2, <1>4 DEF KnowsOK, TargetPcs, MovePcs, CallPcs, StoreInv
<1>7. MovedOK(cur, new, grp, c) /\ c.pc \notin CallPcs
  BY <1>1, <1>4 DEF MovedOK, MovePcs, CallPcs
<1> QED BY <1>2, <1>4, <1>5, <1>6, <1>7, OnlyGoesOn

\* A controller that may move shards starts to.
LEMMA StartsMoving ==
  ASSUME ShardInv, NEW k \in Controller, NEW c, KnowsMove(cur, new, grp, c),
         Continue(k, MoveFrom(c, 0)),
         UNCHANGED <<cur, new, grp, fatal, clerk, hist, ops>>
  PROVE  ShardInv'
<1> DEFINE d == MoveFrom(c, 0)
<1>1. \A t \in Shard : ~(t < 0)
  BY NShardsAssumption DEF Shard
<1>2. StoreInv(cur, new) /\ Continue(k, d)
  BY DEF ShardInv
<1>3. /\ d \in CtlT /\ KnowsOK(cur, d) /\ MovedOK(cur, new, grp, d)
      /\ d.pc \in CallPcs => /\ d.shard \in Shard
                             /\ d.config.shards[d.shard] # d.target.shards[d.shard]
                             /\ SentOK(cur, new, grp, Request(d, d.pc))
  BY <1>1, <1>2, MoveFromOK
<1> HIDE DEF d
<1> QED BY <1>2, <1>3, OnlyGoesOn

\* A controller gives up, or ends.
LEMMA StopsWork ==
  ASSUME ShardInv, NEW k \in Controller, NEW c \in CtlT,
         c.pc \in {"idle", "stopped", "fatal"}, Continue(k, c),
         UNCHANGED <<cur, new, grp, fatal, clerk, hist, ops>>
  PROVE  ShardInv'
BY Rests, OnlyGoesOn

\* Recover.  It goes on only with a configuration that was published for the
\* version it has read; if that one was stored meanwhile, all shards have moved.
LEMMA RecoverKeeps ==
  ASSUME ShardInv, NEW k \in Controller, Recover(k)
  PROVE  ShardInv'
<1> DEFINE c == ctl[k]
           d == [c EXCEPT !.target = new.config]
           outcome == RecoveryOutcome(c.ver, c.config)
<1>1. /\ c \in CtlT /\ KnowsOK(cur, c) /\ MovedOK(cur, new, grp, c)
      /\ StoreInv(cur, new) /\ cur.version \in Nat /\ new.version \in Nat
      /\ cur.config.num = cur.version
  BY CtlParts
<1>2. c.pc = "recover" /\ UNCHANGED <<cur, new, grp, fatal, clerk, hist, ops>>
  BY DEF Recover, histVars
<1>3. /\ c.ver \in 1 .. cur.version /\ c.config \in FullConfig
      /\ c.config.num = c.ver
      /\ c.ver = cur.version => c.config = cur.config
  BY <1>1, <1>2 DEF KnowsOK, VerPcs
<1>4. Continue(k, CASE outcome = "none"  -> IdleCtl
                    [] outcome = "fatal" -> [IdleCtl EXCEPT !.pc = "fatal"]
                    [] outcome = "move"  -> MoveFrom(d, 0))
  BY DEF Recover
<1>5. outcome \in {"none", "fatal", "move"}
  BY <1>1, <1>3 DEF RecoveryOutcome
<1>6. outcome = "move" => new.version = c.ver /\ new.version > 0
  <2>1. new.version > 0 => new.config.num = new.version + 1
    BY <1>1 DEF StoreInv
  <2>2. new.version > 0 /\ c.ver - new.version = 1 => c.config.num = new.config.num
    BY <1>1, <1>3, <2>1
  <2> QED BY <1>1, <1>3, <2>2 DEF RecoveryOutcome
<1> HIDE DEF c, outcome
<1>7. CASE outcome = "none"
  <2>1. Continue(k, IdleCtl)
    BY <1>4, <1>7
  <2> QED BY <1>2, <2>1, IdleType, StopsWork
<1>8. CASE outcome = "fatal"
  <2> DEFINE e == [IdleCtl EXCEPT !.pc = "fatal"]
  <2>1. Continue(k, e)
    BY <1>4, <1>8
  <2>2. e \in CtlT /\ e.pc = "fatal"
    BY IdleType
  <2> HIDE DEF e
  <2> QED BY <1>2, <2>1, <2>2, StopsWork
<1>9. CASE outcome = "move"
  <2>1. Continue(k, MoveFrom(d, 0))
    BY <1>4, <1>9
  <2>2. new.config \in FullConfig /\ new.config.num = c.ver + 1 /\ new.config \in Config
    BY <1>1, <1>6, <1>9 DEF StoreInv, FullConfig
  <2>3. /\ d \in CtlT /\ d.target = new.config /\ d.config = c.config
        /\ d.ver = c.ver
    BY <1>1, <2>2 DEF CtlT
  <2> HIDE DEF d
  <2>4. KnowsMove(cur, new, grp, d)
    <3>1. c.ver < cur.version => AllDone(grp, c.config, new.config)
      BY <1>1, <1>2, <1>6, <1>9 DEF MovedOK
    <3> QED BY <1>3, <1>6, <1>9, <2>2, <2>3, <3>1 DEF KnowsMove
  <2> QED BY <1>2, <2>1, <2>4, StartsMoving
<1> QED BY <1>5, <1>7, <1>8, <1>9

\* The configurations that Join and Leave make of the stored one.
LEMMA TargetsAreFull ==
  ASSUME ShardInv, NEW target \in NewTargets
  PROVE  target \in FullConfig /\ target.num = cur.version + 1
<1>1. cur.config \in Config /\ cur.config.num = cur.version
      /\ cur.config.groups \in SUBSET Gid
  BY DEF ShardInv, StoreInv, Stored, Config
<1>2. ASSUME NEW gs \in SUBSET Gid, NEW c \in Complete(gs, cur.version + 1)
      PROVE  c \in FullConfig /\ c.num = cur.version + 1
  BY DEF Complete, OfGroups, FullConfig
<1>3. CASE \E g \in Gid : target = JoinBalance(cur.config, {g})
  <2>1. PICK g \in Gid : target = JoinBalance(cur.config, {g})
    BY <1>3
  <2>2. target \in Complete(cur.config.groups \cup {g}, cur.version + 1)
    BY <1>1, <2>1, JoinType
  <2>3. cur.config.groups \cup {g} \in SUBSET Gid
    BY <1>1
  <2> QED BY <1>2, <2>2, <2>3
<1>4. CASE \E g \in Gid : /\ CanLeave(cur.config, {g}) /\ cur.config.groups # {g}
                          /\ target = LeaveBalance(cur.config, {g})
  <2>1. PICK g \in Gid : /\ CanLeave(cur.config, {g}) /\ cur.config.groups # {g}
                         /\ target = LeaveBalance(cur.config, {g})
    BY <1>4
  <2>2. cur.config.groups \ {g} # {}
    BY <2>1 DEF CanLeave
  <2>3. target \in Complete(cur.config.groups \ {g}, cur.version + 1)
    BY <1>1, <2>1, <2>2, LeaveType
  <2>4. cur.config.groups \ {g} \in SUBSET Gid
    BY <1>1
  <2> QED BY <1>2, <2>3, <2>4
<1> QED BY <1>3, <1>4 DEF NewTargets

\* QueryAndChange
LEMMA QueryAndChangeKeeps ==
  ASSUME ShardInv, NEW k \in Controller, NEW target \in NewTargets,
         QueryAndChange(k, target)
  PROVE  ShardInv'
<1> DEFINE c == [ctl[k] EXCEPT !.pc = "change", !.target = target]
<1>1. /\ ctl \in [Controller -> CtlT] /\ ctl[k] \in CtlT /\ cur.version \in Nat
  BY CtlParts
<1>2. /\ cur.version > 0
      /\ UNCHANGED <<cur, new, grp, sent, fatal, clerk, hist, ops>>
  BY DEF QueryAndChange, histVars
<1>3. target \in FullConfig /\ target.num = cur.version + 1 /\ target \in Config
  BY TargetsAreFull DEF FullConfig
<1>4. ctl' = [ctl EXCEPT ![k] = c]
  BY <1>1 DEF QueryAndChange
<1>5. c \in CtlT /\ c.pc = "change" /\ c.target = target
  BY <1>1, <1>3 DEF CtlT
<1> HIDE DEF c
<1>6. Continue(k, c)
  BY <1>2, <1>4, <1>5 DEF Continue
<1>7. KnowsOK(cur, c)
  BY <1>1, <1>2, <1>3, <1>5 DEF KnowsOK, VerPcs, TargetPcs, MovePcs, CallPcs
<1>8. MovedOK(cur, new, grp, c) /\ c.pc \notin CallPcs
  BY <1>5 DEF MovedOK, MovePcs, CallPcs
<1> QED BY <1>2, <1>5, <1>6, <1>7, <1>8, OnlyGoesOn

\* ChangeConfigTo
LEMMA ChangeConfigToKeeps ==
  ASSUME ShardInv, NEW k \in Controller, ChangeConfigTo(k)
  PROVE  ShardInv'
<1> DEFINE c == ctl[k]
           d == [c EXCEPT !.pc = "publish", !.config = cur.config,
                          !.ver = cur.version]
<1>1. /\ ctl \in [Controller -> CtlT] /\ c \in CtlT /\ KnowsOK(cur, c)
      /\ StoreInv(cur, new) /\ cur.version \in Nat /\ cur.config \in Config
      /\ cur.config.num = cur.version
  BY CtlParts
<1>2. /\ c.pc = "change"
      /\ UNCHANGED <<cur, new, grp, sent, fatal, clerk, hist, ops>>
  BY DEF ChangeConfigTo, histVars
<1>3. ctl' = [ctl EXCEPT ![k] = IF c.target.num <= cur.config.num THEN IdleCtl
                                ELSE d]
  BY <1>1 DEF ChangeConfigTo
<1>4. /\ c.target \in FullConfig /\ c.target.num <= cur.version + 1
      /\ c.target.num \in Nat /\ cur.version > 0
  BY <1>1, <1>2 DEF KnowsOK, FullConfig, Config
<1>5. CASE c.target.num <= cur.config.num
  <2>1. Continue(k, IdleCtl)
    BY <1>2, <1>3, <1>5, IdleType DEF Continue
  <2> QED BY <1>2, <2>1, IdleType, StopsWork
<1>6. CASE ~(c.target.num <= cur.config.num)
  <2>1. c.target.num = cur.version + 1
    BY <1>1, <1>4, <1>6
  <2>2. /\ d \in CtlT /\ d.pc = "publish" /\ d.config = cur.config
        /\ d.ver = cur.version /\ d.target = c.target
    BY <1>1 DEF CtlT, VerPcs, TargetPcs
  <2>3. ctl' = [ctl EXCEPT ![k] = d]
    BY <1>3, <1>6
  <2> HIDE DEF c, d
  <2>4. Continue(k, d)
    BY <1>2, <2>2, <2>3 DEF Continue
  <2>5. KnowsOK(cur, d)
    BY <1>1, <1>4, <1>6, <2>1, <2>2 DEF KnowsOK, StoreInv
  <2>6. MovedOK(cur, new, grp, d) /\ d.pc \notin CallPcs
    BY <2>2 DEF MovedOK, MovePcs, CallPcs
  <2> QED BY <1>2, <2>2, <2>4, <2>5, <2>6, OnlyGoesOn
<1> QED BY <1>5, <1>6

\* Publish.  The Put succeeds only for a controller that has read the stored
\* configuration, and finds all shards where that one has them.
LEMMA PublishStepKeeps ==
  ASSUME ShardInv, NEW k \in Controller, Publish(k)
  PROVE  ShardInv'
<1> DEFINE c == ctl[k]  d == [c EXCEPT !.pc = "check"]
<1>1. /\ c \in CtlT /\ KnowsOK(cur, c) /\ StoreInv(cur, new)
      /\ cur.version \in Nat /\ new.version \in Nat
  BY CtlParts
<1>2. /\ GroupInv(cur, new, grp) /\ DataInv(cur, new, grp, Len(hist))
      /\ \A m \in sent : SentOK(cur, new, grp, m)
      /\ \A j \in Controller : CtlOK(cur, new, grp, sent, ctl[j])
  BY DEF ShardInv, SentInv, CtlInv
<1>3. c.pc = "publish" /\ UNCHANGED <<cur, grp, fatal, clerk, hist, ops>>
  BY DEF Publish, histVars
<1>4. /\ c.ver \in 1 .. cur.version /\ c.config \in FullConfig
      /\ c.config.num = c.ver
      /\ c.ver = cur.version => c.config = cur.config
      /\ c.target \in FullConfig /\ c.target.num = c.ver + 1
  BY <1>1, <1>3 DEF KnowsOK, VerPcs, TargetPcs
<1>5. /\ d \in CtlT /\ d.pc = "check" /\ d.config = c.config /\ d.ver = c.ver
      /\ d.target = c.target
  BY <1>1 DEF CtlT, VerPcs, TargetPcs
<1>6. new' = IF new.version = c.ver - 1
             THEN [version |-> c.ver, config |-> c.target] ELSE new
  <2>1. (c.ver - 1) + 1 = c.ver
    BY <1>4
  <2> QED BY <2>1 DEF Publish, PublishVersion, StorePut
<1>7. \/ new.version = c.ver - 1 /\ Continue(k, MoveFrom(c, 0))
      \/ Continue(k, d)
      \/ Continue(k, IdleCtl)
  BY DEF Publish, PublishVersion, StorePutResults
<1> HIDE DEF c, d
<1>8. /\ StoreInv(cur, new') /\ GroupInv(cur, new', grp)
      /\ DataInv(cur, new', grp, Len(hist))
      /\ \A m \in sent : SentOK(cur, new', grp, m)
      /\ \A j \in Controller : CtlOK(cur, new', grp, sent, ctl[j])
      /\ new.version = c.ver - 1 => KnowsMove(cur, new', grp, c)
  <2>1. CASE new.version = c.ver - 1
    <3>1. c.ver = cur.version
      BY <1>1, <1>4, <2>1 DEF StoreInv
    <3>2. new' = [version |-> cur.version, config |-> c.target]
      BY <1>6, <2>1, <3>1
    <3>3. cur.version > 0 /\ new.version = cur.version - 1
      BY <1>4, <2>1, <3>1
    <3>4. /\ StoreInv(cur, new') /\ GroupInv(cur, new', grp)
          /\ DataInv(cur, new', grp, Len(hist))
          /\ \A m \in sent : SentOK(cur, new', grp, m)
          /\ \A j \in Controller : CtlOK(cur, new', grp, sent, ctl[j])
      BY <1>1, <1>2, <1>4, <3>1, <3>2, <3>3, PublishKeeps
    <3>5. KnowsMove(cur, new', grp, c)
      BY <1>1, <1>4, <3>1, <3>2 DEF KnowsMove
    <3> QED BY <3>4, <3>5
  <2>2. CASE new.version # c.ver - 1
    BY <1>1, <1>2, <1>6, <2>2
  <2> QED BY <2>1, <2>2
<1>9. /\ cur' = cur /\ grp' = grp /\ UNCHANGED <<clerk, hist, ops>>
      /\ fatal' = fatal /\ (cur'.version > 0 \/ cur.version = 0)
  BY <1>1, <1>3
<1>10. CASE new.version = c.ver - 1 /\ Continue(k, MoveFrom(c, 0))
  <2> DEFINE e == MoveFrom(c, 0)
  <2>1. \A t \in Shard : ~(t < 0)
    BY NShardsAssumption DEF Shard
  <2>2. /\ e \in CtlT /\ KnowsOK(cur, e) /\ MovedOK(cur, new', grp, e)
        /\ e.pc \in CallPcs => /\ e.shard \in Shard
                               /\ e.config.shards[e.shard] # e.target.shards[e.shard]
                               /\ SentOK(cur, new', grp, Request(e, e.pc))
    BY <1>8, <1>10, <2>1, MoveFromOK
  <2>3. Continue(k, e)
    BY <1>10
  <2> HIDE DEF e
  <2> QED BY <1>8, <1>9, <2>2, <2>3, GoesOn
<1>11. CASE Continue(k, d)
  <2>1. KnowsOK(cur, d)
    BY <1>4, <1>5 DEF KnowsOK
  <2>2. MovedOK(cur, new', grp, d) /\ d.pc \notin CallPcs
    BY <1>5 DEF MovedOK, MovePcs, CallPcs
  <2> QED BY <1>5, <1>8, <1>9, <1>11, <2>1, <2>2, GoesOn
<1>12. CASE Continue(k, IdleCtl)
  <2>1. IdleCtl \in CtlT /\ IdleCtl.pc \in {"idle", "stopped", "fatal"}
    BY IdleType
  <2>2. KnowsOK(cur, IdleCtl) /\ MovedOK(cur, new', grp, IdleCtl)
        /\ IdleCtl.pc \notin CallPcs
    BY <2>1, Rests
  <2> QED BY <1>8, <1>9, <1>12, <2>1, <2>2, GoesOn
<1> QED BY <1>7, <1>10, <1>11, <1>12

\* Check.  It never goes on: a configuration whose Num fits is never stored
\* under the version that putOnce looks for.
LEMMA CheckKeeps ==
  ASSUME ShardInv, NEW k \in Controller, Check(k)
  PROVE  ShardInv'
<1> DEFINE c == ctl[k]
<1>1. /\ c \in CtlT /\ KnowsOK(cur, c) /\ StoreInv(cur, new)
      /\ cur.version \in Nat /\ new.version \in Nat
  BY CtlParts
<1>2. c.pc = "check" /\ UNCHANGED <<cur, new, grp, fatal, clerk, hist, ops>>
  BY DEF Check, histVars
<1>3. c.ver \in 1 .. cur.version /\ c.target.num = c.ver + 1
  BY <1>1, <1>2 DEF KnowsOK, VerPcs, TargetPcs
<1>4. ~(new.config = c.target /\ new.version = PublishVersion(c))
  BY <1>1, <1>3 DEF StoreInv, PublishVersion
<1>5. Continue(k, IdleCtl)
  BY <1>4 DEF Check
<1> QED BY <1>2, <1>5, IdleType, StopsWork

\* Store.  The Put changes the configuration only if nobody else has stored the
\* next one, and then all shards have moved.
LEMMA StoreStepKeeps ==
  ASSUME ShardInv, NEW k \in Controller, Store(k)
  PROVE  ShardInv'
<1> DEFINE c == ctl[k]
<1>1. /\ c \in CtlT /\ KnowsOK(cur, c) /\ MovedOK(cur, new, grp, c)
      /\ StoreInv(cur, new) /\ cur.version \in Nat /\ new.version \in Nat
  BY CtlParts
<1>2. /\ GroupInv(cur, new, grp) /\ DataInv(cur, new, grp, Len(hist))
      /\ \A m \in sent : SentOK(cur, new, grp, m)
      /\ \A j \in Controller : CtlOK(cur, new, grp, sent, ctl[j])
  BY DEF ShardInv, SentInv, CtlInv
<1>3. /\ c.pc = "store" /\ UNCHANGED <<new, grp, fatal, clerk, hist, ops>>
      /\ Continue(k, IdleCtl)
      /\ cur' = IF cur.version = c.ver
                THEN [version |-> c.ver + 1, config |-> c.target] ELSE cur
  BY DEF Store, histVars, StorePut
<1>4. /\ c.ver \in 1 .. cur.version
      /\ c.ver = cur.version => c.config = cur.config
      /\ c.ver = cur.version => new.version = cur.version /\ c.target = new.config
      /\ AllDone(grp, c.config, c.target)
  BY <1>1, <1>3 DEF KnowsOK, MovedOK, VerPcs, TargetPcs, MovePcs
<1> HIDE DEF c
<1>5. /\ StoreInv(cur', new) /\ GroupInv(cur', new, grp)
      /\ DataInv(cur', new, grp, Len(hist))
      /\ \A m \in sent : SentOK(cur', new, grp, m)
      /\ \A j \in Controller : CtlOK(cur', new, grp, sent, ctl[j])
      /\ cur'.version > 0 \/ cur.version = 0
  <2>1. CASE cur.version = c.ver
    <3>1. cur' = [version |-> cur.version + 1, config |-> new.config]
      BY <1>3, <1>4, <2>1
    <3>2. Active(cur, new) /\ AllDone(grp, cur.config, new.config)
      BY <1>4, <2>1 DEF Active
    <3>3. cur'.version > 0
      BY <1>1, <3>1
    <3> QED BY <1>1, <1>2, <3>1, <3>2, <3>3, StoreKeeps
  <2>2. CASE cur.version # c.ver
    BY <1>1, <1>2, <1>3, <2>2
  <2> QED BY <2>1, <2>2
<1>6. new' = new /\ grp' = grp /\ UNCHANGED <<clerk, hist, ops>> /\ fatal' = fatal
  BY <1>3
<1>7. IdleCtl \in CtlT /\ IdleCtl.pc \in {"idle", "stopped", "fatal"}
  BY IdleType
<1>8. KnowsOK(cur', IdleCtl) /\ MovedOK(cur', new, grp, IdleCtl)
      /\ IdleCtl.pc \notin CallPcs
  BY <1>7, Rests
<1> QED BY <1>3, <1>5, <1>6, <1>7, <1>8, GoesOn

\* Stop
LEMMA StopKeeps ==
  ASSUME ShardInv, NEW k \in Controller, Stop(k)
  PROVE  ShardInv'
<1> DEFINE c == [IdleCtl EXCEPT !.pc = "stopped"]
<1>1. c \in CtlT /\ c.pc = "stopped"
  BY IdleType
<1>2. /\ ctl' = [ctl EXCEPT ![k] = c]
      /\ UNCHANGED <<cur, new, grp, sent, fatal, clerk, hist, ops>>
  BY DEF Stop, histVars
<1> HIDE DEF c
<1>3. Continue(k, c)
  BY <1>1, <1>2 DEF Continue
<1> QED BY <1>1, <1>2, <1>3, StopsWork

\* A controller that moves a shard and executes its request there.
LEMMA CallParts ==
  ASSUME ShardInv, NEW k \in Controller, ctl[k].pc \in CallPcs
  PROVE  LET c == ctl[k]
             m == Request(c, c.pc)
         IN  /\ c \in CtlT /\ c.shard \in Shard /\ m \in sent /\ m \in MoveT
             /\ c.config.shards[c.shard] # c.target.shards[c.shard]
             /\ KnowsMove(cur, new, grp, c)
             /\ m.kind = c.pc /\ m.shard = c.shard /\ m.num = c.target.num
             /\ m.gid = IF c.pc = "install" THEN c.target.shards[c.shard]
                        ELSE c.config.shards[c.shard]
<1> DEFINE c == ctl[k]
<1>1. /\ c \in CtlT /\ KnowsOK(cur, c) /\ MovedOK(cur, new, grp, c)
      /\ CallOK(sent, c)
  BY CtlParts
<1>2. c.pc \in CallPcs /\ c.pc \in MovePcs /\ c.pc \in TargetPcs /\ c.pc \in VerPcs
  BY DEF MovePcs, TargetPcs, VerPcs
<1> HIDE DEF c
<1>3. KnowsMove(cur, new, grp, c)
  BY <1>1, <1>2 DEF KnowsOK, MovedOK, KnowsMove
<1>4. /\ c.shard \in Shard /\ Request(c, c.pc) \in sent
      /\ c.config.shards[c.shard] # c.target.shards[c.shard]
  BY <1>1, <1>2 DEF CallOK
<1>5. c.config \in FullConfig /\ c.target \in FullConfig
  BY <1>3 DEF KnowsMove
<1> QED BY <1>1, <1>2, <1>3, <1>4, <1>5, RequestFields DEF c

\* What stays known when the request of controller k is executed.
LEMMA CallStep ==
  ASSUME ShardInv, NEW k \in Controller, UNCHANGED <<cur, new>>,
         GoodStep(cur, new, grp, grp', Len(hist), Len(hist))
  PROVE  /\ StoreInv(cur', new') /\ GroupInv(cur', new', grp')
         /\ DataInv(cur', new', grp', Len(hist))
         /\ \A m \in sent : SentOK(cur', new', grp', m)
         /\ \A j \in Controller : CtlOK(cur', new', grp', sent, ctl[j])
         /\ cur'.version > 0 \/ cur.version = 0
<1>1. /\ StoreInv(cur, new) /\ cur.version \in Nat
      /\ \A m \in sent : SentOK(cur, new, grp, m)
      /\ \A j \in Controller : CtlOK(cur, new, grp, sent, ctl[j])
  BY DEF ShardInv, SentInv, CtlInv, StoreInv, Stored
<1>2. \A m \in sent : SentOK(cur, new, grp', m)
  BY <1>1, SentKeeps
<1>3. \A j \in Controller : CtlOK(cur, new, grp', sent, ctl[j])
  BY <1>1, CtlKeeps
<1>4. GroupInv(cur, new, grp') /\ DataInv(cur, new, grp', Len(hist))
  BY DEF GoodStep
<1> QED BY <1>1, <1>2, <1>3, <1>4

\* The controller of record c goes on as d to its next call for a shard.
LEMMA NextCall ==
  ASSUME NEW C, NEW W, NEW G, NEW S, StoreInv(C, W), NEW c, CtlOK(C, W, G, S, c),
         c.pc \in CallPcs, NEW d \in CtlT, d.pc \in CallPcs, d.config = c.config,
         d.target = c.target, d.ver = c.ver, d.shard = c.shard,
         d.ver = C.version /\ d.pc = "install" =>
           /\ Reaches(G, d.config.shards[d.shard], d.shard, NextNum(C))
           /\ Nm(G, d.target.shards[d.shard], d.shard) < NextNum(C) =>
                d.data = Dt(G, d.config.shards[d.shard], d.shard),
         d.ver = C.version /\ d.pc = "delete" =>
           Reaches(G, d.target.shards[d.shard], d.shard, NextNum(C))
  PROVE  /\ KnowsOK(C, d) /\ MovedOK(C, W, G, d)
         /\ d.shard \in Shard
         /\ d.config.shards[d.shard] # d.target.shards[d.shard]
         /\ SentOK(C, W, G, Request(d, d.pc))
<1>1. c \in CtlT /\ KnowsOK(C, c) /\ MovedOK(C, W, G, c) /\ CallOK(S, c)
  BY DEF CtlOK
<1>2. ASSUME NEW p \in CallPcs
      PROVE  /\ p \in MovePcs /\ p \in TargetPcs /\ p \in VerPcs
             /\ p \notin {"store", "recover", "change"}
  BY DEF MovePcs, TargetPcs, VerPcs, CallPcs
<1>3. /\ d.shard \in Shard
      /\ d.config.shards[d.shard] # d.target.shards[d.shard]
  BY <1>1 DEF CallOK
<1>4. KnowsMove(C, W, G, d)
  BY <1>1, <1>2 DEF KnowsOK, MovedOK, KnowsMove
<1>5. KnowsOK(C, d)
  BY <1>1, <1>2 DEF KnowsOK
<1>6. MovedOK(C, W, G, d)
  BY <1>1, <1>2 DEF MovedOK
<1>7. SentOK(C, W, G, Request(d, d.pc))
  BY <1>3, <1>4, RequestOK
<1> QED BY <1>3, <1>5, <1>6, <1>7

\* Freeze
LEMMA FreezeKeeps ==
  ASSUME ShardInv, NEW k \in Controller, Freeze(k)
  PROVE  ShardInv'
<1> DEFINE c == ctl[k]  m == Request(c, "freeze")  x == FreezeReply(m)
           d == [c EXCEPT !.pc = "install", !.data = x]
           g == c.config.shards[c.shard]  N == NextNum(cur)
<1>1. /\ c.pc = "freeze" /\ DoFreeze(m) /\ Continue(k, d)
      /\ UNCHANGED <<cur, new, clerk, hist, ops>>
  BY DEF Freeze, histVars
<1>2. /\ c \in CtlT /\ c.shard \in Shard /\ m \in sent /\ m \in MoveT
      /\ KnowsMove(cur, new, grp, c)
      /\ m.kind = "freeze" /\ m.shard = c.shard /\ m.num = c.target.num
      /\ m.gid = g
      /\ c.config.shards[c.shard] # c.target.shards[c.shard]
  BY <1>1, CallParts DEF CallPcs
<1>3. /\ GoodStep(cur, new, grp, grp', Len(hist), Len(hist)) /\ fatal' = fatal
      /\ FreezeEff(grp, grp', m)
  BY <1>1, <1>2, RequestEffect
<1>4. /\ GroupInv(cur, new, grp) /\ DataInv(cur, new, grp, Len(hist))
      /\ grp \in [Gid -> GroupT] /\ StoreInv(cur, new)
  BY DEF ShardInv, GroupInv
<1>5. g \in Gid
  BY <1>2 DEF KnowsMove, FullConfig
<1>6. x \in DataT
  BY <1>2, <1>4, <1>5, GroupFields DEF FreezeReply, Data, Dt, NoData, DataT
<1>7. ASSUME c.ver = cur.version
      PROVE  Reaches(grp', g, c.shard, N) /\ x = Dt(grp', g, c.shard)
  <2> DEFINE s == c.shard  h == Dest(new, s)
  <2>1. /\ m.num = N /\ N \in Nat /\ c.config = cur.config
        /\ new.version = cur.version /\ c.target = new.config
        /\ cur.version > 0 /\ cur.version \in Nat
    BY <1>2, <1>4, <1>7 DEF KnowsMove, NextNum, StoreInv, Stored
  <2>2. Moves(cur, new, s) /\ Owner(cur, s) = g
    BY <1>2, <2>1 DEF Moves, Active, Owner
  <2>3. MovingOK(grp, N, g, h, s)
    BY <1>2, <1>4, <2>2 DEF GroupInv, ShardOK
  <2>4. Nm(grp, g, s) \in Nat /\ Nm(grp, g, s) <= N
    BY <1>2, <1>4, <1>5, <2>3, GroupFields DEF MovingOK
  <2> HIDE DEF c, s, g, N, m
  <2>5. ~(N < Nm(grp, g, s))
    BY <2>1, <2>4
  <2>6. \E st : Changed(grp, grp', g, s, st, N, Dt(grp, g, s))
    BY <1>2, <1>3, <2>1, <2>5 DEF FreezeEff, s
  <2>7. Nm(grp', g, s) = N /\ Dt(grp', g, s) = Dt(grp, g, s)
    BY <1>2, <1>5, <2>6 DEF Changed, s
  <2>8. x = Dt(grp, g, s)
    <3>1. St(grp, g, s) = NoShard => Dt(grp, g, s) = NoData
      BY <1>2, <1>4, <1>5 DEF DataInv, s
    <3>2. x = IF N < Nm(grp, g, s) \/ St(grp, g, s) = NoShard THEN NoData
              ELSE Dt(grp, g, s)
      BY <1>2, <2>1 DEF FreezeReply, Num, State, Data, St, Nm, Dt, s
    <3> QED BY <2>5, <3>1, <3>2
  <2> QED BY <2>1, <2>7, <2>8 DEF Reaches, s
<1>8. /\ StoreInv(cur', new') /\ GroupInv(cur', new', grp')
      /\ DataInv(cur', new', grp', Len(hist))
      /\ \A y \in sent : SentOK(cur', new', grp', y)
      /\ \A j \in Controller : CtlOK(cur', new', grp', sent, ctl[j])
      /\ cur'.version > 0 \/ cur.version = 0
  BY <1>1, <1>3, CallStep
<1>9. CtlOK(cur', new', grp', sent, c) /\ cur' = cur /\ new' = new
  BY <1>1, <1>8
<1>10. /\ d \in CtlT /\ d.pc = "install" /\ d.data = x /\ d.config = c.config
       /\ d.target = c.target /\ d.ver = c.ver /\ d.shard = c.shard
       /\ d.pc \in CallPcs /\ c.pc \in CallPcs
  <2>1. "freeze" \in CallPcs /\ "install" \in CallPcs
    BY DEF CallPcs
  <2>2. "install" \in VerPcs
    BY <2>1 DEF VerPcs, TargetPcs, MovePcs
  <2> HIDE DEF c, x
  <2> QED BY <1>1, <1>2, <1>6, <2>1, <2>2 DEF CtlT
<1>11. d.ver = cur'.version =>
         /\ Reaches(grp', d.config.shards[d.shard], d.shard, NextNum(cur'))
         /\ d.data = Dt(grp', d.config.shards[d.shard], d.shard)
  BY <1>7, <1>9, <1>10
<1> HIDE DEF c, m, x, d, g, N
<1>12. /\ KnowsOK(cur', d) /\ MovedOK(cur', new', grp', d)
       /\ d.shard \in Shard
       /\ d.config.shards[d.shard] # d.target.shards[d.shard]
       /\ SentOK(cur', new', grp', Request(d, d.pc))
  BY <1>8, <1>9, <1>10, <1>11, NextCall
<1> QED BY <1>1, <1>3, <1>8, <1>10, <1>12, GoesOn

\* Install
LEMMA InstallKeeps ==
  ASSUME ShardInv, NEW k \in Controller, Install(k)
  PROVE  ShardInv'
<1> DEFINE c == ctl[k]  m == Request(c, "install")
           d == [c EXCEPT !.pc = "delete", !.data = NoData]
           h == c.target.shards[c.shard]  N == NextNum(cur)
<1>1. /\ c.pc = "install" /\ DoInstall(m) /\ Continue(k, d)
      /\ UNCHANGED <<cur, new, clerk, hist, ops>>
  BY DEF Install, histVars
<1>2. /\ c \in CtlT /\ c.shard \in Shard /\ m \in sent /\ m \in MoveT
      /\ KnowsMove(cur, new, grp, c)
      /\ m.kind = "install" /\ m.shard = c.shard /\ m.num = c.target.num
      /\ m.gid = h
      /\ c.config.shards[c.shard] # c.target.shards[c.shard]
  BY <1>1, CallParts DEF CallPcs
<1>3. /\ GoodStep(cur, new, grp, grp', Len(hist), Len(hist)) /\ fatal' = fatal
      /\ InstallEff(grp, grp', m)
  BY <1>1, <1>2, RequestEffect
<1>4. h \in Gid /\ m.num \in Nat
  BY <1>2 DEF KnowsMove, FullConfig, MoveT
<1>5. ASSUME c.ver = cur.version
      PROVE  Reaches(grp', h, c.shard, N)
  <2> DEFINE s == c.shard
  <2>1. m.num = N
    BY <1>2, <1>5 DEF KnowsMove, NextNum
  <2>2. grp \in [Gid -> GroupT] /\ Nm(grp, h, s) \in Nat
    BY <1>2, <1>4, GroupFields DEF ShardInv, GroupInv
  <2> HIDE DEF c, s, h, N, m
  <2>3. CASE m.num <= Nm(grp, h, s)
    BY <1>2, <1>3, <1>4, <2>1, <2>2, <2>3 DEF InstallEff, Reaches, s
  <2>4. CASE ~(m.num <= Nm(grp, h, s))
    <3>1. \E st, x : Changed(grp, grp', h, s, st, N, x)
      BY <1>2, <1>3, <2>1, <2>4 DEF InstallEff, s
    <3>2. Nm(grp', h, s) = N
      BY <1>2, <1>4, <3>1 DEF Changed, s
    <3> QED BY <1>4, <2>1, <3>2 DEF Reaches, s
  <2> QED BY <2>3, <2>4
<1>6. /\ StoreInv(cur', new') /\ GroupInv(cur', new', grp')
      /\ DataInv(cur', new', grp', Len(hist))
      /\ \A y \in sent : SentOK(cur', new', grp', y)
      /\ \A j \in Controller : CtlOK(cur', new', grp', sent, ctl[j])
      /\ cur'.version > 0 \/ cur.version = 0
  BY <1>1, <1>3, CallStep
<1>7. CtlOK(cur', new', grp', sent, c) /\ cur' = cur /\ new' = new
  BY <1>1, <1>6
<1>8. /\ d \in CtlT /\ d.pc = "delete" /\ d.config = c.config
      /\ d.target = c.target /\ d.ver = c.ver /\ d.shard = c.shard
      /\ d.pc \in CallPcs /\ c.pc \in CallPcs
  <2>1. "delete" \in CallPcs /\ "install" \in CallPcs /\ NoData \in DataT
    BY DEF CallPcs, NoData, DataT
  <2>2. "delete" \in VerPcs
    BY <2>1 DEF VerPcs, TargetPcs, MovePcs
  <2> HIDE DEF c
  <2> QED BY <1>1, <1>2, <2>1, <2>2 DEF CtlT
<1>9. d.ver = cur'.version =>
        Reaches(grp', d.target.shards[d.shard], d.shard, NextNum(cur'))
  BY <1>5, <1>7, <1>8
<1> HIDE DEF c, m, d, h, N
<1>10. /\ KnowsOK(cur', d) /\ MovedOK(cur', new', grp', d)
       /\ d.shard \in Shard
       /\ d.config.shards[d.shard] # d.target.shards[d.shard]
       /\ SentOK(cur', new', grp', Request(d, d.pc))
  BY <1>6, <1>7, <1>8, <1>9, NextCall
<1> QED BY <1>1, <1>3, <1>6, <1>8, <1>10, GoesOn

\* Delete
LEMMA DeleteKeeps ==
  ASSUME ShardInv, NEW k \in Controller, Delete(k)
  PROVE  ShardInv'
<1> DEFINE c == ctl[k]  m == Request(c, "delete")  s == c.shard
           d == MoveFrom(c, s + 1)  g == c.config.shards[s]
           h == c.target.shards[s]
<1>1. /\ c.pc = "delete" /\ DoDelete(m) /\ Continue(k, d)
      /\ UNCHANGED <<cur, new, clerk, hist, ops>>
  BY DEF Delete, histVars
<1>2. /\ c \in CtlT /\ s \in Shard /\ m \in sent /\ m \in MoveT
      /\ KnowsMove(cur, new, grp, c)
      /\ m.kind = "delete" /\ m.shard = s /\ m.num = c.target.num
      /\ m.gid = g /\ g # h
  BY <1>1, CallParts DEF CallPcs
<1>3. /\ GoodStep(cur, new, grp, grp', Len(hist), Len(hist)) /\ fatal' = fatal
      /\ DeleteEff(grp, grp', m)
  BY <1>1, <1>2, RequestEffect
<1>4. /\ StoreInv(cur', new') /\ GroupInv(cur', new', grp')
      /\ DataInv(cur', new', grp', Len(hist))
      /\ \A y \in sent : SentOK(cur', new', grp', y)
      /\ \A j \in Controller : CtlOK(cur', new', grp', sent, ctl[j])
      /\ cur'.version > 0 \/ cur.version = 0
  BY <1>1, <1>3, CallStep
<1>5. /\ CtlOK(cur', new', grp', sent, c) /\ cur' = cur /\ new' = new
      /\ SentOK(cur', new', grp', m)
  BY <1>1, <1>2, <1>4
<1>6. g \in Gid /\ h \in Gid /\ m.num \in Nat /\ s \in Nat /\ c.ver \in Nat
      /\ cur.version \in Nat /\ c.ver <= cur.version
  BY <1>2, <1>4, <1>5, NShardsAssumption
  DEF KnowsMove, FullConfig, MoveT, Shard, StoreInv, Stored
<1> HIDE DEF c, m, s, d, g, h
<1>7. MovedOK(cur', new', grp', c) /\ c.pc \in MovePcs
  BY <1>1, <1>5 DEF CtlOK, MovePcs, CallPcs
<1>8. KnowsMove(cur', new', grp', c)
  BY <1>2, <1>5, <1>7 DEF KnowsMove, MovedOK
<1>9. Closed(grp', g, s, m.num)
  <2>1. grp \in [Gid -> GroupT] /\ Nm(grp, g, s) \in Nat
    BY <1>2, <1>6, GroupFields DEF ShardInv, GroupInv
  <2>2. CASE m.num < Nm(grp, g, s)
    BY <1>2, <1>3, <1>6, <2>1, <2>2 DEF DeleteEff, Closed
  <2>3. CASE ~(m.num < Nm(grp, g, s))
    <3>1. \E x : Changed(grp, grp', g, s, NoShard, m.num, x)
      BY <1>2, <1>3, <2>3 DEF DeleteEff
    <3>2. Nm(grp', g, s) = m.num /\ St(grp', g, s) = NoShard
      BY <1>2, <1>6, <3>1 DEF Changed
    <3> QED BY <3>2 DEF Closed
  <2> QED BY <2>2, <2>3
<1>10. Reaches(grp', h, s, m.num)
  <2>1. CASE c.ver < cur.version
    <3>1. AllDone(grp', c.config, c.target)
      BY <1>5, <1>8, <2>1 DEF KnowsMove
    <3> QED BY <1>2, <3>1 DEF AllDone, DoneAt, g, h
  <2>2. CASE c.ver = cur.version
    <3>1. m.num = NextNum(cur') /\ c.target = new'.config
      BY <1>2, <1>5, <1>8, <2>2 DEF KnowsMove, NextNum
    <3>2. m \notin PutT /\ ~(m.num < NextNum(cur'))
      BY <1>2, <1>6, <3>1 DEF PutT
    <3>3. NowOK(cur', new', grp', m)
      BY <1>5, <3>2 DEF SentOK
    <3>4. Dest(new', s) = h
      BY <3>1 DEF Dest, h
    <3> QED BY <1>2, <3>3, <3>4 DEF NowOK
  <2> QED BY <1>6, <2>1, <2>2
<1>11. \A t \in Shard : t < s + 1 /\ c.config.shards[t] # c.target.shards[t]
                          => DoneAt(grp', c.config, c.target, t)
  <2>1. DoneAt(grp', c.config, c.target, s)
    BY <1>2, <1>9, <1>10 DEF DoneAt, g, h
  <2>2. \A t \in Shard : t < s /\ c.config.shards[t] # c.target.shards[t]
                           => DoneAt(grp', c.config, c.target, t)
    BY <1>7 DEF MovedOK, s
  <2>3. \A t \in Shard : t < s + 1 => t < s \/ t = s
    BY <1>6, NShardsAssumption DEF Shard
  <2> QED BY <2>1, <2>2, <2>3
<1>12. /\ d \in CtlT /\ KnowsOK(cur', d) /\ MovedOK(cur', new', grp', d)
       /\ d.pc \in CallPcs => /\ d.shard \in Shard
                              /\ d.config.shards[d.shard] # d.target.shards[d.shard]
                              /\ SentOK(cur', new', grp', Request(d, d.pc))
  <2>1. s + 1 \in Nat /\ d = MoveFrom(c, s + 1)
    BY <1>6 DEF d
  <2> QED BY <1>4, <1>8, <1>11, <2>1, MoveFromOK
<1> QED BY <1>1, <1>3, <1>4, <1>12, GoesOn

-----------------------------------------------------------------------------
(* The steps of a clerk.                                                   *)

\* Only the clerks change, and a Put may be sent.
LEMMA ClerkOnly ==
  ASSUME ShardInv, UNCHANGED <<cur, new, grp, ctl, fatal, hist>>,
         sent' = sent \/ \E m \in PutT : sent' = sent \cup {m},
         ClerkInv(cur, clerk', ops')
  PROVE  ShardInv'
<1>1. /\ StoreInv(cur, new) /\ GroupInv(cur, new, grp)
      /\ hist \in Seq(Client \X Nat) /\ DataInv(cur, new, grp, Len(hist))
      /\ SentInv(cur, new, grp, sent) /\ CtlInv(cur, new, grp, sent, ctl)
      /\ fatal = {}
  BY DEF ShardInv
<1>2. SentInv(cur, new, grp, sent') /\ sent \subseteq sent'
  BY <1>1 DEF SentInv, SentOK
<1>3. CtlInv(cur, new, grp, sent', ctl)
  <2>1. \A j \in Controller : CtlOK(cur, new, grp, sent', ctl[j])
    BY <1>1, <1>2 DEF CtlInv, CtlOK, CallOK
  <2> QED BY <1>1, <2>1 DEF CtlInv
<1> QED BY <1>1, <1>2, <1>3 DEF ShardInv

\* The clerk of c becomes r, its operations q.
LEMMA ClerkUpdate ==
  ASSUME NEW C, NEW K, NEW o, ClerkInv(C, K, o), NEW c \in Client,
         NEW r \in ClerkT, NEW q \in Seq(OpT),
         r.pc # "idle" => C.version > 0 /\ q # << >>,
         r.pc \in {"call", "answer"} => r.gid \in Gid
  PROVE  /\ ClerkInv(C, [K EXCEPT ![c] = r], [o EXCEPT ![c] = q])
         /\ q = o[c] => ClerkInv(C, [K EXCEPT ![c] = r], o)
<1>1. K \in [Client -> ClerkT] /\ o \in [Client -> Seq(OpT)]
  BY DEF ClerkInv
<1>2. ClerkInv(C, [K EXCEPT ![c] = r], [o EXCEPT ![c] = q])
  BY <1>1 DEF ClerkInv
<1>3. q = o[c] => [o EXCEPT ![c] = q] = o
  BY <1>1
<1> QED BY <1>2, <1>3

\* The parts of the invariant about the clerk of c.
LEMMA ClerkParts ==
  ASSUME ShardInv, NEW c \in Client
  PROVE  /\ ClerkInv(cur, clerk, ops)
         /\ clerk \in [Client -> ClerkT] /\ clerk[c] \in ClerkT
         /\ ops[c] \in Seq(OpT) /\ Len(ops[c]) \in Nat
         /\ clerk[c].pc # "idle" => cur.version > 0 /\ ops[c] # << >>
                                    /\ Op(c) \in OpT
         /\ clerk[c].pc \in {"call", "answer"} => clerk[c].gid \in Gid
         /\ hist \in Seq(Client \X Nat) /\ Len(hist) \in Nat
         /\ cur.version > 0 => cur.config.shards[KeyShard] \in Gid
<1>1. /\ ClerkInv(cur, clerk, ops) /\ hist \in Seq(Client \X Nat)
      /\ Len(hist) \in Nat
  BY DEF ShardInv
<1>2. /\ clerk \in [Client -> ClerkT] /\ clerk[c] \in ClerkT
      /\ ops[c] \in Seq(OpT) /\ Len(ops[c]) \in Nat
      /\ clerk[c].pc # "idle" => cur.version > 0 /\ ops[c] # << >>
      /\ clerk[c].pc \in {"call", "answer"} => clerk[c].gid \in Gid
  BY <1>1 DEF ClerkInv
<1>3. ops[c] # << >> => Op(c) \in OpT
  <2>1. \A q \in Seq(OpT) : q # << >> => q[Len(q)] \in OpT
    OBVIOUS
  <2> QED BY <1>2, <2>1 DEF Op
<1>4. KeyShard \in Shard
  BY KeyShardAssumption DEF Shard
<1>5. cur.version > 0 => cur.config.shards[KeyShard] \in Gid
  BY <1>4 DEF ShardInv, StoreInv, FullConfig
<1> QED BY <1>1, <1>2, <1>3, <1>5

\* Ask: a call to a group, of an operation of c.
LEMMA AskKeeps ==
  ASSUME ShardInv, NEW c \in Client, NEW n \in Nat, NEW op \in OpT,
         NEW gid \in Gid, Ask(c, n, op, gid),
         UNCHANGED <<cur, new, grp, ctl, fatal, hist>>, cur.version > 0,
         NEW q \in Seq(OpT), q # << >>,
         ops' = [ops EXCEPT ![c] = q] \/ (ops' = ops /\ q = ops[c])
  PROVE  ShardInv'
<1> DEFINE r == [clerk[c] EXCEPT !.pc = "call", !.gid = gid, !.rpcTimes = 0]
<1>1. ClerkInv(cur, clerk, ops) /\ clerk[c] \in ClerkT
      /\ clerk \in [Client -> ClerkT]
  BY ClerkParts
<1>2. clerk' = [clerk EXCEPT ![c] = r]
  BY <1>1 DEF Ask
<1>3. r \in ClerkT /\ r.pc = "call" /\ r.gid = gid
  BY <1>1 DEF ClerkT
<1> HIDE DEF r
<1>4. ClerkInv(cur, clerk', ops')
  <2>1. /\ r.pc # "idle" => cur.version > 0 /\ q # << >>
        /\ r.pc \in {"call", "answer"} => r.gid \in Gid
    BY <1>3
  <2>2. /\ ClerkInv(cur, [clerk EXCEPT ![c] = r], [ops EXCEPT ![c] = q])
        /\ q = ops[c] => ClerkInv(cur, [clerk EXCEPT ![c] = r], ops)
    BY <1>1, <1>3, <2>1, ClerkUpdate
  <2> QED BY <1>2, <2>2
<1>5. PutRequest(c, n, gid, op.version) \in PutT
  BY DEF PutRequest, PutT, OpT
<1>6. sent' = sent \/ sent' = sent \cup {PutRequest(c, n, gid, op.version)}
  BY DEF Ask
<1> QED BY <1>4, <1>5, <1>6, ClerkOnly

\* What a client calls is a Get, or a Put with a version.
LEMMA MayCallIs ==
  ASSUME NEW c \in Client, ops[c] \in Seq(OpT)
  PROVE  \A r \in MayCall(c) : r.kind \in {"get", "put"} /\ r.version \in Nat
<1> DEFINE Set == SUBSET [kind : {"get", "put"}, version : Nat]
<1>1. Requests[c] \in Seq(Set) /\ Len(Requests[c]) \in Nat /\ Len(ops[c]) \in Nat
  BY BoundAssumption
<1>2. MayCall(c) = {} \/ MayCall(c) \in Set
  <2> HIDE DEF Set
  <2> QED BY <1>1 DEF MayCall
<1> QED BY <1>2

\* Begin
LEMMA BeginKeeps ==
  ASSUME ShardInv, NEW c \in Client, NEW kind \in {"get", "put"},
         NEW version \in Nat, Begin(c, kind, version)
  PROVE  ShardInv'
<1> DEFINE op == [kind |-> kind, version |-> version, low |-> Len(hist)]
           q == Append(ops[c], op)
<1>1. /\ ClerkInv(cur, clerk, ops) /\ clerk[c] \in ClerkT
      /\ clerk \in [Client -> ClerkT] /\ ops \in [Client -> Seq(OpT)]
      /\ ops[c] \in Seq(OpT) /\ Len(ops[c]) \in Nat /\ Len(hist) \in Nat
  BY ClerkParts DEF ClerkInv
<1>2. op \in OpT
  BY <1>1 DEF OpT
<1>3. /\ cur.version > 0 /\ ops' = [ops EXCEPT ![c] = q]
      /\ UNCHANGED <<cur, new, grp, ctl, fatal, hist>>
      /\ IF clerk[c].gid # 0 THEN Ask(c, Len(ops[c]) + 1, op, clerk[c].gid)
         ELSE /\ clerk' = [clerk EXCEPT ![c].pc = "query"]
              /\ sent' = sent
  BY <1>1 DEF Begin, ctlVars
<1> HIDE DEF op
<1>4. q \in Seq(OpT) /\ q # << >>
  BY SMTT(30), <1>1, <1>2
<1> HIDE DEF q
<1>5. CASE clerk[c].gid # 0
  <2>1. clerk[c].gid \in Gid
    BY <1>1, <1>5 DEF ClerkT
  <2>2. Ask(c, Len(ops[c]) + 1, op, clerk[c].gid) /\ Len(ops[c]) + 1 \in Nat
    BY <1>1, <1>3, <1>5
  <2> QED BY <1>2, <1>3, <1>4, <2>1, <2>2, AskKeeps
<1>6. CASE clerk[c].gid = 0
  <2> DEFINE r == [clerk[c] EXCEPT !.pc = "query"]
  <2>1. clerk' = [clerk EXCEPT ![c] = r] /\ sent' = sent
    BY <1>3, <1>6
  <2>2. r \in ClerkT /\ r.pc = "query"
    BY <1>1 DEF ClerkT
  <2> HIDE DEF r
  <2>3. ClerkInv(cur, clerk', ops')
    BY <1>1, <1>3, <1>4, <2>1, <2>2, ClerkUpdate
  <2> QED BY <1>3, <2>1, <2>3, ClerkOnly
<1> QED BY <1>5, <1>6

\* Query
LEMMA QueryKeeps ==
  ASSUME ShardInv, NEW c \in Client, Query(c)
  PROVE  ShardInv'
<1>1. /\ clerk[c].pc = "query" /\ UNCHANGED <<cur, new, grp, ctl, fatal, hist, ops>>
      /\ Ask(c, Len(ops[c]), Op(c), cur.config.shards[KeyShard])
  BY DEF Query, ctlVars, histVars
<1>2. /\ Len(ops[c]) \in Nat /\ Op(c) \in OpT /\ ops[c] \in Seq(OpT)
      /\ ops[c] # << >> /\ cur.version > 0
      /\ cur.config.shards[KeyShard] \in Gid
  BY <1>1, ClerkParts
<1> QED BY <1>1, <1>2, AskKeeps

\* The clerk of c becomes r, and nothing else changes.
LEMMA ClerkBecomes ==
  ASSUME ShardInv, NEW c \in Client, clerk[c].pc # "idle", NEW r \in ClerkT,
         clerk' = [clerk EXCEPT ![c] = r],
         r.pc \in {"call", "answer"} => r.gid \in Gid,
         UNCHANGED <<cur, new, grp, ctl, sent, fatal, hist, ops>>
  PROVE  ShardInv'
<1>1. /\ ClerkInv(cur, clerk, ops) /\ ops[c] \in Seq(OpT) /\ cur.version > 0
      /\ ops[c] # << >>
  BY ClerkParts
<1>2. ClerkInv(cur, clerk', ops')
  BY <1>1, ClerkUpdate
<1> QED BY <1>2, ClerkOnly

\* Return and TryAgain
LEMMA AnsweredKeeps ==
  ASSUME ShardInv, NEW c \in Client, clerk[c].pc # "idle",
         TryAgain(c) \/ \E r : Return(c, r),
         UNCHANGED <<cur, new, grp, ctl, sent, fatal, hist, ops>>
  PROVE  ShardInv'
<1>0. clerk[c] \in ClerkT /\ clerk[c].gid \in Gid \cup {0}
  BY ClerkParts DEF ClerkT
<1>1. CASE TryAgain(c)
  <2> DEFINE r == [NewClerk EXCEPT !.pc = "query", !.isUpdate = TRUE]
  <2>1. clerk' = [clerk EXCEPT ![c] = r]
    BY <1>1 DEF TryAgain
  <2>2. r \in ClerkT /\ r.pc = "query"
    BY DEF NewClerk, ClerkT
  <2> HIDE DEF r
  <2> QED BY <2>1, <2>2, ClerkBecomes
<1>2. CASE \E r : Return(c, r)
  <2> DEFINE r == [NewClerk EXCEPT !.gid = clerk[c].gid]
  <2>1. clerk' = [clerk EXCEPT ![c] = r]
    BY <1>2 DEF Return
  <2>2. r \in ClerkT /\ r.pc = "idle"
    BY <1>0 DEF NewClerk, ClerkT
  <2> HIDE DEF r
  <2> QED BY <2>1, <2>2, ClerkBecomes
<1> QED BY <1>1, <1>2

\* Put
LEMMA PutKeeps ==
  ASSUME ShardInv, NEW c \in Client, Put(c)
  PROVE  ShardInv'
<1> DEFINE m == PutRequest(c, Len(ops[c]), clerk[c].gid, Op(c).version)
           r == [clerk[c] EXCEPT !.pc = "answer", !.err = PutErr(m)]
<1>1. /\ clerk[c].pc = "call" /\ DoPut(m)
      /\ UNCHANGED <<cur, new, ctl, sent, ops>>
      /\ clerk' = [clerk EXCEPT ![c].pc = "answer", ![c].err = PutErr(m)]
  BY DEF Put, ctlVars
<1>2. /\ ClerkInv(cur, clerk, ops) /\ clerk \in [Client -> ClerkT]
      /\ clerk[c] \in ClerkT /\ clerk[c].gid \in Gid /\ Op(c) \in OpT
      /\ Len(ops[c]) \in Nat /\ ops[c] \in Seq(OpT) /\ ops[c] # << >>
      /\ cur.version > 0
  BY <1>1, ClerkParts
<1>3. /\ m.gid \in Gid /\ m.shard = KeyShard /\ m.version \in Nat
      /\ m.writer \in Client \X Nat
  BY <1>2 DEF PutRequest, OpT
<1>4. PutErr(m) \in {"OK", "ErrWrongGroup", "ErrVersion", "ErrNoKey"}
  <2>1. Serves(m) \in BOOLEAN
    BY DEF Serves
  <2>2. ~Serves(m) => PutErr(m) = "ErrWrongGroup"
    BY DEF PutErr
  <2>3. Serves(m) /\ Data(m).version = m.version => PutErr(m) = "OK"
    BY DEF PutErr
  <2>4. Serves(m) /\ Data(m).version \notin {m.version, 0}
          => PutErr(m) = "ErrVersion"
    BY DEF PutErr
  <2>5. Serves(m) /\ Data(m).version = 0 /\ m.version # 0
          => PutErr(m) = "ErrNoKey"
    BY DEF PutErr
  <2> QED BY <2>2, <2>3, <2>4, <2>5
<1>5. /\ GoodStep(cur, new, grp, grp', Len(hist), Len(hist'))
      /\ hist' \in Seq(Client \X Nat) /\ fatal' = fatal
  BY <1>1, <1>3, PutEffect
<1> HIDE DEF m
<1>6. clerk' = [clerk EXCEPT ![c] = r]
  BY <1>1, <1>2
<1>7. r \in ClerkT /\ r.pc = "answer" /\ r.gid = clerk[c].gid
  BY <1>2, <1>4 DEF ClerkT
<1> HIDE DEF r
<1>8. ClerkInv(cur', clerk', ops')
  <2>1. r.pc \in {"call", "answer"} => r.gid \in Gid
    BY <1>2, <1>7
  <2>2. ClerkInv(cur, [clerk EXCEPT ![c] = r], ops)
    BY <1>2, <1>7, <2>1, ClerkUpdate
  <2> QED BY <1>1, <1>6, <2>2
<1> QED BY <1>1, <1>5, <1>8, AfterExecution

\* PutCallFails
LEMMA PutCallFailsKeeps ==
  ASSUME ShardInv, NEW c \in Client, PutCallFails(c)
  PROVE  ShardInv'
<1> DEFINE r == [clerk[c] EXCEPT !.pc = "call", !.err = "", !.rpcTimes = 1]
<1>1. /\ clerk[c].pc \in {"call", "answer"} /\ clerk[c].pc # "idle"
      /\ UNCHANGED <<cur, new, grp, ctl, sent, fatal, hist, ops>>
      /\ clerk' = [clerk EXCEPT ![c].pc = "call", ![c].err = "",
                                ![c].rpcTimes = 1]
  BY DEF PutCallFails, ctlVars, histVars
<1>2. clerk \in [Client -> ClerkT] /\ clerk[c] \in ClerkT /\ clerk[c].gid \in Gid
  BY <1>1, ClerkParts
<1>3. clerk' = [clerk EXCEPT ![c] = r]
  BY <1>1, <1>2
<1>4. r \in ClerkT /\ r.gid = clerk[c].gid
  BY <1>2 DEF ClerkT
<1> HIDE DEF r
<1> QED BY <1>1, <1>2, <1>3, <1>4, ClerkBecomes

-----------------------------------------------------------------------------
(* The invariant holds.                                                    *)

\* Every group starts with no Num, and the first one with every shard.
LEMMA ShardInit ==
  ASSUME Init
  PROVE  ShardInv
<1>1. /\ cur = [version |-> 0, config |-> MakeShardConfig] /\ new = cur
      /\ grp = [g \in Gid |-> StartServer(g)]
      /\ ctl = [k \in Controller |-> IdleCtl]
      /\ sent = {} /\ fatal = {} /\ clerk = [c \in Client |-> NewClerk]
      /\ hist = << >> /\ ops = [c \in Client |-> << >>]
  BY DEF Init
<1>2. MakeShardConfig \in Config /\ MakeShardConfig.num = 0 /\ NoData \in DataT
      /\ NoData.version = 0
  BY IdleType DEF MakeShardConfig, NoData
<1>3. StoreInv(cur, new) /\ cur.version = 0 /\ NextNum(cur) = 1
  BY <1>1, <1>2 DEF StoreInv, Stored, NextNum
<1>4. grp \in [Gid -> GroupT] /\ \A g \in Gid, s \in Shard :
        /\ St(grp, g, s) = IF g = Gid1 THEN Valid ELSE NoShard
        /\ Nm(grp, g, s) = 0 /\ Dt(grp, g, s) = NoData
  BY <1>1, <1>2 DEF StartServer, GroupT, St, Nm, Dt
<1>5. GroupInv(cur, new, grp)
  <2>1. \A s \in Shard : ~Moves(cur, new, s) /\ Owner(cur, s) = Gid1
    BY <1>3 DEF Moves, Active, Owner
  <2> QED BY <1>3, <1>4, <2>1 DEF GroupInv, ShardOK, SettledOK
<1>6. hist \in Seq(Client \X Nat) /\ Len(hist) = 0
  BY <1>1
<1>7. DataInv(cur, new, grp, Len(hist))
  <2>1. KeyShard \in Shard
    BY KeyShardAssumption DEF Shard
  <2> QED BY <1>2, <1>4, <1>6, <2>1 DEF DataInv
<1>8. SentInv(cur, new, grp, sent)
  BY <1>1 DEF SentInv
<1>9. CtlInv(cur, new, grp, sent, ctl)
  <2>1. IdleCtl \in CtlT /\ IdleCtl.pc \in {"idle", "stopped", "fatal"}
    BY IdleType
  <2>2. CtlOK(cur, new, grp, sent, IdleCtl)
    BY <2>1, Rests DEF CtlOK, CallOK
  <2> QED BY <1>1, <2>1, <2>2 DEF CtlInv
<1>10. ClerkInv(cur, clerk, ops)
  <2>1. NewClerk \in ClerkT /\ NewClerk.pc = "idle"
    BY DEF NewClerk, ClerkT
  <2> QED BY <1>1, <2>1 DEF ClerkInv
<1> QED BY <1>1, <1>3, <1>5, <1>6, <1>7, <1>8, <1>9, <1>10 DEF ShardInv

\* Every step keeps the invariant.
LEMMA ShardNext ==
  ASSUME ShardInv, [Next]_vars
  PROVE  ShardInv'
<1>1. CASE UNCHANGED vars
  BY <1>1 DEF ShardInv, vars, ctlVars, histVars
<1>2. ASSUME NEW k \in Controller, ControllerStep(k) PROVE ShardInv'
  BY <1>2, InitConfigKeeps, InitControllerKeeps, RecoverKeeps,
     ChangeConfigToKeeps, PublishStepKeeps, CheckKeeps, FreezeKeeps,
     InstallKeeps, DeleteKeeps, StoreStepKeeps DEF ControllerStep
<1>3. ASSUME NEW k \in Controller, Stop(k) PROVE ShardInv'
  BY <1>3, StopKeeps
<1>4. ASSUME NEW k \in Controller, NEW target \in NewTargets,
             QueryAndChange(k, target)
      PROVE  ShardInv'
  BY <1>4, QueryAndChangeKeeps
<1>5. ASSUME NEW m \in sent, Unheard(m) PROVE ShardInv'
  BY <1>5, UnheardKeeps
<1>6. ASSUME NEW c \in Client, ClerkStep(c) PROVE ShardInv'
  <2>1. CASE \E r \in MayCall(c) : Begin(c, r.kind, r.version)
    <3>1. ops[c] \in Seq(OpT)
      BY ClerkParts DEF ClerkInv
    <3> QED BY <2>1, <3>1, MayCallIs, BeginKeeps
  <2>3. CASE Query(c)
    BY <2>3, QueryKeeps
  <2>4. CASE Get(c)
    <3>1. /\ clerk[c].pc # "idle"
          /\ UNCHANGED <<cur, new, grp, ctl, sent, fatal, hist, ops>>
      BY <2>4 DEF Get, ctlVars
    <3>2. TryAgain(c) \/ \E r : Return(c, r)
      BY <2>4 DEF Get
    <3> QED BY <3>1, <3>2, AnsweredKeeps
  <2>5. CASE GetGivesUp(c)
    <3>1. /\ clerk[c].pc # "idle" /\ TryAgain(c)
          /\ UNCHANGED <<cur, new, grp, ctl, sent, fatal, hist, ops>>
      BY <2>5 DEF GetGivesUp, ctlVars
    <3> QED BY <3>1, AnsweredKeeps
  <2>6. CASE Put(c)
    BY <2>6, PutKeeps
  <2>7. CASE PutAnswered(c)
    <3>1. /\ clerk[c].pc # "idle"
          /\ UNCHANGED <<cur, new, grp, ctl, sent, fatal, hist, ops>>
      BY <2>7 DEF PutAnswered, ctlVars
    <3>2. TryAgain(c) \/ \E r : Return(c, r)
      BY <2>7 DEF PutAnswered
    <3> QED BY <3>1, <3>2, AnsweredKeeps
  <2>8. CASE PutCallFails(c)
    BY <2>8, PutCallFailsKeeps
  <2> QED BY <1>6, <2>1, <2>3, <2>4, <2>5, <2>6, <2>7, <2>8 DEF ClerkStep
<1> QED BY <1>1, <1>2, <1>3, <1>4, <1>5, <1>6 DEF Next

\* In every behaviour of the sharded service the invariant holds.
THEOREM ShardInvariant == Spec => []ShardInv
<1>1. Init => ShardInv
  BY ShardInit
<1>2. ShardInv /\ [Next]_vars => ShardInv'
  BY ShardNext
<1> QED BY <1>1, <1>2, PTL DEF Spec

\* No two groups ever serve a shard, whichever controllers move it, however
\* often they are superseded or stop, and whenever their freezes, installs and
\* deletes (doFreezeShard, doInstallShard, doDeleteShard) are executed.
THEOREM ShardHasOneOwner == Spec => []OneOwner
<1>1. ShardInv => OneOwner
  <2> SUFFICES ASSUME ShardInv, NEW s \in Shard, NEW g \in Gid, NEW h \in Gid,
                      grp[g].shards[s] = Valid, grp[h].shards[s] = Valid
               PROVE  g = h
    BY DEF OneOwner
  <2>1. StoreInv(cur, new) /\ GroupInv(cur, new, grp)
    BY DEF ShardInv
  <2>2. St(grp, g, s) = Valid /\ Holds(cur, new, grp, h, s)
    BY DEF St, Holds
  <2> QED BY <2>1, <2>2, ServesHolds
<1> QED BY <1>1, ShardInvariant, PTL

\* No server of a group ever calls log.Fatalf for an install of a frozen shard
\* or a delete of a valid one.
THEOREM MovesAreValid == Spec => []NoInvalidMove
<1>1. ShardInv => NoInvalidMove
  BY DEF ShardInv, NoInvalidMove
<1> QED BY <1>1, ShardInvariant, PTL

\* Between two moves the stored configuration names a group that serves the
\* shard, for every shard; and at every moment whoever serves the key's shard
\* has all writes to the key.
THEOREM OwnersServe == Spec => []OwnerHasShard
<1>1. ASSUME ShardInv PROVE OwnerHasShard
  <2>1. /\ StoreInv(cur, new) /\ GroupInv(cur, new, grp)
        /\ DataInv(cur, new, grp, Len(hist))
    BY <1>1 DEF ShardInv
  <2>2. ASSUME new.version < cur.version, NEW s \in Shard
        PROVE  grp[cur.config.shards[s]].shards[s] = Valid
    <3>1. cur.version \in Nat /\ new.version \in Nat
      BY <2>1 DEF StoreInv, Stored
    <3>2. ~Moves(cur, new, s) /\ Owner(cur, s) = cur.config.shards[s]
      BY <2>2, <3>1 DEF Moves, Active, Owner
    <3>3. Owner(cur, s) \in Gid
      BY <2>1, Ends
    <3>4. SettledOK(cur, grp, s)
      BY <2>1, <3>2 DEF GroupInv, ShardOK
    <3> QED BY <3>2, <3>3, <3>4 DEF SettledOK, St
  <2>3. ASSUME NEW g \in Gid, grp[g].shards[KeyShard] = Valid
        PROVE  grp[g].data[KeyShard].version = Len(hist)
    BY <2>1, <2>3 DEF DataInv, Holds, St, Dt
  <2> QED BY <2>2, <2>3 DEF OwnerHasShard
<1> QED BY <1>1, ShardInvariant, PTL
-----------------------------------------------------------------------------
(* The register.  A second invariant, on top of the first: what the copies *)
(* of the key's data hold, and what the clients have been told.  As above, *)
(* its parts are stated of values: h for hist, o for ops, r for ret.       *)

ResT == [err : {"OK", "ErrNoKey", "ErrVersion", "ErrMaybe"}, version : Nat,
         value : {<< >>} \cup (Client \X Nat)]

\* The data d is what some write left, or nothing.
ValueOK(h, d) ==
  d.version # 0 => d.version \in 1 .. Len(h) /\ d.value = h[d.version]

GroupsOK(h, G) == \A g \in Gid, s \in Shard : ValueOK(h, Dt(G, g, s))

\* A copy of the data, wherever it is, is what some write left.
CopiesOK(h, G, S, K) ==
  /\ GroupsOK(h, G)
  /\ \A m \in S : m.kind # "put" => ValueOK(h, m.data)
  /\ \A k \in Controller : ValueOK(h, K[k].data)

\* The n-th operation of c is a Put of version v.
IsPut(o, c, n, v) ==
  n \in 1 .. Len(o[c]) /\ o[c][n].kind = "put" /\ o[c][n].version = v

\* A Put in the network is of an operation that was called.
PutsOK(S, o) ==
  \A m \in S : m.kind = "put" => IsPut(o, m.writer[1], m.writer[2], m.version)

TookEffect(h, c, n) == \E j \in 1 .. Len(h) : h[j] = <<c, n>>

\* Every write is of a Put, on the version that it named.
WritesOK(h, o) == \A j \in 1 .. Len(h) : IsPut(o, h[j][1], h[j][2], j - 1)

LowsOK(h, o) == \A c \in Client : \A n \in 1 .. Len(o[c]) : o[c][n].low <= Len(h)

\* A Put whose caller was told OK took effect.
ResultsOK(h, o, r) ==
  /\ r \in [Client -> Seq(ResT)]
  /\ \A c \in Client : \A n \in 1 .. Len(r[c]) :
       o[c][n].kind = "put" /\ r[c][n].err = "OK" => TookEffect(h, c, n)

\* The answer err to the n-th operation of c, a Put, was true at some moment of
\* its call.
AnswerOK(h, o, c, n, err) ==
  /\ o[c][n].kind = "put"
  /\ err \in {"OK", "ErrWrongGroup", "ErrNoKey", "ErrVersion"}
  /\ err = "OK" => TookEffect(h, c, n)
  /\ err = "ErrNoKey" => o[c][n].low = 0 /\ o[c][n].version # 0
  /\ err = "ErrVersion" =>
       Len(h) # 0 /\ (o[c][n].low # o[c][n].version \/ Len(h) # o[c][n].version)

\* A clerk that is not idle works on its client's last operation, the only one
\* that has not returned.
WorkOK(h, o, r, K) ==
  \A c \in Client :
    /\ Len(o[c]) = IF K[c].pc = "idle" THEN Len(r[c]) ELSE Len(r[c]) + 1
    /\ K[c].pc = "answer" => AnswerOK(h, o, c, Len(o[c]), K[c].err)

RegInv ==
  /\ CopiesOK(hist, grp, sent, ctl)
  /\ PutsOK(sent, ops)
  /\ WritesOK(hist, ops)
  /\ LowsOK(hist, ops)
  /\ ResultsOK(hist, ops, ret)
  /\ WorkOK(hist, ops, ret, clerk)

\* The history grows by a write, or stays.
Longer(h, i) == i = h \/ \E w \in Client \X Nat : i = Append(h, w)

LEMMA LongerIs ==
  ASSUME NEW h \in Seq(Client \X Nat), NEW i, Longer(h, i)
  PROVE  /\ i \in Seq(Client \X Nat) /\ Len(h) \in Nat /\ Len(i) \in Nat
         /\ Len(h) <= Len(i) /\ \A j \in 1 .. Len(h) : i[j] = h[j]
<1>1. CASE i = h
  BY <1>1
<1>2. ASSUME NEW w \in Client \X Nat, i = Append(h, w)
      PROVE  i \in Seq(Client \X Nat) /\ Len(i) = Len(h) + 1
             /\ \A j \in 1 .. Len(h) : i[j] = h[j]
  BY <1>2
<1> QED BY <1>1, <1>2 DEF Longer

\* What is true of a history stays true when it grows.
LEMMA ValueKeeps ==
  ASSUME NEW h \in Seq(Client \X Nat), NEW i, Longer(h, i), NEW d, ValueOK(h, d)
  PROVE  ValueOK(i, d)
<1>1. /\ Len(h) \in Nat /\ Len(i) \in Nat /\ Len(h) <= Len(i)
      /\ \A j \in 1 .. Len(h) : i[j] = h[j]
  BY LongerIs
<1>2. d.version \in 1 .. Len(h) => d.version \in 1 .. Len(i)
  BY <1>1
<1> QED BY <1>1, <1>2 DEF ValueOK

LEMMA EffectKeeps ==
  ASSUME NEW h \in Seq(Client \X Nat), NEW i, Longer(h, i), NEW c, NEW n,
         TookEffect(h, c, n)
  PROVE  TookEffect(i, c, n)
<1>1. /\ Len(h) \in Nat /\ Len(i) \in Nat /\ Len(h) <= Len(i)
      /\ \A j \in 1 .. Len(h) : i[j] = h[j]
  BY LongerIs
<1>2. PICK j \in 1 .. Len(h) : h[j] = <<c, n>>
  BY DEF TookEffect
<1>3. j \in 1 .. Len(i) /\ i[j] = <<c, n>>
  BY <1>1, <1>2
<1> QED BY <1>3 DEF TookEffect

LEMMA AnswerKeeps ==
  ASSUME NEW h \in Seq(Client \X Nat), NEW i, Longer(h, i), NEW o, NEW c, NEW n,
         o[c][n] \in OpT, o[c][n].low <= Len(h), NEW err,
         AnswerOK(h, o, c, n, err)
  PROVE  AnswerOK(i, o, c, n, err)
<1>1. Len(h) \in Nat /\ Len(i) \in Nat /\ Len(h) <= Len(i)
  BY LongerIs
<1>2. err = "OK" => TookEffect(i, c, n)
  BY EffectKeeps DEF AnswerOK
<1>3. PICK low \in Nat, version \in Nat : o[c][n].low = low /\ o[c][n].version = version
  BY DEF OpT
<1>4. err = "ErrVersion" =>
       Len(i) # 0 /\ (o[c][n].low # o[c][n].version \/ Len(i) # o[c][n].version)
  BY <1>1, <1>3 DEF AnswerOK
<1> QED BY <1>2, <1>4 DEF AnswerOK

\* The data of the groups when a request moves or removes it.
LEMMA MoveData ==
  ASSUME NEW h, NEW G, GroupsOK(h, G), NEW H, NEW m \in MoveT,
         \/ FreezeEff(G, H, m)
         \/ InstallEff(G, H, m) /\ ValueOK(h, m.data)
         \/ DeleteEff(G, H, m)
  PROVE  GroupsOK(h, H)
<1>1. m.gid \in Gid /\ m.shard \in Shard
  BY DEF MoveT
<1>2. ValueOK(h, NoData) /\ ValueOK(h, Dt(G, m.gid, m.shard))
  BY <1>1 DEF GroupsOK, ValueOK, NoData
<1>3. ASSUME NEW st, NEW d, ValueOK(h, d), Changed(G, H, m.gid, m.shard, st, m.num, d)
      PROVE  GroupsOK(h, H)
  BY <1>3 DEF Changed, GroupsOK
<1>4. CASE H = G
  BY <1>4
<1>5. CASE FreezeEff(G, H, m)
  BY <1>2, <1>3, <1>4, <1>5 DEF FreezeEff
<1>6. CASE InstallEff(G, H, m) /\ ValueOK(h, m.data)
  <2> DEFINE d == IF m.data.version = 0 THEN Dt(G, m.gid, m.shard) ELSE m.data
  <2>1. ValueOK(h, d)
    BY <1>2, <1>6
  <2>2. H = G \/ Changed(G, H, m.gid, m.shard, Valid, m.num, d)
    BY <1>6 DEF InstallEff
  <2> HIDE DEF d
  <2> QED BY <1>3, <1>4, <2>1, <2>2
<1>7. CASE DeleteEff(G, H, m)
  <2> DEFINE d == IF St(G, m.gid, m.shard) = NoShard THEN Dt(G, m.gid, m.shard)
                  ELSE NoData
  <2>1. ValueOK(h, d)
    BY <1>2
  <2>2. H = G \/ Changed(G, H, m.gid, m.shard, NoShard, m.num, d)
    BY <1>7 DEF DeleteEff
  <2> HIDE DEF d
  <2> QED BY <1>3, <1>4, <2>1, <2>2
<1> QED BY <1>5, <1>6, <1>7

\* A controller goes on as c, with data that is a copy.
LEMMA ControllerCopies ==
  ASSUME ShardInv, RegInv, NEW k \in Controller, NEW c, ValueOK(hist, c.data),
         ctl' = [ctl EXCEPT ![k] = c],
         sent' = sent \/ sent' = sent \cup {Request(c, c.pc)},
         c.pc # "put" \/ sent' = sent,
         GroupsOK(hist, grp'), UNCHANGED <<clerk, hist, ops, ret>>
  PROVE  RegInv'
<1>1. /\ CopiesOK(hist, grp, sent, ctl) /\ PutsOK(sent, ops)
      /\ WritesOK(hist, ops) /\ LowsOK(hist, ops) /\ ResultsOK(hist, ops, ret)
      /\ WorkOK(hist, ops, ret, clerk)
  BY DEF RegInv
<1>2. ctl \in [Controller -> CtlT]
  BY DEF ShardInv, CtlInv
<1>3. ASSUME NEW j \in Controller PROVE ValueOK(hist, ctl'[j].data)
  BY <1>1, <1>2 DEF CopiesOK
<1>4. Request(c, c.pc).kind = c.pc /\ ValueOK(hist, Request(c, c.pc).data)
  BY DEF Request, ValueOK, NoData
<1>5. ASSUME NEW m \in sent'
      PROVE  /\ m.kind # "put" => ValueOK(hist, m.data)
             /\ m.kind = "put" => m \in sent
  BY <1>1, <1>4 DEF CopiesOK
<1>6. CopiesOK(hist, grp', sent', ctl')
  BY <1>3, <1>5 DEF CopiesOK
<1>7. PutsOK(sent', ops)
  BY <1>1, <1>5 DEF PutsOK
<1> QED BY <1>1, <1>6, <1>7 DEF RegInv

\* The same with Continue.
LEMMA ContinueCopies ==
  ASSUME ShardInv, RegInv, NEW k \in Controller, NEW c, ValueOK(hist, c.data),
         Continue(k, c), GroupsOK(hist, grp'), UNCHANGED <<clerk, hist, ops, ret>>
  PROVE  RegInv'
BY ControllerCopies DEF Continue

\* A controller that moves on has its data, or none.
LEMMA MoveFromCopies ==
  ASSUME NEW h, NEW c \in CtlT, ValueOK(h, c.data), NEW s
  PROVE  ValueOK(h, MoveFrom(c, s).data)
<1>1. ValueOK(h, NoData)
  BY DEF ValueOK, NoData
<1>2. ASSUME NEW t PROVE [c EXCEPT !.pc = "freeze", !.shard = t].data = c.data
  BY DEF CtlT
<1>3. [c EXCEPT !.pc = "store", !.shard = 0, !.data = NoData].data = NoData
  BY DEF CtlT
<1>4. MoveFrom(c, s).data \in {c.data, NoData}
  BY <1>2, <1>3 DEF MoveFrom
<1> QED BY <1>1, <1>4

LEMMA CopiesParts ==
  ASSUME ShardInv, RegInv, NEW k \in Controller
  PROVE  /\ ctl \in [Controller -> CtlT] /\ ctl[k] \in CtlT
         /\ ValueOK(hist, ctl[k].data) /\ ValueOK(hist, IdleCtl.data)
         /\ GroupsOK(hist, grp) /\ ValueOK(hist, NoData)
<1>1. ctl \in [Controller -> CtlT] /\ CopiesOK(hist, grp, sent, ctl)
  BY DEF ShardInv, CtlInv, RegInv
<1>2. ValueOK(hist, IdleCtl.data) /\ ValueOK(hist, NoData)
  BY DEF ValueOK, NoData, IdleCtl
<1> QED BY <1>1, <1>2 DEF CopiesOK

\* What a controller does to the configurations leaves the copies alone.
LEMMA PlainCopies ==
  ASSUME ShardInv, RegInv, NEW k \in Controller,
         \/ InitConfig(k) \/ InitController(k) \/ Recover(k) \/ ChangeConfigTo(k)
         \/ Publish(k) \/ Check(k) \/ Store(k) \/ Stop(k)
         \/ \E target : QueryAndChange(k, target)
  PROVE  RegInv'
<1> DEFINE c == ctl[k]
<1>1. /\ ctl \in [Controller -> CtlT] /\ c \in CtlT /\ ValueOK(hist, c.data)
      /\ ValueOK(hist, IdleCtl.data) /\ GroupsOK(hist, grp)
      /\ ValueOK(hist, NoData)
  BY CopiesParts
<1>2. IdleCtl \in CtlT
  BY IdleType
<1>3. /\ UNCHANGED <<clerk, hist, ops, ret>> /\ grp' = grp
  BY DEF InitConfig, InitController, Recover, ChangeConfigTo, Publish, Check, Store,
         Stop, QueryAndChange, histVars
<1>4. GroupsOK(hist, grp')
  BY <1>1, <1>3
<1>5. CASE InitConfig(k)
  <2>1. PICK p : ctl' = [ctl EXCEPT ![k].pc = p] /\ sent' = sent
    BY <1>5 DEF InitConfig
  <2>2. ctl' = [ctl EXCEPT ![k] = [c EXCEPT !.pc = p]]
    BY <1>1, <2>1
  <2>3. [c EXCEPT !.pc = p].data = c.data
    BY <1>1 DEF CtlT
  <2> QED BY <1>1, <1>3, <1>4, <2>1, <2>2, <2>3, ControllerCopies
<1>6. CASE InitController(k)
  <2> DEFINE d == [c EXCEPT !.pc = "recover", !.config = cur.config, !.ver = cur.version]
  <2>1. ctl' = [ctl EXCEPT ![k] = d] /\ sent' = sent
    BY <1>1, <1>6 DEF InitController
  <2>2. d.data = c.data
    BY <1>1 DEF CtlT
  <2> HIDE DEF d
  <2> QED BY <1>1, <1>3, <1>4, <2>1, <2>2, ControllerCopies
<1>7. CASE Recover(k)
  <2> DEFINE b == [c EXCEPT !.target = new.config]
  <2>1. /\ [IdleCtl EXCEPT !.pc = "fatal"].data = IdleCtl.data
    BY <1>2 DEF CtlT
  <2>2. b \in CtlT /\ b.data = c.data
    <3>1. new.config \in Config
      BY DEF ShardInv, StoreInv, Stored
    <3> QED BY <1>1, <3>1 DEF CtlT
  <2>3. PICK d : Continue(k, d) /\ d \in {IdleCtl, [IdleCtl EXCEPT !.pc = "fatal"],
                                         MoveFrom(b, 0)}
    <3>1. RecoveryOutcome(c.ver, c.config) \in {"none", "move", "fatal"}
      <4> DEFINE ahead == c.ver - new.version
      <4>1. new.version \in Nat
        BY DEF ShardInv, StoreInv, Stored
      <4> HIDE DEF c, ahead
      <4>2. ahead \in {0, 1} \/ ahead \notin {0, 1}
        OBVIOUS
      <4> QED BY <4>1, <4>2 DEF RecoveryOutcome, ahead
    <3> HIDE DEF b
    <3>2. CASE RecoveryOutcome(c.ver, c.config) = "none"
      BY <1>7, <3>2 DEF Recover
    <3>3. CASE RecoveryOutcome(c.ver, c.config) = "fatal"
      BY <1>7, <3>3 DEF Recover
    <3>4. CASE RecoveryOutcome(c.ver, c.config) = "move"
      BY <1>7, <3>4 DEF Recover, b
    <3> QED BY <3>1, <3>2, <3>3, <3>4
  <2> HIDE DEF b
  <2>4. ValueOK(hist, MoveFrom(b, 0).data)
    BY <1>1, <2>2, MoveFromCopies
  <2>5. ValueOK(hist, d.data)
    BY <1>1, <2>1, <2>3, <2>4
  <2> QED BY <1>3, <1>4, <2>3, <2>5, ContinueCopies
<1>8. CASE ChangeConfigTo(k)
  <2> DEFINE b == [c EXCEPT !.pc = "publish", !.config = cur.config, !.ver = cur.version]
  <2>1. b.data = c.data
    BY <1>1 DEF CtlT
  <2>2. (ctl' = [ctl EXCEPT ![k] = IdleCtl] \/ ctl' = [ctl EXCEPT ![k] = b]) /\ sent' = sent
    BY <1>1, <1>8 DEF ChangeConfigTo
  <2> HIDE DEF b
  <2> QED BY <1>1, <1>3, <1>4, <2>1, <2>2, ControllerCopies
<1>9. CASE Publish(k) \/ Check(k) \/ Store(k)
  <2>1. [c EXCEPT !.pc = "check"].data = c.data
    BY <1>1 DEF CtlT
  <2>2. \/ Continue(k, MoveFrom(c, 0)) \/ Continue(k, [c EXCEPT !.pc = "check"])
        \/ Continue(k, IdleCtl)
    BY <1>9 DEF Publish, Check, Store
  <2> HIDE DEF c
  <2>3. ValueOK(hist, MoveFrom(c, 0).data)
    BY <1>1, MoveFromCopies
  <2> QED BY <1>1, <1>3, <1>4, <2>1, <2>2, <2>3, ContinueCopies
<1>10. CASE Stop(k)
  <2>1. [IdleCtl EXCEPT !.pc = "stopped"].data = IdleCtl.data
    BY <1>2 DEF CtlT
  <2>2. ctl' = [ctl EXCEPT ![k] = [IdleCtl EXCEPT !.pc = "stopped"]] /\ sent' = sent
    BY <1>10 DEF Stop
  <2> QED BY <1>1, <1>3, <1>4, <2>1, <2>2, ControllerCopies
<1>11. CASE \E target : QueryAndChange(k, target)
  <2>1. PICK t : ctl' = [ctl EXCEPT ![k].pc = "change", ![k].target = t] /\ sent' = sent
    BY <1>11 DEF QueryAndChange
  <2> DEFINE d == [c EXCEPT !.pc = "change", !.target = t]
  <2>2. ctl' = [ctl EXCEPT ![k] = d]
    BY <1>1, <2>1
  <2>3. d.data = c.data
    BY <1>1 DEF CtlT
  <2> HIDE DEF d
  <2> QED BY <1>1, <1>3, <1>4, <2>1, <2>2, <2>3, ControllerCopies
<1> QED BY <1>5, <1>6, <1>7, <1>8, <1>9, <1>10, <1>11

\* Freeze, Install and Delete carry the data from group to group.
LEMMA MoveCopies ==
  ASSUME ShardInv, RegInv, NEW k \in Controller, Freeze(k) \/ Install(k) \/ Delete(k)
  PROVE  RegInv'
<1> DEFINE c == ctl[k]  m == Request(c, c.pc)
<1>1. /\ c \in CtlT /\ ValueOK(hist, c.data) /\ GroupsOK(hist, grp)
      /\ ValueOK(hist, NoData) /\ CopiesOK(hist, grp, sent, ctl)
  BY CopiesParts DEF RegInv
<1>2. c.pc \in CallPcs /\ UNCHANGED <<clerk, hist, ops, ret>>
  BY DEF Freeze, Install, Delete, CallPcs, histVars
<1>3. m \in sent /\ m \in MoveT /\ m.kind = c.pc
  BY <1>2, CallParts
<1>4. ValueOK(hist, m.data)
  BY <1>1, <1>2, <1>3 DEF CopiesOK, CallPcs
<1>5. CASE Freeze(k)
  <2>1. c.pc = "freeze" /\ DoFreeze(m)
        /\ Continue(k, [c EXCEPT !.pc = "install", !.data = FreezeReply(m)])
    BY <1>5 DEF Freeze
  <2>2. FreezeEff(grp, grp', m)
    BY <1>3, <2>1, RequestEffect
  <2>3. GroupsOK(hist, grp')
    BY <1>1, <1>3, <2>2, MoveData
  <2>4. ValueOK(hist, FreezeReply(m))
    <3>1. m.gid \in Gid /\ m.shard \in Shard
      BY <1>3 DEF MoveT
    <3>2. ValueOK(hist, Data(m))
      BY <1>1, <3>1 DEF GroupsOK, Data, Dt
    <3> QED BY <1>1, <3>2 DEF FreezeReply
  <2>5. [c EXCEPT !.pc = "install", !.data = FreezeReply(m)].data = FreezeReply(m)
    BY <1>1 DEF CtlT
  <2> QED BY <1>2, <2>1, <2>3, <2>4, <2>5, ContinueCopies
<1>6. CASE Install(k)
  <2>1. c.pc = "install" /\ DoInstall(m)
        /\ Continue(k, [c EXCEPT !.pc = "delete", !.data = NoData])
    BY <1>6 DEF Install
  <2>2. InstallEff(grp, grp', m)
    BY <1>3, <2>1, RequestEffect
  <2>3. GroupsOK(hist, grp')
    BY <1>1, <1>3, <1>4, <2>2, MoveData
  <2>4. [c EXCEPT !.pc = "delete", !.data = NoData].data = NoData
    BY <1>1 DEF CtlT
  <2> QED BY <1>1, <1>2, <2>1, <2>3, <2>4, ContinueCopies
<1>7. CASE Delete(k)
  <2>1. c.pc = "delete" /\ DoDelete(m) /\ Continue(k, MoveFrom(c, c.shard + 1))
    BY <1>7 DEF Delete
  <2>2. DeleteEff(grp, grp', m)
    BY <1>3, <2>1, RequestEffect
  <2>3. GroupsOK(hist, grp')
    BY <1>1, <1>3, <2>2, MoveData
  <2> HIDE DEF m, c
  <2>4. ValueOK(hist, MoveFrom(c, c.shard + 1).data)
    BY <1>1, MoveFromCopies
  <2> QED BY <1>2, <2>1, <2>3, <2>4, ContinueCopies
<1> QED BY <1>5, <1>6, <1>7

\* The operations have their types, and belong to the client that is busy.
LEMMA OpsParts ==
  ASSUME ShardInv, RegInv, NEW c \in Client
  PROVE  /\ hist \in Seq(Client \X Nat) /\ Len(hist) \in Nat
         /\ clerk \in [Client -> ClerkT] /\ clerk[c] \in ClerkT
         /\ ops \in [Client -> Seq(OpT)] /\ ret \in [Client -> Seq(ResT)]
         /\ Len(ops[c]) \in Nat /\ Len(ret[c]) \in Nat
         /\ \A n \in 1 .. Len(ops[c]) : ops[c][n] \in OpT
         /\ Busy(c) <=> clerk[c].pc # "idle"
         /\ Register!Idle(c) <=> clerk[c].pc = "idle"
         /\ clerk[c].pc # "idle" => /\ Len(ops[c]) = Len(ret[c]) + 1
                                    /\ Len(ops[c]) \in 1 .. Len(ops[c])
         /\ clerk[c].pc = "idle" => Len(ops[c]) = Len(ret[c])
<1>1. /\ hist \in Seq(Client \X Nat) /\ ClerkInv(cur, clerk, ops)
      /\ ResultsOK(hist, ops, ret) /\ WorkOK(hist, ops, ret, clerk)
  BY DEF ShardInv, RegInv
<1>2. /\ clerk \in [Client -> ClerkT] /\ ops \in [Client -> Seq(OpT)]
      /\ ret \in [Client -> Seq(ResT)]
  BY <1>1 DEF ClerkInv, ResultsOK
<1>3. clerk[c] \in ClerkT /\ ops[c] \in Seq(OpT) /\ ret[c] \in Seq(ResT)
  BY <1>2
<1>4. Len(ops[c]) \in Nat /\ Len(ret[c]) \in Nat
      /\ \A n \in 1 .. Len(ops[c]) : ops[c][n] \in OpT
  BY <1>3
<1>5. Len(ops[c]) = IF clerk[c].pc = "idle" THEN Len(ret[c]) ELSE Len(ret[c]) + 1
  BY <1>1 DEF WorkOK
<1>6. Len(hist) \in Nat
  BY <1>1
<1>7. clerk[c].pc # "idle" => /\ Len(ops[c]) = Len(ret[c]) + 1
                              /\ Len(ops[c]) \in 1 .. Len(ops[c])
  BY <1>4, <1>5
<1>8. /\ Busy(c) <=> clerk[c].pc # "idle"
      /\ Register!Idle(c) <=> clerk[c].pc = "idle"
  BY <1>4, <1>5 DEF Busy, Register!Idle
<1> QED BY <1>1, <1>2, <1>3, <1>4, <1>5, <1>6, <1>7, <1>8

\* A longer history leaves true what was said of the shorter one.
LEMMA LongerKeeps ==
  ASSUME ShardInv, RegInv, NEW i, Longer(hist, i)
  PROVE  /\ GroupsOK(i, grp) /\ CopiesOK(i, grp, sent, ctl)
         /\ LowsOK(i, ops) /\ ResultsOK(i, ops, ret)
         /\ WorkOK(i, ops, ret, clerk)
<1>1. /\ CopiesOK(hist, grp, sent, ctl) /\ LowsOK(hist, ops)
      /\ ResultsOK(hist, ops, ret) /\ WorkOK(hist, ops, ret, clerk)
      /\ hist \in Seq(Client \X Nat)
  BY DEF RegInv, ShardInv
<1>2. Len(hist) \in Nat /\ Len(i) \in Nat /\ Len(hist) <= Len(i)
  BY <1>1, LongerIs
<1>3. CopiesOK(i, grp, sent, ctl) /\ GroupsOK(i, grp)
  BY <1>1, ValueKeeps DEF CopiesOK, GroupsOK
<1>4. LowsOK(i, ops)
  <2> SUFFICES ASSUME NEW c \in Client, NEW n \in 1 .. Len(ops[c])
               PROVE  ops[c][n].low <= Len(i)
    BY DEF LowsOK
  <2>1. PICK l \in Nat : ops[c][n].low = l
    BY OpsParts DEF OpT
  <2>2. ops[c][n].low <= Len(hist)
    BY <1>1 DEF LowsOK
  <2> QED BY <1>2, <2>1, <2>2
<1>5. ResultsOK(i, ops, ret)
  BY <1>1, EffectKeeps DEF ResultsOK
<1>6. WorkOK(i, ops, ret, clerk)
  <2> SUFFICES ASSUME NEW c \in Client, clerk[c].pc = "answer"
               PROVE  AnswerOK(i, ops, c, Len(ops[c]), clerk[c].err)
    BY <1>1 DEF WorkOK
  <2>1. Len(ops[c]) \in 1 .. Len(ops[c]) /\ ops[c][Len(ops[c])] \in OpT
    BY OpsParts
  <2>2. ops[c][Len(ops[c])].low <= Len(hist)
    BY <1>1, <2>1 DEF LowsOK
  <2>3. AnswerOK(hist, ops, c, Len(ops[c]), clerk[c].err)
    BY <1>1 DEF WorkOK
  <2> QED BY <1>1, <2>1, <2>2, <2>3, AnswerKeeps
<1> QED BY <1>3, <1>4, <1>5, <1>6

\* doPut: the write of a Put that was called takes effect at the moment it is
\* executed, or its answer is true of that moment.
LEMMA PutPerforms ==
  ASSUME ShardInv, RegInv, NEW m, m.gid \in Gid, m.shard = KeyShard,
         NEW c \in Client, NEW n \in Nat, m.writer = <<c, n>>,
         m.version \in Nat, IsPut(ops, c, n, m.version), DoPut(m),
         UNCHANGED <<ops, ret>>
  PROVE  /\ Longer(hist, hist') /\ GroupsOK(hist', grp')
         /\ WritesOK(hist', ops)
         /\ PutErr(m) \in {"OK", "ErrWrongGroup", "ErrVersion", "ErrNoKey"}
         /\ PutErr(m) # "OK" => hist' = hist
         /\ PutErr(m) = "OK" => TookEffect(hist', c, n) /\ Register!Perform(c, n)
         /\ PutErr(m) = "ErrNoKey" => Len(hist) = 0 /\ m.version # 0
         /\ PutErr(m) = "ErrVersion" => Len(hist) # 0 /\ Len(hist) # m.version
<1> DEFINE g == m.gid
           d == [value |-> m.writer, version |-> m.version + 1]
<1>1. /\ GroupInv(cur, new, grp) /\ hist \in Seq(Client \X Nat)
      /\ DataInv(cur, new, grp, Len(hist))
      /\ Len(hist) \in Nat /\ grp \in [Gid -> GroupT]
      /\ WritesOK(hist, ops) /\ ResultsOK(hist, ops, ret) /\ GroupsOK(hist, grp)
  BY DEF ShardInv, GroupInv, RegInv, CopiesOK
<1>2. KeyShard \in Shard
  BY KeyShardAssumption DEF Shard
<1>3. Serves(m) => Data(m).version = Len(hist)
  BY <1>1, <1>2 DEF DataInv, Holds, Serves, State, Data, St, Dt
<1>4. /\ ~Serves(m) => PutErr(m) = "ErrWrongGroup"
      /\ Serves(m) /\ Len(hist) = m.version => PutErr(m) = "OK"
      /\ Serves(m) /\ Len(hist) \notin {m.version, 0} => PutErr(m) = "ErrVersion"
      /\ Serves(m) /\ Len(hist) = 0 /\ m.version # 0 => PutErr(m) = "ErrNoKey"
  <2>1. ~Serves(m) => PutErr(m) = "ErrWrongGroup"
    BY DEF PutErr
  <2>2. Serves(m) /\ Data(m).version = m.version => PutErr(m) = "OK"
    BY DEF PutErr
  <2>3. Serves(m) /\ Data(m).version \notin {m.version, 0}
          => PutErr(m) = "ErrVersion"
    BY DEF PutErr
  <2>4. Serves(m) /\ Data(m).version = 0 /\ m.version # 0
          => PutErr(m) = "ErrNoKey"
    BY DEF PutErr
  <2> QED BY <1>3, <2>1, <2>2, <2>3, <2>4
<1>5. PICK e \in {"OK", "ErrWrongGroup", "ErrVersion", "ErrNoKey"} : e = PutErr(m)
  BY <1>4
<1>6. /\ e = "OK" => Len(hist) = m.version
      /\ e = "ErrNoKey" => Len(hist) = 0 /\ m.version # 0
      /\ e = "ErrVersion" => Len(hist) # 0 /\ Len(hist) # m.version
  BY <1>4, <1>5
<1>7. CASE e # "OK"
  <2>1. grp' = grp /\ hist' = hist
    BY <1>5, <1>7 DEF DoPut
  <2> QED BY <1>1, <1>5, <1>6, <1>7, <2>1 DEF Longer
<1>8. CASE e = "OK"
  <2>1. grp' = [grp EXCEPT ![g].data[KeyShard] = d] /\ hist' = Append(hist, <<c, n>>)
    BY <1>5, <1>8 DEF DoPut
  <2>2. PICK L \in Nat : L = Len(hist) /\ L = m.version
    BY <1>1, <1>6, <1>8
  <2>3. /\ hist' \in Seq(Client \X Nat) /\ Len(hist') = L + 1 /\ hist'[L + 1] = <<c, n>>
        /\ \A j \in 1 .. L : hist'[j] = hist[j]
    <3>1. PICK w \in Client \X Nat : w = <<c, n>>
      OBVIOUS
    <3>2. hist' = Append(hist, w)
      BY <2>1, <3>1
    <3>3. /\ Append(hist, w) \in Seq(Client \X Nat)
          /\ Len(Append(hist, w)) = Len(hist) + 1
          /\ Append(hist, w)[Len(hist) + 1] = w
          /\ \A j \in 1 .. Len(hist) : Append(hist, w)[j] = hist[j]
      BY <1>1
    <3> QED BY <2>2, <3>1, <3>2, <3>3
  <2>4. Longer(hist, hist')
    BY <2>1 DEF Longer
  <2>5. d.version = L + 1 /\ d.value = <<c, n>>
    BY <2>2
  <2>6. ValueOK(hist', d)
    BY <2>3, <2>5 DEF ValueOK
  <2> HIDE DEF g, d
  <2>7. g \in Gid
    BY DEF g
  <2>8. GroupsOK(hist', grp')
    <3> SUFFICES ASSUME NEW f \in Gid, NEW t \in Shard
                 PROVE  ValueOK(hist', Dt(grp', f, t))
      BY DEF GroupsOK
    <3>1. grp[f] \in GroupT /\ grp[g] \in GroupT
      BY <1>1, <2>7
    <3>2. grp[g].data \in [Shard -> DataT]
      BY <3>1 DEF GroupT
    <3> DEFINE dd == [grp[g].data EXCEPT ![KeyShard] = d]
               rr == [grp[g] EXCEPT !.data = dd]
    <3>3. grp' = [grp EXCEPT ![g] = rr]
      BY <2>1
    <3>4. rr.data = dd
      BY <3>1 DEF GroupT
    <3>5. dd[t] = IF t = KeyShard THEN d ELSE grp[g].data[t]
      BY <1>2, <3>2
    <3> HIDE DEF dd, rr
    <3>6. grp'[f] = IF f = g THEN rr ELSE grp[f]
      BY <1>1, <2>7, <3>3
    <3>7. Dt(grp', f, t) = d \/ Dt(grp', f, t) = Dt(grp, f, t)
      BY <3>4, <3>5, <3>6 DEF Dt
    <3>8. ValueOK(hist', Dt(grp, f, t))
      BY <1>1, <2>4, ValueKeeps DEF GroupsOK
    <3> QED BY <2>6, <3>7, <3>8
  <2>9. WritesOK(hist', ops)
    <3> SUFFICES ASSUME NEW j \in 1 .. Len(hist')
                 PROVE  IsPut(ops, hist'[j][1], hist'[j][2], j - 1)
      BY DEF WritesOK
    <3>1. CASE j = L + 1
      <4>1. hist'[j][1] = c /\ hist'[j][2] = n /\ j - 1 = m.version
        BY <2>2, <2>3, <3>1
      <4> QED BY <4>1
    <3>2. CASE j # L + 1
      <4>1. j \in 1 .. L /\ hist'[j] = hist[j]
        BY <2>3, <3>2
      <4> QED BY <1>1, <2>2, <4>1 DEF WritesOK
    <3> QED BY <3>1, <3>2
  <2>10. TookEffect(hist', c, n)
    <3>1. L + 1 \in 1 .. Len(hist')
      BY <2>3
    <3> QED BY <2>3, <3>1 DEF TookEffect
  <2>11. ~TookEffect(hist, c, n)
    <3> SUFFICES ASSUME NEW j \in 1 .. Len(hist), hist[j] = <<c, n>> PROVE FALSE
      BY DEF TookEffect
    <3>1. hist[j][1] = c /\ hist[j][2] = n
      OBVIOUS
    <3>2. IsPut(ops, c, n, j - 1)
      BY <1>1, <3>1 DEF WritesOK
    <3>3. j - 1 = L
      BY <2>2, <3>2 DEF IsPut
    <3> QED BY <2>2, <3>3
  <2>12. <<c, n>> \notin Register!Range(hist)
    <3>1. DOMAIN hist = 1 .. Len(hist)
      BY <1>1
    <3> QED BY <2>11, <3>1 DEF Register!Range, TookEffect
  <2>13. n <= Len(ret[c]) => ret[c][n].err # "OK"
    <3>1. n \in 1 .. Len(ops[c]) /\ ops[c][n].kind = "put"
      BY DEF IsPut
    <3>2. Len(ret[c]) \in Nat /\ Len(ops[c]) \in Nat
      BY OpsParts
    <3>3. n <= Len(ret[c]) => n \in 1 .. Len(ret[c])
      BY <3>1, <3>2
    <3> QED BY <1>1, <2>11, <3>1, <3>3 DEF ResultsOK
  <2>14. Register!Perform(c, n)
    BY <2>1, <2>2, <2>12, <2>13 DEF Register!Perform, IsPut
  <2> QED BY <1>5, <1>6, <1>8, <2>4, <2>8, <2>9, <2>10, <2>14
<1> QED BY <1>7, <1>8

\* Unheard: a request that is executed late, twice or after its sender stopped.
LEMMA UnheardRegister ==
  ASSUME ShardInv, RegInv, NEW m \in sent, Unheard(m)
  PROVE  /\ RegInv'
         /\ \/ UNCHANGED <<hist, ops, ret>>
            \/ \E c \in Client : \E n \in 1 .. Len(ops[c]) : Register!Perform(c, n)
<1>1. UNCHANGED <<cur, new, ctl, sent, clerk, ops, ret>>
  BY DEF Unheard, ctlVars
<1>2. SentOK(cur, new, grp, m)
  BY DEF ShardInv, SentInv
<1>3. /\ CopiesOK(hist, grp, sent, ctl) /\ PutsOK(sent, ops)
      /\ WritesOK(hist, ops) /\ LowsOK(hist, ops) /\ ResultsOK(hist, ops, ret)
      /\ WorkOK(hist, ops, ret, clerk)
  BY DEF RegInv
<1>4. CASE m \in PutT
  <2>1. /\ m.kind = "put" /\ m.gid \in Gid /\ m.shard = KeyShard
        /\ m.version \in Nat /\ m.writer \in Client \X Nat
    BY <1>4 DEF PutT
  <2>2. PICK c \in Client, n \in Nat : m.writer = <<c, n>>
    BY <2>1
  <2>3. m.writer[1] = c /\ m.writer[2] = n
    BY <2>2
  <2>4. IsPut(ops, c, n, m.version)
    BY <1>3, <2>1, <2>3 DEF PutsOK
  <2>5. DoPut(m)
    BY <2>1 DEF Unheard
  <2>6. /\ Longer(hist, hist') /\ GroupsOK(hist', grp') /\ WritesOK(hist', ops)
        /\ PutErr(m) # "OK" => hist' = hist
        /\ PutErr(m) = "OK" => Register!Perform(c, n)
    BY <1>1, <2>1, <2>2, <2>4, <2>5, PutPerforms
  <2>7. /\ CopiesOK(hist', grp, sent, ctl) /\ LowsOK(hist', ops)
        /\ ResultsOK(hist', ops, ret) /\ WorkOK(hist', ops, ret, clerk)
    BY <2>6, LongerKeeps
  <2>8. CopiesOK(hist', grp', sent, ctl)
    BY <2>6, <2>7 DEF CopiesOK
  <2>9. RegInv'
    BY <1>1, <1>3, <2>6, <2>7, <2>8 DEF RegInv
  <2>10. n \in 1 .. Len(ops[c])
    BY <2>4 DEF IsPut
  <2> QED BY <1>1, <2>6, <2>9, <2>10
<1>5. CASE m \in MoveT
  <2>1. m.kind \in {"freeze", "install", "delete"}
    BY <1>5 DEF MoveT
  <2>2. /\ hist' = hist
        /\ \/ m.kind = "freeze" /\ DoFreeze(m)
           \/ m.kind = "install" /\ DoInstall(m)
           \/ m.kind = "delete" /\ DoDelete(m)
    BY <2>1 DEF Unheard
  <2>3. \/ m.kind = "freeze" /\ FreezeEff(grp, grp', m)
        \/ m.kind = "install" /\ InstallEff(grp, grp', m)
        \/ m.kind = "delete" /\ DeleteEff(grp, grp', m)
    BY <1>5, <2>2, RequestEffect
  <2>4. GroupsOK(hist, grp) /\ ValueOK(hist, m.data)
    BY <1>3, <2>1 DEF CopiesOK
  <2>5. GroupsOK(hist, grp')
    BY <1>5, <2>3, <2>4, MoveData
  <2>6. CopiesOK(hist, grp', sent, ctl)
    BY <1>3, <2>5 DEF CopiesOK
  <2> QED BY <1>1, <1>3, <2>2, <2>6 DEF RegInv
<1> QED BY <1>2, <1>4, <1>5 DEF SentOK

\* The clerk of c goes on with its operation.
LEMMA ClerkWorks ==
  ASSUME ShardInv, RegInv, NEW c \in Client, clerk[c].pc # "idle", NEW r,
         clerk' = [clerk EXCEPT ![c] = r], r.pc \in {"query", "call"},
         UNCHANGED <<grp, ctl, hist, ops, ret>>, NEW gid,
         \/ sent' = sent
         \/ /\ Op(c).kind = "put"
            /\ sent' = sent \cup {PutRequest(c, Len(ops[c]), gid, Op(c).version)}
  PROVE  RegInv'
<1>1. /\ CopiesOK(hist, grp, sent, ctl) /\ PutsOK(sent, ops)
      /\ WritesOK(hist, ops) /\ LowsOK(hist, ops) /\ ResultsOK(hist, ops, ret)
      /\ WorkOK(hist, ops, ret, clerk)
  BY DEF RegInv
<1>2. /\ clerk \in [Client -> ClerkT] /\ Len(ops[c]) \in 1 .. Len(ops[c])
      /\ Len(ops[c]) = Len(ret[c]) + 1
  BY OpsParts
<1>3. ASSUME NEW m \in sent', m \notin sent
      PROVE  m.kind = "put" /\ IsPut(ops, m.writer[1], m.writer[2], m.version)
  <2>1. m = PutRequest(c, Len(ops[c]), gid, Op(c).version) /\ Op(c).kind = "put"
    BY <1>3
  <2>2. /\ m.kind = "put" /\ m.writer = <<c, Len(ops[c])>>
        /\ m.version = Op(c).version
    BY <2>1 DEF PutRequest
  <2>3. m.writer[1] = c /\ m.writer[2] = Len(ops[c])
    BY <2>2
  <2> QED BY <1>2, <2>1, <2>2, <2>3 DEF IsPut, Op
<1>4. CopiesOK(hist, grp, sent', ctl)
  BY <1>1, <1>3 DEF CopiesOK
<1>5. PutsOK(sent', ops)
  BY <1>1, <1>3 DEF PutsOK
<1>6. WorkOK(hist, ops, ret, clerk')
  <2> SUFFICES ASSUME NEW e \in Client
               PROVE  /\ Len(ops[e]) = IF clerk'[e].pc = "idle" THEN Len(ret[e])
                                       ELSE Len(ret[e]) + 1
                      /\ clerk'[e].pc = "answer" =>
                           AnswerOK(hist, ops, e, Len(ops[e]), clerk'[e].err)
    BY DEF WorkOK
  <2>1. CASE e = c
    BY <1>2, <2>1
  <2>2. CASE e # c
    <3>1. clerk'[e] = clerk[e]
      BY <1>2, <2>2
    <3> QED BY <1>1, <3>1 DEF WorkOK
  <2> QED BY <2>1, <2>2
<1> QED BY <1>1, <1>4, <1>5, <1>6 DEF RegInv

\* Query
LEMMA QueryRegister ==
  ASSUME ShardInv, RegInv, NEW c \in Client, Query(c)
  PROVE  RegInv' /\ UNCHANGED <<hist, ops, ret>>
<1> DEFINE gid == cur.config.shards[KeyShard]
           r == [clerk[c] EXCEPT !.pc = "call", !.gid = gid, !.rpcTimes = 0]
<1>1. /\ clerk[c].pc = "query" /\ UNCHANGED <<ctl, grp, hist, ops, ret>>
      /\ Ask(c, Len(ops[c]), Op(c), gid)
  BY DEF Query, ctlVars, histVars
<1>2. clerk \in [Client -> ClerkT] /\ clerk[c] \in ClerkT
  BY OpsParts
<1>3. clerk' = [clerk EXCEPT ![c] = r] /\ r.pc = "call"
  BY <1>1, <1>2 DEF Ask, ClerkT
<1>4. \/ sent' = sent
      \/ /\ Op(c).kind = "put"
         /\ sent' = sent \cup {PutRequest(c, Len(ops[c]), gid, Op(c).version)}
  BY <1>1 DEF Ask
<1> HIDE DEF gid, r
<1> QED BY <1>1, <1>3, <1>4, ClerkWorks

\* TryAgain and PutCallFails
LEMMA AgainRegister ==
  ASSUME ShardInv, RegInv, NEW c \in Client, clerk[c].pc # "idle",
         TryAgain(c) \/ PutCallFails(c),
         UNCHANGED <<ctl, grp, sent, hist, ops>>
  PROVE  RegInv' /\ UNCHANGED <<hist, ops, ret>>
<1>0. clerk \in [Client -> ClerkT] /\ clerk[c] \in ClerkT
  BY OpsParts
<1>1. CASE TryAgain(c)
  <2> DEFINE r == [NewClerk EXCEPT !.pc = "query", !.isUpdate = TRUE]
  <2>1. clerk' = [clerk EXCEPT ![c] = r] /\ ret' = ret
    BY <1>1 DEF TryAgain
  <2>2. r.pc = "query"
    BY DEF NewClerk
  <2> HIDE DEF r
  <2> QED BY <2>1, <2>2, ClerkWorks
<1>2. CASE PutCallFails(c)
  <2> DEFINE r == [clerk[c] EXCEPT !.pc = "call", !.err = "", !.rpcTimes = 1]
  <2>1. clerk' = [clerk EXCEPT ![c] = r] /\ ret' = ret
    BY <1>0, <1>2 DEF PutCallFails, histVars
  <2>2. r.pc = "call"
    BY <1>0 DEF ClerkT
  <2> HIDE DEF r
  <2> QED BY <2>1, <2>2, ClerkWorks
<1> QED BY <1>1, <1>2

\* Begin
LEMMA BeginRegister ==
  ASSUME ShardInv, RegInv, NEW c \in Client, NEW kind \in {"get", "put"},
         NEW version \in Nat, Begin(c, kind, version)
  PROVE  RegInv' /\ Register!Call(c)
<1> DEFINE op == [kind |-> kind, version |-> version, low |-> Len(hist)]
           q == Append(ops[c], op)
           n == Len(ops[c]) + 1
<1>1. /\ CopiesOK(hist, grp, sent, ctl) /\ PutsOK(sent, ops)
      /\ WritesOK(hist, ops) /\ LowsOK(hist, ops) /\ ResultsOK(hist, ops, ret)
      /\ WorkOK(hist, ops, ret, clerk)
  BY DEF RegInv
<1>2. /\ hist \in Seq(Client \X Nat) /\ Len(hist) \in Nat
      /\ clerk \in [Client -> ClerkT] /\ clerk[c] \in ClerkT
      /\ ops \in [Client -> Seq(OpT)] /\ ret \in [Client -> Seq(ResT)]
      /\ ops[c] \in Seq(OpT) /\ Len(ops[c]) \in Nat /\ Len(ret[c]) \in Nat
  BY OpsParts
<1>3. /\ ~Busy(c) /\ ops' = [ops EXCEPT ![c] = q]
      /\ UNCHANGED <<grp, ctl, hist, ret>>
      /\ IF clerk[c].gid # 0 THEN Ask(c, n, op, clerk[c].gid)
         ELSE /\ clerk' = [clerk EXCEPT ![c].pc = "query"]
              /\ sent' = sent
  BY <1>2 DEF Begin, ctlVars
<1>4. clerk[c].pc = "idle" /\ Register!Idle(c) /\ Len(ops[c]) = Len(ret[c])
  BY <1>3, OpsParts
<1>5. op \in OpT /\ op.kind = kind /\ op.version = version /\ op.low = Len(hist)
  BY <1>2 DEF OpT
<1> HIDE DEF op
<1>6. /\ q \in Seq(OpT) /\ Len(q) = n /\ q[n] = op
      /\ \A i \in 1 .. Len(ops[c]) : q[i] = ops[c][i]
  BY <1>2, <1>5
<1> HIDE DEF q
<1>7. ops'[c] = q /\ \A e \in Client : e # c => ops'[e] = ops[e]
  BY <1>2, <1>3
<1>8. n \in Nat /\ n \in 1 .. Len(q) /\ Len(ops[c]) + 1 = n
  BY <1>2, <1>6
<1> HIDE DEF n
<1>9. ASSUME NEW e \in Client, NEW i \in 1 .. Len(ops[e])
      PROVE  i \in 1 .. Len(ops'[e]) /\ ops'[e][i] = ops[e][i]
  <2>1. CASE e = c
    <3>1. i \in 1 .. n
      BY <1>2, <1>8, <2>1
    <3> QED BY <1>6, <1>7, <2>1, <3>1
  <2>2. CASE e # c
    BY <1>7, <2>2
  <2> QED BY <2>1, <2>2
<1>10. ASSUME NEW e \in Client, NEW i, NEW v, IsPut(ops, e, i, v)
       PROVE  IsPut(ops', e, i, v)
  BY <1>9, <1>10 DEF IsPut
<1>11. PICK r : clerk' = [clerk EXCEPT ![c] = r] /\ r.pc \in {"query", "call"}
  <2> DEFINE ra == [clerk[c] EXCEPT !.pc = "call", !.gid = clerk[c].gid, !.rpcTimes = 0]
             rb == [clerk[c] EXCEPT !.pc = "query"]
  <2>1. ra.pc = "call" /\ rb.pc = "query"
    BY <1>2 DEF ClerkT
  <2>2. clerk' = [clerk EXCEPT ![c] = ra] \/ clerk' = [clerk EXCEPT ![c] = rb]
    BY <1>2, <1>3 DEF Ask
  <2> HIDE DEF ra, rb
  <2> QED BY <2>1, <2>2
<1>12. ASSUME NEW m \in sent', m \notin sent
       PROVE  m.kind = "put" /\ IsPut(ops', m.writer[1], m.writer[2], m.version)
  <2>1. m = PutRequest(c, n, clerk[c].gid, op.version) /\ op.kind = "put"
    BY <1>3, <1>12 DEF Ask
  <2>2. m.kind = "put" /\ m.writer = <<c, n>> /\ m.version = op.version
    BY <2>1 DEF PutRequest
  <2>3. m.writer[1] = c /\ m.writer[2] = n
    BY <2>2
  <2> QED BY <1>6, <1>7, <1>8, <2>1, <2>2, <2>3 DEF IsPut
<1>13. sent \subseteq sent'
  BY <1>3 DEF Ask
<1>14. CopiesOK(hist, grp, sent', ctl)
  BY <1>1, <1>12 DEF CopiesOK
<1>15. PutsOK(sent', ops')
  <2> SUFFICES ASSUME NEW m \in sent', m.kind = "put"
               PROVE  IsPut(ops', m.writer[1], m.writer[2], m.version)
    BY DEF PutsOK
  <2>1. CASE m \in sent
    <3>1. m \in PutT
      BY <2>1 DEF ShardInv, SentInv, SentOK, MoveT
    <3>2. m.writer[1] \in Client
      BY <3>1 DEF PutT
    <3>3. IsPut(ops, m.writer[1], m.writer[2], m.version)
      BY <1>1, <2>1 DEF PutsOK
    <3> QED BY <1>10, <3>2, <3>3
  <2> QED BY <1>12, <2>1
<1>16. WritesOK(hist, ops')
  <2> SUFFICES ASSUME NEW j \in 1 .. Len(hist)
               PROVE  IsPut(ops', hist[j][1], hist[j][2], j - 1)
    BY DEF WritesOK
  <2>1. hist[j] \in Client \X Nat
    BY <1>2
  <2>2. hist[j][1] \in Client
    BY <2>1
  <2>3. IsPut(ops, hist[j][1], hist[j][2], j - 1)
    BY <1>1 DEF WritesOK
  <2> QED BY <1>10, <2>2, <2>3
<1>17. LowsOK(hist, ops')
  <2> SUFFICES ASSUME NEW e \in Client, NEW i \in 1 .. Len(ops'[e])
               PROVE  ops'[e][i].low <= Len(hist)
    BY DEF LowsOK
  <2>1. CASE e = c /\ i = n
    BY <1>2, <1>5, <1>6, <1>7, <2>1
  <2>2. CASE ~(e = c /\ i = n)
    <3>1. i \in 1 .. Len(ops[e])
      BY <1>2, <1>6, <1>7, <1>8, <2>2
    <3> QED BY <1>1, <1>9, <3>1 DEF LowsOK
  <2> QED BY <2>1, <2>2
<1>18. ResultsOK(hist, ops', ret)
  <2> SUFFICES ASSUME NEW e \in Client, NEW i \in 1 .. Len(ret[e]),
                      ops'[e][i].kind = "put", ret[e][i].err = "OK"
               PROVE  TookEffect(hist, e, i)
    BY <1>1 DEF ResultsOK
  <2>1. Len(ret[e]) \in Nat /\ Len(ops[e]) \in Nat /\ Len(ret[e]) <= Len(ops[e])
    <3>1. /\ Len(ret[e]) \in Nat /\ Len(ops[e]) \in Nat
          /\ Len(ops[e]) = Len(ret[e]) + 1 \/ Len(ops[e]) = Len(ret[e])
      BY OpsParts
    <3> QED BY <3>1
  <2>2. i \in 1 .. Len(ops[e])
    BY <2>1
  <2> QED BY <1>1, <1>9, <2>2 DEF ResultsOK
<1>19. WorkOK(hist, ops', ret, clerk')
  <2> SUFFICES ASSUME NEW e \in Client
               PROVE  /\ Len(ops'[e]) = IF clerk'[e].pc = "idle" THEN Len(ret[e])
                                       ELSE Len(ret[e]) + 1
                      /\ clerk'[e].pc = "answer" =>
                           AnswerOK(hist, ops', e, Len(ops'[e]), clerk'[e].err)
    BY DEF WorkOK
  <2>1. CASE e = c
    <3>1. clerk'[e].pc \in {"query", "call"}
      BY <1>2, <1>11, <2>1
    <3> QED BY <1>4, <1>6, <1>7, <1>8, <2>1, <3>1
  <2>2. CASE e # c
    <3>1. clerk'[e] = clerk[e] /\ ops'[e] = ops[e]
      BY <1>2, <1>7, <1>11, <2>2
    <3>2. ASSUME NEW i, NEW err
          PROVE  AnswerOK(hist, ops, e, i, err) => AnswerOK(hist, ops', e, i, err)
      BY <3>1 DEF AnswerOK
    <3> QED BY <1>1, <3>1, <3>2 DEF WorkOK
  <2> QED BY <2>1, <2>2
<1>20. RegInv'
  BY <1>3, <1>14, <1>15, <1>16, <1>17, <1>18, <1>19 DEF RegInv
<1>21. Len(ops'[c]) = n /\ ops'[c][n] = op
  BY <1>6, <1>7
<1>22. ops' = [ops EXCEPT ![c] = Append(@, ops'[c][n])]
  BY <1>3, <1>21 DEF q
<1>23. Register!Call(c)
  BY <1>3, <1>4, <1>5, <1>21, <1>22 DEF Register!Call, n
<1> QED BY <1>20, <1>23

\* Return: the operation of c returns res, which the register allows.
LEMMA ReturnRegister ==
  ASSUME ShardInv, RegInv, NEW c \in Client, clerk[c].pc # "idle",
         NEW res \in ResT, Return(c, res),
         IF Op(c).kind = "get" THEN Register!GetMayReturn(Op(c), res)
         ELSE Register!PutMayReturn(c, Len(ops[c]), Op(c), res),
         UNCHANGED <<ctl, grp, sent, hist, ops>>
  PROVE  RegInv' /\ Register!Return(c)
<1> DEFINE n == Len(ops[c])
           r == [NewClerk EXCEPT !.gid = clerk[c].gid]
           q == Append(ret[c], res)
<1>1. /\ CopiesOK(hist, grp, sent, ctl) /\ PutsOK(sent, ops)
      /\ WritesOK(hist, ops) /\ LowsOK(hist, ops) /\ ResultsOK(hist, ops, ret)
      /\ WorkOK(hist, ops, ret, clerk)
  BY DEF RegInv
<1>2. /\ hist \in Seq(Client \X Nat) /\ Len(hist) \in Nat
      /\ clerk \in [Client -> ClerkT] /\ clerk[c] \in ClerkT
      /\ ops \in [Client -> Seq(OpT)] /\ ret \in [Client -> Seq(ResT)]
      /\ ret[c] \in Seq(ResT) /\ Len(ops[c]) \in Nat /\ Len(ret[c]) \in Nat
      /\ n = Len(ret[c]) + 1 /\ ~Register!Idle(c)
  BY OpsParts
<1>3. ret' = [ret EXCEPT ![c] = q] /\ clerk' = [clerk EXCEPT ![c] = r]
  BY DEF Return
<1>4. r.pc = "idle"
  BY DEF NewClerk
<1>5. /\ q \in Seq(ResT) /\ Len(q) = n /\ q[n] = res
      /\ \A i \in 1 .. Len(ret[c]) : q[i] = ret[c][i]
  BY <1>2
<1> HIDE DEF q, r
<1>6. ret'[c] = q /\ \A e \in Client : e # c => ret'[e] = ret[e]
  BY <1>2, <1>3
<1>7. ret' \in [Client -> Seq(ResT)]
  BY <1>2, <1>3, <1>5
<1>8. Op(c).kind = "put" /\ res.err = "OK" => TookEffect(hist, c, n)
  <2>1. DOMAIN hist = 1 .. Len(hist)
    BY <1>2
  <2>2. <<c, n>> \in Register!Range(hist) => TookEffect(hist, c, n)
    BY <2>1 DEF Register!Range, TookEffect
  <2> QED BY <2>2 DEF Register!PutMayReturn
<1>9. ResultsOK(hist, ops, ret')
  <2> SUFFICES ASSUME NEW e \in Client, NEW i \in 1 .. Len(ret'[e]),
                      ops[e][i].kind = "put", ret'[e][i].err = "OK"
               PROVE  TookEffect(hist, e, i)
    BY <1>7 DEF ResultsOK
  <2>1. CASE e = c /\ i = n
    BY <1>5, <1>6, <1>8, <2>1 DEF Op
  <2>2. CASE ~(e = c /\ i = n)
    <3>1. i \in 1 .. Len(ret[e]) /\ ret'[e][i] = ret[e][i]
      <4>1. CASE e = c
        <5>1. i \in 1 .. n /\ i # n
          BY <1>5, <1>6, <2>2, <4>1
        <5>2. i \in 1 .. Len(ret[c])
          BY <1>2, <5>1
        <5> QED BY <1>5, <1>6, <4>1, <5>2
      <4>2. CASE e # c
        BY <1>6, <4>2
      <4> QED BY <4>1, <4>2
    <3> QED BY <1>1, <3>1 DEF ResultsOK
  <2> QED BY <2>1, <2>2
<1>10. WorkOK(hist, ops, ret', clerk')
  <2> SUFFICES ASSUME NEW e \in Client
               PROVE  /\ Len(ops[e]) = IF clerk'[e].pc = "idle" THEN Len(ret'[e])
                                       ELSE Len(ret'[e]) + 1
                      /\ clerk'[e].pc = "answer" =>
                           AnswerOK(hist, ops, e, Len(ops[e]), clerk'[e].err)
    BY DEF WorkOK
  <2>1. CASE e = c
    BY <1>2, <1>3, <1>4, <1>5, <1>6, <2>1
  <2>2. CASE e # c
    <3>1. clerk'[e] = clerk[e] /\ ret'[e] = ret[e]
      BY <1>2, <1>3, <1>6, <2>2
    <3> QED BY <1>1, <3>1 DEF WorkOK
  <2> QED BY <2>1, <2>2
<1>11. RegInv'
  BY <1>1, <1>9, <1>10 DEF RegInv
<1>12. Len(ret'[c]) = n /\ ret'[c][n] = res
  BY <1>5, <1>6
<1>13. ret' = [ret EXCEPT ![c] = Append(@, ret'[c][n])]
  BY <1>3, <1>12 DEF q
<1>14. Register!Return(c)
  BY <1>2, <1>12, <1>13 DEF Register!Return, Op
<1> QED BY <1>11, <1>14

\* Get: what the serving group has is the last write.
LEMMA GetRegister ==
  ASSUME ShardInv, RegInv, NEW c \in Client, Get(c)
  PROVE  /\ RegInv'
         /\ UNCHANGED <<hist, ops, ret>> \/ Register!Return(c)
<1> DEFINE m == GetRequest(clerk[c].gid)
<1>1. /\ clerk[c].pc = "call" /\ Op(c).kind = "get"
      /\ UNCHANGED <<ctl, grp, sent, hist, ops>>
  BY DEF Get, ctlVars
<1>2. CASE ~Serves(m)
  <2>1. TryAgain(c)
    BY <1>2 DEF Get
  <2> QED BY <1>1, <2>1, AgainRegister
<1>3. CASE Serves(m)
  <2>1. KeyShard \in Shard /\ clerk[c].gid \in Gid
    BY <1>1, KeyShardAssumption, ClerkParts DEF Shard
  <2>2. m.gid = clerk[c].gid /\ m.shard = KeyShard
    BY DEF GetRequest
  <2> HIDE DEF m
  <2>3. PICK d \in DataT : d = Data(m) /\ d = Dt(grp, clerk[c].gid, KeyShard)
    BY <2>1, <2>2, GroupFields DEF Data, Dt, ShardInv, GroupInv
  <2>4. d.version = Len(hist) /\ ValueOK(hist, d)
    <3>1. St(grp, clerk[c].gid, KeyShard) = Valid
      BY <1>3, <2>2 DEF Serves, State, St
    <3>2. d.version = Len(hist)
      BY <2>1, <2>3, <3>1 DEF ShardInv, DataInv, Holds
    <3>3. ValueOK(hist, d)
      BY <2>1, <2>3 DEF RegInv, CopiesOK, GroupsOK
    <3> QED BY <3>2, <3>3
  <2> DEFINE res == [err |-> IF d.version = 0 THEN "ErrNoKey" ELSE "OK",
                     version |-> d.version, value |-> d.value]
  <2>5. Return(c, res)
    BY <1>3, <2>3 DEF Get, m
  <2>6. res \in ResT
    BY DEF ResT, DataT
  <2>7. /\ res.version = d.version /\ res.value = d.value
        /\ res.err = IF d.version = 0 THEN "ErrNoKey" ELSE "OK"
    OBVIOUS
  <2> HIDE DEF res
  <2>8. /\ Len(ops[c]) \in 1 .. Len(ops[c]) /\ Op(c) \in OpT /\ Len(hist) \in Nat
    BY <1>1, OpsParts, ClerkParts DEF Op
  <2>9. PICK low \in Nat : Op(c).low = low
    BY <2>8 DEF OpT
  <2>10. low <= Len(hist)
    BY <2>8, <2>9 DEF RegInv, LowsOK, Op
  <2>11. Register!GetMayReturn(Op(c), res)
    <3>1. CASE d.version = 0
      BY <2>4, <2>7, <2>8, <2>9, <2>10, <3>1 DEF Register!GetMayReturn
    <3>2. CASE d.version # 0
      BY <2>4, <2>7, <2>8, <2>9, <2>10, <3>2 DEF Register!GetMayReturn, ValueOK
    <3> QED BY <3>1, <3>2
  <2> QED BY <1>1, <2>5, <2>6, <2>11, ReturnRegister
<1> QED BY <1>2, <1>3

\* Put
LEMMA PutRegister ==
  ASSUME ShardInv, RegInv, NEW c \in Client, Put(c)
  PROVE  /\ RegInv'
         /\ \/ UNCHANGED <<hist, ops, ret>>
            \/ \E n \in 1 .. Len(ops[c]) : Register!Perform(c, n)
<1> DEFINE m == PutRequest(c, Len(ops[c]), clerk[c].gid, Op(c).version)
<1>1. /\ clerk[c].pc = "call" /\ Op(c).kind = "put" /\ DoPut(m)
      /\ UNCHANGED <<ctl, sent, ops, ret>>
      /\ clerk' = [clerk EXCEPT ![c].pc = "answer", ![c].err = PutErr(m)]
  BY DEF Put, ctlVars
<1>2. /\ CopiesOK(hist, grp, sent, ctl) /\ PutsOK(sent, ops)
      /\ LowsOK(hist, ops) /\ hist \in Seq(Client \X Nat)
  BY DEF RegInv, ShardInv
<1>3. /\ clerk \in [Client -> ClerkT] /\ clerk[c] \in ClerkT
      /\ clerk[c].gid \in Gid /\ Op(c) \in OpT
  BY <1>1, ClerkParts
<1>4. PICK n \in 1 .. Len(ops[c]) : n = Len(ops[c]) /\ n \in Nat /\ ops[c][n] = Op(c)
  BY <1>1, OpsParts DEF Op
<1>5. PICK low \in Nat, version \in Nat : Op(c).low = low /\ Op(c).version = version
  BY <1>3 DEF OpT
<1>6. /\ m.gid \in Gid /\ m.shard = KeyShard /\ m.version = version
      /\ m.writer = <<c, n>>
  BY <1>3, <1>4, <1>5 DEF PutRequest
<1> HIDE DEF m
<1>7. IsPut(ops, c, n, version)
  BY <1>1, <1>4, <1>5 DEF IsPut
<1>8. PICK e : e = PutErr(m)
  OBVIOUS
<1>9. /\ Longer(hist, hist') /\ GroupsOK(hist', grp') /\ WritesOK(hist', ops)
      /\ e \in {"OK", "ErrWrongGroup", "ErrVersion", "ErrNoKey"}
      /\ e # "OK" => hist' = hist
      /\ e = "OK" => TookEffect(hist', c, n) /\ Register!Perform(c, n)
      /\ e = "ErrNoKey" => Len(hist) = 0 /\ version # 0
      /\ e = "ErrVersion" => Len(hist) # 0 /\ Len(hist) # version
  BY <1>1, <1>4, <1>6, <1>7, <1>8, PutPerforms
<1>10. /\ CopiesOK(hist', grp, sent, ctl) /\ LowsOK(hist', ops)
       /\ ResultsOK(hist', ops, ret) /\ WorkOK(hist', ops, ret, clerk)
  BY <1>9, LongerKeeps
<1>11. CopiesOK(hist', grp', sent, ctl)
  BY <1>9, <1>10 DEF CopiesOK
<1>12. low <= Len(hist) /\ Len(hist) \in Nat
  BY <1>2, <1>4, <1>5 DEF LowsOK
<1>13. AnswerOK(hist', ops, c, n, e)
  <2>1. ops[c][n].kind = "put" /\ ops[c][n].low = low /\ ops[c][n].version = version
    BY <1>1, <1>4, <1>5
  <2> QED BY <1>9, <1>12, <2>1 DEF AnswerOK
<1> DEFINE r == [clerk[c] EXCEPT !.pc = "answer", !.err = e]
<1>14. clerk' = [clerk EXCEPT ![c] = r]
  BY <1>1, <1>3, <1>8
<1>15. r.pc = "answer" /\ r.err = e
  BY <1>3 DEF ClerkT
<1> HIDE DEF r
<1>16. WorkOK(hist', ops, ret, clerk')
  <2> SUFFICES ASSUME NEW f \in Client
               PROVE  /\ Len(ops[f]) = IF clerk'[f].pc = "idle" THEN Len(ret[f])
                                       ELSE Len(ret[f]) + 1
                      /\ clerk'[f].pc = "answer" =>
                           AnswerOK(hist', ops, f, Len(ops[f]), clerk'[f].err)
    BY DEF WorkOK
  <2>1. CASE f = c
    <3>1. clerk'[f] = r
      BY <1>3, <1>14, <2>1
    <3>2. Len(ops[c]) = Len(ret[c]) + 1
      BY <1>1, OpsParts
    <3> QED BY <1>4, <1>13, <1>15, <2>1, <3>1, <3>2
  <2>2. CASE f # c
    <3>1. clerk'[f] = clerk[f]
      BY <1>3, <1>14, <2>2
    <3> QED BY <1>10, <3>1 DEF WorkOK
  <2> QED BY <2>1, <2>2
<1>17. RegInv'
  BY <1>1, <1>2, <1>9, <1>10, <1>11, <1>16 DEF RegInv
<1> QED BY <1>1, <1>9, <1>17

\* PutAnswered
LEMMA AnswerRegister ==
  ASSUME ShardInv, RegInv, NEW c \in Client, PutAnswered(c)
  PROVE  /\ RegInv'
         /\ UNCHANGED <<hist, ops, ret>> \/ Register!Return(c)
<1>1. /\ clerk[c].pc = "answer" /\ UNCHANGED <<ctl, grp, sent, hist, ops>>
  BY DEF PutAnswered, ctlVars
<1>2. CASE clerk[c].err = "ErrWrongGroup"
  <2>1. TryAgain(c)
    BY <1>2 DEF PutAnswered
  <2> QED BY <1>1, <2>1, AgainRegister
<1>3. CASE clerk[c].err # "ErrWrongGroup"
  <2>1. PICK err : err = clerk[c].err
    OBVIOUS
  <2>2. AnswerOK(hist, ops, c, Len(ops[c]), err)
    BY <1>1, <2>1 DEF RegInv, WorkOK
  <2>3. PICK e \in {"OK", "ErrNoKey", "ErrVersion", "ErrMaybe"} :
          /\ e = PutResult(c, err)
          /\ e # err => err = "ErrVersion" /\ e = "ErrMaybe"
    BY <1>3, <2>1, <2>2 DEF PutResult, AnswerOK
  <2> DEFINE res == [err |-> e, version |-> 0, value |-> << >>]
  <2>4. Return(c, res)
    BY <1>3, <2>1, <2>3 DEF PutAnswered
  <2>5. res \in ResT /\ res.err = e
    BY DEF ResT
  <2> HIDE DEF res
  <2>6. Op(c).kind = "put" /\ Op(c) = ops[c][Len(ops[c])]
    BY <2>2 DEF AnswerOK, Op
  <2>7. DOMAIN hist = 1 .. Len(hist)
    BY OpsParts
  <2>8. TookEffect(hist, c, Len(ops[c])) => <<c, Len(ops[c])>> \in Register!Range(hist)
    BY <2>7 DEF TookEffect, Register!Range
  <2>9. Len(hist) # 0 => hist # << >>
    OBVIOUS
  <2>10. Register!PutMayReturn(c, Len(ops[c]), Op(c), res)
    BY <2>2, <2>3, <2>5, <2>6, <2>8, <2>9 DEF AnswerOK, Register!PutMayReturn
  <2> QED BY <1>1, <2>4, <2>5, <2>6, <2>10, ReturnRegister
<1> QED BY <1>2, <1>3

-----------------------------------------------------------------------------

LEMMA RegInit ==
  ASSUME Init
  PROVE  RegInv
<1>1. /\ grp = [g \in Gid |-> StartServer(g)]
      /\ ctl = [k \in Controller |-> IdleCtl]
      /\ sent = {} /\ clerk = [c \in Client |-> NewClerk]
      /\ hist = << >> /\ ops = [c \in Client |-> << >>]
      /\ ret = [c \in Client |-> << >>]
  BY DEF Init
<1>2. ValueOK(hist, NoData) /\ IdleCtl.data = NoData /\ NewClerk.pc = "idle"
  BY DEF ValueOK, NoData, IdleCtl, NewClerk
<1>3. GroupsOK(hist, grp)
  BY <1>1, <1>2 DEF GroupsOK, StartServer, Dt
<1>4. CopiesOK(hist, grp, sent, ctl) /\ PutsOK(sent, ops)
  BY <1>1, <1>2, <1>3 DEF CopiesOK, PutsOK
<1>5. /\ Len(hist) = 0
      /\ \A c \in Client : Len(ops[c]) = 0 /\ Len(ret[c]) = 0 /\ ret[c] \in Seq(ResT)
  BY <1>1
<1>6. WritesOK(hist, ops) /\ LowsOK(hist, ops)
  BY <1>5 DEF WritesOK, LowsOK
<1>7. ResultsOK(hist, ops, ret)
  BY <1>1, <1>5 DEF ResultsOK
<1>8. WorkOK(hist, ops, ret, clerk)
  BY <1>1, <1>2, <1>5 DEF WorkOK
<1> QED BY <1>4, <1>6, <1>7, <1>8 DEF RegInv

\* Every step keeps the second invariant, and is a step of the register or
\* leaves it alone.
LEMMA RegNext ==
  ASSUME ShardInv, RegInv, [Next]_vars
  PROVE  RegInv' /\ [Register!Next]_(Register!vars)
<1>0. SUFFICES RegInv' /\ (UNCHANGED <<hist, ops, ret>> \/ Register!Next)
  BY DEF Register!vars
<1>1. CASE UNCHANGED vars
  <2>1. UNCHANGED <<grp, ctl, sent, clerk, hist, ops, ret>>
    BY <1>1 DEF vars, ctlVars, histVars
  <2> QED BY <2>1 DEF RegInv
<1>2. ASSUME NEW k \in Controller,
             \/ ControllerStep(k) \/ Stop(k)
             \/ \E target \in NewTargets : QueryAndChange(k, target)
      PROVE  RegInv' /\ UNCHANGED <<hist, ops, ret>>
  <2>1. UNCHANGED <<hist, ops, ret>>
    BY <1>2 DEF ControllerStep, InitConfig, InitController, Recover, ChangeConfigTo,
                Publish, Check, Freeze, Install, Delete, Store, Stop, QueryAndChange,
                histVars
  <2>2. CASE Freeze(k) \/ Install(k) \/ Delete(k)
    BY <2>1, <2>2, MoveCopies
  <2>3. CASE ~(Freeze(k) \/ Install(k) \/ Delete(k))
    BY <1>2, <2>1, <2>3, PlainCopies DEF ControllerStep
  <2> QED BY <2>2, <2>3
<1>3. ASSUME NEW m \in sent, Unheard(m)
      PROVE  RegInv' /\ (UNCHANGED <<hist, ops, ret>> \/ Register!Next)
  BY <1>3, UnheardRegister DEF Register!Next
<1>4. ASSUME NEW c \in Client, ClerkStep(c)
      PROVE  RegInv' /\ (UNCHANGED <<hist, ops, ret>> \/ Register!Next)
  <2>1. CASE \E r \in MayCall(c) : Begin(c, r.kind, r.version)
    <3>1. ops[c] \in Seq(OpT)
      BY OpsParts
    <3> QED BY <2>1, <3>1, MayCallIs, BeginRegister DEF Register!Next
  <2>3. CASE Query(c)
    BY <2>3, QueryRegister
  <2>4. CASE Get(c)
    BY <2>4, GetRegister DEF Register!Next
  <2>5. CASE GetGivesUp(c)
    <3>1. /\ clerk[c].pc # "idle" /\ TryAgain(c)
          /\ UNCHANGED <<ctl, grp, sent, hist, ops>>
      BY <2>5 DEF GetGivesUp, ctlVars
    <3> QED BY <3>1, AgainRegister
  <2>6. CASE Put(c)
    BY <2>6, PutRegister DEF Register!Next
  <2>7. CASE PutAnswered(c)
    BY <2>7, AnswerRegister DEF Register!Next
  <2>8. CASE PutCallFails(c)
    <3>1. clerk[c].pc # "idle" /\ UNCHANGED <<ctl, grp, sent, hist, ops>>
      BY <2>8 DEF PutCallFails, ctlVars, histVars
    <3> QED BY <2>8, <3>1, AgainRegister
  <2> QED BY <1>4, <2>1, <2>3, <2>4, <2>5, <2>6, <2>7, <2>8 DEF ClerkStep
<1> QED BY <1>1, <1>2, <1>3, <1>4 DEF Next

\* While shards move between groups, controllers stop and supersede each other,
\* and requests are executed late, twice or after their sender stopped, the
\* clients of the sharded service (Get and Put of shardkv1/client.go) see the
\* register of KvSpec, for any number of groups, shards, controllers and
\* clients: a write takes effect at most once, at the group that serves the
\* key's shard when it is executed, and what a client is told was true at some
\* moment of its call.
THEOREM ShardLinearizable == Spec => Linearizable
<1>1. Init => RegInv
  BY RegInit
<1>2. Init => Register!Init
  BY DEF Init, Register!Init
<1>3. ShardInv /\ RegInv /\ [Next]_vars => RegInv' /\ [Register!Next]_(Register!vars)
  BY RegNext
<1> QED BY <1>1, <1>2, <1>3, ShardInvariant, PTL DEF Spec, Linearizable, Register!Spec

-----------------------------------------------------------------------------
(* The configurations that Join and Leave make are balanced.               *)

\* The groups have the same number of shards, give or take one.
Even(c) == \A g, h \in c.groups : Counts(c)[g] <= Counts(c)[h] + 1

\* The group with the most shards, when there is a bound on them, has the most.
LEMMA MostIs ==
  ASSUME NEW gs \in SUBSET Nat, gs # {}, NEW b \in Nat, NEW n \in [gs -> 0 .. b]
  PROVE  Most(n) \in gs /\ \A h \in gs : n[h] <= n[Most(n)]
<1> DEFINE V == {b - n[g] : g \in gs}
           M == {g \in DOMAIN n : \A h \in DOMAIN n : n[h] <= n[g]}
<1>1. PICK v \in V : \A w \in V : v <= w
  <2>1. \A g \in gs : n[g] \in 0 .. b /\ b - n[g] \in Nat
    OBVIOUS
  <2>2. V \in SUBSET Nat /\ V # {}
    BY <2>1
  <2> HIDE DEF V
  <2> QED BY <2>2, LeastNumber
<1>2. PICK g \in gs : b - n[g] = v
  BY <1>1
<1>3. ASSUME NEW h \in gs PROVE n[h] <= n[g]
  <2>1. n[h] \in 0 .. b /\ n[g] \in 0 .. b /\ b - n[g] <= b - n[h]
    BY <1>1, <1>2
  <2> QED BY <2>1
<1>4. g \in M /\ M \in SUBSET Nat
  BY <1>3
<1>5. Min(M) \in M
  <2> HIDE DEF M
  <2>1. PICK x \in M : \A y \in M : x <= y
    BY <1>4, LeastNumber
  <2> QED BY <2>1 DEF Min
<1>6. ASSUME NEW l \in M PROVE l \in gs /\ \A h \in gs : n[h] <= n[l]
  OBVIOUS
<1> HIDE DEF M
<1> QED BY <1>5, <1>6 DEF Most, M

\* The shards of group g.
Of(c, g) == {s \in Shard : c.shards[s] = g}

LEMMA OfIs ==
  ASSUME NEW c, NEW g
  PROVE  /\ IsFiniteSet(Of(c, g)) /\ Cardinality(Of(c, g)) \in 0 .. NShards
         /\ Of(c, g) \in SUBSET Shard
<1>0. NShards \in Nat
  BY NShardsAssumption
<1>1. IsFiniteSet(Shard) /\ Cardinality(Shard) = NShards
  <2>1. 0 \in Int /\ NShards - 1 \in Int
    BY <1>0
  <2>2. IsFiniteSet(0 .. NShards - 1)
        /\ Cardinality(0 .. NShards - 1) = IF 0 > NShards - 1 THEN 0 ELSE NShards - 1 - 0 + 1
    BY <2>1, FS_Interval
  <2> QED BY <1>0, <2>2, NShardsAssumption DEF Shard
<1>2. Of(c, g) \in SUBSET Shard
  BY DEF Of
<1>3. IsFiniteSet(Of(c, g)) /\ Cardinality(Of(c, g)) <= Cardinality(Shard)
  BY <1>1, <1>2, FS_Subset
<1>4. Cardinality(Of(c, g)) \in Nat
  BY <1>3, FS_CardinalityType
<1> QED BY <1>0, <1>1, <1>2, <1>3, <1>4

LEMMA CountsIs ==
  ASSUME NEW gs \in SUBSET Gid, NEW n, NEW c \in OfGroups(gs, n)
  PROVE  /\ Counts(c) \in [gs -> 0 .. NShards]
         /\ \A g \in gs : Counts(c)[g] = Cardinality(Of(c, g))
<1>1. c.groups = gs
  BY DEF OfGroups
<1>2. Counts(c) = [g \in gs |-> Cardinality(Of(c, g))]
  BY <1>1 DEF Counts, Of
<1> QED BY <1>2, OfIs

\* e is c with shard s of group g.
IsAssigned(c, e, s, g, gs, n) ==
  /\ e \in OfGroups(gs, n) /\ e.shards = [c.shards EXCEPT ![s] = g]
  /\ Counts(e)[g] = Counts(c)[g] + 1
  /\ \A h \in gs : h = c.shards[s] => Counts(e)[h] = Counts(c)[h] - 1
  /\ \A h \in gs : h # g /\ h # c.shards[s] => Counts(e)[h] = Counts(c)[h]

\* A shard goes to another group, from one of the groups or from none.
LEMMA AssignCounts ==
  ASSUME NEW gs \in SUBSET Gid, NEW n, NEW c \in OfGroups(gs, n), NEW s \in Shard,
         NEW g \in gs, c.shards[s] # g
  PROVE  IsAssigned(c, Assign(c, s, g), s, g, gs, n)
<1> DEFINE d == Assign(c, s, g)
<1>1. /\ d \in OfGroups(gs, n) /\ d.shards = [c.shards EXCEPT ![s] = g]
  BY DEF Assign, OfGroups, Config
<1>2. c.shards \in [Shard -> Gid \cup {0}]
  BY DEF OfGroups, Config
<1> HIDE DEF d
<1>3. \A h \in gs : Counts(d)[h] = Cardinality(Of(d, h)) /\ Counts(c)[h] = Cardinality(Of(c, h))
  BY <1>1, CountsIs
<1>4. Of(d, g) = Of(c, g) \cup {s} /\ s \notin Of(c, g)
  BY <1>1, <1>2 DEF Of
<1>5. Cardinality(Of(d, g)) = Cardinality(Of(c, g)) + 1
  BY <1>4, OfIs, FS_AddElement
<1>6. ASSUME NEW h \in gs, h = c.shards[s]
      PROVE  Cardinality(Of(d, h)) = Cardinality(Of(c, h)) - 1
  <2>1. Of(d, h) = Of(c, h) \ {s} /\ s \in Of(c, h)
    BY <1>1, <1>2, <1>6 DEF Of
  <2>2. PICK S : S = Of(c, h) /\ IsFiniteSet(S)
    BY OfIs
  <2>3. Cardinality(S \ {s}) = Cardinality(S) - 1
    BY <2>1, <2>2, FS_RemoveElement
  <2> QED BY <2>1, <2>2, <2>3
<1>7. ASSUME NEW h \in gs, h # g, h # c.shards[s]
      PROVE  Of(d, h) = Of(c, h)
  BY <1>1, <1>2, <1>7 DEF Of
<1>8. IsAssigned(c, d, s, g, gs, n)
  BY <1>1, <1>3, <1>5, <1>6, <1>7 DEF IsAssigned
<1> QED BY <1>8 DEF d

\* One turn of the second loop: nothing happens to a configuration that is
\* even, and otherwise a shard goes from a group with the most shards to one
\* with the fewest.
LEMMA MoveOneIs ==
  ASSUME NEW gs \in SUBSET Gid, gs # {}, NEW n, NEW c \in Complete(gs, n)
  PROVE  \/ Even(c) /\ MoveOne(c) = c
         \/ \E m \in gs, l \in gs, s \in Shard :
              /\ \A h \in gs : Counts(c)[h] <= Counts(c)[m]
              /\ \A h \in gs : Counts(c)[l] <= Counts(c)[h]
              /\ Counts(c)[l] + 2 <= Counts(c)[m]
              /\ c.shards[s] = m /\ MoveOne(c) = Assign(c, s, l)
<1>0. NShards \in Nat /\ gs \in SUBSET Nat
  BY NShardsAssumption, GidAssumption
<1>1. c \in OfGroups(gs, n) /\ c.groups = gs
  BY DEF Complete, OfGroups
<1>2. PICK k \in [gs -> 0 .. NShards] : k = Counts(c)
  BY <1>1, CountsIs
<1>3. \A g \in gs : k[g] \in Nat
  BY <1>0, <1>2
<1>4. PICK m \in gs : m = Most(k) /\ \A h \in gs : k[h] <= k[m]
  BY <1>0, MostIs
<1>5. PICK l \in gs : l = Least(k) /\ \A h \in gs : k[l] <= k[h]
  <2>1. k \in [gs -> Nat]
    BY <1>0
  <2> QED BY <1>0, <2>1, LeastIs
<1>6. CASE k[m] < k[l] + 2
  <2>1. MoveOne(c) = c
    BY <1>2, <1>4, <1>5, <1>6 DEF MoveOne
  <2>2. ASSUME NEW g \in gs, NEW h \in gs PROVE k[g] <= k[h] + 1
    <3>1. k[g] <= k[m] /\ k[l] <= k[h] /\ k[m] \in Nat /\ k[l] \in Nat /\ k[g] \in Nat
          /\ k[h] \in Nat
      BY <1>3, <1>4, <1>5
    <3> QED BY <1>6, <3>1
  <2> QED BY <1>1, <1>2, <2>1, <2>2 DEF Even
<1>7. CASE ~(k[m] < k[l] + 2)
  <2> DEFINE T == {s \in Shard : c.shards[s] = m}
  <2>1. MoveOne(c) = Assign(c, Min(T), l)
    BY <1>2, <1>4, <1>5, <1>7 DEF MoveOne
  <2>2. k[l] + 2 <= k[m] /\ k[m] # 0
    <3>1. k[m] \in Nat /\ k[l] \in Nat
      BY <1>3
    <3> QED BY <1>7, <3>1
  <2>3. T # {}
    <3>1. k[m] = Cardinality(Of(c, m))
      BY <1>1, <1>2, CountsIs
    <3> QED BY <2>2, <3>1, FS_EmptySet DEF Of
  <2>4. T \in SUBSET Nat
    BY <1>0 DEF Shard
  <2>5. Min(T) \in T
    <3> HIDE DEF T
    <3>1. PICK x \in T : \A y \in T : x <= y
      BY <2>3, <2>4, LeastNumber
    <3> QED BY <3>1 DEF Min
  <2>6. PICK s \in Shard : s = Min(T) /\ c.shards[s] = m
    BY <2>5
  <2>7. MoveOne(c) = Assign(c, s, l)
    BY <2>1, <2>6
  <2> QED BY <1>2, <1>4, <1>5, <2>2, <2>6, <2>7
<1> QED BY <1>6, <1>7

\* A configuration that is even stays as it is.
LEMMA EvenStays ==
  ASSUME NEW gs \in SUBSET Gid, gs # {}, NEW n, NEW c \in Complete(gs, n), Even(c)
  PROVE  FoldLeft(LAMBDA d, s : MoveOne(d), c, InOrder) = c
<1>0. NShards \in Nat
  BY NShardsAssumption
<1>1. PICK f : /\ IsMoving(f, c)
               /\ FoldLeft(LAMBDA d, s : MoveOne(d), c, InOrder) = f[NShards]
  BY MoveSteps
<1>2. f[0] = c /\ \A k \in 0 .. NShards - 1 : f[k + 1] = MoveOne(f[k])
  <2>1. IsMoving(f, c)
    BY <1>1
  <2> QED BY <2>1 DEF IsMoving
<1>3. MoveOne(c) = c
  <2> SUFFICES ASSUME MoveOne(c) # c PROVE FALSE
    OBVIOUS
  <2>1. PICK m \in gs, l \in gs : Counts(c)[l] + 2 <= Counts(c)[m]
    BY MoveOneIs
  <2>2. Counts(c)[l] \in 0 .. NShards /\ Counts(c)[m] \in 0 .. NShards /\ c.groups = gs
    BY CountsIs DEF Complete, OfGroups
  <2>3. Counts(c)[m] <= Counts(c)[l] + 1
    BY <2>2 DEF Even
  <2> QED BY <1>0, <2>1, <2>2, <2>3
<1> DEFINE Q == {k \in 0 .. NShards : f[k] = c}
<1>4. 0 \in Q
  BY <1>0, <1>2
<1>5. ASSUME NEW k \in 0 .. NShards - 1, k \in Q PROVE k + 1 \in Q
  BY <1>0, <1>2, <1>3, <1>5
<1>6. NShards \in Q
  <2> HIDE DEF Q
  <2>1. \A k \in 0 .. NShards : k \in Q
    BY <1>0, <1>4, <1>5, UpTo
  <2> QED BY <1>0, <2>1
<1>7. f[NShards] = c
  BY <1>6
<1> QED BY <1>1, <1>7

\* What group g gets when it joins the groups of c: as long as the shards are
\* not even, each turn gives it one more.
Joining(c, g, d, k) ==
  /\ \A h, i \in c.groups : Counts(d)[h] <= Counts(d)[i] + 1
  /\ \A h \in c.groups : Counts(d)[g] <= Counts(d)[h] + 1
  /\ Even(d) \/ Counts(d)[g] = k
  /\ \A s \in Shard : d.shards[s] \in {c.shards[s], g}

LEMMA JoinStep ==
  ASSUME NEW c \in Config, NEW g \in Gid, g \notin c.groups,
         NEW n, NEW d \in Complete(c.groups \cup {g}, n), NEW k \in Nat,
         Joining(c, g, d, k)
  PROVE  Joining(c, g, MoveOne(d), k + 1)
<1> DEFINE gs == c.groups \cup {g}  e == MoveOne(d)
<1>0. NShards \in Nat /\ gs \in SUBSET Gid /\ gs # {} /\ g \in gs
  BY NShardsAssumption DEF Config
<1> HIDE DEF gs
<1>1. d \in Complete(gs, n) /\ d \in OfGroups(gs, n) /\ d.groups = gs
  BY DEF Complete, OfGroups, gs
<1>2. CASE Even(d) /\ e = d
  BY <1>2 DEF Joining
<1>3. CASE ~(Even(d) /\ e = d)
  <2>1. PICK m \in gs, l \in gs, s \in Shard :
          /\ \A h \in gs : Counts(d)[h] <= Counts(d)[m]
          /\ \A h \in gs : Counts(d)[l] <= Counts(d)[h]
          /\ Counts(d)[l] + 2 <= Counts(d)[m]
          /\ d.shards[s] = m /\ e = Assign(d, s, l)
    BY <1>0, <1>1, <1>3, MoveOneIs
  <2>2. PICK a \in [gs -> 0 .. NShards] : a = Counts(d)
    BY <1>0, <1>1, CountsIs
  <2>3. \A h \in gs : a[h] \in Nat
    BY <1>0
  <2>4. m # l
    BY <2>1, <2>2, <2>3
  <2>5. /\ e \in OfGroups(gs, n) /\ e.shards = [d.shards EXCEPT ![s] = l]
        /\ Counts(e)[l] = a[l] + 1 /\ Counts(e)[m] = a[m] - 1
        /\ \A h \in gs : h # l /\ h # m => Counts(e)[h] = a[h]
    <3>1. d.shards[s] = m /\ d.shards[s] # l /\ e = Assign(d, s, l)
      BY <2>1, <2>4
    <3>2. IsAssigned(d, Assign(d, s, l), s, l, gs, n)
      BY <1>0, <1>1, <3>1, AssignCounts
    <3>3. IsAssigned(d, e, s, l, gs, n)
      BY <3>1, <3>2
    <3> HIDE DEF e
    <3> QED BY <2>2, <3>1, <3>3 DEF IsAssigned
  <2>6. PICK b : b = Counts(e)
    OBVIOUS
  <2> HIDE DEF e
  <2>7. /\ \A h \in gs : a[h] <= a[m] /\ a[l] <= a[h]
        /\ a[l] + 2 <= a[m] /\ b[l] = a[l] + 1 /\ b[m] = a[m] - 1
        /\ \A h \in gs : h # l /\ h # m => b[h] = a[h]
    BY <2>1, <2>2, <2>5, <2>6
  <2>8. /\ \A h, i \in gs \ {g} : a[h] <= a[i] + 1
        /\ \A h \in gs \ {g} : a[g] <= a[h] + 1
        /\ gs \ {g} = c.groups
    BY <2>2 DEF Joining, gs
  <2>9. l = g
    <3> SUFFICES ASSUME l # g PROVE FALSE
      OBVIOUS
    <3>1. a[m] <= a[l] + 1
      BY <2>8
    <3>2. a[m] \in Nat /\ a[l] \in Nat
      BY <2>3
    <3> QED BY <2>7, <3>1, <3>2
  <2>10. ~Even(d) /\ a[g] = k
    <3>1. ~Even(d)
      <4> SUFFICES ASSUME Even(d) PROVE FALSE
        OBVIOUS
      <4>1. a[m] <= a[l] + 1 /\ a[m] \in Nat /\ a[l] \in Nat
        BY <1>1, <2>2, <2>3 DEF Even
      <4> QED BY <2>7, <4>1
    <3> QED BY <2>2, <3>1 DEF Joining
  <2>11. ASSUME NEW h \in gs \ {g}, NEW i \in gs \ {g} PROVE b[h] <= b[i] + 1
    <3>1. a[h] \in Nat /\ a[i] \in Nat /\ a[m] \in Nat /\ a[g] \in Nat
      BY <1>0, <2>3
    <3>2. a[h] <= a[i] + 1 /\ a[h] <= a[m]
      BY <2>7, <2>8
    <3>3. b[h] = IF h = m THEN a[m] - 1 ELSE a[h]
      BY <2>7, <2>9
    <3>4. b[i] = IF i = m THEN a[m] - 1 ELSE a[i]
      BY <2>7, <2>9
    <3> QED BY <3>1, <3>2, <3>3, <3>4
  <2>12. ASSUME NEW h \in gs \ {g} PROVE b[g] <= b[h] + 1
    <3>1. a[h] \in Nat /\ a[m] \in Nat /\ a[g] \in Nat
      BY <1>0, <2>3
    <3>2. a[m] <= a[h] + 1 /\ a[g] + 2 <= a[m]
      BY <2>4, <2>7, <2>8, <2>9
    <3>3. b[h] = (IF h = m THEN a[m] - 1 ELSE a[h]) /\ b[g] = a[g] + 1
      BY <2>7, <2>9
    <3> QED BY <3>1, <3>2, <3>3
  <2>13. b[g] = k + 1
    BY <2>7, <2>9, <2>10
  <2>14. \A t \in Shard : e.shards[t] \in {c.shards[t], g}
    <3>1. d.shards \in [Shard -> Gid \cup {0}]
      BY <1>1 DEF OfGroups, Config
    <3>2. \A t \in Shard : d.shards[t] \in {c.shards[t], g}
      BY DEF Joining
    <3> QED BY <2>5, <2>9, <3>1, <3>2
  <2> QED BY <2>6, <2>8, <2>11, <2>12, <2>13, <2>14 DEF Joining, e
<1> QED BY <1>2, <1>3

\* Configurations that CheckConfig accepts, with a group at least.
IsBalanced(c) == c.groups # {} /\ CheckConfig(c)

LEMMA BalancedIs ==
  ASSUME NEW gs \in SUBSET Gid, gs # {}, NEW n, NEW c \in Complete(gs, n), Even(c)
  PROVE  IsBalanced(c)
BY DEF Complete, OfGroups, IsBalanced, CheckConfig, Even

\* JoinBalance: the group that joins gets shards until the shards are even.
LEMMA JoinIsBalanced ==
  ASSUME NEW c \in Config, IsBalanced(c), NEW g \in Gid, g \notin c.groups
  PROVE  /\ IsBalanced(JoinBalance(c, {g}))
         /\ MovesOnlyForChange(c, JoinBalance(c, {g}))
<1> DEFINE gs == c.groups \cup {g}  n == c.num + 1
           d == [c EXCEPT !.groups = @ \cup {g}, !.num = @ + 1]
<1>0. NShards \in Nat /\ gs \in SUBSET Gid /\ gs # {} /\ g \in gs /\ c.groups \in SUBSET Gid
  BY NShardsAssumption DEF Config
<1>1. d \in OfGroups(gs, n) /\ d.shards = c.shards
  <2>1. c.num \in Nat /\ c.num + 1 \in Nat /\ c.shards \in [Shard -> Gid \cup {0}]
    BY DEF Config
  <2>2. \A m \in Nat, hs \in SUBSET Gid :
          LET e == [c EXCEPT !.groups = hs, !.num = m]
          IN  e \in Config /\ e.groups = hs /\ e.num = m /\ e.shards = c.shards
    BY DEF Config
  <2>3. d \in Config /\ d.groups = gs /\ d.num = n /\ d.shards = c.shards
    BY <1>0, <2>1, <2>2
  <2> QED BY <2>3 DEF OfGroups
<1>2. JoinBalance(c, {g}) = Rebalance(d)
  BY DEF JoinBalance
<1> HIDE DEF d
<1>3. d \in Complete(gs, n) /\ \A s \in Shard : c.shards[s] \in c.groups
  BY <1>1 DEF Complete, IsBalanced, CheckConfig
<1>4. FoldLeft(AssignIfLost, d, InOrder) = d
  <2>1. PICK f : IsAssigning(f, d) /\ FoldLeft(AssignIfLost, d, InOrder) = f[NShards]
    BY <1>0, <1>1, AssignSteps
  <2> DEFINE Q == {k \in 0 .. NShards : f[k] = d}
  <2>2. 0 \in Q
    BY <1>0, <2>1 DEF IsAssigning
  <2>3. ASSUME NEW k \in 0 .. NShards - 1, k \in Q PROVE k + 1 \in Q
    <3>1. AssignIfLost(d, k) = d
      BY <1>0, <1>3 DEF AssignIfLost, Complete, OfGroups, Shard
    <3>2. f[k + 1] = d /\ k + 1 \in 0 .. NShards
      BY <1>0, <2>1, <2>3, <3>1 DEF IsAssigning
    <3> QED BY <3>2
  <2>4. NShards \in Q
    <3> HIDE DEF Q
    <3>1. \A k \in 0 .. NShards : k \in Q
      BY <1>0, <2>2, <2>3, UpTo
    <3> QED BY <1>0, <3>1
  <2> QED BY <2>1, <2>4
<1>5. Rebalance(d) = FoldLeft(LAMBDA e, s : MoveOne(e), d, InOrder)
  <2>1. d.groups # {}
    BY <1>0, <1>1 DEF OfGroups
  <2>2. Rebalance(d) = FoldLeft(LAMBDA e, s : MoveOne(e),
                                FoldLeft(AssignIfLost, d, InOrder), InOrder)
    BY <2>1 DEF Rebalance, InOrder
  <2> QED BY <1>4, <2>2
<1>6. PICK f : /\ IsMoving(f, d)
               /\ FoldLeft(LAMBDA e, s : MoveOne(e), d, InOrder) = f[NShards]
  BY <1>0, <1>3, MoveSteps
<1>7. f[0] = d /\ \A k \in 0 .. NShards - 1 : f[k + 1] = MoveOne(f[k])
  <2>1. IsMoving(f, d)
    BY <1>6
  <2> QED BY <2>1 DEF IsMoving
<1>8. Joining(c, g, d, 0)
  <2>1. \A h \in c.groups : Counts(d)[h] = Counts(c)[h] /\ Counts(d)[h] \in Nat
    <3>1. c \in OfGroups(c.groups, c.num)
      BY DEF OfGroups
    <3>2. /\ \A h \in c.groups : Counts(c)[h] = Cardinality(Of(c, h))
          /\ \A h \in gs : Counts(d)[h] = Cardinality(Of(d, h))
      BY <1>0, <1>1, <3>1, CountsIs
    <3>3. \A h \in gs : Of(d, h) = Of(c, h)
      BY <1>1 DEF Of
    <3>4. \A h \in gs : Cardinality(Of(d, h)) \in Nat
      BY <1>0, OfIs
    <3> QED BY <3>2, <3>3, <3>4
  <2>2. Counts(d)[g] = 0
    <3>1. Of(d, g) = {}
      BY <1>1, <1>3 DEF Of
    <3>2. Counts(d)[g] = Cardinality(Of(d, g))
      BY <1>0, <1>1, CountsIs
    <3> QED BY <3>1, <3>2, FS_EmptySet
  <2>3. \A h, i \in c.groups : Counts(d)[h] <= Counts(d)[i] + 1
    BY <2>1 DEF IsBalanced, CheckConfig
  <2>4. \A h \in c.groups : Counts(d)[g] <= Counts(d)[h] + 1
    BY <2>1, <2>2
  <2> QED BY <1>1, <2>2, <2>3, <2>4 DEF Joining
<1> DEFINE Q == {k \in 0 .. NShards : f[k] \in Complete(gs, n) /\ Joining(c, g, f[k], k)}
<1>9. 0 \in Q
  BY <1>0, <1>3, <1>7, <1>8
<1>10. ASSUME NEW k \in 0 .. NShards - 1, k \in Q PROVE k + 1 \in Q
  <2>1. PICK e \in Complete(gs, n) : e = f[k] /\ Joining(c, g, e, k)
    BY <1>10
  <2>2. f[k + 1] = MoveOne(e) /\ k + 1 \in 0 .. NShards /\ k \in Nat
    BY <1>0, <1>7, <2>1
  <2>3. MoveOne(e) \in Complete(gs, n)
    BY <1>0, MoveOneType
  <2>4. Joining(c, g, MoveOne(e), k + 1)
    BY <2>1, <2>2, JoinStep
  <2> QED BY <2>2, <2>3, <2>4
<1>11. NShards \in Q
  <2> HIDE DEF Q
  <2>1. \A k \in 0 .. NShards : k \in Q
    BY <1>0, <1>9, <1>10, UpTo
  <2> QED BY <1>0, <2>1
<1>12. PICK e \in Complete(gs, n) : e = f[NShards] /\ Joining(c, g, e, NShards)
  BY <1>11
<1>13. JoinBalance(c, {g}) = e
  BY <1>2, <1>5, <1>6, <1>12
<1>14. Even(e)
  <2> SUFFICES ASSUME ~Even(e) PROVE FALSE
    OBVIOUS
  <2>1. Counts(e)[g] = NShards /\ e.groups = gs /\ e \in OfGroups(gs, n)
    BY <1>12 DEF Joining, Complete, OfGroups
  <2>2. \A h \in gs : Counts(e)[h] \in 0 .. NShards
    <3> HIDE DEF gs, n
    <3>1. Counts(e) \in [gs -> 0 .. NShards]
      BY <1>0, <2>1, CountsIs
    <3> QED BY <3>1
  <2>3. ASSUME NEW h \in gs, NEW i \in gs PROVE Counts(e)[h] <= Counts(e)[i] + 1
    <3>1. CASE i = g
      BY <1>0, <2>1, <2>2, <3>1
    <3>2. CASE i # g /\ h = g
      BY <1>12, <3>2 DEF Joining
    <3>3. CASE i # g /\ h # g
      BY <1>12, <3>3 DEF Joining
    <3> QED BY <3>1, <3>2, <3>3
  <2> QED BY <2>1, <2>3 DEF Even
<1>15. IsBalanced(e)
  BY <1>0, <1>14, BalancedIs
<1>16. MovesOnlyForChange(c, e)
  BY <1>12 DEF Joining, MovesOnlyForChange
<1> QED BY <1>13, <1>15, <1>16

\* One turn of the first loop: a shard without a group goes to a group with the
\* fewest, and the groups stay even.
LEMMA AssignEven ==
  ASSUME NEW gs \in SUBSET Gid, gs # {}, NEW n, NEW c \in OfGroups(gs, n), Even(c),
         NEW s \in Shard
  PROVE  /\ Even(AssignIfLost(c, s))
         /\ \A t \in Shard : c.shards[t] \in gs => AssignIfLost(c, s).shards[t] = c.shards[t]
<1>0. NShards \in Nat /\ gs \in SUBSET Nat /\ c.groups = gs
  BY NShardsAssumption, GidAssumption DEF OfGroups
<1>1. CASE c.shards[s] \in gs
  BY <1>0, <1>1 DEF AssignIfLost
<1>2. CASE c.shards[s] \notin gs
  <2>1. PICK a \in [gs -> Nat] : a = Counts(c)
    <3>1. Counts(c) \in [gs -> 0 .. NShards]
      BY CountsIs
    <3> QED BY <1>0, <3>1
  <2>2. PICK l \in gs : l = Least(a) /\ \A h \in gs : a[l] <= a[h]
    BY <1>0, LeastIs
  <2>3. PICK e : e = Assign(c, s, l)
    OBVIOUS
  <2>4. e = AssignIfLost(c, s)
    BY <1>0, <1>2, <2>1, <2>2, <2>3 DEF AssignIfLost
  <2>5. c.shards[s] # l
    BY <1>2
  <2>6. IsAssigned(c, e, s, l, gs, n)
    BY <2>3, <2>5, AssignCounts
  <2>7. /\ e \in OfGroups(gs, n) /\ e.shards = [c.shards EXCEPT ![s] = l]
        /\ Counts(e)[l] = a[l] + 1
        /\ \A h \in gs : h # l => Counts(e)[h] = a[h]
    BY <1>2, <2>1, <2>6 DEF IsAssigned
  <2>8. e.groups = gs
    BY <2>7 DEF OfGroups
  <2>9. \A h, i \in gs : a[h] <= a[i] + 1
    BY <1>0, <2>1 DEF Even
  <2>10. ASSUME NEW h \in gs, NEW i \in gs PROVE Counts(e)[h] <= Counts(e)[i] + 1
    <3>1. a[h] \in Nat /\ a[i] \in Nat /\ a[h] <= a[i] + 1 /\ a[l] <= a[i]
      BY <2>2, <2>9
    <3>2. /\ Counts(e)[h] = IF h = l THEN a[h] + 1 ELSE a[h]
          /\ Counts(e)[i] = IF i = l THEN a[i] + 1 ELSE a[i]
      BY <2>7
    <3> QED BY <3>1, <3>2
  <2>11. Even(e)
    BY <2>8, <2>10 DEF Even
  <2>12. \A t \in Shard : c.shards[t] \in gs => e.shards[t] = c.shards[t]
    <3>1. c.shards \in [Shard -> Gid \cup {0}]
      BY DEF OfGroups, Config
    <3> QED BY <1>2, <2>7, <3>1
  <2> QED BY <2>4, <2>11, <2>12
<1> QED BY <1>1, <1>2

\* LeaveBalance: the shards of the group that leaves go to the others, which
\* stay even and keep theirs.
LEMMA LeaveIsBalanced ==
  ASSUME NEW c \in Config, IsBalanced(c), NEW g \in Gid, c.groups \ {g} # {}
  PROVE  /\ IsBalanced(LeaveBalance(c, {g}))
         /\ MovesOnlyForChange(c, LeaveBalance(c, {g}))
<1> DEFINE gs == c.groups \ {g}  n == c.num + 1
           d == [c EXCEPT !.groups = @ \ {g}, !.num = @ + 1]
<1>0. NShards \in Nat /\ gs \in SUBSET Gid /\ gs # {} /\ c.groups \in SUBSET Gid
  BY NShardsAssumption DEF Config
<1>1. d \in OfGroups(gs, n) /\ d.shards = c.shards
  <2>1. c.num \in Nat /\ c.num + 1 \in Nat /\ c.shards \in [Shard -> Gid \cup {0}]
    BY DEF Config
  <2>2. \A m \in Nat, hs \in SUBSET Gid :
          LET e == [c EXCEPT !.groups = hs, !.num = m]
          IN  e \in Config /\ e.groups = hs /\ e.num = m /\ e.shards = c.shards
    BY DEF Config
  <2>3. d \in Config /\ d.groups = gs /\ d.num = n /\ d.shards = c.shards
    BY <1>0, <2>1, <2>2
  <2> QED BY <2>3 DEF OfGroups
<1>2. LeaveBalance(c, {g}) = Rebalance(d)
  BY DEF LeaveBalance
<1> HIDE DEF d, n
<1>3. Even(d)
  <2>1. c \in OfGroups(c.groups, c.num)
    BY DEF OfGroups
  <2>2. /\ \A h \in c.groups : Counts(c)[h] = Cardinality(Of(c, h))
        /\ \A h \in gs : Counts(d)[h] = Cardinality(Of(d, h))
    <3> HIDE DEF gs
    <3> QED BY <1>0, <1>1, <2>1, CountsIs
  <2>3. \A h \in gs : Of(d, h) = Of(c, h)
    BY <1>1 DEF Of
  <2>4. \A h, i \in c.groups : Counts(c)[h] <= Counts(c)[i] + 1
    BY DEF IsBalanced, CheckConfig
  <2>5. \A h \in gs : Counts(d)[h] = Counts(c)[h] /\ h \in c.groups
    BY <2>2, <2>3
  <2>6. d.groups = gs
    BY <1>1 DEF OfGroups
  <2> QED BY <2>4, <2>5, <2>6 DEF Even
<1> HIDE DEF gs
<1>4. PICK f : IsAssigning(f, d) /\ FoldLeft(AssignIfLost, d, InOrder) = f[NShards]
  BY <1>0, <1>1, AssignSteps
<1> DEFINE Q == {k \in 0 .. NShards :
                   /\ f[k] \in OfGroups(gs, n) /\ Even(f[k])
                   /\ \A t \in Shard : c.shards[t] \in gs => f[k].shards[t] = c.shards[t]}
<1>5. 0 \in Q
  BY <1>0, <1>1, <1>3, <1>4 DEF IsAssigning
<1>6. ASSUME NEW k \in 0 .. NShards - 1, k \in Q PROVE k + 1 \in Q
  <2>1. PICK e \in OfGroups(gs, n) :
          /\ e = f[k] /\ Even(e)
          /\ \A t \in Shard : c.shards[t] \in gs => e.shards[t] = c.shards[t]
    BY <1>6
  <2>2. k \in Shard /\ k + 1 \in 0 .. NShards
    BY <1>0 DEF Shard
  <2>3. f[k + 1] = AssignIfLost(e, k)
    BY <1>4, <2>1 DEF IsAssigning
  <2>4. /\ AssignIfLost(e, k) \in OfGroups(gs, n) /\ Even(AssignIfLost(e, k))
        /\ \A t \in Shard : e.shards[t] \in gs => AssignIfLost(e, k).shards[t] = e.shards[t]
    <3>1. AssignIfLost(e, k) \in OfGroups(gs, n)
      BY <1>0, <2>2, AssignType
    <3> QED BY <1>0, <2>1, <2>2, <3>1, AssignEven
  <2> QED BY <2>1, <2>2, <2>3, <2>4
<1>7. NShards \in Q
  <2> HIDE DEF Q
  <2>1. \A k \in 0 .. NShards : k \in Q
    BY <1>0, <1>5, <1>6, UpTo
  <2> QED BY <1>0, <2>1
<1>8. PICK e : /\ e = FoldLeft(AssignIfLost, d, InOrder) /\ Even(e)
               /\ \A t \in Shard : c.shards[t] \in gs => e.shards[t] = c.shards[t]
  BY <1>4, <1>7
<1>9. e \in Complete(gs, n)
  BY <1>0, <1>1, <1>8, AssignAll
<1>10. d.groups # {}
  BY <1>0, <1>1 DEF OfGroups
<1>11. Rebalance(d) = FoldLeft(LAMBDA x, s : MoveOne(x),
                               FoldLeft(AssignIfLost, d, InOrder), InOrder)
  BY <1>10 DEF Rebalance, InOrder
<1>12. FoldLeft(LAMBDA x, s : MoveOne(x), e, InOrder) = e
  BY <1>0, <1>8, <1>9, EvenStays
<1>13. LeaveBalance(c, {g}) = e
  BY <1>2, <1>8, <1>11, <1>12
<1>14. IsBalanced(e)
  BY <1>0, <1>8, <1>9, BalancedIs
<1>15. MovesOnlyForChange(c, e)
  <2> SUFFICES ASSUME NEW s \in Shard, c.shards[s] # e.shards[s]
               PROVE  c.shards[s] \notin e.groups
    BY DEF MovesOnlyForChange
  <2>1. e.groups = gs
    BY <1>9 DEF Complete, OfGroups
  <2> QED BY <1>8, <2>1
<1> QED BY <1>13, <1>14, <1>15

\* The first configuration is balanced: it has one group.
LEMMA FirstIsBalanced == IsBalanced(JoinBalance(MakeShardConfig, {Gid1}))
<1>1. MakeShardConfig \in Config /\ Gid1 \in Gid /\ MakeShardConfig.groups = {}
  BY GidAssumption DEF MakeShardConfig, Config, Gid1
<1> DEFINE e == JoinBalance(MakeShardConfig, {Gid1})
<1>2. e \in Complete({} \cup {Gid1}, MakeShardConfig.num + 1)
  BY <1>1, JoinType
<1> HIDE DEF e
<1>3. e \in Complete({Gid1}, MakeShardConfig.num + 1) /\ {Gid1} \in SUBSET Gid /\ {Gid1} # {}
  <2>1. {} \cup {Gid1} = {Gid1}
    OBVIOUS
  <2> QED BY <1>1, <1>2, <2>1
<1>4. Even(e)
  <2>1. e.groups = {Gid1} /\ e \in OfGroups({Gid1}, MakeShardConfig.num + 1)
    BY <1>3 DEF Complete, OfGroups
  <2>2. Counts(e) \in [{Gid1} -> 0 .. NShards]
    BY <1>3, <2>1, CountsIs
  <2>3. Counts(e)[Gid1] \in Nat
    BY <2>2, NShardsAssumption
  <2> QED BY <2>1, <2>3 DEF Even
<1> QED BY <1>3, <1>4, BalancedIs DEF e

\* What the controllers know of balance: every configuration that one of them
\* stores, publishes or is about to publish is balanced, and changes only what
\* it must.
PlanOK(C, c) ==
  /\ c.pc = "change" \/ c.pc \in TargetPcs => IsBalanced(c.target)
  /\ c.pc = "change" /\ c.target.num = C.config.num + 1 =>
       MovesOnlyForChange(C.config, c.target)
  /\ c.pc = "publish" => MovesOnlyForChange(c.config, c.target)

BalanceInv ==
  /\ cur.version > 0 => IsBalanced(cur.config)
  /\ new.version > 0 => IsBalanced(new.config)
  /\ Active(cur, new) => MovesOnlyForChange(cur.config, new.config)
  /\ \A k \in Controller : PlanOK(cur, ctl[k])

\* A controller that goes on with c's target, or gives it up.
LEMMA PlanGoesOn ==
  ASSUME NEW C, NEW c, c.pc \in TargetPcs, IsBalanced(c.target), NEW d,
         \/ d.pc \in MovePcs \cup {"check"} /\ d.target = c.target
         \/ d.pc \in {"idle", "stopped", "fatal", "recover"}
  PROVE  PlanOK(C, d)
BY DEF PlanOK, TargetPcs, MovePcs, CallPcs

LEMMA PlanRests ==
  ASSUME NEW C, NEW d, d.pc \in {"idle", "stopped", "fatal", "recover"}
  PROVE  PlanOK(C, d)
BY DEF PlanOK, TargetPcs, MovePcs, CallPcs

LEMMA MoveFromTarget ==
  ASSUME NEW c \in CtlT, NEW s
  PROVE  MoveFrom(c, s).pc \in MovePcs /\ MoveFrom(c, s).target = c.target
<1>1. ASSUME NEW t
      PROVE  LET d == [c EXCEPT !.pc = "freeze", !.shard = t]
             IN  d.pc = "freeze" /\ d.target = c.target
  BY DEF CtlT
<1>2. LET d == [c EXCEPT !.pc = "store", !.shard = 0, !.data = NoData]
      IN  d.pc = "store" /\ d.target = c.target
  BY DEF CtlT
<1> QED BY <1>1, <1>2 DEF MoveFrom, MovePcs, CallPcs

\* Controller k becomes c, and the configurations change or do not.
LEMMA PlanStep ==
  ASSUME ShardInv, BalanceInv, NEW k \in Controller, NEW c,
         ctl' = [ctl EXCEPT ![k] = c], PlanOK(cur', c),
         cur' = cur \/ \A j \in Controller : PlanOK(cur', ctl[j]),
         cur'.version > 0 => IsBalanced(cur'.config),
         new'.version > 0 => IsBalanced(new'.config),
         Active(cur', new') => MovesOnlyForChange(cur'.config, new'.config)
  PROVE  BalanceInv'
<1>1. ctl \in [Controller -> CtlT]
  BY DEF ShardInv, CtlInv
<1>2. ASSUME NEW j \in Controller PROVE PlanOK(cur', ctl'[j])
  <2>1. PlanOK(cur', ctl[j])
    BY DEF BalanceInv
  <2> QED BY <1>1, <2>1
<1> QED BY <1>2 DEF BalanceInv

\* The same, when the configurations do not change.
LEMMA OnlyPlanStep ==
  ASSUME ShardInv, BalanceInv, NEW k \in Controller, NEW c,
         ctl' = [ctl EXCEPT ![k] = c], PlanOK(cur, c), UNCHANGED <<cur, new>>
  PROVE  BalanceInv'
<1>1. cur' = cur /\ new' = new
  OBVIOUS
<1> QED BY <1>1, PlanStep DEF BalanceInv

\* What is known of controller k and its target.
LEMMA PlanParts ==
  ASSUME ShardInv, BalanceInv, NEW k \in Controller
  PROVE  /\ ctl \in [Controller -> CtlT] /\ ctl[k] \in CtlT
         /\ PlanOK(cur, ctl[k]) /\ KnowsOK(cur, ctl[k])
         /\ cur.version \in Nat /\ new.version \in Nat
         /\ cur.config.num = cur.version /\ cur.config \in Config
         /\ new.config \in Config
         /\ new.version = cur.version \/ new.version = cur.version - 1
<1>1. ctl \in [Controller -> CtlT] /\ CtlOK(cur, new, grp, sent, ctl[k])
  BY DEF ShardInv, CtlInv
<1>2. ctl[k] \in CtlT /\ KnowsOK(cur, ctl[k]) /\ PlanOK(cur, ctl[k])
  BY <1>1 DEF CtlOK, BalanceInv
<1>3. StoreInv(cur, new)
  BY DEF ShardInv
<1> QED BY <1>1, <1>2, <1>3 DEF StoreInv, Stored

\* QueryAndChange: Join or Leave of one group.
LEMMA TargetIsBalanced ==
  ASSUME ShardInv, BalanceInv, cur.version > 0, NEW target \in NewTargets
  PROVE  IsBalanced(target) /\ MovesOnlyForChange(cur.config, target)
<1>1. cur.config \in Config /\ IsBalanced(cur.config)
  BY DEF ShardInv, StoreInv, Stored, BalanceInv
<1>2. ASSUME NEW g \in Gid, CanJoin(cur.config, {g}), target = JoinBalance(cur.config, {g})
      PROVE  IsBalanced(target) /\ MovesOnlyForChange(cur.config, target)
  <2>1. g \notin cur.config.groups
    BY <1>2 DEF CanJoin
  <2> QED BY <1>1, <1>2, <2>1, JoinIsBalanced
<1>3. ASSUME NEW g \in Gid, CanLeave(cur.config, {g}), cur.config.groups # {g},
             target = LeaveBalance(cur.config, {g})
      PROVE  IsBalanced(target) /\ MovesOnlyForChange(cur.config, target)
  <2>1. cur.config.groups \ {g} # {}
    BY <1>3 DEF CanLeave
  <2> QED BY <1>1, <1>3, <2>1, LeaveIsBalanced
<1> QED BY <1>2, <1>3 DEF NewTargets

\* The steps of a controller that change no stored configuration.
LEMMA PlanOnly ==
  ASSUME ShardInv, BalanceInv, NEW k \in Controller,
         \/ InitController(k) \/ Recover(k) \/ ChangeConfigTo(k) \/ Check(k)
         \/ Freeze(k) \/ Install(k) \/ Delete(k) \/ Stop(k)
         \/ \E target \in NewTargets : QueryAndChange(k, target)
  PROVE  BalanceInv'
<1> DEFINE c == ctl[k]
<1>1. /\ ctl \in [Controller -> CtlT] /\ c \in CtlT /\ PlanOK(cur, c)
      /\ KnowsOK(cur, c) /\ cur.version \in Nat /\ new.version \in Nat
      /\ cur.config.num = cur.version /\ cur.config \in Config
      /\ new.config \in Config
  BY PlanParts
<1>2. IdleCtl \in CtlT /\ IdleCtl.pc = "idle" /\ PlanOK(cur, IdleCtl)
  BY IdleType, PlanRests
<1>3. UNCHANGED <<cur, new>>
  BY DEF InitController, Recover, ChangeConfigTo, Check, Freeze, Install, Delete, Stop,
         QueryAndChange
<1>4. CASE InitController(k)
  <2> DEFINE d == [c EXCEPT !.pc = "recover", !.config = cur.config, !.ver = cur.version]
  <2>1. ctl' = [ctl EXCEPT ![k] = d]
    BY <1>1, <1>4 DEF InitController
  <2>2. d.pc = "recover"
    BY <1>1 DEF CtlT
  <2> HIDE DEF d
  <2>3. PlanOK(cur, d)
    BY <2>2, PlanRests
  <2> QED BY <1>3, <2>1, <2>3, OnlyPlanStep
<1>5. CASE Recover(k)
  <2> DEFINE b == [c EXCEPT !.target = new.config]
             o == RecoveryOutcome(c.ver, c.config)
  <2>1. [IdleCtl EXCEPT !.pc = "fatal"].pc = "fatal"
    BY IdleType
  <2>2. b \in CtlT /\ b.target = new.config
    BY <1>1 DEF CtlT
  <2>3. o \in {"none", "move", "fatal"} /\ (o = "move" => new.version > 0)
    <3> DEFINE ahead == c.ver - new.version
    <3> HIDE DEF c, ahead
    <3>1. ahead \in {0, 1} \/ ahead \notin {0, 1}
      OBVIOUS
    <3> QED BY <1>1, <3>1 DEF RecoveryOutcome, ahead
  <2> HIDE DEF b
  <2>4. \/ Continue(k, IdleCtl) \/ Continue(k, [IdleCtl EXCEPT !.pc = "fatal"])
        \/ Continue(k, MoveFrom(b, 0)) /\ new.version > 0
    <3>1. CASE o = "none"
      BY <1>5, <3>1 DEF Recover
    <3>2. CASE o = "fatal"
      BY <1>5, <3>2 DEF Recover
    <3>3. CASE o = "move"
      BY <1>5, <2>3, <3>3 DEF Recover, b
    <3> QED BY <2>3, <3>1, <3>2, <3>3
  <2>5. new.version > 0 => PlanOK(cur, MoveFrom(b, 0))
    <3> SUFFICES ASSUME new.version > 0 PROVE PlanOK(cur, MoveFrom(b, 0))
      OBVIOUS
    <3>1. IsBalanced(new.config)
      BY DEF BalanceInv
    <3>2. MoveFrom(b, 0).pc \in MovePcs /\ MoveFrom(b, 0).target = new.config
      BY <2>2, MoveFromTarget
    <3> QED BY <3>1, <3>2 DEF PlanOK, MovePcs, CallPcs
  <2>6. PlanOK(cur, [IdleCtl EXCEPT !.pc = "fatal"])
    <3>1. PICK d : d = [IdleCtl EXCEPT !.pc = "fatal"] /\ d.pc = "fatal"
      BY <2>1
    <3>2. d.pc \in {"idle", "stopped", "fatal", "recover"}
      BY <3>1
    <3> HIDE DEF c, o
    <3>3. PlanOK(cur, d)
      BY <3>2, PlanRests
    <3> QED BY <3>1, <3>3
  <2>7. PICK d : Continue(k, d) /\ PlanOK(cur, d)
    BY <1>2, <2>4, <2>5, <2>6
  <2>8. ctl' = [ctl EXCEPT ![k] = d]
    BY <2>7 DEF Continue
  <2> QED BY <1>3, <2>7, <2>8, OnlyPlanStep
<1>6. CASE ChangeConfigTo(k)
  <2> DEFINE d == [c EXCEPT !.pc = "publish", !.config = cur.config, !.ver = cur.version]
  <2>1. c.pc = "change"
    BY <1>6 DEF ChangeConfigTo
  <2>2. /\ c.target.num <= cur.version + 1 /\ c.target.num \in Nat
        /\ IsBalanced(c.target)
    BY <1>1, <2>1 DEF KnowsOK, PlanOK, CtlT, Config
  <2>3. \/ ctl' = [ctl EXCEPT ![k] = IdleCtl]
        \/ ctl' = [ctl EXCEPT ![k] = d] /\ ~(c.target.num <= cur.config.num)
    BY <1>1, <1>6 DEF ChangeConfigTo
  <2>4. d.pc = "publish" /\ d.target = c.target /\ d.config = cur.config
    BY <1>1 DEF CtlT
  <2> HIDE DEF d
  <2>5. ~(c.target.num <= cur.config.num) => PlanOK(cur, d)
    <3> SUFFICES ASSUME ~(c.target.num <= cur.config.num) PROVE PlanOK(cur, d)
      OBVIOUS
    <3>1. c.target.num = cur.config.num + 1
      BY <1>1, <2>2
    <3>2. MovesOnlyForChange(cur.config, c.target)
      BY <1>1, <2>1, <3>1 DEF PlanOK
    <3> QED BY <2>2, <2>4, <3>2 DEF PlanOK
  <2> QED BY <1>2, <1>3, <2>3, <2>5, OnlyPlanStep
<1>7. CASE Check(k) \/ Freeze(k) \/ Install(k) \/ Delete(k)
  <2>1. c.pc \in TargetPcs
    BY <1>7 DEF Check, Freeze, Install, Delete, TargetPcs, MovePcs, CallPcs
  <2>2. IsBalanced(c.target)
    BY <1>1, <2>1 DEF PlanOK
  <2>3. PICK d : Continue(k, d) /\ (d = IdleCtl \/ (d.pc \in MovePcs /\ d.target = c.target))
    <3>1. CASE Check(k)
      <4>1. MoveFrom(c, 0).pc \in MovePcs /\ MoveFrom(c, 0).target = c.target
        BY <1>1, MoveFromTarget
      <4> QED BY <3>1, <4>1 DEF Check
    <3>2. CASE Freeze(k)
      <4> DEFINE r == FreezeReply(Request(c, "freeze"))
                 d == [c EXCEPT !.pc = "install", !.data = r]
      <4>1. Continue(k, d)
        BY <3>2 DEF Freeze
      <4> HIDE DEF r
      <4>2. d.pc = "install" /\ d.target = c.target
        BY <1>1 DEF CtlT
      <4> HIDE DEF d
      <4> QED BY <4>1, <4>2 DEF MovePcs, CallPcs
    <3>3. CASE Install(k)
      <4> DEFINE d == [c EXCEPT !.pc = "delete", !.data = NoData]
      <4>1. Continue(k, d)
        BY <3>3 DEF Install
      <4>2. d.pc = "delete" /\ d.target = c.target
        BY <1>1 DEF CtlT
      <4> HIDE DEF d
      <4> QED BY <4>1, <4>2 DEF MovePcs, CallPcs
    <3>4. CASE Delete(k)
      <4> DEFINE d == MoveFrom(c, c.shard + 1)
      <4>1. Continue(k, d)
        BY <3>4 DEF Delete
      <4>2. d.pc \in MovePcs /\ d.target = c.target
        BY <1>1, MoveFromTarget
      <4> HIDE DEF d
      <4> QED BY <4>1, <4>2
    <3> QED BY <1>7, <3>1, <3>2, <3>3, <3>4
  <2>4. PlanOK(cur, d)
    BY <1>2, <2>1, <2>2, <2>3, PlanGoesOn
  <2>5. ctl' = [ctl EXCEPT ![k] = d]
    BY <2>3 DEF Continue
  <2> QED BY <1>3, <2>4, <2>5, OnlyPlanStep
<1>8. CASE Stop(k)
  <2> DEFINE d == [IdleCtl EXCEPT !.pc = "stopped"]
  <2>1. ctl' = [ctl EXCEPT ![k] = d]
    BY <1>8 DEF Stop
  <2>2. d.pc = "stopped"
    BY IdleType
  <2> HIDE DEF d
  <2>3. PlanOK(cur, d)
    BY <2>2, PlanRests
  <2> QED BY <1>3, <2>1, <2>3, OnlyPlanStep
<1>9. CASE \E target \in NewTargets : QueryAndChange(k, target)
  <2>1. PICK t \in NewTargets : QueryAndChange(k, t)
    BY <1>9
  <2> DEFINE d == [c EXCEPT !.pc = "change", !.target = t]
  <2>2. ctl' = [ctl EXCEPT ![k] = d] /\ cur.version > 0
    BY <1>1, <2>1 DEF QueryAndChange
  <2>3. d.pc = "change" /\ d.target = t
    BY <1>1 DEF CtlT
  <2> HIDE DEF d
  <2>4. IsBalanced(t) /\ MovesOnlyForChange(cur.config, t)
    BY <2>2, TargetIsBalanced
  <2>5. PlanOK(cur, d)
    BY <2>3, <2>4 DEF PlanOK
  <2> QED BY <1>3, <2>2, <2>5, OnlyPlanStep
<1> QED BY <1>4, <1>5, <1>6, <1>7, <1>8, <1>9

\* InitConfig
LEMMA FirstPlan ==
  ASSUME ShardInv, BalanceInv, NEW k \in Controller, InitConfig(k)
  PROVE  BalanceInv'
<1> DEFINE F == JoinBalance(MakeShardConfig, {Gid1})
<1>1. /\ ctl \in [Controller -> CtlT] /\ ctl[k] \in CtlT
      /\ cur.version \in Nat /\ new.version \in Nat
      /\ new.version = cur.version \/ new.version = cur.version - 1
  BY PlanParts
<1>2. cur.version = 0 /\ new' = new /\ cur' = [version |-> 0 + 1, config |-> F]
  BY DEF InitConfig, StorePut
<1>3. IsBalanced(F)
  BY FirstIsBalanced
<1> HIDE DEF F
<1>4. PICK p \in {"idle", "fatal"} : ctl' = [ctl EXCEPT ![k].pc = p]
  BY DEF InitConfig
<1> DEFINE d == [ctl[k] EXCEPT !.pc = p]
<1>5. ctl' = [ctl EXCEPT ![k] = d] /\ d.pc = p
  BY <1>1, <1>4 DEF CtlT
<1> HIDE DEF d
<1>6. PlanOK(cur', d)
  BY <1>5, PlanRests
<1>7. ASSUME NEW j \in Controller PROVE PlanOK(cur', ctl[j])
  <2>1. PlanOK(cur, ctl[j]) /\ KnowsOK(cur, ctl[j])
    BY PlanParts
  <2>2. ctl[j].pc # "change"
    BY <1>2, <2>1 DEF KnowsOK
  <2> QED BY <2>1, <2>2 DEF PlanOK
<1>8. cur'.version = 1 /\ cur'.config = F /\ new'.version = 0
  BY <1>1, <1>2
<1>9. ~Active(cur', new')
  BY <1>8 DEF Active
<1>10. cur'.version > 0 => IsBalanced(cur'.config)
  BY <1>3, <1>8
<1>11. new'.version > 0 => IsBalanced(new'.config)
  BY <1>8
<1>12. Active(cur', new') => MovesOnlyForChange(cur'.config, new'.config)
  BY <1>9
<1>13. cur' = cur \/ \A j \in Controller : PlanOK(cur', ctl[j])
  BY <1>7
<1>14. ctl' = [ctl EXCEPT ![k] = d]
  BY <1>5
<1> HIDE DEF F
<1> QED BY <1>6, <1>10, <1>11, <1>12, <1>13, <1>14, PlanStep

\* Publish
LEMMA PublishPlan ==
  ASSUME ShardInv, BalanceInv, NEW k \in Controller, Publish(k)
  PROVE  BalanceInv'
<1> DEFINE c == ctl[k]
<1>1. /\ ctl \in [Controller -> CtlT] /\ c \in CtlT /\ PlanOK(cur, c)
      /\ KnowsOK(cur, c) /\ cur.version \in Nat /\ new.version \in Nat
  BY PlanParts
<1>2. /\ c.pc = "publish" /\ cur' = cur
      /\ new' = StorePut(new, c.target, c.ver - 1)
  BY DEF Publish, PublishVersion
<1>3. c.pc \in TargetPcs /\ c.pc \in VerPcs
  BY <1>2 DEF TargetPcs, VerPcs
<1>4. /\ IsBalanced(c.target) /\ MovesOnlyForChange(c.config, c.target)
      /\ c.ver \in Nat /\ (c.ver = cur.version => c.config = cur.config)
  BY <1>1, <1>2, <1>3 DEF PlanOK, KnowsOK, CtlT
<1>5. IdleCtl.pc = "idle"
  BY IdleType
<1>6. [c EXCEPT !.pc = "check"].pc = "check" /\ [c EXCEPT !.pc = "check"].target = c.target
  BY <1>1 DEF CtlT
<1>7. \/ Continue(k, MoveFrom(c, 0)) \/ Continue(k, [c EXCEPT !.pc = "check"])
      \/ Continue(k, IdleCtl)
  BY DEF Publish
<1> HIDE DEF c
<1>8. MoveFrom(c, 0).pc \in MovePcs /\ MoveFrom(c, 0).target = c.target
  BY <1>1, MoveFromTarget
<1>9. PICK d : /\ Continue(k, d)
               /\ \/ d.pc \in MovePcs \cup {"check"} /\ d.target = c.target
                  \/ d.pc \in {"idle", "stopped", "fatal", "recover"}
  BY <1>5, <1>6, <1>7, <1>8
<1>10. PlanOK(cur', d)
  BY <1>3, <1>4, <1>9, PlanGoesOn
<1>11. ctl' = [ctl EXCEPT ![k] = d]
  BY <1>9 DEF Continue
<1>12. new' = new \/ (new'.version = c.ver /\ new'.config = c.target)
  BY <1>2, <1>4 DEF StorePut
<1>13. new'.version > 0 => IsBalanced(new'.config)
  BY <1>4, <1>12 DEF BalanceInv
<1>14. Active(cur', new') => MovesOnlyForChange(cur'.config, new'.config)
  BY <1>2, <1>4, <1>12 DEF BalanceInv, Active
<1>15. cur'.version > 0 => IsBalanced(cur'.config)
  BY <1>2 DEF BalanceInv
<1> QED BY <1>2, <1>10, <1>11, <1>13, <1>14, <1>15, PlanStep

\* Store
LEMMA StorePlan ==
  ASSUME ShardInv, BalanceInv, NEW k \in Controller, Store(k)
  PROVE  BalanceInv'
<1> DEFINE c == ctl[k]
<1>1. /\ ctl \in [Controller -> CtlT] /\ c \in CtlT /\ PlanOK(cur, c)
      /\ KnowsOK(cur, c) /\ cur.version \in Nat /\ new.version \in Nat
      /\ new.version = cur.version \/ new.version = cur.version - 1
  BY PlanParts
<1>2. /\ c.pc = "store" /\ new' = new /\ cur' = StorePut(cur, c.target, c.ver)
      /\ Continue(k, IdleCtl)
  BY DEF Store
<1>3. c.pc \in TargetPcs
  BY <1>2 DEF TargetPcs, MovePcs
<1>4. IsBalanced(c.target) /\ c.ver \in Nat /\ c.target.num = c.ver + 1
  BY <1>1, <1>3 DEF PlanOK, KnowsOK, CtlT
<1> HIDE DEF c
<1>5. ctl' = [ctl EXCEPT ![k] = IdleCtl]
  BY <1>2 DEF Continue
<1>6. IdleCtl.pc = "idle"
  BY IdleType
<1>7. CASE cur' = cur
  <2>1. PlanOK(cur, IdleCtl)
    BY <1>6, PlanRests
  <2> QED BY <1>2, <1>5, <1>7, <2>1, OnlyPlanStep
<1>8. CASE cur' # cur
  <2>1. cur.version = c.ver /\ cur' = [version |-> c.ver + 1, config |-> c.target]
    BY <1>2, <1>8 DEF StorePut
  <2>2. cur'.version = cur.version + 1 /\ cur'.config = c.target
        /\ cur'.config.num = cur.version + 1
    BY <1>4, <2>1
  <2>3. ASSUME NEW j \in Controller PROVE PlanOK(cur', ctl[j])
    <3>1. PlanOK(cur, ctl[j]) /\ KnowsOK(cur, ctl[j]) /\ ctl[j] \in CtlT
      BY PlanParts
    <3>2. ctl[j].pc = "change" => ctl[j].target.num <= cur.version + 1
      BY <3>1 DEF KnowsOK
    <3>3. ctl[j].target.num \in Nat
      BY <3>1 DEF CtlT, Config
    <3>4. ctl[j].pc = "change" => ctl[j].target.num # cur'.config.num + 1
      BY <1>1, <2>2, <3>2, <3>3
    <3> QED BY <3>1, <3>4 DEF PlanOK
  <2>4. PlanOK(cur', IdleCtl)
    BY <1>6, PlanRests
  <2>5. ~Active(cur', new')
    BY <1>1, <1>2, <2>2 DEF Active
  <2>6. new'.version > 0 => IsBalanced(new'.config)
    BY <1>2 DEF BalanceInv
  <2> QED BY <1>4, <1>5, <2>2, <2>3, <2>4, <2>5, <2>6, PlanStep
<1> QED BY <1>7, <1>8

LEMMA BalanceNext ==
  ASSUME ShardInv, BalanceInv, [Next]_vars
  PROVE  BalanceInv'
<1>1. CASE UNCHANGED <<cur, new, ctl>>
  BY <1>1 DEF BalanceInv
<1>2. ASSUME NEW k \in Controller,
             \/ ControllerStep(k) \/ Stop(k)
             \/ \E target \in NewTargets : QueryAndChange(k, target)
      PROVE  BalanceInv'
  BY <1>2, PlanOnly, FirstPlan, PublishPlan, StorePlan DEF ControllerStep
<1>3. ASSUME NEW m \in sent, Unheard(m) PROVE UNCHANGED <<cur, new, ctl>>
  BY <1>3 DEF Unheard, ctlVars
<1>4. ASSUME NEW c \in Client, ClerkStep(c) PROVE UNCHANGED <<cur, new, ctl>>
  BY <1>4 DEF ClerkStep, Begin, Query, Get, GetGivesUp, Put, PutAnswered, PutCallFails,
              ctlVars
<1>5. UNCHANGED vars => UNCHANGED <<cur, new, ctl>>
  BY DEF vars, ctlVars
<1> QED BY <1>1, <1>2, <1>3, <1>4, <1>5 DEF Next

\* Every configuration that the controllers store or publish is one that
\* CheckConfig (shardcfg.go) accepts, for any number of shards and groups, and
\* from one to the next a shard moves only to a group that joins or from a
\* group that leaves: Rebalance has balanced the shards after as many turns of
\* its loop as there are shards, and moves none needlessly.
THEOREM BalancedTheorem == Spec => []ConfigsAreBalanced
<1>1. Init => BalanceInv
  <2> SUFFICES ASSUME Init PROVE BalanceInv
    OBVIOUS
  <2>1. cur.version = 0 /\ new.version = 0 /\ ctl = [k \in Controller |-> IdleCtl]
    BY DEF Init
  <2>2. PlanOK(cur, IdleCtl)
    BY IdleType, PlanRests
  <2> QED BY <2>1, <2>2 DEF BalanceInv, Active
<1>2. ShardInv /\ BalanceInv /\ [Next]_vars => BalanceInv'
  BY BalanceNext
<1>3. BalanceInv => ConfigsAreBalanced
  BY DEF BalanceInv, ConfigsAreBalanced, IsBalanced, Active
<1> QED BY <1>1, <1>2, <1>3, ShardInvariant, PTL DEF Spec
=============================================================================
