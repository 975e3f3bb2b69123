----------------------------- MODULE LogProofs -----------------------------
(***************************************************************************)
(* Log safety, for any number of peers, terms, crashes and snapshots: what *)
(* the code guarantees as long as no term has two leaders.  The invariant  *)
(* speaks of things that no variable holds and that it quantifies          *)
(* existentially:                                                          *)
(*   G[t]     the whole log of the leader of term t, nothing compacted, as *)
(*            a function from index to entry, and N[t] its last index;     *)
(*   A[t][j]  up to which index peer j has had that log while in term t;   *)
(*   K[t]     up to which index the leader of term t has committed entries *)
(*            of its own term.                                             *)
(***************************************************************************)
EXTENDS RaftProofs

-----------------------------------------------------------------------------
(* The logs of the leaders, and a peer's log f from s to n (see IsLog).    *)

\* The logs of terms t and u are the same up to index k.
Same(G, N, t, u, k) ==
  k <= N[t] /\ k <= N[u] /\ \A n \in 1 .. k : G[t][n] = G[u][n]

\* E is the set of the terms that have had a leader.  Where a leader's log has
\* an entry of term u, it is up to there the log of the leader of term u.
Tree(G, N, E) ==
  \A t \in Nat :
    /\ t \notin E => N[t] = 0
    /\ \A k \in 1 .. N[t] :
         G[t][k].term \in 1 .. t /\ Same(G, N, t, G[t][k].term, k)

\* The entry of term u at index k was committed in term T or before.
Done(G, K, k, u, T) ==
  \/ k = 0 /\ u = 0
  \/ k > 0 /\ \E t \in 0 .. T : k <= K[t] /\ G[t][k].term = u

\* The entry at k of the log of term t was added in term t.
Own(G, N, t, k) == k \in 1 .. N[t] /\ G[t][k].term = t

\* The log of a peer in term T: above the snapshot it is a piece of the log of
\* the leader of its last term, and the snapshot is of committed entries.  The
\* two need not fit together: InstallSnapshot keeps what lies above the
\* snapshot without comparing terms.
Branch(G, N, K, f, s, n, T) ==
  LET w == f[n].term
  IN  /\ w <= T
      /\ n = 0 => w = 0
      /\ n > 0 => n <= N[w] /\ G[w][n].term = w
      /\ \A k \in s + 1 .. n : f[k] = G[w][k]
      /\ Done(G, K, s, f[s].term, T)

\* The log goes on from the log of term t at k.
Holds(G, N, f, n, t, k) == k <= n /\ Same(G, N, f[n].term, t, k)

\* Some leader after term t, up to term U, does not have the entries of the
\* log of term t up to k.
Lost(G, N, E, t, k, U) ==
  \E W \in E : W > t /\ W <= U /\ ~Same(G, N, W, t, k)

\* What peer j once had of the log of term t it still has, or a later leader
\* lacks it.
Kept(G, N, A, E, j, f, n, T) ==
  \A t \in Nat : \A k \in Nat :
    Own(G, N, t, k) /\ k <= A[t][j] =>
      t <= T /\ (Holds(G, N, f, n, t, k) \/ Lost(G, N, E, t, k, T))

\* A peer with commit index c.
Committed(G, K, f, s, n, T, c) ==
  s <= c /\ c <= n /\ Done(G, K, c, f[c].term, T)

PeerOK(G, N, A, K, E, j, f, s, n, T, c) ==
  /\ Branch(G, N, K, f, s, n, T)
  /\ Kept(G, N, A, E, j, f, n, T)
  /\ Committed(G, K, f, s, n, T, c)

\* Peer j, with its log and in term T, has acknowledged the log of term t up
\* to x.
Acked(G, N, A, K, j, t, x, f, s, n, T) ==
  /\ x <= N[t]
  /\ \A k \in 1 .. x : Own(G, N, t, k) => k <= A[t][j] \/ k <= K[t]
  /\ x > 0 => t <= T
  /\ t = T => x <= n /\ \A k \in s + 1 .. x : f[k] = G[t][k]

-----------------------------------------------------------------------------
(* The tree of logs.                                                       *)

LogFunctions == [Nat -> [Nat -> LogEntry]]

\* Being the same up to an index is symmetric ...
LEMMA SameSym ==
  ASSUME NEW G, NEW N, NEW t, NEW u, NEW k, Same(G, N, t, u, k)
  PROVE  Same(G, N, u, t, k)
BY DEF Same

\* ... and transitive, up to the smaller index.
LEMMA SameTrans ==
  ASSUME NEW G, NEW N \in [Nat -> Nat], NEW t \in Nat, NEW u \in Nat,
         NEW v \in Nat, NEW k \in Nat, NEW l \in Nat, k <= l,
         \/ Same(G, N, t, u, k) /\ Same(G, N, u, v, l)
         \/ Same(G, N, t, u, l) /\ Same(G, N, u, v, k)
  PROVE  Same(G, N, t, v, k)
BY DEF Same

\* What is the same up to an index is so up to every smaller one.
LEMMA SamePrefix ==
  ASSUME NEW G, NEW N \in [Nat -> Nat], NEW t \in Nat, NEW u \in Nat,
         NEW k \in Nat, NEW l \in Nat, k <= l, Same(G, N, t, u, l)
  PROVE  Same(G, N, t, u, k)
BY DEF Same

\* An entry of a leader's log, its term and the log of that term.
LEMMA TreeEntry ==
  ASSUME NEW G \in LogFunctions, NEW N \in [Nat -> Nat], NEW E, Tree(G, N, E),
         NEW t \in Nat, NEW k \in 1 .. N[t]
  PROVE  /\ G[t][k] \in LogEntry /\ G[t][k].term \in Nat
         /\ G[t][k].term >= 1 /\ G[t][k].term <= t
         /\ k <= N[G[t][k].term]
         /\ Same(G, N, t, G[t][k].term, k)
         /\ G[t][k].term \in E /\ t \in E
<1>1. N[t] \in Nat /\ k \in Nat /\ k >= 1
  OBVIOUS
<1>2. G[t][k] \in LogEntry
  BY <1>1 DEF LogFunctions
<1>3. PICK w : w = G[t][k].term
  OBVIOUS
<1>4. w \in 1 .. t /\ Same(G, N, t, w, k)
  BY <1>3 DEF Tree
<1>5. w \in Nat /\ w >= 1 /\ w <= t
  BY <1>4
<1>6. k <= N[w] /\ N[w] \in Nat
  BY <1>4, <1>5 DEF Same
<1>7. \A u \in Nat : u \notin E => N[u] = 0
  BY DEF Tree
<1>8. w \in E /\ t \in E
  BY <1>1, <1>5, <1>6, <1>7
<1> QED BY <1>2, <1>3, <1>4, <1>5, <1>6, <1>8

\* Log matching: logs with the same term at an index are the same up to it.
LEMMA TreeMatch ==
  ASSUME NEW G \in LogFunctions, NEW N \in [Nat -> Nat], NEW E, Tree(G, N, E),
         NEW t \in Nat, NEW u \in Nat, NEW k \in Nat, k > 0,
         k <= N[t], k <= N[u], G[t][k].term = G[u][k].term
  PROVE  Same(G, N, t, u, k)
<1>1. k \in 1 .. N[t] /\ k \in 1 .. N[u]
  OBVIOUS
<1>2. PICK w \in Nat : w = G[t][k].term
  BY <1>1, TreeEntry
<1>3. Same(G, N, t, w, k) /\ Same(G, N, u, w, k)
  BY <1>1, <1>2, TreeEntry
<1> QED BY <1>2, <1>3, SameSym, SameTrans

\* Terms do not fall along a log.
LEMMA TreeOrder ==
  ASSUME NEW G \in LogFunctions, NEW N \in [Nat -> Nat], NEW E, Tree(G, N, E),
         NEW t \in Nat, NEW k \in Nat, NEW l \in Nat,
         k > 0, k <= l, l <= N[t]
  PROVE  G[t][k].term <= G[t][l].term
<1>1. l \in 1 .. N[t] /\ k \in 1 .. N[t]
  OBVIOUS
<1>2. PICK w \in Nat : w = G[t][l].term
  BY <1>1, TreeEntry
<1>3. Same(G, N, t, w, l) /\ l <= N[w]
  BY <1>1, <1>2, TreeEntry
<1>4. G[t][k] = G[w][k] /\ k \in 1 .. N[w]
  BY <1>1, <1>3 DEF Same
<1>5. G[w][k].term <= w
  BY <1>4, TreeEntry
<1> QED BY <1>2, <1>4, <1>5

-----------------------------------------------------------------------------
(* The logs of the leaders grow.                                           *)

\* What is always true of G, N, A and K when E are the terms that had a leader.
Ghosts(G, N, A, K, E) ==
  /\ G \in LogFunctions
  /\ N \in [Nat -> Nat]
  /\ A \in [Nat -> [Server -> Nat]]
  /\ K \in [Nat -> Nat]
  /\ E \subseteq Nat
  /\ Tree(G, N, E)
  /\ \A t \in Nat : K[t] <= N[t]
  /\ \A t \in Nat, j \in Server : A[t][j] <= N[t]

\* The logs G grow to H: a leader appends entries of its own term, and a new
\* leader brings a log.
Grow(G, N, E, H, M, F) ==
  /\ E \subseteq F
  /\ \A t \in Nat :
       /\ N[t] <= M[t]
       /\ \A k \in 1 .. N[t] : H[t][k] = G[t][k]
       /\ t \in E => \A k \in N[t] + 1 .. M[t] : H[t][k].term = t

Later(G, N, A, K, E, H, M, B, L, F) ==
  /\ Ghosts(G, N, A, K, E)
  /\ Ghosts(H, M, B, L, F)
  /\ Grow(G, N, E, H, M, F)
  /\ \A t \in Nat : K[t] <= L[t]
  /\ \A t \in Nat, j \in Server : A[t][j] <= B[t][j]

\* Nothing need change.
LEMMA LaterRefl ==
  ASSUME NEW G, NEW N, NEW A, NEW K, NEW E, Ghosts(G, N, A, K, E)
  PROVE  Later(G, N, A, K, E, G, N, A, K, E)
<1>1. \A t \in Nat : N[t] \in Nat /\ K[t] \in Nat /\ \A j \in Server : A[t][j] \in Nat
  BY DEF Ghosts
<1>2. \A t \in Nat : N[t] + 1 .. N[t] = {}
  BY <1>1
<1> QED BY <1>1, <1>2 DEF Later, Grow

\* What two logs share they go on sharing.
LEMMA GrowSame ==
  ASSUME NEW G, NEW H, NEW N \in [Nat -> Nat], NEW M \in [Nat -> Nat],
         NEW E, NEW F, Grow(G, N, E, H, M, F),
         NEW t \in Nat, NEW u \in Nat, NEW k \in Nat, Same(G, N, t, u, k)
  PROVE  Same(H, M, t, u, k)
<1>1. /\ N[t] \in Nat /\ M[t] \in Nat /\ N[u] \in Nat /\ M[u] \in Nat
  OBVIOUS
<1>2. /\ N[t] <= M[t] /\ N[u] <= M[u]
      /\ \A n \in 1 .. N[t] : H[t][n] = G[t][n]
      /\ \A n \in 1 .. N[u] : H[u][n] = G[u][n]
  BY DEF Grow
<1>3. k <= N[t] /\ k <= N[u] /\ \A n \in 1 .. k : G[t][n] = G[u][n]
  BY DEF Same
<1>4. k <= M[t] /\ k <= M[u]
  BY <1>1, <1>2, <1>3
<1>5. ASSUME NEW n \in 1 .. k PROVE H[t][n] = H[u][n]
  <2>1. n \in 1 .. N[t] /\ n \in 1 .. N[u]
    BY <1>1, <1>3
  <2> QED BY <1>2, <1>3, <2>1
<1> QED BY <1>4, <1>5 DEF Same

\* A log that lacks entries of an older term never gets them: its leader only
\* adds entries of its own term.
LEMMA GrowLost ==
  ASSUME NEW G \in LogFunctions, NEW H, NEW N \in [Nat -> Nat],
         NEW M \in [Nat -> Nat], NEW E \in SUBSET Nat, NEW F, Tree(G, N, E),
         Grow(G, N, E, H, M, F),
         NEW t \in Nat, NEW k \in 1 .. N[t], NEW U \in Nat, NEW V \in Nat, U <= V,
         Lost(G, N, E, t, k, U)
  PROVE  Lost(H, M, F, t, k, V)
<1>1. PICK W \in E : W > t /\ W <= U /\ ~Same(G, N, W, t, k)
  BY DEF Lost
<1>2. W \in Nat /\ W \in F /\ W <= V
  BY <1>1 DEF Grow
<1>3. /\ N[t] \in Nat /\ M[t] \in Nat /\ k \in Nat /\ k <= N[t]
      /\ N[W] \in Nat /\ M[W] \in Nat
  BY <1>2
<1>4. /\ N[t] <= M[t] /\ N[W] <= M[W]
      /\ \A n \in 1 .. N[t] : H[t][n] = G[t][n]
      /\ \A n \in 1 .. N[W] : H[W][n] = G[W][n]
      /\ \A n \in N[W] + 1 .. M[W] : H[W][n].term = W
  BY <1>1, <1>2 DEF Grow
<1>5. ASSUME Same(H, M, W, t, k) PROVE FALSE
  <2>1. k <= M[W] /\ \A n \in 1 .. k : H[W][n] = H[t][n]
    BY <1>5 DEF Same
  <2>2. CASE k <= N[W]
    <3>1. ASSUME NEW n \in 1 .. k PROVE G[W][n] = G[t][n]
      <4>1. n \in 1 .. N[W] /\ n \in 1 .. N[t]
        BY <1>3, <2>2
      <4> QED BY <1>4, <2>1, <4>1
    <3> QED BY <1>1, <1>3, <2>2, <3>1 DEF Same
  <2>3. CASE k > N[W]
    <3>1. k \in N[W] + 1 .. M[W] /\ k \in 1 .. k
      BY <1>3, <2>1, <2>3
    <3>2. H[W][k].term = W /\ H[W][k] = G[t][k]
      BY <1>3, <1>4, <2>1, <3>1
    <3>3. G[t][k].term <= t /\ G[t][k].term \in Nat
      BY TreeEntry
    <3> QED BY <1>1, <1>2, <3>2, <3>3
  <2> QED BY <1>3, <2>2, <2>3
<1> QED BY <1>1, <1>2, <1>5 DEF Lost

\* What is committed stays committed.
LEMMA LaterDone ==
  ASSUME NEW G, NEW N, NEW A, NEW K, NEW E, NEW H, NEW M, NEW B, NEW L, NEW F,
         Later(G, N, A, K, E, H, M, B, L, F),
         NEW k \in Nat, NEW u, NEW T \in Nat, NEW V \in Nat, T <= V,
         Done(G, K, k, u, T)
  PROVE  Done(H, L, k, u, V)
<1>1. CASE k = 0 /\ u = 0
  BY <1>1 DEF Done
<1>2. CASE k > 0
  <2>1. PICK t \in 0 .. T : k <= K[t] /\ G[t][k].term = u
    BY <1>2 DEF Done
  <2>2. t \in Nat /\ t \in 0 .. V
    BY <2>1
  <2>3. /\ K[t] \in Nat /\ L[t] \in Nat /\ K[t] <= L[t] /\ K[t] <= N[t]
        /\ N[t] \in Nat /\ \A n \in 1 .. N[t] : H[t][n] = G[t][n]
    BY <2>2 DEF Ghosts, Later, Grow
  <2>4. k \in 1 .. N[t] /\ k <= L[t]
    BY <1>2, <2>1, <2>3
  <2>5. H[t][k].term = u
    BY <2>1, <2>3, <2>4
  <2> QED BY <1>2, <2>2, <2>4, <2>5 DEF Done
<1> QED BY <1>1, <1>2 DEF Done

\* The facts about a log that the lemmas below need.
LEMMA LogFacts ==
  ASSUME NEW f, NEW s, NEW n, IsLog(f, s, n)
  PROVE  /\ s \in Nat /\ n \in Nat /\ s <= n
         /\ \A k \in s .. n : k \in Nat /\ f[k] \in LogEntry /\ f[k].term \in Nat
         /\ f[s].term \in Nat /\ f[n].term \in Nat
<1>1. \A e \in LogEntry : e.term \in Nat
  BY DEF LogEntry
<1>2. s \in s .. n /\ n \in s .. n
  BY DEF IsLog
<1>3. \A k \in s .. n : k \in Nat /\ f[k] \in LogEntry
  BY DEF IsLog
<1> QED BY <1>1, <1>2, <1>3 DEF IsLog

\* A log that is not touched stays a branch of the tree.
LEMMA LaterBranch ==
  ASSUME NEW G, NEW N, NEW A, NEW K, NEW E, NEW H, NEW M, NEW B, NEW L, NEW F,
         Later(G, N, A, K, E, H, M, B, L, F),
         NEW f, NEW s, NEW n, IsLog(f, s, n), NEW T \in Nat, NEW V \in Nat, T <= V,
         Branch(G, N, K, f, s, n, T)
  PROVE  Branch(H, M, L, f, s, n, V)
<1>1. PICK w \in Nat : w = f[n].term
  BY LogFacts
<1>2. n \in Nat /\ s \in Nat
  BY LogFacts
<1>3. /\ N[w] \in Nat /\ M[w] \in Nat /\ N[w] <= M[w]
      /\ \A k \in 1 .. N[w] : H[w][k] = G[w][k]
  BY DEF Later, Ghosts, Grow
<1>4. Done(H, L, s, f[s].term, V)
  BY <1>2, LaterDone DEF Branch
<1>5. /\ w <= T /\ (n = 0 => w = 0) /\ (n > 0 => n <= N[w] /\ G[w][n].term = w)
      /\ \A k \in s + 1 .. n : f[k] = G[w][k]
  BY <1>1 DEF Branch
<1>6. w <= V /\ (n > 0 => n <= M[w] /\ H[w][n].term = w)
  <2>1. n > 0 => n \in 1 .. N[w]
    BY <1>2, <1>3, <1>5
  <2> QED BY ONLY <1>2, <1>3, <1>5, <2>1, T \in Nat, V \in Nat, T <= V, w \in Nat
<1>7. ASSUME NEW k \in s + 1 .. n PROVE f[k] = H[w][k]
  <2>1. k \in 1 .. N[w]
    BY <1>2, <1>3, <1>5
  <2> QED BY <1>3, <1>5, <2>1
<1> QED BY <1>1, <1>4, <1>5, <1>6, <1>7 DEF Branch

\* What a log goes on from, it goes on from for ever.
LEMMA LaterHolds ==
  ASSUME NEW G, NEW N, NEW A, NEW K, NEW E, NEW H, NEW M, NEW B, NEW L, NEW F,
         Later(G, N, A, K, E, H, M, B, L, F),
         NEW f, NEW s, NEW n, IsLog(f, s, n), NEW t \in Nat, NEW k \in Nat,
         Holds(G, N, f, n, t, k)
  PROVE  Holds(H, M, f, n, t, k)
<1>1. f[n].term \in Nat
  BY LogFacts
<1> QED BY <1>1, GrowSame DEF Holds, Later, Ghosts

\* An entry of its own term at an index that was there is the old one.
LEMMA LaterOwn ==
  ASSUME NEW G, NEW N, NEW A, NEW K, NEW E, NEW H, NEW M, NEW B, NEW L, NEW F,
         Later(G, N, A, K, E, H, M, B, L, F),
         NEW t \in Nat, NEW k \in Nat
  PROVE  /\ k <= N[t] => (Own(G, N, t, k) <=> Own(H, M, t, k))
         /\ Own(G, N, t, k) => Own(H, M, t, k)
<1>1. /\ N[t] \in Nat /\ M[t] \in Nat /\ N[t] <= M[t]
      /\ \A n \in 1 .. N[t] : H[t][n] = G[t][n]
  BY DEF Later, Ghosts, Grow
<1> QED BY <1>1 DEF Own

\* What was lost stays lost.
LEMMA LaterLost ==
  ASSUME NEW G, NEW N, NEW A, NEW K, NEW E, NEW H, NEW M, NEW B, NEW L, NEW F,
         Later(G, N, A, K, E, H, M, B, L, F),
         NEW t \in Nat, NEW k \in 1 .. N[t], NEW U \in Nat, NEW V \in Nat, U <= V,
         Lost(G, N, E, t, k, U)
  PROVE  Lost(H, M, F, t, k, V)
<1>1. /\ G \in LogFunctions /\ N \in [Nat -> Nat] /\ M \in [Nat -> Nat]
      /\ E \in SUBSET Nat /\ Tree(G, N, E) /\ Grow(G, N, E, H, M, F)
  BY DEF Later, Ghosts
<1> QED BY <1>1, GrowLost

\* A peer that is not touched, except that its term may grow.
LEMMA LaterPeer ==
  ASSUME NEW G, NEW N, NEW A, NEW K, NEW E, NEW H, NEW M, NEW B, NEW L, NEW F,
         Later(G, N, A, K, E, H, M, B, L, F), NEW j \in Server,
         \A t \in Nat : B[t][j] = A[t][j],
         NEW f, NEW s, NEW n, IsLog(f, s, n), NEW T \in Nat, NEW V \in Nat, T <= V,
         NEW c \in Nat, PeerOK(G, N, A, K, E, j, f, s, n, T, c)
  PROVE  PeerOK(H, M, B, L, F, j, f, s, n, V, c)
<1>1. Branch(H, M, L, f, s, n, V)
  BY LaterBranch DEF PeerOK
<1>2. Committed(H, L, f, s, n, V, c)
  BY LaterDone DEF PeerOK, Committed
<1>3. ASSUME NEW t \in Nat, NEW k \in Nat, Own(H, M, t, k), k <= B[t][j]
      PROVE  t <= V /\ (Holds(H, M, f, n, t, k) \/ Lost(H, M, F, t, k, V))
  <2>1. k <= A[t][j] /\ A[t][j] \in Nat /\ A[t][j] <= N[t] /\ N[t] \in Nat
    BY <1>3 DEF Later, Ghosts
  <2>2. k <= N[t]
    BY <2>1
  <2>3. Own(G, N, t, k)
    BY <1>3, <2>2, LaterOwn
  <2>4. t <= T /\ (Holds(G, N, f, n, t, k) \/ Lost(G, N, E, t, k, T))
    BY <2>1, <2>3 DEF PeerOK, Kept
  <2>5. k \in 1 .. N[t]
    BY <2>3 DEF Own
  <2> QED BY <2>4, <2>5, LaterHolds, LaterLost
<1> QED BY <1>1, <1>2, <1>3 DEF PeerOK, Kept

\* What peer j acknowledged, when its log is not touched.
LEMMA LaterAcked ==
  ASSUME NEW G, NEW N, NEW A, NEW K, NEW E, NEW H, NEW M, NEW B, NEW L, NEW F,
         Later(G, N, A, K, E, H, M, B, L, F), NEW j \in Server,
         NEW f, NEW s, NEW n, IsLog(f, s, n), NEW T \in Nat, NEW V \in Nat, T <= V,
         NEW t \in Nat, NEW x \in Nat, Acked(G, N, A, K, j, t, x, f, s, n, T)
  PROVE  Acked(H, M, B, L, j, t, x, f, s, n, V)
<1>1. /\ N[t] \in Nat /\ M[t] \in Nat /\ N[t] <= M[t]
      /\ \A k \in 1 .. N[t] : H[t][k] = G[t][k]
      /\ K[t] \in Nat /\ L[t] \in Nat /\ K[t] <= L[t]
      /\ A[t][j] \in Nat /\ B[t][j] \in Nat /\ A[t][j] <= B[t][j]
  BY DEF Later, Ghosts, Grow
<1>2. /\ x <= N[t]
      /\ \A k \in 1 .. x : Own(G, N, t, k) => k <= A[t][j] \/ k <= K[t]
      /\ x > 0 => t <= T
      /\ t = T => x <= n /\ \A k \in s + 1 .. x : f[k] = G[t][k]
  BY DEF Acked
<1>3. x <= M[t] /\ (x > 0 => t <= V)
  BY <1>1, <1>2
<1>4. ASSUME NEW k \in 1 .. x, Own(H, M, t, k) PROVE k <= B[t][j] \/ k <= L[t]
  <2>1. k \in Nat /\ k <= N[t]
    BY <1>1, <1>2
  <2>2. Own(G, N, t, k)
    BY <1>4, <2>1, LaterOwn
  <2> QED BY <1>1, <1>2, <2>1, <2>2
<1>5. ASSUME t = V
      PROVE  x <= n /\ \A k \in s + 1 .. x : f[k] = H[t][k]
  <2>1. CASE t = T
    <3>1. ASSUME NEW k \in s + 1 .. x PROVE f[k] = H[t][k]
      <4>1. k \in 1 .. N[t]
        BY <1>1, <1>2, LogFacts
      <4> QED BY <1>1, <1>2, <2>1, <4>1
    <3> QED BY <1>2, <2>1, <3>1
  <2>2. CASE t # T
    <3>1. x = 0
      BY <1>2, <1>5, <2>2
    <3>2. s + 1 .. x = {} /\ n >= 0
      BY <3>1, LogFacts
    <3> QED BY <3>1, <3>2
  <2> QED BY <2>1, <2>2
<1> QED BY <1>3, <1>4, <1>5 DEF Acked

\* What a peer's log has above the snapshot, and where, in one place.
LEMMA BranchFacts ==
  ASSUME NEW G, NEW N, NEW A, NEW K, NEW E, Ghosts(G, N, A, K, E),
         NEW f, NEW s, NEW n, IsLog(f, s, n), NEW V \in Nat,
         Branch(G, N, K, f, s, n, V), NEW w, w = f[n].term
  PROVE  /\ w \in Nat /\ w <= V /\ N[w] \in Nat
         /\ n > 0 => n <= N[w] /\ G[w][n].term = w /\ w \in E
         /\ \A k \in s + 1 .. n : k \in 1 .. N[w] /\ f[k] = G[w][k]
<1>1. s \in Nat /\ n \in Nat /\ w \in Nat
  BY LogFacts
<1>2. /\ w <= V /\ (n > 0 => n <= N[w] /\ G[w][n].term = w)
      /\ \A k \in s + 1 .. n : f[k] = G[w][k]
  BY DEF Branch
<1>3. N[w] \in Nat /\ (w \notin E => N[w] = 0)
  BY <1>1 DEF Ghosts, Tree
<1>4. n > 0 => w \in E
  BY <1>1, <1>2, <1>3
<1>5. \A k \in s + 1 .. n : k \in 1 .. N[w]
  BY <1>1, <1>2, <1>3
<1> QED BY <1>1, <1>2, <1>3, <1>4, <1>5

\* A peer's log that agrees with the log of term T in the term at an index
\* above its snapshot is the log of term T up to that index.
LEMMA BranchMatch ==
  ASSUME NEW G, NEW N, NEW A, NEW K, NEW E, Ghosts(G, N, A, K, E),
         NEW f, NEW s, NEW n, IsLog(f, s, n), NEW V \in Nat,
         Branch(G, N, K, f, s, n, V),
         NEW T \in Nat, NEW k \in Nat, k > s, k <= n, k <= N[T],
         f[k].term = G[T][k].term
  PROVE  Same(G, N, f[n].term, T, k)
<1>1. PICK w : w = f[n].term
  OBVIOUS
<1>2. /\ w \in Nat /\ N[w] \in Nat /\ s \in Nat /\ n \in Nat
      /\ \A l \in s + 1 .. n : l \in 1 .. N[w] /\ f[l] = G[w][l]
  BY <1>1, BranchFacts, LogFacts
<1>3. k \in s + 1 .. n
  BY <1>2
<1>4. k > 0 /\ k <= N[w] /\ G[w][k].term = G[T][k].term
  BY <1>2, <1>3
<1>5. G \in LogFunctions /\ N \in [Nat -> Nat] /\ Tree(G, N, E)
  BY DEF Ghosts
<1>6. Same(G, N, w, T, k)
  BY <1>2, <1>4, <1>5, TreeMatch
<1> QED BY <1>1, <1>6

-----------------------------------------------------------------------------
(* AppendEntries merges logs.                                              *)

\* The l entries e behind index p, whose term is u, are a piece of the log of
\* term T.
PieceOf(G, N, T, p, u, e, l) ==
  /\ p + l <= N[T]
  /\ u = IF p = 0 THEN 0 ELSE G[T][p].term
  /\ \A k \in 1 .. l : e[k] = G[T][p + k]

\* Merging e behind p into the log f, of which x entries were there, gives the
\* log g up to index m.
Merges(f, s, n, p, e, l, x, g, m) ==
  /\ x \in 0 .. l
  /\ s <= p /\ p <= n
  /\ \A k \in 1 .. x : p + k <= n /\ f[p + k].term = e[k].term
  /\ x < l => ~(p + x + 1 <= n /\ f[p + x + 1].term = e[x + 1].term)
  /\ x = l => m = n /\ g = f
  /\ x < l => /\ m = p + l
              /\ \A k \in s .. p + x : g[k] = f[k]
              /\ \A k \in p + x + 1 .. p + l : g[k] = e[k - p]

\* What the merge gives: the log g has all that was sent, up to index z, and has
\* lost nothing that is in the leader's log.
GoodMerge(G, N, T, f, s, n, z, g, m) ==
  /\ z <= m /\ g[s] = f[s]
  /\ \A k \in s + 1 .. z : g[k] = G[T][k]
  /\ \/ m = n /\ g = f /\ (z > s => Same(G, N, g[m].term, T, z))
     \/ /\ m = z /\ m > s /\ m <= N[T]
        /\ g[m].term = G[T][m].term
        /\ Same(G, N, g[m].term, T, m)
  /\ \A k \in s .. n :
       k = s \/ Same(G, N, f[n].term, T, k) => k <= m /\ g[k] = f[k]

\* No committed entry is missing in the log of term T.
Complete(G, N, K, T) == \A t \in 0 .. T : Same(G, N, t, T, K[t])

\* The part of the log that was found to match is the leader's.
LEMMA MatchedPart ==
  ASSUME NEW G, NEW N, NEW A, NEW K, NEW E, Ghosts(G, N, A, K, E),
         NEW f, NEW s, NEW n, IsLog(f, s, n), NEW V \in Nat,
         Branch(G, N, K, f, s, n, V),
         NEW T \in Nat, NEW p \in Nat, NEW e, NEW l \in Nat,
         PieceOf(G, N, T, p, f[p].term, e, l), NEW x, NEW g, NEW m,
         Merges(f, s, n, p, e, l, x, g, m)
  PROVE  /\ x \in Nat /\ p + x <= n /\ p + x <= N[T]
         /\ p + x > s => Same(G, N, f[n].term, T, p + x)
         /\ \A k \in s + 1 .. p + x : f[k] = G[T][k]
<1>1. x \in Nat /\ x <= l /\ s <= p /\ p <= n /\ s \in Nat /\ n \in Nat
  BY LogFacts DEF Merges
<1>2. N[T] \in Nat
  BY DEF Ghosts
<1>3. p + l <= N[T] /\ \A k \in 1 .. l : e[k] = G[T][p + k]
  BY DEF PieceOf
<1>4. \A k \in 1 .. x : p + k <= n /\ f[p + k].term = e[k].term
  BY DEF Merges
<1>5. p + x <= n /\ p + x <= N[T]
  <2>1. x > 0 => x \in 1 .. x
    BY <1>1
  <2> QED BY <1>1, <1>2, <1>3, <1>4, <2>1
<1>6. PICK z \in Nat : z = p + x
  BY <1>1
<1>7. ASSUME z > s PROVE f[z].term = G[T][z].term
  <2>1. CASE x = 0
    <3>1. z = p /\ p # 0
      BY <1>1, <1>6, <1>7, <2>1
    <3> QED BY <3>1 DEF PieceOf
  <2>2. CASE x > 0
    <3>1. x \in 1 .. x /\ x \in 1 .. l
      BY <1>1, <2>2
    <3> QED BY <1>3, <1>4, <1>6, <3>1
  <2> QED BY <1>1, <2>1, <2>2
<1>8. ASSUME z > s PROVE Same(G, N, f[n].term, T, z)
  BY <1>5, <1>6, <1>7, <1>8, BranchMatch
<1>9. ASSUME NEW k \in s + 1 .. z PROVE f[k] = G[T][k]
  <2>1. PICK w : w = f[n].term
    OBVIOUS
  <2>2. z > s /\ k \in s + 1 .. n /\ k \in 1 .. z
    BY <1>1, <1>5, <1>6
  <2>3. Same(G, N, w, T, z) /\ f[k] = G[w][k]
    BY <1>8, <2>1, <2>2, BranchFacts
  <2> QED BY <2>2, <2>3 DEF Same
<1> QED BY <1>1, <1>5, <1>6, <1>8, <1>9

\* Merging a piece of a leader's log is a good merge.
LEMMA MergedLog ==
  ASSUME NEW G, NEW N, NEW A, NEW K, NEW E, Ghosts(G, N, A, K, E),
         NEW f, NEW s, NEW n, IsLog(f, s, n), NEW V \in Nat,
         Branch(G, N, K, f, s, n, V),
         NEW T \in Nat, NEW p \in Nat, NEW e, NEW l \in Nat,
         PieceOf(G, N, T, p, f[p].term, e, l),
         NEW x, NEW g, NEW m, IsLog(g, s, m),
         Merges(f, s, n, p, e, l, x, g, m)
  PROVE  GoodMerge(G, N, T, f, s, n, p + l, g, m)
<1>1. x \in Nat /\ x <= l /\ s <= p /\ p <= n /\ s \in Nat /\ n \in Nat
  BY LogFacts DEF Merges
<1>2. N[T] \in Nat /\ m \in Nat
  BY LogFacts DEF Ghosts
<1>3. p + l <= N[T] /\ \A k \in 1 .. l : e[k] = G[T][p + k]
  BY DEF PieceOf
<1>4. /\ p + x <= n /\ p + x <= N[T]
      /\ p + x > s => Same(G, N, f[n].term, T, p + x)
      /\ \A k \in s + 1 .. p + x : f[k] = G[T][k]
  BY MatchedPart
<1>5. CASE x = l
  <2>1. m = n /\ g = f
    BY <1>5 DEF Merges
  <2> QED BY <1>1, <1>2, <1>4, <1>5, <2>1 DEF GoodMerge
<1>6. CASE x < l
  <2>1. /\ m = p + l
        /\ \A k \in s .. p + x : g[k] = f[k]
        /\ \A k \in p + x + 1 .. p + l : g[k] = e[k - p]
    BY <1>6 DEF Merges
  <2>2. g[s] = f[s]
    <3>1. s \in s .. p + x
      BY <1>1
    <3> QED BY <2>1, <3>1
  <2>3. ASSUME NEW k \in s + 1 .. p + l PROVE g[k] = G[T][k]
    <3>1. CASE k <= p + x
      <4>1. k \in s + 1 .. p + x /\ k \in s .. p + x
        BY <1>1, <3>1
      <4> QED BY <1>4, <2>1, <4>1
    <3>2. CASE k > p + x
      <4>1. k \in p + x + 1 .. p + l /\ k - p \in 1 .. l /\ p + (k - p) = k
        BY <1>1, <3>2
      <4> QED BY <1>3, <2>1, <4>1
    <3> QED BY <1>1, <3>1, <3>2
  <2>4. m > s /\ m >= 1 /\ m <= N[T] /\ m \in s + 1 .. p + l
    BY <1>1, <1>2, <1>3, <1>6, <2>1
  <2>5. g[m].term = G[T][m].term
    BY <2>3, <2>4
  <2>6. Same(G, N, g[m].term, T, m)
    <3>1. m \in 1 .. N[T]
      BY <1>2, <2>4
    <3>2. G \in LogFunctions /\ N \in [Nat -> Nat] /\ Tree(G, N, E)
      BY DEF Ghosts
    <3> QED BY <2>5, <3>1, <3>2, TreeEntry, SameSym
  <2>7. ASSUME NEW k \in s .. n, k = s \/ Same(G, N, f[n].term, T, k)
        PROVE  k <= m /\ g[k] = f[k]
    <3>1. k <= p + x
      <4> SUFFICES ASSUME k > p + x PROVE FALSE
        BY <1>1
      <4>1. PICK y \in Nat : y = p + x + 1
        BY <1>1
      <4>2. y \in 1 .. k /\ y \in s + 1 .. n /\ k # s /\ y <= n
        BY <1>1, <4>1
      <4>3. PICK w : w = f[n].term
        OBVIOUS
      <4>4. G[w][y] = G[T][y]
        BY <2>7, <4>2, <4>3 DEF Same
      <4>5. f[y] = G[w][y]
        BY <4>2, <4>3, BranchFacts
      <4>6. x + 1 \in 1 .. l /\ p + (x + 1) = y
        BY <1>1, <1>6, <4>1
      <4>7. e[x + 1] = G[T][y]
        BY <1>3, <4>6
      <4>8. ~(y <= n /\ f[y].term = e[x + 1].term)
        BY <1>6, <4>1 DEF Merges
      <4> QED BY <4>2, <4>4, <4>5, <4>7, <4>8
    <3>2. k \in s .. p + x /\ k <= p + l
      BY <1>1, <1>6, <3>1
    <3> QED BY <2>1, <3>2
  <2> QED BY <1>2, <2>1, <2>2, <2>3, <2>4, <2>5, <2>6, <2>7 DEF GoodMerge
<1> QED BY <1>1, <1>5, <1>6

\* A log and its prefixes, and the logs that share them.
LEMMA SameTools ==
  ASSUME NEW G, NEW N, NEW A, NEW K, NEW E, Ghosts(G, N, A, K, E)
  PROVE  /\ \A t, u, v, k, l \in Nat :
              k <= l /\ Same(G, N, t, u, k) /\ Same(G, N, u, v, l) => Same(G, N, t, v, k)
         /\ \A t, u, v, k, l \in Nat :
              k <= l /\ Same(G, N, t, u, l) /\ Same(G, N, u, v, k) => Same(G, N, t, v, k)
         /\ \A t, u, k : Same(G, N, t, u, k) => Same(G, N, u, t, k)
         /\ \A t, u, k, l \in Nat : k <= l /\ Same(G, N, t, u, l) => Same(G, N, t, u, k)
         /\ \A t, k \in Nat : k <= N[t] => Same(G, N, t, t, k)
<1>1. N \in [Nat -> Nat]
  BY DEF Ghosts
<1>2. \A t, u, k, l \in Nat : k <= l /\ Same(G, N, t, u, l) => Same(G, N, t, u, k)
  BY <1>1 DEF Same
<1>3. \A t, u, k : Same(G, N, t, u, k) => Same(G, N, u, t, k)
  BY SameSym
<1>4. \A t, k \in Nat : k <= N[t] => Same(G, N, t, t, k)
  BY DEF Same
<1>5. \A t, u, v, k, l \in Nat :
        k <= l /\ Same(G, N, t, u, k) /\ Same(G, N, u, v, l) => Same(G, N, t, v, k)
  BY <1>1, SameTrans
<1>6. \A t, u, v, k, l \in Nat :
        k <= l /\ Same(G, N, t, u, l) /\ Same(G, N, u, v, k) => Same(G, N, t, v, k)
  BY <1>1, SameTrans
<1> QED BY <1>2, <1>3, <1>4, <1>5, <1>6

\* An entry that is committed in a peer's log, above its snapshot, is in the
\* log of every later leader, when those lack nothing.
LEMMA CommittedIsSame ==
  ASSUME NEW G, NEW N, NEW A, NEW K, NEW E, Ghosts(G, N, A, K, E),
         NEW f, NEW s, NEW n, IsLog(f, s, n), NEW V \in Nat,
         Branch(G, N, K, f, s, n, V), NEW c \in Nat, s < c, c <= n,
         Done(G, K, c, f[c].term, V)
  PROVE  \E t \in 0 .. V : /\ c <= K[t] /\ Same(G, N, f[n].term, t, c)
                           /\ \A k \in s + 1 .. c : f[k] = G[t][k]
<1>1. s \in Nat /\ n \in Nat
  BY LogFacts
<1>2. PICK t \in 0 .. V : c <= K[t] /\ G[t][c].term = f[c].term
  BY <1>1 DEF Done
<1>3. t \in Nat /\ K[t] \in Nat /\ N[t] \in Nat /\ K[t] <= N[t]
  BY DEF Ghosts
<1>4. c <= N[t]
  BY <1>2, <1>3
<1>5. Same(G, N, f[n].term, t, c)
  BY <1>2, <1>3, <1>4, BranchMatch
<1>6. ASSUME NEW k \in s + 1 .. c PROVE f[k] = G[t][k]
  <2>1. PICK w : w = f[n].term
    OBVIOUS
  <2>2. k \in s + 1 .. n /\ k \in 1 .. c
    BY <1>1
  <2>3. f[k] = G[w][k] /\ Same(G, N, w, t, c)
    BY <1>5, <2>1, <2>2, BranchFacts
  <2> QED BY <2>2, <2>3 DEF Same
<1> QED BY <1>2, <1>5, <1>6

\* What is committed in term T at x is committed also below x, entries of
\* term T by the leader of term T.
LEMMA DoneOwn ==
  ASSUME NEW G, NEW N, NEW A, NEW K, NEW E, Ghosts(G, N, A, K, E),
         NEW T \in Nat, NEW x \in Nat, x <= N[T], x > 0,
         Done(G, K, x, G[T][x].term, T), NEW k \in 1 .. x, Own(G, N, T, k)
  PROVE  k <= K[T]
<1>1. PICK t \in 0 .. T : x <= K[t] /\ G[t][x].term = G[T][x].term
  BY DEF Done
<1>2. t \in Nat /\ t <= T /\ K[t] \in Nat /\ N[t] \in Nat /\ K[t] <= N[t] /\ N[T] \in Nat
  BY DEF Ghosts
<1>3. x <= N[t] /\ k <= N[t]
  BY <1>1, <1>2
<1>4. G \in LogFunctions /\ N \in [Nat -> Nat] /\ Tree(G, N, E)
  BY DEF Ghosts
<1>5. CASE t = T
  BY <1>1, <1>2, <1>5
<1>6. CASE t # T
  <2>1. Same(G, N, t, T, x)
    BY <1>1, <1>2, <1>3, <1>4, TreeMatch
  <2>2. G[t][k] = G[T][k] /\ G[T][k].term = T
    BY <2>1 DEF Same, Own
  <2>3. G[t][k].term <= t
    BY <1>2, <1>3, <1>4, TreeEntry
  <2> QED BY <1>2, <1>6, <2>2, <2>3
<1> QED BY <1>5, <1>6

\* What has been acknowledged is kept or lost by a peer whose log becomes one
\* that goes on from the log of the leader of a later term T.
LEMMA KeptAt ==
  ASSUME NEW G, NEW N, NEW A, NEW K, NEW E, Ghosts(G, N, A, K, E),
         NEW f, NEW s, NEW n, IsLog(f, s, n), NEW V \in Nat, NEW T \in Nat, V <= T,
         T \in E, NEW j \in Server, Kept(G, N, A, E, j, f, n, V),
         NEW w \in Nat, w = f[n].term,
         NEW u \in Nat, NEW m \in Nat, m <= N[T], Same(G, N, u, T, m),
         NEW t \in Nat, NEW k \in Nat, Own(G, N, t, k), k <= A[t][j],
         Same(G, N, w, T, k) /\ k <= n => k <= m
  PROVE  t <= T /\ ((k <= m /\ Same(G, N, u, t, k)) \/ Lost(G, N, E, t, k, T))
<1>1. t <= V /\ (Holds(G, N, f, n, t, k) \/ Lost(G, N, E, t, k, V))
  BY DEF Kept
<1>2. ASSUME Lost(G, N, E, t, k, V) PROVE Lost(G, N, E, t, k, T)
  <2>1. PICK W \in E : W > t /\ W <= V /\ ~Same(G, N, W, t, k)
    BY <1>2 DEF Lost
  <2>2. W \in Nat
    BY DEF Ghosts
  <2>3. W <= T
    BY <2>1, <2>2
  <2> QED BY <2>1, <2>3 DEF Lost
<1>3. ASSUME Holds(G, N, f, n, t, k), Same(G, N, T, t, k)
      PROVE  k <= m /\ Same(G, N, u, t, k)
  <2>1. k <= n /\ Same(G, N, w, t, k)
    BY <1>3 DEF Holds
  <2>2. Same(G, N, w, T, k)
    BY <1>3, <2>1, SameTools
  <2> QED BY <1>3, <2>1, <2>2, SameTools
<1>4. ASSUME ~Same(G, N, T, t, k) PROVE Lost(G, N, E, t, k, T)
  <2>1. t # T
    <3>1. k <= N[t]
      BY DEF Own
    <3> QED BY <1>4, <3>1, SameTools
  <2>2. T > t
    BY <1>1, <2>1
  <2> QED BY <1>4, <2>2 DEF Lost
<1> QED BY <1>1, <1>2, <1>3, <1>4

\* A peer that merges the entries of a leader's call, its log and its commit
\* index.
LEMMA MergePeer ==
  ASSUME NEW G, NEW N, NEW A, NEW B, NEW K, NEW E,
         Ghosts(G, N, A, K, E), Ghosts(G, N, B, K, E),
         NEW f, NEW s, NEW n, IsLog(f, s, n), NEW V \in Nat, NEW T \in Nat, V <= T,
         T \in E, NEW j \in Server, NEW c \in Nat,
         PeerOK(G, N, A, K, E, j, f, s, n, V, c), Complete(G, N, K, T),
         NEW p \in Nat, NEW e, NEW l \in Nat,
         PieceOf(G, N, T, p, f[p].term, e, l),
         NEW x, NEW g, NEW m, IsLog(g, s, m),
         Merges(f, s, n, p, e, l, x, g, m),
         NEW d \in Nat, d <= p + l, d > 0 => Done(G, K, d, G[T][d].term, T),
         \A t \in Nat : \/ B[t][j] = A[t][j]
                        \/ t = T /\ B[t][j] = p + l /\ Holds(G, N, g, m, T, p + l)
  PROVE  PeerOK(G, N, B, K, E, j, g, s, m, T, IF d > c THEN d ELSE c)
<1>1. /\ p + l <= m /\ g[s] = f[s]
      /\ \A k \in s + 1 .. p + l : g[k] = G[T][k]
      /\ \/ m = n /\ g = f
         \/ /\ m = p + l /\ m > s /\ m <= N[T]
            /\ g[m].term = G[T][m].term
            /\ Same(G, N, g[m].term, T, m)
      /\ \A k \in s .. n :
           k = s \/ Same(G, N, f[n].term, T, k) => k <= m /\ g[k] = f[k]
  <2>1. Branch(G, N, K, f, s, n, V)
    BY DEF PeerOK
  <2>2. GoodMerge(G, N, T, f, s, n, p + l, g, m)
    BY <2>1, MergedLog
  <2> QED BY <2>2 DEF GoodMerge
<1>2. s \in Nat /\ n \in Nat /\ s <= n /\ m \in Nat /\ s <= m /\ s <= p
  BY LogFacts DEF Merges
<1>3. f[n].term \in Nat /\ g[m].term \in Nat /\ N[T] \in Nat
  BY LogFacts DEF Ghosts
<1>4. Branch(G, N, K, f, s, n, V) /\ Kept(G, N, A, E, j, f, n, V)
      /\ s <= c /\ c <= n /\ Done(G, K, c, f[c].term, V)
  BY DEF PeerOK, Committed
<1>5. Later(G, N, A, K, E, G, N, A, K, E)
  BY LaterRefl
<1>6. CASE m = n /\ g = f
  <2>1. Branch(G, N, K, g, s, m, T)
    BY <1>4, <1>5, <1>6, LaterBranch
  <2>2. ASSUME NEW t \in Nat, NEW k \in Nat, Own(G, N, t, k), k <= B[t][j]
        PROVE  t <= T /\ (Holds(G, N, g, m, t, k) \/ Lost(G, N, E, t, k, T))
    <3>1. CASE k <= A[t][j]
      <4>1. t <= V /\ (Holds(G, N, f, n, t, k) \/ Lost(G, N, E, t, k, V))
        BY <1>4, <2>2, <3>1 DEF Kept
      <4>2. k \in 1 .. N[t]
        BY <2>2 DEF Own
      <4>3. Lost(G, N, E, t, k, V) => Lost(G, N, E, t, k, T)
        BY <1>5, <4>2, LaterLost
      <4> QED BY <1>6, <4>1, <4>3
    <3>2. CASE ~(k <= A[t][j])
      <4>1. t = T /\ k <= p + l /\ Holds(G, N, g, m, T, p + l)
        BY <2>2, <3>2
      <4>2. p + l <= m /\ Same(G, N, g[m].term, T, p + l) /\ p + l \in Nat
        BY <4>1 DEF Holds
      <4>3. k <= m /\ Same(G, N, g[m].term, T, k)
        <5>1. PICK z \in Nat : z = p + l
          OBVIOUS
        <5>2. PICK w \in Nat : w = g[m].term
          BY <1>3
        <5>3. N \in [Nat -> Nat]
          BY DEF Ghosts
        <5>4. Same(G, N, w, T, z)
          BY <4>2, <5>1, <5>2
        <5>5. Same(G, N, w, T, k)
          BY ONLY <4>1, <5>1, <5>3, <5>4, SamePrefix, w \in Nat, T \in Nat, k \in Nat
        <5> QED BY <1>2, <4>1, <4>2, <5>1, <5>2, <5>5
      <4> QED BY <4>1, <4>3 DEF Holds
    <3> QED BY <3>1, <3>2
  <2> HIDE DEF Kept
  <2>3. Kept(G, N, B, E, j, g, m, T)
    BY <2>2 DEF Kept
  <2>4. CASE ~(d > c)
    <3>1. Done(G, K, c, g[c].term, T)
      BY <1>4, <1>5, <1>6, LaterDone
    <3> QED BY <1>4, <1>6, <2>1, <2>3, <2>4, <3>1 DEF PeerOK, Committed
  <2>5. CASE d > c
    <3>1. d \in s + 1 .. p + l /\ d > 0 /\ d <= m /\ s <= d
      BY <1>1, <1>2, <1>4, <2>5
    <3>2. Done(G, K, d, g[d].term, T)
      BY <1>1, <3>1
    <3> QED BY <2>1, <2>3, <2>5, <3>1, <3>2 DEF PeerOK, Committed
  <2> QED BY <2>4, <2>5
<1>7. CASE /\ m = p + l /\ m > s /\ m <= N[T]
           /\ g[m].term = G[T][m].term
           /\ Same(G, N, g[m].term, T, m)
  <2>0. PICK u \in Nat : u = g[m].term
    BY <1>3
  <2>1. Branch(G, N, K, g, s, m, T)
    <3>1. m > 0 /\ m \in 1 .. m /\ m \in 1 .. N[T]
      BY <1>2, <1>3, <1>7
    <3>2. m <= N[u] /\ G[u][m].term = u /\ \A k \in 1 .. m : G[u][k] = G[T][k]
      BY <1>7, <2>0, <3>1 DEF Same
    <3>3. u <= T
      BY <1>7, <2>0, <3>1, TreeEntry DEF Ghosts
    <3>4. ASSUME NEW k \in s + 1 .. m PROVE g[k] = G[u][k]
      <4>1. k \in 1 .. m
        BY <1>2
      <4> QED BY <1>1, <1>7, <3>2, <4>1
    <3>5. Done(G, K, s, g[s].term, T)
      BY <1>1, <1>2, <1>4, <1>5, LaterDone DEF Branch
    <3> QED BY <2>0, <3>1, <3>2, <3>3, <3>4, <3>5 DEF Branch
  <2>2. ASSUME NEW t \in Nat, NEW k \in Nat, Own(G, N, t, k), k <= B[t][j]
        PROVE  t <= T /\ (Holds(G, N, g, m, t, k) \/ Lost(G, N, E, t, k, T))
    <3>1. CASE k <= A[t][j]
      <4>1. PICK w \in Nat : w = f[n].term
        BY <1>3
      <4>2. ASSUME Same(G, N, w, T, k), k <= n PROVE k <= m
        <5>1. CASE k < s
          BY <1>2, <5>1
        <5>2. CASE k >= s
          BY <1>1, <1>2, <4>1, <4>2, <5>2
        <5> QED BY <1>2, <5>1, <5>2
      <4>3. t <= T /\ ((k <= m /\ Same(G, N, u, t, k)) \/ Lost(G, N, E, t, k, T))
        BY <1>2, <1>4, <1>7, <2>0, <2>2, <3>1, <4>1, <4>2, KeptAt
      <4> QED BY <2>0, <4>3 DEF Holds
    <3>2. CASE ~(k <= A[t][j])
      <4>1. t = T /\ k <= m
        BY <1>7, <2>2, <3>2
      <4>2. Same(G, N, u, T, k)
        <5>1. N \in [Nat -> Nat]
          BY DEF Ghosts
        <5>2. Same(G, N, u, T, m)
          BY <1>7, <2>0
        <5> QED BY ONLY <1>2, <4>1, <5>1, <5>2, SamePrefix, u \in Nat, T \in Nat, k \in Nat
      <4> QED BY <2>0, <4>1, <4>2 DEF Holds
    <3> QED BY <3>1, <3>2
  <2>3. Kept(G, N, B, E, j, g, m, T)
    BY <2>2 DEF Kept
  <2>4. CASE ~(d > c)
    <3>1. c = s \/ Same(G, N, f[n].term, T, c)
      <4>1. CASE c > s
        <5>1. PICK t \in 0 .. V : c <= K[t] /\ Same(G, N, f[n].term, t, c)
          BY <1>2, <1>4, <4>1, CommittedIsSame
        <5>2. t \in 0 .. T /\ t \in Nat /\ K[t] \in Nat
          <6>1. t \in 0 .. T /\ t \in Nat
            OBVIOUS
          <6> QED BY <6>1 DEF Ghosts
        <5>3. Same(G, N, t, T, K[t])
          BY <5>2 DEF Complete
        <5> QED BY <1>3, <5>1, <5>2, <5>3, SameTools
      <4> QED BY <1>2, <1>4, <4>1
    <3>2. c <= m /\ g[c] = f[c]
      BY <1>1, <1>2, <1>4, <3>1
    <3>3. Done(G, K, c, g[c].term, T)
      BY <1>4, <1>5, <3>2, LaterDone
    <3> QED BY <1>4, <2>1, <2>3, <2>4, <3>2, <3>3 DEF PeerOK, Committed
  <2>5. CASE d > c
    <3>1. d \in s + 1 .. p + l /\ d > 0 /\ d <= m /\ s <= d
      BY <1>1, <1>2, <1>4, <2>5
    <3>2. Done(G, K, d, g[d].term, T)
      BY <1>1, <3>1
    <3> QED BY <2>1, <2>3, <2>5, <3>1, <3>2 DEF PeerOK, Committed
  <2> QED BY <2>4, <2>5
<1> QED BY <1>1, <1>6, <1>7

\* What a peer acknowledged before it merges entries stays acknowledged, and
\* the entries of the call are acknowledged too.
LEMMA MergeAcked ==
  ASSUME NEW G, NEW N, NEW A, NEW B, NEW K, NEW E,
         Ghosts(G, N, A, K, E), Ghosts(G, N, B, K, E),
         NEW f, NEW s, NEW n, IsLog(f, s, n), NEW V \in Nat, NEW T \in Nat, V <= T,
         T \in E, NEW j \in Server, Branch(G, N, K, f, s, n, V),
         NEW p \in Nat, NEW e, NEW l \in Nat,
         PieceOf(G, N, T, p, f[p].term, e, l),
         NEW x, NEW g, NEW m, IsLog(g, s, m),
         Merges(f, s, n, p, e, l, x, g, m),
         \A t \in Nat : A[t][j] <= B[t][j],
         Holds(G, N, g, m, T, p + l) => p + l <= B[T][j]
  PROVE  /\ Acked(G, N, B, K, j, T, p + l, g, s, m, T)
         /\ \A t, y \in Nat : Acked(G, N, A, K, j, t, y, f, s, n, V) =>
                              Acked(G, N, B, K, j, t, y, g, s, m, T)
<1>1. /\ p + l <= m /\ g[s] = f[s]
      /\ \A k \in s + 1 .. p + l : g[k] = G[T][k]
      /\ \/ /\ m = n /\ g = f
            /\ p + l > s => Same(G, N, g[m].term, T, p + l)
         \/ /\ m = p + l /\ m > s /\ m <= N[T]
            /\ g[m].term = G[T][m].term
            /\ Same(G, N, g[m].term, T, m)
      /\ \A k \in s .. n :
           k = s \/ Same(G, N, f[n].term, T, k) => k <= m /\ g[k] = f[k]
  <2>1. GoodMerge(G, N, T, f, s, n, p + l, g, m)
    BY MergedLog
  <2> QED BY <2>1 DEF GoodMerge
<1>2. s \in Nat /\ n \in Nat /\ s <= n /\ m \in Nat /\ s <= m /\ s <= p /\ p <= n
  BY LogFacts DEF Merges
<1>3. f[n].term \in Nat /\ g[m].term \in Nat /\ N[T] \in Nat /\ p + l <= N[T]
  BY LogFacts DEF Ghosts, PieceOf
<1>4. Acked(G, N, B, K, j, T, p + l, g, s, m, T)
  <2>1. ASSUME NEW k \in 1 .. p + l, Own(G, N, T, k)
        PROVE  k <= B[T][j] \/ k <= K[T]
    <3>1. CASE Holds(G, N, g, m, T, p + l)
      <4>1. p + l <= B[T][j] /\ B[T][j] \in Nat
        BY <3>1 DEF Ghosts
      <4> QED BY <1>2, <4>1
    <3>2. CASE ~Holds(G, N, g, m, T, p + l)
      <4>1. p + l = s /\ p = s
        BY <1>1, <1>2, <3>2 DEF Holds
      <4>2. s > 0 /\ s <= N[T] /\ k \in 1 .. s
        BY <1>2, <1>3, <4>1
      <4>3. f[s].term = G[T][s].term
        BY <4>1, <4>2 DEF PieceOf
      <4>4. Done(G, K, s, f[s].term, V)
        BY DEF Branch
      <4>5. Done(G, K, s, G[T][s].term, T)
        BY <1>2, <4>3, <4>4, LaterDone, LaterRefl
      <4> QED BY <1>2, <2>1, <4>2, <4>5, DoneOwn
    <3> QED BY <3>1, <3>2
  <2> QED BY <1>1, <1>3, <2>1 DEF Acked
<1>5. ASSUME NEW t \in Nat, NEW y \in Nat, Acked(G, N, A, K, j, t, y, f, s, n, V)
      PROVE  Acked(G, N, B, K, j, t, y, g, s, m, T)
  <2>1. /\ y <= N[t]
        /\ \A k \in 1 .. y : Own(G, N, t, k) => k <= A[t][j] \/ k <= K[t]
        /\ y > 0 => t <= V
        /\ t = V => y <= n /\ \A k \in s + 1 .. y : f[k] = G[t][k]
    BY <1>5 DEF Acked
  <2>2. ASSUME NEW k \in 1 .. y, Own(G, N, t, k) PROVE k <= B[t][j] \/ k <= K[t]
    <3>1. A[t][j] \in Nat /\ B[t][j] \in Nat /\ A[t][j] <= B[t][j]
      BY DEF Ghosts
    <3> QED BY <2>1, <2>2, <3>1
  <2>3. y > 0 => t <= T
    BY <2>1
  <2>4. ASSUME t = T PROVE y <= m /\ \A k \in s + 1 .. y : g[k] = G[t][k]
    <3>1. CASE y <= s
      <4>1. s + 1 .. y = {} /\ y <= m
        BY <1>2, <3>1
      <4> QED BY <4>1
    <3>2. CASE y > s
      <4>1. t = V /\ y <= n /\ \A k \in s + 1 .. y : f[k] = G[T][k]
        BY <1>2, <2>1, <2>4, <3>2
      <4>2. y \in s + 1 .. y
        BY <1>2, <3>2
      <4>3. Same(G, N, f[n].term, T, y)
        BY <2>1, <2>4, <3>2, <4>1, <4>2, BranchMatch
      <4>4. y \in s .. n
        BY <1>2, <3>2, <4>1
      <4>5. ASSUME NEW k \in s + 1 .. y PROVE g[k] = G[t][k]
        <5>1. k \in s .. n /\ k \in Nat /\ k <= y
          BY <1>2, <4>1
        <5>2. Same(G, N, f[n].term, T, k)
          BY <1>3, <4>3, <5>1, SameTools
        <5> QED BY <1>1, <2>4, <4>1, <5>1, <5>2
      <4> QED BY <1>1, <4>3, <4>4, <4>5
    <3> QED BY <1>2, <3>1, <3>2
  <2> QED BY <2>1, <2>2, <2>3, <2>4 DEF Acked
<1> QED BY <1>4, <1>5

-----------------------------------------------------------------------------
(* InstallSnapshot and Snapshot.                                           *)

\* Installing a snapshot of the first z entries, the last of term u, in the log
\* f gives the log g up to index m.
Installs(f, n, z, u, g, m) ==
  /\ m = IF n > z THEN n ELSE z
  /\ g[z].term = u
  /\ \A k \in z + 1 .. n : g[k] = f[k]

\* A peer that installs a leader's snapshot.
LEMMA InstallPeer ==
  ASSUME NEW G, NEW N, NEW A, NEW K, NEW E, Ghosts(G, N, A, K, E),
         NEW f, NEW s, NEW n, IsLog(f, s, n), NEW V \in Nat, NEW T \in Nat, V <= T,
         T \in E, NEW j \in Server, NEW c \in Nat,
         PeerOK(G, N, A, K, E, j, f, s, n, V, c),
         NEW z \in Nat, s < z, z <= N[T], NEW u, u = G[T][z].term,
         Done(G, K, z, u, T),
         NEW g, NEW m, IsLog(g, z, m), Installs(f, n, z, u, g, m)
  PROVE  /\ PeerOK(G, N, A, K, E, j, g, z, m, T, IF c < z THEN z ELSE c)
         /\ \A t, y \in Nat : Acked(G, N, A, K, j, t, y, f, s, n, V) =>
                              Acked(G, N, A, K, j, t, y, g, z, m, T)
<1>1. /\ s \in Nat /\ n \in Nat /\ m \in Nat /\ N[T] \in Nat
      /\ m = (IF n > z THEN n ELSE z) /\ g[z].term = u
      /\ \A k \in z + 1 .. n : g[k] = f[k]
  BY LogFacts DEF Ghosts, Installs
<1>2. Branch(G, N, K, f, s, n, V) /\ Kept(G, N, A, E, j, f, n, V)
      /\ s <= c /\ c <= n /\ Done(G, K, c, f[c].term, V)
  BY DEF PeerOK, Committed
<1>3. Later(G, N, A, K, E, G, N, A, K, E)
  BY LaterRefl
<1>4. PICK w : w = f[n].term
  OBVIOUS
<1>5. /\ w \in Nat /\ w <= V /\ N[w] \in Nat
      /\ n > 0 => n <= N[w] /\ G[w][n].term = w
      /\ \A k \in s + 1 .. n : f[k] = G[w][k]
  BY <1>2, <1>4, BranchFacts
<1>6. z \in 1 .. N[T]
  BY <1>1
<1>7. u \in Nat /\ u <= T /\ z <= N[u] /\ Same(G, N, u, T, z)
  <2>1. G \in LogFunctions /\ N \in [Nat -> Nat] /\ Tree(G, N, E)
    BY DEF Ghosts
  <2> QED BY <1>6, <2>1, TreeEntry, SameSym
<1>8. Branch(G, N, K, g, z, m, T)
  <2>1. CASE n > z
    <3>1. m = n /\ n \in z + 1 .. n
      BY <1>1, <2>1
    <3>2. g[m] = f[n] /\ g[m].term = w
      BY <1>1, <1>4, <3>1
    <3>3. ASSUME NEW k \in z + 1 .. m PROVE g[k] = G[w][k]
      <4>1. k \in z + 1 .. n /\ k \in s + 1 .. n
        BY <1>1, <3>1
      <4> QED BY <1>1, <1>5, <4>1
    <3>4. w <= T /\ n > 0
      BY <1>1, <1>5, <2>1
    <3> QED BY <1>1, <1>5, <3>1, <3>2, <3>3, <3>4 DEF Branch
  <2>2. CASE ~(n > z)
    <3>1. m = z /\ z + 1 .. m = {} /\ m > 0
      BY <1>1, <2>2
    <3>2. G[u][z].term = u
      BY <1>1, <1>7, <3>1 DEF Same
    <3> QED BY <1>1, <1>7, <3>1, <3>2 DEF Branch
  <2> QED BY <2>1, <2>2
<1>9. ASSUME NEW t \in Nat, NEW k \in Nat, Own(G, N, t, k), k <= A[t][j]
      PROVE  t <= T /\ (Holds(G, N, g, m, t, k) \/ Lost(G, N, E, t, k, T))
  <2>1. CASE n > z
    <3>1. m = n /\ n \in z + 1 .. n
      BY <1>1, <2>1
    <3>2. g[m].term = f[n].term
      BY <1>1, <3>1
    <3>3. t <= V /\ (Holds(G, N, f, n, t, k) \/ Lost(G, N, E, t, k, V))
      BY <1>2, <1>9 DEF Kept
    <3>4. k \in 1 .. N[t]
      BY <1>9 DEF Own
    <3>5. Lost(G, N, E, t, k, V) => Lost(G, N, E, t, k, T)
      BY <1>3, <3>4, LaterLost
    <3> QED BY <3>1, <3>2, <3>3, <3>5 DEF Holds
  <2>2. CASE ~(n > z)
    <3>1. m = z /\ z \in Nat
      BY <1>1, <2>2
    <3>2. k <= n => k <= z
      BY <1>1, <2>2
    <3>3. t <= T /\ ((k <= z /\ Same(G, N, u, t, k)) \/ Lost(G, N, E, t, k, T))
      BY <1>2, <1>4, <1>5, <1>7, <1>9, <3>2, KeptAt
    <3> QED BY <1>1, <3>1, <3>3 DEF Holds
  <2> QED BY <2>1, <2>2
<1>10. Kept(G, N, A, E, j, g, m, T)
  BY <1>9 DEF Kept
<1>11. Committed(G, K, g, z, m, T, IF c < z THEN z ELSE c)
  <2>1. CASE c < z
    BY <1>1, <2>1 DEF Committed
  <2>2. CASE c = z
    BY <1>1, <2>2 DEF Committed
  <2>3. CASE c > z
    <3>1. c \in z + 1 .. n /\ c <= m
      BY <1>1, <1>2, <2>3
    <3>2. Done(G, K, c, g[c].term, T)
      BY <1>1, <1>2, <1>3, <3>1, LaterDone
    <3> QED BY <2>3, <3>1, <3>2 DEF Committed
  <2> QED BY <1>1, <2>1, <2>2, <2>3
<1>12. ASSUME NEW t \in Nat, NEW y \in Nat, Acked(G, N, A, K, j, t, y, f, s, n, V)
       PROVE  Acked(G, N, A, K, j, t, y, g, z, m, T)
  <2>1. /\ y <= N[t]
        /\ \A k \in 1 .. y : Own(G, N, t, k) => k <= A[t][j] \/ k <= K[t]
        /\ y > 0 => t <= V
        /\ t = V => y <= n /\ \A k \in s + 1 .. y : f[k] = G[t][k]
    BY <1>12 DEF Acked
  <2>2. ASSUME t = T PROVE y <= m /\ \A k \in z + 1 .. y : g[k] = G[t][k]
    <3>1. CASE y = 0
      BY <1>1, <3>1
    <3>2. CASE y > 0
      <4>1. t = V /\ y <= n /\ \A k \in s + 1 .. y : f[k] = G[t][k]
        BY <2>1, <2>2, <3>2
      <4>2. ASSUME NEW k \in z + 1 .. y PROVE g[k] = G[t][k]
        <5>1. k \in z + 1 .. n /\ k \in s + 1 .. y
          BY <1>1, <4>1
        <5> QED BY <1>1, <4>1, <5>1
      <4> QED BY <1>1, <4>1, <4>2
    <3> QED BY <3>1, <3>2
  <2>3. y > 0 => t <= T
    BY <2>1
  <2> QED BY <2>1, <2>2, <2>3 DEF Acked
<1> QED BY <1>8, <1>10, <1>11, <1>12 DEF PeerOK

\* The answer to a snapshot up to z acknowledges the log up to z.
LEMMA InstallAcked ==
  ASSUME NEW G, NEW N, NEW A, NEW K, NEW E, Ghosts(G, N, A, K, E),
         NEW T \in Nat, NEW j \in Server,
         NEW z \in Nat, 0 < z, z <= N[T], Done(G, K, z, G[T][z].term, T),
         NEW g, NEW s, NEW m, IsLog(g, s, m), z <= s
  PROVE  Acked(G, N, A, K, j, T, z, g, s, m, T)
<1>1. s \in Nat /\ m \in Nat /\ s <= m
  BY LogFacts
<1>2. z <= m /\ s + 1 .. z = {}
  BY <1>1
<1>3. \A k \in 1 .. z : Own(G, N, T, k) => k <= K[T]
  BY DoneOwn
<1> QED BY <1>2, <1>3 DEF Acked

\* A peer that compacts its log at an index it has applied.
LEMMA CompactPeer ==
  ASSUME NEW G, NEW N, NEW A, NEW K, NEW E, Ghosts(G, N, A, K, E),
         NEW f, NEW s, NEW n, IsLog(f, s, n), NEW T \in Nat,
         NEW j \in Server, NEW c \in Nat,
         PeerOK(G, N, A, K, E, j, f, s, n, T, c),
         NEW z \in Nat, s <= z, z <= c, NEW g, IsLog(g, z, n),
         \A k \in z .. n : g[k] = f[k]
  PROVE  /\ PeerOK(G, N, A, K, E, j, g, z, n, T, c)
         /\ \A t, y \in Nat : Acked(G, N, A, K, j, t, y, f, s, n, T) =>
                              Acked(G, N, A, K, j, t, y, g, z, n, T)
<1>1. Branch(G, N, K, f, s, n, T) /\ Kept(G, N, A, E, j, f, n, T)
      /\ s <= c /\ c <= n /\ Done(G, K, c, f[c].term, T)
  BY DEF PeerOK, Committed
<1>2. s \in Nat /\ n \in Nat /\ z <= n
  BY LogFacts
<1>3. n \in z .. n /\ c \in z .. n /\ z \in z .. n
  BY <1>1, <1>2
<1>4. Done(G, K, z, f[z].term, T)
  <2>1. CASE z = s
    BY <1>1, <2>1 DEF Branch
  <2>2. CASE z > s
    <3>1. s < c /\ z \in s + 1 .. c
      BY <1>1, <1>2, <2>2
    <3>2. PICK t \in 0 .. T : c <= K[t] /\ \A k \in s + 1 .. c : f[k] = G[t][k]
      BY <1>1, <3>1, CommittedIsSame
    <3>3. t \in Nat /\ K[t] \in Nat
      BY DEF Ghosts
    <3>4. z <= K[t] /\ z > 0 /\ G[t][z].term = f[z].term
      BY <1>2, <2>2, <3>1, <3>2, <3>3
    <3> QED BY <3>4 DEF Done
  <2> QED BY <1>2, <2>1, <2>2
<1>5. Branch(G, N, K, g, z, n, T)
  <2>1. g[n] = f[n] /\ g[z] = f[z]
    BY <1>3
  <2>2. \A k \in z + 1 .. n : k \in s + 1 .. n /\ k \in z .. n
    BY <1>2
  <2> QED BY <1>1, <1>4, <2>1, <2>2 DEF Branch
<1>6. Kept(G, N, A, E, j, g, n, T)
  <2>1. g[n] = f[n]
    BY <1>3
  <2> QED BY <1>1, <2>1 DEF Kept, Holds
<1>7. Committed(G, K, g, z, n, T, c)
  <2>1. g[c] = f[c]
    BY <1>3
  <2> QED BY <1>1, <2>1 DEF Committed
<1>8. ASSUME NEW t \in Nat, NEW y \in Nat, Acked(G, N, A, K, j, t, y, f, s, n, T)
      PROVE  Acked(G, N, A, K, j, t, y, g, z, n, T)
  <2>1. \A k \in z + 1 .. y : y <= n => k \in s + 1 .. y /\ k \in z .. n
    BY <1>2
  <2> QED BY <1>8, <2>1 DEF Acked
<1> QED BY <1>5, <1>6, <1>7, <1>8 DEF PeerOK

-----------------------------------------------------------------------------
(* Start, becomeLeader and commit.                                         *)

\* The log of a leader of term T up to index n.
LeadersLog(G, N, T, f, n) == n = N[T] /\ (n > 0 => G[T][n].term = f[n].term)

\* The log of a leader is, above the snapshot, the log of its term; at the
\* snapshot's index the term is right, since no leader lacks a committed entry.
LEMMA LeaderEntries ==
  ASSUME NEW G, NEW N, NEW A, NEW K, NEW E, Ghosts(G, N, A, K, E),
         NEW f, NEW s, NEW n, IsLog(f, s, n), NEW T \in Nat,
         Branch(G, N, K, f, s, n, T), LeadersLog(G, N, T, f, n)
  PROVE  /\ \A k \in s + 1 .. n : f[k] = G[T][k]
         /\ n > 0 => Same(G, N, f[n].term, T, n)
         /\ Complete(G, N, K, T) =>
              \A k \in s .. n : f[k].term = IF k = 0 THEN 0 ELSE G[T][k].term
<1>1. PICK w : w = f[n].term
  OBVIOUS
<1>2. /\ w \in Nat /\ N[w] \in Nat /\ s \in Nat /\ n \in Nat /\ N[T] \in Nat
      /\ \A k \in s + 1 .. n : k \in 1 .. N[w] /\ f[k] = G[w][k]
      /\ n > 0 => n <= N[w] /\ G[w][n].term = w
  <2>1. s \in Nat /\ n \in Nat
    BY LogFacts
  <2>2. N[T] \in Nat
    BY DEF Ghosts
  <2> QED BY <1>1, <2>1, <2>2, BranchFacts
<1>3. G \in LogFunctions /\ N \in [Nat -> Nat] /\ Tree(G, N, E)
  BY DEF Ghosts
<1>4. ASSUME n > 0 PROVE Same(G, N, w, T, n)
  <2>1. n <= N[w] /\ n <= N[T] /\ G[w][n].term = G[T][n].term
    BY <1>1, <1>2, <1>4 DEF LeadersLog
  <2> QED BY <1>2, <1>3, <1>4, <2>1, TreeMatch
<1>5. ASSUME NEW k \in s + 1 .. n PROVE f[k] = G[T][k]
  <2>1. n > 0 /\ k \in 1 .. n
    BY <1>2
  <2> QED BY <1>2, <1>4, <2>1 DEF Same
<1>6. ASSUME Complete(G, N, K, T), NEW k \in s .. n
      PROVE  f[k].term = IF k = 0 THEN 0 ELSE G[T][k].term
  <2>1. CASE k > s
    <3>1. k \in s + 1 .. n /\ k # 0
      BY <1>2, <2>1
    <3> QED BY <1>5, <3>1
  <2>2. CASE k = s
    <3>1. Done(G, K, s, f[s].term, T)
      BY DEF Branch
    <3>2. CASE s = 0
      BY <2>2, <3>1, <3>2 DEF Done
    <3>3. CASE s > 0
      <4>1. PICK t \in 0 .. T : s <= K[t] /\ G[t][s].term = f[s].term
        BY <3>1, <3>3 DEF Done
      <4>2. t \in Nat /\ K[t] \in Nat
        BY DEF Ghosts
      <4>3. Same(G, N, t, T, K[t]) /\ s \in 1 .. K[t]
        BY <1>2, <1>6, <3>3, <4>1, <4>2 DEF Complete
      <4>4. G[t][s] = G[T][s]
        BY <4>3 DEF Same
      <4> QED BY <2>2, <3>3, <4>1, <4>4
    <3> QED BY <1>2, <3>2, <3>3
  <2> QED BY <1>2, <2>1, <2>2
<1> QED BY <1>1, <1>4, <1>5, <1>6

\* The leader i of term T appends entry e behind index n.
Appends(G, N, A, T, i, n, e, H, M, B) ==
  /\ H = [G EXCEPT ![T] = [@ EXCEPT ![n + 1] = e]]
  /\ M = [N EXCEPT ![T] = n + 1]
  /\ B = [A EXCEPT ![T] = [@ EXCEPT ![i] = n + 1]]

\* Then the logs of the leaders grow.
LEMMA AppendGrows ==
  ASSUME NEW G, NEW N, NEW A, NEW K, NEW E, Ghosts(G, N, A, K, E),
         NEW T \in Nat, T \in E, T >= 1, NEW i \in Server,
         NEW n \in Nat, n = N[T], NEW e \in LogEntry, e.term = T,
         NEW H, NEW M, NEW B, Appends(G, N, A, T, i, n, e, H, M, B)
  PROVE  /\ Later(G, N, A, K, E, H, M, B, K, E)
         /\ H[T][n + 1] = e /\ M[T] = n + 1 /\ B[T][i] = n + 1
         /\ \A t \in Nat : t # T => M[t] = N[t] /\ B[t] = A[t]
         /\ \A j \in Server : j # i => B[T][j] = A[T][j]
<1>1. /\ G \in LogFunctions /\ N \in [Nat -> Nat] /\ A \in [Nat -> [Server -> Nat]]
      /\ K \in [Nat -> Nat] /\ E \subseteq Nat /\ Tree(G, N, E)
      /\ \A t \in Nat : K[t] <= N[t]
      /\ \A t \in Nat, j \in Server : A[t][j] <= N[t]
  BY DEF Ghosts
<1>2. H \in LogFunctions
  <2>1. [G[T] EXCEPT ![n + 1] = e] \in [Nat -> LogEntry]
    BY <1>1 DEF LogFunctions
  <2> QED BY <1>1, <2>1 DEF Appends, LogFunctions
<1>3. M \in [Nat -> Nat]
  <2>1. M = [N EXCEPT ![T] = n + 1]
    BY DEF Appends
  <2>2. n + 1 \in Nat
    OBVIOUS
  <2> QED BY <1>1, <2>1, <2>2
<1>4. B \in [Nat -> [Server -> Nat]]
  <2>1. [A[T] EXCEPT ![i] = n + 1] \in [Server -> Nat]
    BY <1>1
  <2> QED BY <1>1, <2>1 DEF Appends
<1>5. /\ H[T][n + 1] = e /\ M[T] = n + 1 /\ B[T][i] = n + 1
      /\ \A t \in Nat : t # T => M[t] = N[t] /\ B[t] = A[t] /\ H[t] = G[t]
      /\ \A j \in Server : j # i => B[T][j] = A[T][j]
      /\ \A k \in Nat : k # n + 1 => H[T][k] = G[T][k]
  <2>1. H = [G EXCEPT ![T] = [@ EXCEPT ![n + 1] = e]] /\ n + 1 \in Nat
    BY DEF Appends
  <2>2. M = [N EXCEPT ![T] = n + 1]
    BY DEF Appends
  <2>3. B = [A EXCEPT ![T] = [@ EXCEPT ![i] = n + 1]]
    BY DEF Appends
  <2>4. G \in [Nat -> [Nat -> LogEntry]]
    BY <1>1 DEF LogFunctions
  <2>5. H[T] = [G[T] EXCEPT ![n + 1] = e] /\ \A t \in Nat : t # T => H[t] = G[t]
    BY <2>1, <2>4
  <2>6. G[T] \in [Nat -> LogEntry]
    BY <2>4
  <2>7. H[T][n + 1] = e /\ \A k \in Nat : k # n + 1 => H[T][k] = G[T][k]
    BY <2>1, <2>5, <2>6
  <2>8. M[T] = n + 1 /\ \A t \in Nat : t # T => M[t] = N[t]
    BY <1>1, <2>2
  <2>9. B[T] = [A[T] EXCEPT ![i] = n + 1] /\ \A t \in Nat : t # T => B[t] = A[t]
    BY <1>1, <2>3
  <2>10. A[T] \in [Server -> Nat]
    BY <1>1
  <2>11. B[T][i] = n + 1 /\ \A j \in Server : j # i => B[T][j] = A[T][j]
    BY <2>9, <2>10
  <2> QED BY <2>5, <2>7, <2>8, <2>9, <2>11
<1>6. \A t \in Nat : N[t] <= M[t] /\ \A k \in 1 .. N[t] : H[t][k] = G[t][k]
  <2> SUFFICES ASSUME NEW t \in Nat
               PROVE  N[t] <= M[t] /\ \A k \in 1 .. N[t] : H[t][k] = G[t][k]
    OBVIOUS
  <2>1. CASE t = T
    <3>1. \A k \in 1 .. N[t] : k \in Nat /\ k # n + 1
      BY <2>1
    <3>2. N[t] <= M[t]
      BY <1>5, <2>1
    <3> QED BY <1>5, <2>1, <3>1, <3>2
  <2>2. CASE t # T
    <3>1. N[t] \in Nat /\ M[t] = N[t] /\ H[t] = G[t]
      BY <1>1, <1>5, <2>2
    <3>2. N[t] <= M[t]
      BY <3>1
    <3> QED BY <3>1, <3>2
  <2> QED BY <2>1, <2>2
<1>7. Grow(G, N, E, H, M, E)
  <2>1. ASSUME NEW t \in Nat, NEW k \in N[t] + 1 .. M[t] PROVE H[t][k].term = t
    <3>1. t = T /\ k = n + 1
      <4>1. t # T => M[t] = N[t] /\ N[t] \in Nat
        BY <1>1, <1>5
      <4>2. t = T
        BY <4>1
      <4> QED BY <1>5, <4>2
    <3> QED BY <1>5, <3>1
  <2> QED BY <1>6, <2>1 DEF Grow
<1>8. Tree(H, M, E)
  <2>1. ASSUME NEW t \in Nat PROVE t \notin E => M[t] = 0
    BY <1>1, <1>5 DEF Tree
  <2>2. ASSUME NEW t \in Nat, NEW k \in 1 .. M[t]
        PROVE  H[t][k].term \in 1 .. t /\ Same(H, M, t, H[t][k].term, k)
    <3>1. k \in Nat /\ M[t] \in Nat /\ N[t] \in Nat
      BY <1>1, <1>3
    <3>2. CASE k <= N[t]
      <4>1. k \in 1 .. N[t] /\ H[t][k] = G[t][k]
        BY <1>6, <3>1, <3>2
      <4>2. G[t][k].term \in 1 .. t /\ Same(G, N, t, G[t][k].term, k)
        BY <1>1, <4>1 DEF Tree
      <4>3. Same(H, M, t, G[t][k].term, k)
        <5>1. PICK u \in Nat : u = G[t][k].term
          BY <4>2
        <5>2. Same(G, N, t, u, k) /\ N \in [Nat -> Nat]
          BY <1>1, <4>2, <5>1
        <5>3. Same(H, M, t, u, k)
          BY <1>3, <1>7, <3>1, <5>2, GrowSame
        <5> QED BY <5>1, <5>3
      <4> QED BY <4>1, <4>2, <4>3
    <3>3. CASE k > N[t]
      <4>1. k \in N[t] + 1 .. M[t] /\ k <= M[t]
        BY <3>1, <3>3
      <4>2. t = T
        BY <1>5, <3>1, <4>1
      <4>3. H[t][k].term = t
        BY <1>7, <4>1, <4>2 DEF Grow
      <4> QED BY <4>1, <4>2, <4>3 DEF Same
    <3> QED BY <3>1, <3>2, <3>3
  <2> QED BY <2>1, <2>2 DEF Tree
<1>9. \A t \in Nat : K[t] <= M[t] /\ K[t] <= K[t]
  <2> SUFFICES ASSUME NEW t \in Nat PROVE K[t] <= M[t] /\ K[t] <= K[t]
    OBVIOUS
  <2>1. K[t] \in Nat /\ N[t] \in Nat /\ M[t] \in Nat /\ K[t] <= N[t]
    BY <1>1, <1>3
  <2> QED BY <1>6, <2>1
<1>10. \A t \in Nat, j \in Server : B[t][j] <= M[t] /\ A[t][j] <= B[t][j]
  <2> SUFFICES ASSUME NEW t \in Nat, NEW j \in Server
               PROVE  B[t][j] <= M[t] /\ A[t][j] <= B[t][j]
    OBVIOUS
  <2>1. A[t][j] \in Nat /\ A[t][j] <= N[t] /\ N[t] \in Nat
    BY <1>1
  <2> QED BY <1>5, <2>1
<1>11. Ghosts(H, M, B, K, E)
  BY <1>1, <1>2, <1>3, <1>4, <1>8, <1>9, <1>10 DEF Ghosts
<1> QED BY <1>5, <1>7, <1>9, <1>10, <1>11 DEF Later

\* The leader that starts a command.
LEMMA StartPeer ==
  ASSUME NEW G, NEW N, NEW A, NEW K, NEW E, Ghosts(G, N, A, K, E),
         NEW T \in Nat, T \in E, T >= 1, NEW i \in Server,
         NEW f, NEW s, NEW n, IsLog(f, s, n), NEW c \in Nat,
         PeerOK(G, N, A, K, E, i, f, s, n, T, c), LeadersLog(G, N, T, f, n),
         NEW e \in LogEntry, e.term = T,
         NEW H, NEW M, NEW B, Appends(G, N, A, T, i, n, e, H, M, B),
         NEW g, IsLog(g, s, n + 1), g[n + 1] = e,
         \A k \in s .. n : g[k] = f[k]
  PROVE  /\ PeerOK(H, M, B, K, E, i, g, s, n + 1, T, c)
         /\ \A t, y \in Nat : Acked(G, N, A, K, i, t, y, f, s, n, T) =>
                              Acked(H, M, B, K, i, t, y, g, s, n + 1, T)
<1>1. n \in Nat /\ s \in Nat /\ s <= n /\ n = N[T]
  BY LogFacts DEF LeadersLog
<1>2. /\ Later(G, N, A, K, E, H, M, B, K, E)
      /\ H[T][n + 1] = e /\ M[T] = n + 1 /\ B[T][i] = n + 1
      /\ \A t \in Nat : t # T => M[t] = N[t] /\ B[t] = A[t]
  BY <1>1, AppendGrows
<1>3. Branch(G, N, K, f, s, n, T) /\ Kept(G, N, A, E, i, f, n, T)
      /\ s <= c /\ c <= n /\ Done(G, K, c, f[c].term, T)
  BY DEF PeerOK, Committed
<1>4. /\ \A k \in s + 1 .. n : f[k] = G[T][k]
      /\ n > 0 => Same(G, N, f[n].term, T, n)
  BY <1>3, LeaderEntries
<1>5. \A k \in 1 .. n : H[T][k] = G[T][k]
  BY <1>1, <1>2 DEF Later, Grow
<1>6. Ghosts(H, M, B, K, E) /\ H \in LogFunctions /\ M \in [Nat -> Nat]
  BY <1>2 DEF Later, Ghosts
<1>7. Branch(H, M, K, g, s, n + 1, T)
  <2>1. ASSUME NEW k \in s + 1 .. n + 1 PROVE g[k] = H[T][k]
    <3>1. CASE k = n + 1
      BY <1>2, <3>1
    <3>2. CASE k # n + 1
      <4>1. k \in s + 1 .. n /\ k \in s .. n /\ k \in 1 .. n
        BY <1>1, <3>2
      <4> QED BY <1>4, <1>5, <4>1
    <3> QED BY <3>1, <3>2
  <2>2. g[s] = f[s]
    BY <1>1
  <2>3. Done(G, K, s, f[s].term, T)
    BY <1>3 DEF Branch
  <2>4. Done(H, K, s, g[s].term, T)
    BY <1>1, <1>2, <2>2, <2>3, LaterDone
  <2>5. n + 1 # 0 /\ n + 1 <= M[T]
    BY <1>1, <1>2
  <2> QED BY <1>2, <2>1, <2>4, <2>5 DEF Branch
<1>8. ASSUME NEW t \in Nat, NEW k \in Nat, Own(H, M, t, k), k <= B[t][i]
      PROVE  t <= T /\ (Holds(H, M, g, n + 1, t, k) \/ Lost(H, M, E, t, k, T))
  <2>1. CASE t = T
    <3>1. k <= M[T]
      BY <1>8, <2>1 DEF Own
    <3>2. Same(H, M, T, T, k)
      BY <1>6, <3>1, SameTools
    <3> QED BY <1>2, <2>1, <3>1, <3>2 DEF Holds
  <2>2. CASE t # T
    <3>1. k <= A[t][i] /\ A[t][i] \in Nat /\ A[t][i] <= N[t] /\ N[t] \in Nat
      BY <1>2, <1>8, <2>2 DEF Ghosts
    <3>2. k <= N[t]
      BY <3>1
    <3>3. Own(G, N, t, k)
      BY <1>2, <1>8, <3>2, LaterOwn
    <3>4. t <= T /\ (Holds(G, N, f, n, t, k) \/ Lost(G, N, E, t, k, T))
      BY <1>3, <3>1, <3>3 DEF Kept
    <3>5. k \in 1 .. N[t]
      BY <3>3 DEF Own
    <3>6. Lost(G, N, E, t, k, T) => Lost(H, M, E, t, k, T)
      BY <1>2, <3>5, LaterLost
    <3>7. ASSUME Holds(G, N, f, n, t, k) PROVE Holds(H, M, g, n + 1, t, k)
      <4>1. PICK w \in Nat : w = f[n].term
        BY LogFacts
      <4>2. k <= n /\ Same(G, N, w, t, k) /\ n > 0
        BY <1>1, <3>5, <3>7, <4>1 DEF Holds
      <4>3. Same(G, N, T, w, n)
        BY <1>4, <4>1, <4>2, SameSym
      <4>4. Same(G, N, T, t, k)
        BY <1>1, <4>2, <4>3, SameTools
      <4>5. Same(H, M, T, t, k)
        BY <1>2, <4>4, GrowSame DEF Later, Ghosts
      <4>6. k <= n + 1
        BY <1>1, <4>2
      <4> QED BY <4>5, <4>6 DEF Holds
    <3> QED BY <3>4, <3>6, <3>7
  <2> QED BY <2>1, <2>2
<1>9. Kept(H, M, B, E, i, g, n + 1, T)
  BY <1>8 DEF Kept
<1>10. Committed(H, K, g, s, n + 1, T, c)
  <2>1. g[c] = f[c] /\ c <= n + 1
    BY <1>1, <1>3
  <2>2. Done(H, K, c, g[c].term, T)
    BY <1>2, <1>3, <2>1, LaterDone
  <2> QED BY <1>3, <2>1, <2>2 DEF Committed
<1>11. ASSUME NEW t \in Nat, NEW y \in Nat, Acked(G, N, A, K, i, t, y, f, s, n, T)
       PROVE  Acked(H, M, B, K, i, t, y, g, s, n + 1, T)
  <2>1. Acked(H, M, B, K, i, t, y, f, s, n, T)
    BY <1>2, <1>11, LaterAcked
  <2>2. ASSUME t = T
        PROVE  y <= n + 1 /\ \A k \in s + 1 .. y : g[k] = H[t][k]
    <3>1. y <= n /\ \A k \in s + 1 .. y : f[k] = H[t][k]
      BY <2>1, <2>2 DEF Acked
    <3>2. \A k \in s + 1 .. y : k \in s .. n
      BY <1>1, <3>1
    <3> QED BY <1>1, <3>1, <3>2
  <2> QED BY <2>1, <2>2 DEF Acked
<1> QED BY <1>7, <1>9, <1>10, <1>11 DEF PeerOK

\* The candidate with the log f up to index n becomes the leader of term U.
Elects(G, N, U, f, n, H, M) ==
  H = [G EXCEPT ![U] = G[f[n].term]] /\ M = [N EXCEPT ![U] = n]

\* Then there is one log more, with no entry of its own term yet.
OneMoreLog(G, N, A, K, U, f, n, H, M) ==
  /\ H[U] = G[f[n].term] /\ M[U] = n
  /\ \A t \in Nat : t # U => H[t] = G[t] /\ M[t] = N[t]
  /\ \A k \in Nat : ~Own(H, M, U, k)
  /\ K[U] = 0 /\ \A j \in Server : A[U][j] = 0

\* And the logs of the leaders grow.
LEMMA ElectGrows ==
  ASSUME NEW G, NEW N, NEW A, NEW K, NEW E, Ghosts(G, N, A, K, E),
         NEW U \in Nat, U \notin E, NEW f, NEW s, NEW n, IsLog(f, s, n),
         Branch(G, N, K, f, s, n, U),
         NEW H, NEW M, Elects(G, N, U, f, n, H, M)
  PROVE  /\ Later(G, N, A, K, E, H, M, A, K, E \cup {U})
         /\ OneMoreLog(G, N, A, K, U, f, n, H, M)
<1>0. PICK w : w = f[n].term
  OBVIOUS
<1>1. /\ G \in LogFunctions /\ N \in [Nat -> Nat] /\ A \in [Nat -> [Server -> Nat]]
      /\ K \in [Nat -> Nat] /\ E \subseteq Nat /\ Tree(G, N, E)
      /\ \A t \in Nat : K[t] <= N[t]
      /\ \A t \in Nat, j \in Server : A[t][j] <= N[t]
  BY DEF Ghosts
<1>2. /\ w \in Nat /\ w <= U /\ N[w] \in Nat
      /\ n > 0 => n <= N[w] /\ w \in E
  BY <1>0, BranchFacts
<1>3. n \in Nat
  BY LogFacts
<1>4. N[U] = 0 /\ K[U] = 0 /\ \A j \in Server : A[U][j] = 0
  <2>1. N[U] = 0
    BY <1>1 DEF Tree
  <2>2. K[U] \in Nat /\ K[U] <= N[U]
    BY <1>1
  <2>3. \A j \in Server : A[U][j] \in Nat /\ A[U][j] <= N[U]
    BY <1>1
  <2> QED BY <2>1, <2>2, <2>3
<1>5. /\ H[U] = G[w] /\ M[U] = n
      /\ \A t \in Nat : t # U => H[t] = G[t] /\ M[t] = N[t]
      /\ H \in LogFunctions /\ M \in [Nat -> Nat]
  BY <1>0, <1>1, <1>2, <1>3 DEF Elects, LogFunctions
<1>6. Grow(G, N, E, H, M, E \cup {U})
  <2> SUFFICES ASSUME NEW t \in Nat
               PROVE  /\ N[t] <= M[t]
                      /\ \A k \in 1 .. N[t] : H[t][k] = G[t][k]
                      /\ t \in E => \A k \in N[t] + 1 .. M[t] : H[t][k].term = t
    BY DEF Grow
  <2>1. CASE t = U
    BY <1>3, <1>4, <1>5, <2>1
  <2>2. CASE t # U
    <3>1. N[t] \in Nat /\ M[t] = N[t] /\ H[t] = G[t]
      BY <1>1, <1>5, <2>2
    <3>2. N[t] <= M[t] /\ N[t] + 1 .. M[t] = {}
      BY <3>1
    <3> QED BY <3>1, <3>2
  <2> QED BY <2>1, <2>2
<1>7. ASSUME NEW k \in 1 .. n
      PROVE  /\ G[w][k].term \in 1 .. U /\ G[w][k].term # U
             /\ Same(H, M, U, G[w][k].term, k)
  <2>1. k \in 1 .. N[w] /\ n > 0 /\ k <= n /\ k \in Nat
    BY <1>2, <1>3
  <2>2. PICK v : v = G[w][k].term
    OBVIOUS
  <2>3. /\ v \in Nat /\ v >= 1 /\ v <= w /\ v \in E /\ k <= N[v]
        /\ Same(G, N, w, v, k)
    BY <1>1, <1>2, <2>1, <2>2, TreeEntry
  <2>4. v # U /\ v \in 1 .. U
    BY <1>2, <2>3
  <2>5. H[v] = G[v] /\ M[v] = N[v]
    BY <1>5, <2>3, <2>4
  <2>6. Same(H, M, U, v, k)
    BY <1>5, <2>1, <2>3, <2>5 DEF Same
  <2> QED BY <2>2, <2>4, <2>6
<1>8. Tree(H, M, E \cup {U})
  <2>1. ASSUME NEW t \in Nat PROVE t \notin E \cup {U} => M[t] = 0
    BY <1>1, <1>5 DEF Tree
  <2>2. ASSUME NEW t \in Nat, NEW k \in 1 .. M[t]
        PROVE  H[t][k].term \in 1 .. t /\ Same(H, M, t, H[t][k].term, k)
    <3>1. CASE t = U
      BY <1>5, <1>7, <2>2, <3>1
    <3>2. CASE t # U
      <4>1. H[t] = G[t] /\ M[t] = N[t] /\ k \in 1 .. N[t]
        BY <1>5, <2>2, <3>2
      <4>2. PICK v : v = G[t][k].term
        OBVIOUS
      <4>3. v \in 1 .. t /\ Same(G, N, t, v, k)
        BY <1>1, <4>1, <4>2 DEF Tree
      <4>4. v \in Nat /\ k \in Nat
        BY <4>1, <4>3
      <4>5. Same(H, M, t, v, k)
        BY <1>1, <1>5, <1>6, <4>3, <4>4, GrowSame
      <4> QED BY <4>1, <4>2, <4>3, <4>5
    <3> QED BY <3>1, <3>2
  <2> QED BY <2>1, <2>2 DEF Tree
<1>9. \A k \in Nat : ~Own(H, M, U, k)
  BY <1>5, <1>7 DEF Own
<1>10. \A t \in Nat : N[t] <= M[t] /\ N[t] \in Nat /\ M[t] \in Nat
  BY <1>1, <1>5, <1>6 DEF Grow
<1>11. \A t \in Nat : K[t] \in Nat /\ K[t] <= M[t]
  <2> SUFFICES ASSUME NEW t \in Nat PROVE K[t] \in Nat /\ K[t] <= M[t]
    OBVIOUS
  <2>1. K[t] \in Nat /\ K[t] <= N[t]
    BY <1>1
  <2> QED BY <1>10, <2>1
<1>12. \A t \in Nat, j \in Server : A[t][j] \in Nat /\ A[t][j] <= M[t]
  <2> SUFFICES ASSUME NEW t \in Nat, NEW j \in Server
               PROVE  A[t][j] \in Nat /\ A[t][j] <= M[t]
    OBVIOUS
  <2>1. A[t][j] \in Nat /\ A[t][j] <= N[t]
    BY <1>1
  <2> QED BY <1>10, <2>1
<1>13. Ghosts(H, M, A, K, E \cup {U})
  BY <1>1, <1>5, <1>8, <1>11, <1>12 DEF Ghosts
<1>14. \A t \in Nat : K[t] <= K[t] /\ \A j \in Server : A[t][j] <= A[t][j]
  BY <1>11, <1>12
<1> QED BY <1>0, <1>4, <1>5, <1>6, <1>9, <1>13, <1>14 DEF Later, OneMoreLog

-----------------------------------------------------------------------------
(* Elections.                                                              *)

\* What v had of the older logs the leader of term U has, or a leader before it
\* lacked it.
Backs(G, N, A, E, v, U) ==
  \A t \in Nat : \A k \in Nat :
    t < U /\ Own(G, N, t, k) /\ k <= A[t][v] =>
      Same(G, N, U, t, k) \/ Lost(G, N, E, t, k, U - 1)

\* The same for the log of a candidate of term U.
BacksLog(G, N, A, E, v, U, f, n) ==
  \A t \in Nat : \A k \in Nat :
    t < U /\ Own(G, N, t, k) /\ k <= A[t][v] =>
      Holds(G, N, f, n, t, k) \/ Lost(G, N, E, t, k, U - 1)

\* The leader of term t commits an entry of its own term, and as many peers as
\* commit() asks for have had it.
Commits(G, N, A, K) ==
  \A t \in Nat : K[t] > 0 =>
    /\ Own(G, N, t, K[t])
    /\ Cardinality({j \in Server : K[t] <= A[t][j]})
         >= Cardinality(Server) - Cardinality(Server) \div 2

\* Every leader was backed by a majority.
Backed(G, N, A, E) ==
  \A U \in E : \E Q \in SUBSET Server :
    IsMajority(Cardinality(Q)) /\ \A v \in Q : Backs(G, N, A, E, v, U)

\* No leader lacks an entry that was committed in its term or before.
LEMMA Completeness ==
  ASSUME NEW G, NEW N, NEW A, NEW K, NEW E, Ghosts(G, N, A, K, E),
         Commits(G, N, A, K), Backed(G, N, A, E), NEW T \in E
  PROVE  Complete(G, N, K, T)
<1> SUFFICES ASSUME NEW t \in 0 .. T PROVE Same(G, N, t, T, K[t])
  BY DEF Complete
<1>1. E \subseteq Nat /\ T \in Nat /\ t \in Nat
  BY DEF Ghosts
<1>2. PICK k \in Nat : k = K[t]
  BY <1>1 DEF Ghosts
<1>3. k <= N[t] /\ N[t] \in Nat
  BY <1>1, <1>2 DEF Ghosts
<1>4. CASE k = 0
  <2>1. N[T] \in Nat
    BY <1>1 DEF Ghosts
  <2> QED BY <1>2, <1>3, <1>4, <2>1 DEF Same
<1>5. CASE k > 0
  <2> DEFINE Bad == {U \in E : U > t /\ ~Same(G, N, U, t, k)}
  <2>1. ASSUME Bad # {} PROVE FALSE
    <3>1. Bad \in SUBSET Nat
      BY <1>1
    <3>2. PICK U \in Bad : \A W \in Bad : U <= W
      <4> HIDE DEF Bad
      <4> QED BY <2>1, <3>1, LeastNumber
    <3>3. U \in E /\ U \in Nat /\ U > t /\ ~Same(G, N, U, t, k)
      BY <1>1, <3>2
    <3>4. PICK Q \in SUBSET Server :
            IsMajority(Cardinality(Q)) /\ \A v \in Q : Backs(G, N, A, E, v, U)
      BY <3>3 DEF Backed
    <3>5. PICK P \in SUBSET Server :
            /\ Cardinality(P) >= Cardinality(Server) - Cardinality(Server) \div 2
            /\ \A j \in P : k <= A[t][j]
      <4>1. Cardinality({j \in Server : k <= A[t][j]})
              >= Cardinality(Server) - Cardinality(Server) \div 2
        BY <1>1, <1>2, <1>5 DEF Commits
      <4>2. {j \in Server : k <= A[t][j]} \in SUBSET Server
        OBVIOUS
      <4> QED BY <4>1, <4>2
    <3>6. PICK v \in P : v \in Q
      BY <3>4, <3>5, CommitMeetsMajority
    <3>7. Own(G, N, t, k)
      BY <1>1, <1>2, <1>5 DEF Commits
    <3>8. Lost(G, N, E, t, k, U - 1)
      BY <1>1, <3>3, <3>4, <3>5, <3>6, <3>7 DEF Backs
    <3>9. PICK W \in E : W > t /\ W <= U - 1 /\ ~Same(G, N, W, t, k)
      BY <3>8 DEF Lost
    <3>10. W \in Bad /\ W \in Nat
      BY <1>1, <3>9
    <3> HIDE DEF Bad
    <3> QED BY <3>2, <3>3, <3>9, <3>10
  <2>2. T > t => Same(G, N, T, t, k)
    BY <2>1
  <2>3. T = t => Same(G, N, T, t, k)
    BY <1>3 DEF Same
  <2>4. Same(G, N, T, t, k)
    BY <1>1, <2>2, <2>3
  <2> QED BY <1>2, <2>4, SameSym
<1> QED BY <1>2, <1>4, <1>5

\* A voter that finds the candidate's log at least as up to date as its own
\* backs that log.
LEMMA UpToDateBacks ==
  ASSUME NEW G, NEW N, NEW A, NEW K, NEW E, Ghosts(G, N, A, K, E),
         NEW v \in Server, NEW f, NEW s, NEW n, IsLog(f, s, n), NEW V \in Nat,
         Kept(G, N, A, E, v, f, n, V),
         NEW U \in Nat, V <= U, U \notin E,
         NEW g, NEW r, NEW m, IsLog(g, r, m), Branch(G, N, K, g, r, m, U),
         \/ g[m].term > f[n].term
         \/ g[m].term = f[n].term /\ m >= n
  PROVE  BacksLog(G, N, A, E, v, U, g, m)
<1> SUFFICES ASSUME NEW t \in Nat, NEW k \in Nat, t < U, Own(G, N, t, k), k <= A[t][v]
             PROVE  Holds(G, N, g, m, t, k) \/ Lost(G, N, E, t, k, U - 1)
  BY DEF BacksLog
<1>1. t <= V /\ (Holds(G, N, f, n, t, k) \/ Lost(G, N, E, t, k, V))
  BY DEF Kept
<1>2. /\ G \in LogFunctions /\ N \in [Nat -> Nat] /\ Tree(G, N, E) /\ E \subseteq Nat
  BY DEF Ghosts
<1>3. ASSUME Lost(G, N, E, t, k, V) PROVE Lost(G, N, E, t, k, U - 1)
  <2>1. PICK W \in E : W > t /\ W <= V /\ ~Same(G, N, W, t, k)
    BY <1>3 DEF Lost
  <2>2. W \in Nat /\ W # U
    BY <1>2
  <2>3. W <= U - 1
    BY <2>1, <2>2
  <2> QED BY <2>1, <2>3 DEF Lost
<1>4. ASSUME Holds(G, N, f, n, t, k)
      PROVE  Holds(G, N, g, m, t, k) \/ Lost(G, N, E, t, k, U - 1)
  <2>1. PICK w \in Nat : w = f[n].term
    BY LogFacts
  <2>2. PICK u : u = g[m].term
    OBVIOUS
  <2>3. /\ u \in Nat /\ u <= U /\ N[u] \in Nat
        /\ m > 0 => m <= N[u] /\ G[u][m].term = u /\ u \in E
    BY <2>2, BranchFacts
  <2>4. k <= n /\ Same(G, N, w, t, k) /\ n \in Nat /\ m \in Nat
    BY <1>4, <2>1, LogFacts DEF Holds
  <2>5. k \in 1 .. N[t] /\ N[t] \in Nat /\ G[t][k].term = t
    BY <1>2 DEF Own
  <2>6. CASE u = w /\ m >= n
    <3>1. k <= m
      BY <2>4, <2>6
    <3> QED BY <2>2, <2>4, <2>6, <3>1 DEF Holds
  <2>7. CASE u > w
    <3>1. w >= t
      <4>1. k \in 1 .. N[w] /\ G[w][k] = G[t][k]
        BY <1>2, <2>4, <2>5 DEF Same
      <4> QED BY <1>2, <2>5, <4>1, TreeEntry
    <3>2. m > 0
      <4>1. m = 0 => u = 0
        BY <2>2 DEF Branch
      <4> QED BY <2>3, <2>4, <2>7, <4>1
    <3>3. u \in E /\ u # U /\ u > t /\ u <= U - 1
      BY <2>3, <2>7, <3>1, <3>2
    <3>4. CASE ~Same(G, N, u, t, k)
      BY <3>3, <3>4 DEF Lost
    <3>5. CASE Same(G, N, u, t, k)
      <4>1. k <= m
        <5> SUFFICES ASSUME m < k PROVE FALSE
          BY <2>4
        <5>1. m \in 1 .. k /\ m \in 1 .. N[t]
          BY <2>4, <2>5, <3>2
        <5>2. G[u][m] = G[t][m]
          BY <3>5, <5>1 DEF Same
        <5>3. G[t][m].term <= t
          BY <1>2, <5>1, TreeEntry
        <5> QED BY <2>3, <3>2, <3>3, <5>2, <5>3
      <4> QED BY <2>2, <3>5, <4>1 DEF Holds
    <3> QED BY <3>4, <3>5
  <2> QED BY <2>1, <2>2, <2>6, <2>7
<1> QED BY <1>1, <1>3, <1>4

-----------------------------------------------------------------------------
(* What grows with the logs of the leaders.                                *)

\* What backs a leader goes on backing it.
LEMMA LaterBacks ==
  ASSUME NEW G, NEW N, NEW A, NEW K, NEW E, NEW H, NEW M, NEW B, NEW L, NEW F,
         Later(G, N, A, K, E, H, M, B, L, F), NEW v \in Server,
         NEW U \in Nat, U >= 1, \A t \in Nat : t < U => B[t][v] = A[t][v],
         Backs(G, N, A, E, v, U)
  PROVE  Backs(H, M, B, F, v, U)
<1> SUFFICES ASSUME NEW t \in Nat, NEW k \in Nat, t < U, Own(H, M, t, k), k <= B[t][v]
             PROVE  Same(H, M, U, t, k) \/ Lost(H, M, F, t, k, U - 1)
  BY DEF Backs
<1>1. k <= A[t][v] /\ A[t][v] \in Nat /\ A[t][v] <= N[t] /\ N[t] \in Nat
  BY DEF Later, Ghosts
<1>2. Own(G, N, t, k)
  BY <1>1, LaterOwn
<1>3. Same(G, N, U, t, k) \/ Lost(G, N, E, t, k, U - 1)
  BY <1>1, <1>2 DEF Backs
<1>4. k \in 1 .. N[t] /\ U - 1 \in Nat
  BY <1>2 DEF Own
<1>5. N \in [Nat -> Nat] /\ M \in [Nat -> Nat] /\ Grow(G, N, E, H, M, F)
  BY DEF Later, Ghosts
<1>6. Same(G, N, U, t, k) => Same(H, M, U, t, k)
  BY <1>5, GrowSame
<1>7. Lost(G, N, E, t, k, U - 1) => Lost(H, M, F, t, k, U - 1)
  BY <1>4, LaterLost
<1> QED BY <1>3, <1>6, <1>7

\* The same for a candidate.
LEMMA LaterBacksLog ==
  ASSUME NEW G, NEW N, NEW A, NEW K, NEW E, NEW H, NEW M, NEW B, NEW L, NEW F,
         Later(G, N, A, K, E, H, M, B, L, F), NEW v \in Server,
         NEW U \in Nat, U >= 1, \A t \in Nat : t < U => B[t][v] = A[t][v],
         NEW f, NEW s, NEW n, IsLog(f, s, n), BacksLog(G, N, A, E, v, U, f, n)
  PROVE  BacksLog(H, M, B, F, v, U, f, n)
<1> SUFFICES ASSUME NEW t \in Nat, NEW k \in Nat, t < U, Own(H, M, t, k), k <= B[t][v]
             PROVE  Holds(H, M, f, n, t, k) \/ Lost(H, M, F, t, k, U - 1)
  BY DEF BacksLog
<1>1. k <= A[t][v] /\ A[t][v] \in Nat /\ A[t][v] <= N[t] /\ N[t] \in Nat
  BY DEF Later, Ghosts
<1>2. Own(G, N, t, k)
  BY <1>1, LaterOwn
<1>3. Holds(G, N, f, n, t, k) \/ Lost(G, N, E, t, k, U - 1)
  BY <1>1, <1>2 DEF BacksLog
<1>4. k \in 1 .. N[t] /\ U - 1 \in Nat
  BY <1>2 DEF Own
<1> QED BY <1>3, <1>4, LaterLost, LaterHolds

\* A commitment stays one.
LEMMA LaterCommits ==
  ASSUME NEW G, NEW N, NEW A, NEW K, NEW E, NEW H, NEW M, NEW B, NEW L, NEW F,
         Later(G, N, A, K, E, H, M, B, L, F), Commits(G, N, A, K),
         \A t \in Nat : L[t] = K[t]
  PROVE  Commits(H, M, B, L)
<1> SUFFICES ASSUME NEW t \in Nat, L[t] > 0
             PROVE  /\ Own(H, M, t, L[t])
                    /\ Cardinality({j \in Server : L[t] <= B[t][j]})
                         >= Cardinality(Server) - Cardinality(Server) \div 2
  BY DEF Commits
<1>1. PICK k \in Nat : k = K[t] /\ k = L[t]
  BY DEF Later, Ghosts
<1>2. Own(G, N, t, k)
  BY <1>1 DEF Commits
<1>3. Own(H, M, t, k)
  BY <1>2, LaterOwn
<1> DEFINE P == {j \in Server : k <= A[t][j]}
           Q == {j \in Server : k <= B[t][j]}
<1>4. Cardinality(P) >= Cardinality(Server) - Cardinality(Server) \div 2
  BY <1>1 DEF Commits
<1>5. \A j \in Server : A[t][j] \in Nat /\ B[t][j] \in Nat /\ A[t][j] <= B[t][j]
  BY DEF Later, Ghosts
<1>6. P \in SUBSET Server /\ Q \in SUBSET Server /\ P \subseteq Q
  BY <1>5
<1> HIDE DEF P, Q
<1>7. /\ Cardinality(P) \in Nat /\ Cardinality(Q) \in Nat
      /\ Cardinality(P) <= Cardinality(Q)
  BY <1>6, CardinalityMonotone
<1>8. Cardinality(Server) \in Nat
  BY ServerAssumption, FS_CardinalityType
<1>9. Cardinality(Q) >= Cardinality(Server) - Cardinality(Server) \div 2
  BY <1>4, <1>7, <1>8
<1> QED BY <1>1, <1>3, <1>9 DEF Q

\* A piece of a log stays one.
LEMMA LaterPiece ==
  ASSUME NEW G, NEW N, NEW A, NEW K, NEW E, NEW H, NEW M, NEW B, NEW L, NEW F,
         Later(G, N, A, K, E, H, M, B, L, F), NEW T \in Nat, NEW p \in Nat,
         NEW u, NEW e, NEW l \in Nat, PieceOf(G, N, T, p, u, e, l)
  PROVE  PieceOf(H, M, T, p, u, e, l)
<1>1. /\ N[T] \in Nat /\ M[T] \in Nat /\ N[T] <= M[T]
      /\ \A k \in 1 .. N[T] : H[T][k] = G[T][k]
  BY DEF Later, Ghosts, Grow
<1>2. /\ p + l <= N[T] /\ u = (IF p = 0 THEN 0 ELSE G[T][p].term)
      /\ \A k \in 1 .. l : e[k] = G[T][p + k]
  BY DEF PieceOf
<1>3. p + l <= M[T]
  BY <1>1, <1>2
<1>4. p # 0 => p \in 1 .. N[T]
  BY <1>1, <1>2
<1>5. \A k \in 1 .. l : p + k \in 1 .. N[T]
  BY <1>1, <1>2
<1>6. \A k \in 1 .. l : e[k] = H[T][p + k]
  BY <1>1, <1>2, <1>5
<1>7. u = IF p = 0 THEN 0 ELSE H[T][p].term
  BY <1>1, <1>2, <1>4
<1> QED BY <1>3, <1>6, <1>7 DEF PieceOf

\* A committed entry of a leader's log stays one.
LEMMA LaterDoneAt ==
  ASSUME NEW G, NEW N, NEW A, NEW K, NEW E, NEW H, NEW M, NEW B, NEW L, NEW F,
         Later(G, N, A, K, E, H, M, B, L, F), NEW T \in Nat, NEW k \in Nat,
         k > 0, k <= N[T], Done(G, K, k, G[T][k].term, T)
  PROVE  k <= M[T] /\ H[T][k] = G[T][k] /\ Done(H, L, k, H[T][k].term, T)
<1>1. /\ N[T] \in Nat /\ M[T] \in Nat /\ N[T] <= M[T]
      /\ \A n \in 1 .. N[T] : H[T][n] = G[T][n]
  BY DEF Later, Ghosts, Grow
<1>2. k \in 1 .. N[T]
  BY <1>1
<1>3. H[T][k] = G[T][k]
  BY <1>1, <1>2
<1>4. Done(H, L, k, G[T][k].term, T)
  BY LaterDone
<1>5. k <= M[T]
  BY <1>1
<1> QED BY <1>3, <1>4, <1>5

-----------------------------------------------------------------------------
(* The invariant of the peers and of the messages between them.            *)

\* Peer i, its log, its term and its commit index.
PeerNow(G, N, A, K, i) ==
  /\ PeerOK(G, N, A, K, Terms, i, Entries(i), snapshotIndex[i], LastLogIndex(i),
            currentTerm[i], commitIndex[i])
  /\ snapshotIndex[i] <= lastApplied[i] /\ lastApplied[i] <= commitIndex[i]

AckedNow(G, N, A, K, j, t, x) ==
  Acked(G, N, A, K, j, t, x, Entries(j), snapshotIndex[j], LastLogIndex(j),
        currentTerm[j])

\* The leader of term U was backed by a majority that is not behind it.
ChosenIn(G, N, A, U) ==
  \E Q \in SUBSET Server :
    /\ IsMajority(Cardinality(Q))
    /\ \A v \in Q : U <= currentTerm[v] /\ Backs(G, N, A, Terms, v, U)

\* Candidate c may still win, and v voted for it.
VoteCounts(v, c) ==
  /\ raftState[c] = Candidate /\ currentTerm[c] \notin Terms
  /\ <<currentTerm[c], v, c>> \in votes

VoteOK(G, N, A, v, c) ==
  BacksLog(G, N, A, Terms, v, currentTerm[c], Entries(c), LastLogIndex(c))

\* Leader i, its log and what it knows of the others.
LeaderNow(G, N, A, K, i) ==
  LET T == currentTerm[i]
  IN  /\ LeadersLog(G, N, T, Entries(i), LastLogIndex(i))
      /\ K[T] <= commitIndex[i]
      /\ \A k \in Nat : Own(G, N, T, k) => k <= A[T][i]
      /\ \A j \in Server : AckedNow(G, N, A, K, j, T, matchIndex[i][j])
      /\ \A j \in Server \ {i} : SendableTo(i, j)

AppendCallOK(G, N, K, m) ==
  /\ PieceOf(G, N, m.term, m.prevLogIndex, m.prevLogTerm, m.entries, Len(m.entries))
  /\ m.leaderCommit <= m.prevLogIndex + Len(m.entries)
  /\ m.leaderCommit > 0 =>
       Done(G, K, m.leaderCommit, G[m.term][m.leaderCommit].term, m.term)

SnapCallOK(G, N, K, m) ==
  LET z == m.lastIncludedIndex
  IN  /\ 0 < z /\ z <= N[m.term]
      /\ m.lastIncludedTerm = G[m.term][z].term
      /\ Done(G, K, z, G[m.term][z].term, m.term)

\* The hint of a peer that is not ahead of term t.
HintOK(N, t, hint) ==
  /\ hint.xLen # -1 => hint.xLen \in 1 .. N[t] + 1
  /\ hint.xLen = -1 => hint.xIndex \in 1 .. N[t]

AppendReplyOK(G, N, A, K, r) ==
  /\ r.success => AckedNow(G, N, A, K, r.args.to, r.args.term, r.args.match)
  /\ ~r.success /\ r.term <= r.args.term => HintOK(N, r.args.term, r.hint)

SnapReplyOK(G, N, A, K, r) ==
  r.term <= r.args.term =>
    AckedNow(G, N, A, K, r.args.to, r.args.term, r.args.lastIncludedIndex)

\* An entry that was applied was committed by some leader.
AppliedOK(G, K, a) == a[1] > 0 /\ \E t \in Nat : a[1] <= K[t] /\ G[t][a[1]] = a[2]

LogInv(G, N, A, K) ==
  /\ Ghosts(G, N, A, K, Terms)
  /\ Commits(G, N, A, K)
  /\ \A e \in elected : ChosenIn(G, N, A, e[1])
  /\ \A i \in Server : PeerNow(G, N, A, K, i)
  /\ \A v, c \in Server : VoteCounts(v, c) => VoteOK(G, N, A, v, c)
  /\ \A i \in Server : raftState[i] = Leader => LeaderNow(G, N, A, K, i)
  /\ \A m \in appendRequests : AppendCallOK(G, N, K, m)
  /\ \A m \in snapRequests : SnapCallOK(G, N, K, m)
  /\ \A r \in appendReplies : AppendReplyOK(G, N, A, K, r)
  /\ \A r \in snapReplies : SnapReplyOK(G, N, A, K, r)
  /\ \A a \in applied : AppliedOK(G, K, a)

LogSafe == \E G, N, A, K : LogInv(G, N, A, K)

\* The invariants that are already proved, in both states of a step, and that
\* no term has two leaders.
Known == TypeOK /\ DiskInSync /\ QuorumInv /\ HintInv /\ ElectInv /\ ElectionSafety

\* No leader lacks a committed entry.
LEMMA LeadersComplete ==
  ASSUME Known, NEW G, NEW N, NEW A, NEW K, LogInv(G, N, A, K), NEW T \in Terms
  PROVE  Complete(G, N, K, T)
<1>1. Backed(G, N, A, Terms)
  BY DEF LogInv, ChosenIn, Backed, Terms
<1> QED BY <1>1, Completeness DEF LogInv

\* Peer j is not touched.
Untouched(j) ==
  /\ currentTerm'[j] = currentTerm[j] /\ raftState'[j] = raftState[j]
  /\ logs'[j] = logs[j] /\ snapshotIndex'[j] = snapshotIndex[j]
  /\ commitIndex'[j] = commitIndex[j] /\ lastApplied'[j] = lastApplied[j]
  /\ matchIndex'[j] = matchIndex[j] /\ nextIndex'[j] = nextIndex[j]

\* Its log is the same function.
LEMMA SameEntries ==
  ASSUME NEW j, logs'[j] = logs[j], snapshotIndex'[j] = snapshotIndex[j]
  PROVE  Entries(j)' = Entries(j) /\ LastLogIndex(j)' = LastLogIndex(j)
BY DEF Entries, LastLogIndex, Log, Slot

\* A peer whose log is not touched, and that acknowledges no more; its term may
\* grow.
LEMMA QuietPeer ==
  ASSUME TypeOK, TypeOK', TermsGrow, NEW i \in Server,
         NEW G, NEW N, NEW A, NEW K, NEW H, NEW M, NEW B, NEW L,
         Later(G, N, A, K, Terms, H, M, B, L, Terms'),
         logs'[i] = logs[i], snapshotIndex'[i] = snapshotIndex[i]
  PROVE  /\ (/\ PeerNow(G, N, A, K, i) /\ \A t \in Nat : B[t][i] = A[t][i]
             /\ commitIndex'[i] = commitIndex[i] /\ lastApplied'[i] = lastApplied[i])
               => PeerNow(H, M, B, L, i)'
         /\ \A t, x \in Nat :
              AckedNow(G, N, A, K, i, t, x) => AckedNow(H, M, B, L, i, t, x)'
<1>1. Entries(i)' = Entries(i) /\ LastLogIndex(i)' = LastLogIndex(i)
  BY SameEntries
<1>2. IsLog(Entries(i), snapshotIndex[i], LastLogIndex(i))
  BY EntriesType
<1>3. /\ currentTerm[i] \in Nat /\ currentTerm'[i] \in Nat
      /\ currentTerm[i] <= currentTerm'[i] /\ commitIndex[i] \in Nat
  BY DEF TypeOK, TermsGrow
<1>4. ASSUME PeerNow(G, N, A, K, i), \A t \in Nat : B[t][i] = A[t][i],
             commitIndex'[i] = commitIndex[i], lastApplied'[i] = lastApplied[i]
      PROVE  PeerNow(H, M, B, L, i)'
  <2>1. PeerOK(G, N, A, K, Terms, i, Entries(i), snapshotIndex[i], LastLogIndex(i),
               currentTerm[i], commitIndex[i])
    BY <1>4 DEF PeerNow
  <2>2. PeerOK(H, M, B, L, Terms', i, Entries(i), snapshotIndex[i], LastLogIndex(i),
               currentTerm'[i], commitIndex[i])
    BY <1>2, <1>3, <1>4, <2>1, LaterPeer
  <2> QED BY <1>1, <1>4, <2>2 DEF PeerNow
<1>5. ASSUME NEW t \in Nat, NEW x \in Nat, AckedNow(G, N, A, K, i, t, x)
      PROVE  AckedNow(H, M, B, L, i, t, x)'
  <2>1. Acked(G, N, A, K, i, t, x, Entries(i), snapshotIndex[i], LastLogIndex(i),
              currentTerm[i])
    BY <1>5 DEF AckedNow
  <2>2. Acked(H, M, B, L, i, t, x, Entries(i), snapshotIndex[i], LastLogIndex(i),
              currentTerm'[i])
    BY <1>2, <1>3, <2>1, LaterAcked
  <2> QED BY <1>1, <2>2 DEF AckedNow
<1> QED BY <1>4, <1>5

\* A step that touches peer i only: what it does to peer i and what it adds has
\* to be right, and everything else stays right.
LEMMA LogFrame ==
  ASSUME Known, Known', TermsGrow, elected \subseteq elected',
         NEW G, NEW N, NEW A, NEW K, NEW H, NEW M, NEW B, NEW L,
         LogInv(G, N, A, K), Later(G, N, A, K, Terms, H, M, B, L, Terms'),
         Commits(H, M, B, L),
         NEW i \in Server, \A j \in Server : j # i => Untouched(j),
         \A t \in Nat, j \in Server : j # i => B[t][j] = A[t][j],
         \A t \in Nat : B[t][i] = A[t][i] \/ t = currentTerm'[i],
         \A t \in Nat : (M[t] = N[t] /\ L[t] = K[t]) \/ <<t, i>> \in elected',
         PeerNow(H, M, B, L, i)',
         \A t, x \in Nat : AckedNow(G, N, A, K, i, t, x) => AckedNow(H, M, B, L, i, t, x)',
         \A e \in elected' \ elected : ChosenIn(H, M, B, e[1])',
         \A v, c \in Server :
           VoteCounts(v, c)' /\ (c = i \/ <<currentTerm'[c], v, c>> \notin votes) =>
             VoteOK(H, M, B, v, c)',
         raftState'[i] = Leader => LeaderNow(H, M, B, L, i)',
         \A m \in appendRequests' \ appendRequests : AppendCallOK(H, M, L, m),
         \A m \in snapRequests' \ snapRequests : SnapCallOK(H, M, L, m),
         \A r \in appendReplies' \ appendReplies : AppendReplyOK(H, M, B, L, r)',
         \A r \in snapReplies' \ snapReplies : SnapReplyOK(H, M, B, L, r)',
         \A a \in applied' \ applied : AppliedOK(H, L, a)
  PROVE  LogInv(H, M, B, L)'
<1> USE DEF Known
<1>1. /\ Ghosts(G, N, A, K, Terms) /\ Ghosts(H, M, B, L, Terms')
      /\ Grow(G, N, Terms, H, M, Terms')
  BY DEF Later
<1>2. \A j \in Server : /\ currentTerm[j] \in Nat /\ currentTerm'[j] \in Nat
                        /\ currentTerm[j] <= currentTerm'[j]
  BY DEF TypeOK, TermsGrow
<1>3. \A t \in Nat : /\ N[t] \in Nat /\ M[t] \in Nat /\ N[t] <= M[t]
                     /\ K[t] \in Nat /\ L[t] \in Nat /\ K[t] <= L[t] /\ K[t] <= N[t]
                     /\ \A k \in 1 .. N[t] : H[t][k] = G[t][k]
  BY DEF Later, Ghosts, Grow
<1>4. ASSUME NEW j \in Server, j # i
      PROVE  /\ PeerNow(H, M, B, L, j)'
             /\ \A t, x \in Nat :
                  AckedNow(G, N, A, K, j, t, x) => AckedNow(H, M, B, L, j, t, x)'
  BY <1>4, QuietPeer DEF Untouched, LogInv
<1>5. \A j \in Server : PeerNow(H, M, B, L, j)'
  BY <1>4
<1>6. \A j \in Server : \A t, x \in Nat :
        AckedNow(G, N, A, K, j, t, x) => AckedNow(H, M, B, L, j, t, x)'
  BY <1>4
<1>7. ASSUME NEW v \in Server, NEW U \in Nat, U <= currentTerm'[v]
      PROVE  \A t \in Nat : t < U => B[t][v] = A[t][v]
  BY <1>2, <1>7
<1>8. ASSUME NEW e \in elected' PROVE ChosenIn(H, M, B, e[1])'
  <2>1. CASE e \in elected
    <3>1. e[1] \in Nat /\ e[1] >= 1
      BY <2>1 DEF TypeOK, ElectInv, ElectedArePast
    <3>2. PICK Q \in SUBSET Server :
            /\ IsMajority(Cardinality(Q))
            /\ \A v \in Q : e[1] <= currentTerm[v] /\ Backs(G, N, A, Terms, v, e[1])
      BY <2>1 DEF LogInv, ChosenIn
    <3>3. ASSUME NEW v \in Q
          PROVE  e[1] <= currentTerm'[v] /\ Backs(H, M, B, Terms', v, e[1])
      <4>1. v \in Server /\ e[1] <= currentTerm'[v]
        BY <1>2, <3>1, <3>2
      <4>2. \A t \in Nat : t < e[1] => B[t][v] = A[t][v]
        BY <1>7, <3>1, <4>1
      <4>3. Backs(H, M, B, Terms', v, e[1])
        BY <3>1, <3>2, <4>1, <4>2, LaterBacks
      <4> QED BY <4>1, <4>3
    <3>4. IsMajority(Cardinality(Q))'
      BY <3>2 DEF IsMajority
    <3> QED BY <3>3, <3>4 DEF ChosenIn
  <2> QED BY <2>1
<1>9. ASSUME NEW v \in Server, NEW c \in Server, VoteCounts(v, c)'
      PROVE  VoteOK(H, M, B, v, c)'
  <2>1. CASE c # i /\ <<currentTerm'[c], v, c>> \in votes
    <3>1. currentTerm'[c] = currentTerm[c] /\ raftState'[c] = raftState[c]
          /\ Entries(c)' = Entries(c) /\ LastLogIndex(c)' = LastLogIndex(c)
      BY <2>1, SameEntries DEF Untouched
    <3>2. currentTerm[c] \notin Terms
      BY <1>9, <3>1 DEF VoteCounts, Terms
    <3>3. VoteOK(G, N, A, v, c)
      BY <1>9, <2>1, <3>1, <3>2 DEF VoteCounts, LogInv
    <3>4. currentTerm[c] >= 1
      BY <1>9, <3>1 DEF VoteCounts, ElectInv, CandidateIsFresh
    <3>5. currentTerm[c] <= currentTerm'[v]
      <4>1. currentTerm[c] <= currentTerm[v]
        BY <2>1, <3>1 DEF ElectInv, VotesArePast
      <4> QED BY <1>2, <4>1
    <3>6. \A t \in Nat : t < currentTerm[c] => B[t][v] = A[t][v]
      BY <1>2, <1>7, <3>5
    <3>7. IsLog(Entries(c), snapshotIndex[c], LastLogIndex(c))
      BY EntriesType
    <3>8. BacksLog(H, M, B, Terms', v, currentTerm[c], Entries(c), LastLogIndex(c))
      BY <1>2, <3>3, <3>4, <3>6, <3>7, LaterBacksLog DEF VoteOK
    <3> QED BY <3>1, <3>8 DEF VoteOK
  <2> QED BY <1>9, <2>1
<1>10. ASSUME NEW j \in Server, raftState'[j] = Leader
       PROVE  LeaderNow(H, M, B, L, j)'
  <2>1. CASE j # i
    <3>1. /\ currentTerm'[j] = currentTerm[j] /\ raftState[j] = Leader
          /\ Entries(j)' = Entries(j) /\ LastLogIndex(j)' = LastLogIndex(j)
          /\ commitIndex'[j] = commitIndex[j]
          /\ matchIndex'[j] = matchIndex[j] /\ nextIndex'[j] = nextIndex[j]
      BY <1>10, <2>1, SameEntries DEF Untouched
    <3>2. PICK T \in Nat : T = currentTerm[j]
      BY <1>2
    <3>3. <<T, j>> \in elected /\ <<T, j>> \in elected'
      BY <3>1, <3>2 DEF HintInv, LeadersAreElected
    <3>4. M[T] = N[T] /\ L[T] = K[T]
      <4>1. <<T, i>> \notin elected'
        BY <2>1, <3>3 DEF ElectionSafety
      <4> QED BY <3>2, <4>1
    <3>5. /\ LeadersLog(G, N, T, Entries(j), LastLogIndex(j))
          /\ K[T] <= commitIndex[j]
          /\ \A k \in Nat : Own(G, N, T, k) => k <= A[T][j]
          /\ \A n \in Server : AckedNow(G, N, A, K, n, T, matchIndex[j][n])
          /\ \A n \in Server \ {j} : SendableTo(j, n)
      BY <3>1, <3>2 DEF LogInv, LeaderNow
    <3>6. LeadersLog(H, M, T, Entries(j), LastLogIndex(j))
      <4>1. LastLogIndex(j) \in Nat
        BY LogTypes
      <4>2. LastLogIndex(j) > 0 => LastLogIndex(j) \in 1 .. N[T]
        BY <4>1, <3>5 DEF LeadersLog
      <4> QED BY <1>3, <3>4, <3>5, <4>2 DEF LeadersLog
    <3>7. ASSUME NEW k \in Nat, Own(H, M, T, k) PROVE k <= B[T][j]
      <4>1. k <= N[T]
        BY <3>4, <3>7 DEF Own
      <4>2. Own(G, N, T, k)
        BY <3>7, <4>1, LaterOwn
      <4> QED BY <2>1, <3>5, <4>2
    <3>8. ASSUME NEW n \in Server PROVE AckedNow(H, M, B, L, n, T, matchIndex[j][n])'
      <4>1. matchIndex[j][n] \in Nat
        BY DEF TypeOK
      <4>2. PICK x \in Nat : x = matchIndex[j][n]
        BY <4>1
      <4>3. AckedNow(H, M, B, L, n, T, x)'
        BY <1>6, <3>5, <4>2
      <4> QED BY <3>1, <4>2, <4>3
    <3>9. \A n \in Server \ {j} : SendableTo(j, n)'
      BY <3>1, <3>5 DEF SendableTo
    <3>10. /\ LeadersLog(H, M, T, Entries(j)', LastLogIndex(j)')
           /\ L[T] <= commitIndex'[j] /\ T = currentTerm'[j]
      BY <3>1, <3>2, <3>4, <3>5, <3>6
    <3> QED BY <3>7, <3>8, <3>9, <3>10 DEF LeaderNow
  <2> QED BY <1>10, <2>1
<1>11. ASSUME NEW m \in appendRequests' PROVE AppendCallOK(H, M, L, m)
  <2>1. CASE m \in appendRequests
    <3>1. /\ m.term \in Nat /\ m.prevLogIndex \in Nat /\ m.entries \in Seq(LogEntry)
          /\ m.leaderCommit \in Nat
      BY <2>1 DEF TypeOK, AppendArgs
    <3>2. PICK l \in Nat : l = Len(m.entries)
      BY <3>1
    <3>3. AppendCallOK(G, N, K, m)
      BY <2>1 DEF LogInv
    <3>4. PieceOf(H, M, m.term, m.prevLogIndex, m.prevLogTerm, m.entries, l)
      BY <3>1, <3>2, <3>3, LaterPiece DEF AppendCallOK
    <3>5. m.leaderCommit > 0 =>
            Done(H, L, m.leaderCommit, H[m.term][m.leaderCommit].term, m.term)
      <4>1. m.leaderCommit <= N[m.term]
        <5>1. m.prevLogIndex + l <= N[m.term] /\ m.leaderCommit <= m.prevLogIndex + l
          BY <3>2, <3>3 DEF AppendCallOK, PieceOf
        <5> QED BY <1>3, <3>1, <5>1
      <4> QED BY <3>1, <3>3, <4>1, LaterDoneAt DEF AppendCallOK
    <3> QED BY <3>2, <3>3, <3>4, <3>5 DEF AppendCallOK
  <2> QED BY <2>1
<1>12. ASSUME NEW m \in snapRequests' PROVE SnapCallOK(H, M, L, m)
  <2>1. CASE m \in snapRequests
    <3>1. m.term \in Nat /\ m.lastIncludedIndex \in Nat
      BY <2>1 DEF TypeOK, SnapArgs
    <3>2. SnapCallOK(G, N, K, m)
      BY <2>1 DEF LogInv
    <3> QED BY <3>1, <3>2, LaterDoneAt DEF SnapCallOK
  <2> QED BY <2>1
<1>13. ASSUME NEW r \in appendReplies' PROVE AppendReplyOK(H, M, B, L, r)'
  <2>1. CASE r \in appendReplies
    <3>1. /\ r.args.to \in Server /\ r.args.term \in Nat /\ r.args.match \in Nat
          /\ r.hint \in Hint
      BY <2>1 DEF TypeOK, AppendCall
    <3>2. AppendReplyOK(G, N, A, K, r)
      BY <2>1 DEF LogInv
    <3>3. r.success => AckedNow(H, M, B, L, r.args.to, r.args.term, r.args.match)'
      BY <1>6, <3>1, <3>2 DEF AppendReplyOK
    <3>4. HintOK(N, r.args.term, r.hint) => HintOK(M, r.args.term, r.hint)
      BY <1>3, <3>1 DEF HintOK, Hint
    <3> QED BY <3>2, <3>3, <3>4 DEF AppendReplyOK
  <2> QED BY <2>1
<1>14. ASSUME NEW r \in snapReplies' PROVE SnapReplyOK(H, M, B, L, r)'
  <2>1. CASE r \in snapReplies
    <3>1. r.args.to \in Server /\ r.args.term \in Nat /\ r.args.lastIncludedIndex \in Nat
      BY <2>1 DEF TypeOK, SnapArgs
    <3>2. SnapReplyOK(G, N, A, K, r)
      BY <2>1 DEF LogInv
    <3> QED BY <1>6, <3>1, <3>2 DEF SnapReplyOK
  <2> QED BY <2>1
<1>15. ASSUME NEW a \in applied' PROVE AppliedOK(H, L, a)
  <2>1. CASE a \in applied
    <3>1. a[1] \in Nat
      BY <2>1 DEF TypeOK
    <3>2. a[1] > 0 /\ \E t \in Nat : a[1] <= K[t] /\ G[t][a[1]] = a[2]
      BY <2>1 DEF LogInv, AppliedOK
    <3>3. PICK t \in Nat : a[1] <= K[t] /\ G[t][a[1]] = a[2]
      BY <3>2
    <3>4. a[1] \in 1 .. N[t] /\ a[1] <= L[t]
      BY <1>3, <3>1, <3>2, <3>3
    <3> QED BY <1>3, <3>2, <3>3, <3>4 DEF AppliedOK
  <2> QED BY <2>1
<1> QED BY <1>1, <1>5, <1>8, <1>9, <1>10, <1>11, <1>12, <1>13, <1>14, <1>15 DEF LogInv

\* The logs of all peers.
LogFact ==
  \A i \in Server :
    /\ IsLog(Entries(i), snapshotIndex[i], LastLogIndex(i))
    /\ Entries(i)[LastLogIndex(i)].term = LastLogTerm(i)

\* They are logs after a step too.
LEMMA LogFactNext == TypeOK' => LogFact'
<1>1. TypeOK => LogFact
  BY EntriesType DEF LogFact
<1> QED BY <1>1, PTL

\* A step that touches peer i only, elects nobody, and leaves the logs of the
\* leaders alone.
LEMMA LogKept ==
  ASSUME Known, Known', TermsGrow, elected' = elected,
         NEW G, NEW N, NEW A, NEW K, LogInv(G, N, A, K),
         NEW i \in Server, \A j \in Server : j # i => Untouched(j),
         PeerNow(G, N, A, K, i)',
         \A t, x \in Nat : AckedNow(G, N, A, K, i, t, x) => AckedNow(G, N, A, K, i, t, x)',
         \A v, c \in Server :
           VoteCounts(v, c)' /\ (c = i \/ <<currentTerm'[c], v, c>> \notin votes) =>
             VoteOK(G, N, A, v, c)',
         raftState'[i] = Leader => LeaderNow(G, N, A, K, i)',
         \A m \in appendRequests' \ appendRequests : AppendCallOK(G, N, K, m),
         \A m \in snapRequests' \ snapRequests : SnapCallOK(G, N, K, m),
         \A r \in appendReplies' \ appendReplies : AppendReplyOK(G, N, A, K, r)',
         \A r \in snapReplies' \ snapReplies : SnapReplyOK(G, N, A, K, r)',
         \A a \in applied' \ applied : AppliedOK(G, K, a)
  PROVE  LogInv(G, N, A, K)'
<1>1. Terms' = Terms
  BY DEF Terms
<1>2. Ghosts(G, N, A, K, Terms) /\ Commits(G, N, A, K)
  BY DEF LogInv
<1>3. Later(G, N, A, K, Terms, G, N, A, K, Terms')
  BY <1>1, <1>2, LaterRefl
<1>4. elected' \ elected = {} /\ elected \subseteq elected'
  OBVIOUS
<1> QED BY <1>2, <1>3, <1>4, LogFrame

\* When the log of peer i is not touched either: what it acknowledged stays.
LEMMA LogQuiet ==
  ASSUME Known, Known', TermsGrow, elected' = elected,
         NEW G, NEW N, NEW A, NEW K, LogInv(G, N, A, K), NEW i \in Server,
         logs'[i] = logs[i], snapshotIndex'[i] = snapshotIndex[i],
         commitIndex'[i] = commitIndex[i], lastApplied'[i] = lastApplied[i]
  PROVE  /\ PeerNow(G, N, A, K, i)'
         /\ \A t, x \in Nat : AckedNow(G, N, A, K, i, t, x) => AckedNow(G, N, A, K, i, t, x)'
<1>1. Terms' = Terms
  BY DEF Terms
<1>2. Ghosts(G, N, A, K, Terms) /\ PeerNow(G, N, A, K, i)
  BY DEF LogInv
<1>3. Later(G, N, A, K, Terms, G, N, A, K, Terms')
  BY <1>1, <1>2, LaterRefl
<1> QED BY <1>2, <1>3, QuietPeer DEF Known

\* What everybody acknowledged stays acknowledged.
LEMMA AcksStay ==
  ASSUME Known, Known', TermsGrow, elected' = elected,
         NEW G, NEW N, NEW A, NEW K, LogInv(G, N, A, K), NEW i \in Server,
         \A j \in Server : j # i => Untouched(j),
         \A t, x \in Nat : AckedNow(G, N, A, K, i, t, x) => AckedNow(G, N, A, K, i, t, x)'
  PROVE  \A j \in Server : \A t, x \in Nat :
           AckedNow(G, N, A, K, j, t, x) => AckedNow(G, N, A, K, j, t, x)'
<1>1. ASSUME NEW j \in Server, j # i
      PROVE  \A t, x \in Nat : AckedNow(G, N, A, K, j, t, x) => AckedNow(G, N, A, K, j, t, x)'
  BY <1>1, LogQuiet DEF Untouched
<1> QED BY <1>1

\* A leader goes on being one when its term, the end of its log and what it
\* knows of the others stay.
LEMMA LeaderStays ==
  ASSUME Known, Known', TermsGrow, elected' = elected,
         NEW G, NEW N, NEW A, NEW K, LogInv(G, N, A, K), NEW i \in Server,
         \A j \in Server : j # i => Untouched(j),
         \A t, x \in Nat : AckedNow(G, N, A, K, i, t, x) => AckedNow(G, N, A, K, i, t, x)',
         raftState[i] = Leader, currentTerm'[i] = currentTerm[i],
         LastLogIndex(i)' = LastLogIndex(i), LastLogTerm(i)' = LastLogTerm(i),
         commitIndex'[i] >= commitIndex[i],
         matchIndex'[i] = matchIndex[i], nextIndex'[i] = nextIndex[i]
  PROVE  LeaderNow(G, N, A, K, i)'
<1> USE DEF Known
<1>1. PICK T \in Nat : T = currentTerm[i]
  BY DEF TypeOK
<1>2. /\ LeadersLog(G, N, T, Entries(i), LastLogIndex(i))
      /\ K[T] <= commitIndex[i]
      /\ \A k \in Nat : Own(G, N, T, k) => k <= A[T][i]
      /\ \A n \in Server : AckedNow(G, N, A, K, n, T, matchIndex[i][n])
      /\ \A n \in Server \ {i} : SendableTo(i, n)
  BY <1>1 DEF LogInv, LeaderNow
<1>3. Entries(i)[LastLogIndex(i)].term = LastLogTerm(i)
      /\ Entries(i)'[LastLogIndex(i)'].term = LastLogTerm(i)'
  BY EntriesType, LogFactNext DEF LogFact
<1>4. LeadersLog(G, N, T, Entries(i)', LastLogIndex(i)')
  BY <1>2, <1>3 DEF LeadersLog
<1>5. K[T] <= commitIndex'[i]
  <2>1. K[T] \in Nat /\ commitIndex[i] \in Nat /\ commitIndex'[i] \in Nat
    BY DEF LogInv, Ghosts, TypeOK
  <2> QED BY <1>2, <2>1
<1>6. ASSUME NEW n \in Server PROVE AckedNow(G, N, A, K, n, T, matchIndex[i][n])'
  <2>1. PICK x \in Nat : x = matchIndex[i][n]
    BY DEF TypeOK
  <2>2. AckedNow(G, N, A, K, n, T, x)'
    BY <1>2, <2>1, AcksStay
  <2>3. matchIndex'[i][n] = x
    BY <2>1
  <2> QED BY <2>2, <2>3
<1>7. \A n \in Server \ {i} : SendableTo(i, n)'
  BY <1>2 DEF SendableTo
<1>8. T = currentTerm'[i]
  BY <1>1
<1> QED BY <1>2, <1>4, <1>5, <1>6, <1>7, <1>8 DEF LeaderNow

\* Peers of which nothing changes that the invariant speaks of; messages and
\* applied entries may be added.
LEMMA LogStutter ==
  ASSUME Known, Known', TermsGrow, UNCHANGED <<elected, votes>>,
         NEW G, NEW N, NEW A, NEW K, LogInv(G, N, A, K),
         \A j \in Server : Untouched(j),
         \A m \in appendRequests' \ appendRequests : AppendCallOK(G, N, K, m),
         \A m \in snapRequests' \ snapRequests : SnapCallOK(G, N, K, m),
         \A r \in appendReplies' \ appendReplies : AppendReplyOK(G, N, A, K, r)',
         \A r \in snapReplies' \ snapReplies : SnapReplyOK(G, N, A, K, r)',
         \A a \in applied' \ applied : AppliedOK(G, K, a)
  PROVE  LogInv(G, N, A, K)'
<1>1. PICK i \in Server : TRUE
  BY ServerAssumption
<1>2. /\ PeerNow(G, N, A, K, i)'
      /\ \A t, x \in Nat : AckedNow(G, N, A, K, i, t, x) => AckedNow(G, N, A, K, i, t, x)'
  BY LogQuiet DEF Untouched
<1>3. ASSUME NEW v \in Server, NEW c \in Server, VoteCounts(v, c)'
      PROVE  VoteOK(G, N, A, v, c)'
  <2>1. /\ currentTerm'[c] = currentTerm[c] /\ raftState'[c] = raftState[c]
        /\ Entries(c)' = Entries(c) /\ LastLogIndex(c)' = LastLogIndex(c)
        /\ Terms' = Terms
    BY SameEntries DEF Untouched, Terms
  <2>2. VoteCounts(v, c)
    BY <1>3, <2>1 DEF VoteCounts
  <2>3. VoteOK(G, N, A, v, c)
    BY <2>2 DEF LogInv
  <2> QED BY <2>1, <2>3 DEF VoteOK
<1>4. ASSUME raftState'[i] = Leader PROVE LeaderNow(G, N, A, K, i)'
  <2>1. LastLogIndex(i)' = LastLogIndex(i) /\ LastLogTerm(i)' = LastLogTerm(i)
    BY LogUntouched DEF Untouched
  <2>2. commitIndex'[i] >= commitIndex[i]
    BY DEF Untouched, Known, TypeOK
  <2> QED BY <1>2, <1>4, <2>1, <2>2, LeaderStays DEF Untouched
<1> QED BY <1>2, <1>3, <1>4, LogKept

\* The step down of a caller that gets a reply of a newer term.
LEMMA LogStepDown ==
  ASSUME Known, Known', TermsGrow, NEW G, NEW N, NEW A, NEW K, LogInv(G, N, A, K),
         NEW i \in Server, NEW term, UpdateTermAndBecomeFollower(i, term),
         UNCHANGED <<votes, elected, applied, applyVars, leaderVars, appendMsgs, snapMsgs>>
  PROVE  LogInv(G, N, A, K)'
<1>1. /\ raftState' = [raftState EXCEPT ![i] = Follower]
      /\ currentTerm' = [currentTerm EXCEPT ![i] = term]
      /\ UNCHANGED <<logs, snapshotIndex, commitIndex, lastApplied, matchIndex, nextIndex>>
      /\ UNCHANGED <<appendRequests, appendReplies, snapRequests, snapReplies>>
  BY DEF UpdateTermAndBecomeFollower, applyVars, leaderVars, appendMsgs, snapMsgs
<1>2. /\ raftState'[i] = Follower /\ Follower # Leader /\ Follower # Candidate
      /\ \A j \in Server : j # i => Untouched(j)
  BY <1>1 DEF Known, TypeOK, Untouched, Follower, Leader, Candidate
<1>3. /\ PeerNow(G, N, A, K, i)'
      /\ \A t, x \in Nat : AckedNow(G, N, A, K, i, t, x) => AckedNow(G, N, A, K, i, t, x)'
  BY <1>1, LogQuiet
<1>4. \A v, c \in Server :
        ~(VoteCounts(v, c)' /\ (c = i \/ <<currentTerm'[c], v, c>> \notin votes))
  BY <1>2 DEF VoteCounts
<1>5. /\ appendRequests' \ appendRequests = {} /\ snapRequests' \ snapRequests = {}
      /\ appendReplies' \ appendReplies = {} /\ snapReplies' \ snapReplies = {}
      /\ applied' \ applied = {}
  BY <1>1
<1> QED BY <1>2, <1>3, <1>4, <1>5, LogKept

\* startAElection: the candidate backs itself.
LEMMA LogElection ==
  ASSUME Known, Known', TermsGrow, NEW G, NEW N, NEW A, NEW K, LogInv(G, N, A, K),
         NEW i \in Server, StartAElection(i)
  PROVE  LogInv(G, N, A, K)'
<1> USE DEF Known
<1>1. /\ raftState' = [raftState EXCEPT ![i] = Candidate]
      /\ currentTerm' = [currentTerm EXCEPT ![i] = currentTerm[i] + 1]
      /\ UNCHANGED <<logs, snapshotIndex, commitIndex, lastApplied, matchIndex, nextIndex>>
      /\ UNCHANGED <<appendRequests, appendReplies, snapRequests, snapReplies>>
      /\ elected' = elected /\ applied' = applied
      /\ votes' = votes \cup {<<currentTerm[i] + 1, i, i>>}
  BY DEF StartAElection, applyVars, leaderVars, appendMsgs, snapMsgs
<1>2. PICK T \in Nat : T = currentTerm[i]
  BY DEF TypeOK
<1>3. /\ raftState'[i] = Candidate /\ currentTerm'[i] = T + 1 /\ Candidate # Leader
      /\ \A j \in Server : j # i => Untouched(j)
  BY <1>1, <1>2 DEF TypeOK, Untouched, Leader, Candidate
<1>4. /\ PeerNow(G, N, A, K, i)'
      /\ \A t, x \in Nat : AckedNow(G, N, A, K, i, t, x) => AckedNow(G, N, A, K, i, t, x)'
  BY <1>1, LogQuiet
<1>5. ASSUME NEW v \in Server, NEW c \in Server, VoteCounts(v, c)',
             c = i \/ <<currentTerm'[c], v, c>> \notin votes
      PROVE  VoteOK(G, N, A, v, c)'
  <2>1. <<currentTerm'[c], v, c>> \in votes'
    BY <1>5 DEF VoteCounts
  <2>2. <<T + 1, v, i>> \notin votes
    <3> SUFFICES ASSUME <<T + 1, v, i>> \in votes PROVE FALSE
      OBVIOUS
    <3>1. T + 1 <= currentTerm[i]
      BY DEF ElectInv, VotesArePast
    <3> QED BY <1>2, <3>1
  <2>3. c = i /\ v = i
    BY <1>1, <1>2, <1>3, <1>5, <2>1, <2>2
  <2>4. Kept(G, N, A, Terms, i, Entries(i), LastLogIndex(i), T)
    BY <1>2 DEF LogInv, PeerNow, PeerOK
  <2>5. (T + 1) - 1 = T
    OBVIOUS
  <2>6. BacksLog(G, N, A, Terms, i, T + 1, Entries(i), LastLogIndex(i))
    BY <2>4, <2>5 DEF Kept, BacksLog
  <2>7. Terms' = Terms /\ Entries(i)' = Entries(i) /\ LastLogIndex(i)' = LastLogIndex(i)
    BY <1>1, SameEntries DEF Terms
  <2> QED BY <1>3, <2>3, <2>6, <2>7 DEF VoteOK
<1>6. /\ appendRequests' \ appendRequests = {} /\ snapRequests' \ snapRequests = {}
      /\ appendReplies' \ appendReplies = {} /\ snapReplies' \ snapReplies = {}
      /\ applied' \ applied = {}
  BY <1>1
<1> QED BY <1>1, <1>3, <1>4, <1>5, <1>6, LogKept

\* RequestVote: a voter backs the candidate.
LEMMA LogVote ==
  ASSUME Known, Known', TermsGrow, NEW G, NEW N, NEW A, NEW K, LogInv(G, N, A, K),
         NEW m \in voteRequests, RequestVote(m)
  PROVE  LogInv(G, N, A, K)'
<1> USE DEF Known
<1>0. m.to \in Server /\ m.from \in Server /\ m.term \in Nat
  BY DEF TypeOK, VoteArgs
<1>1. PICK i \in Server : i = m.to
  BY <1>0
<1>2. /\ currentTerm' = [currentTerm EXCEPT ![i] =
           IF m.term > currentTerm[i] THEN m.term ELSE @]
      /\ raftState' = [raftState EXCEPT ![i] =
           IF m.term > currentTerm[i] THEN Follower ELSE @]
      /\ UNCHANGED <<logs, snapshotIndex, commitIndex, lastApplied, matchIndex, nextIndex>>
      /\ UNCHANGED <<appendRequests, appendReplies, snapRequests, snapReplies>>
      /\ elected' = elected /\ applied' = applied
      /\ votes' = IF GrantsVote(i, m) THEN votes \cup {<<m.term, i, m.from>>} ELSE votes
  BY <1>1 DEF RequestVote, applyVars, leaderVars, appendMsgs, snapMsgs
<1>3. /\ Follower # Leader /\ Follower # Candidate
      /\ raftState \in [Server -> {Leader, Candidate, Follower}]
      /\ currentTerm \in [Server -> Nat]
  BY DEF TypeOK, Follower, Leader, Candidate
<1>4. /\ \A j \in Server : j # i => Untouched(j)
      /\ raftState'[i] # Follower =>
           raftState'[i] = raftState[i] /\ currentTerm'[i] = currentTerm[i]
  <2>1. CASE m.term > currentTerm[i]
    BY <1>2, <1>3, <2>1 DEF Untouched
  <2>2. CASE ~(m.term > currentTerm[i])
    BY <1>2, <1>3, <2>2 DEF Untouched
  <2> QED BY <2>1, <2>2
<1>5. /\ PeerNow(G, N, A, K, i)'
      /\ \A t, x \in Nat : AckedNow(G, N, A, K, i, t, x) => AckedNow(G, N, A, K, i, t, x)'
  BY <1>2, LogQuiet
<1>6. ASSUME raftState'[i] = Leader PROVE LeaderNow(G, N, A, K, i)'
  <2>1. raftState[i] = Leader /\ currentTerm'[i] = currentTerm[i]
    BY <1>3, <1>4, <1>6
  <2>2. LastLogIndex(i)' = LastLogIndex(i) /\ LastLogTerm(i)' = LastLogTerm(i)
    BY <1>2, LogUntouched
  <2>3. commitIndex'[i] >= commitIndex[i]
    BY <1>2 DEF TypeOK
  <2> QED BY <1>2, <1>4, <1>5, <2>1, <2>2, <2>3, LeaderStays
<1>7. m.to # m.from /\ VoteCallOK(m)
  BY DEF ElectInv, VoteCallOK
<1>8. ASSUME NEW v \in Server, NEW c \in Server, VoteCounts(v, c)',
             c = i \/ <<currentTerm'[c], v, c>> \notin votes
      PROVE  VoteOK(G, N, A, v, c)'
  <2>1. <<currentTerm'[c], v, c>> \in votes' /\ raftState'[c] = Candidate
        /\ currentTerm'[c] \notin Terms
    BY <1>2, <1>8 DEF VoteCounts, Terms
  <2>2. raftState[c] = Candidate /\ currentTerm'[c] = currentTerm[c]
    BY <1>3, <1>4, <2>1 DEF Untouched
  <2>3. Terms' = Terms /\ Entries(c)' = Entries(c) /\ LastLogIndex(c)' = LastLogIndex(c)
    BY <1>2, SameEntries DEF Terms
  <2>4. CASE <<currentTerm'[c], v, c>> \in votes
    <3>1. VoteOK(G, N, A, v, c)
      BY <2>1, <2>2, <2>4 DEF VoteCounts, LogInv
    <3> QED BY <2>2, <2>3, <3>1 DEF VoteOK
  <2>5. CASE <<currentTerm'[c], v, c>> \notin votes
    <3>1. GrantsVote(i, m) /\ currentTerm[c] = m.term /\ v = i /\ c = m.from
      BY <1>2, <2>1, <2>2, <2>5
    <3>2. m.term >= currentTerm[i] /\ UpToDate(i, m)
      <4>1. ASSUME ~(m.term > currentTerm[i]), m.term >= currentTerm[i], voteFor[i] = m.from
            PROVE  FALSE
        <5>1. m.term = currentTerm[i]
          BY <1>0, <1>3, <4>1
        <5>2. voteFor[i] # None
          BY <1>0, <4>1, NoneAssumption
        <5>3. <<m.term, i, m.from>> \in votes
          BY <4>1, <5>1, <5>2 DEF ElectInv, VoteIsRecorded
        <5> QED BY <2>2, <2>5, <3>1, <5>3
      <4>2. None # m.from
        BY <1>0, NoneAssumption
      <4> QED BY <3>1, <4>1, <4>2 DEF GrantsVote
    <3>3. m.lastLogIndex = LastLogIndex(c) /\ m.lastLogTerm = LastLogTerm(c)
      BY <1>7, <2>1, <2>2, <3>1 DEF VoteCallOK
    <3>4. /\ IsLog(Entries(i), snapshotIndex[i], LastLogIndex(i))
          /\ Entries(i)[LastLogIndex(i)].term = LastLogTerm(i)
          /\ IsLog(Entries(c), snapshotIndex[c], LastLogIndex(c))
          /\ Entries(c)[LastLogIndex(c)].term = LastLogTerm(c)
      BY EntriesType
    <3>5. /\ Kept(G, N, A, Terms, i, Entries(i), LastLogIndex(i), currentTerm[i])
          /\ Branch(G, N, K, Entries(c), snapshotIndex[c], LastLogIndex(c), m.term)
      BY <3>1 DEF LogInv, PeerNow, PeerOK
    <3>6. /\ m.term \notin Terms /\ currentTerm[i] <= m.term /\ currentTerm[i] \in Nat
          /\ Ghosts(G, N, A, K, Terms)
      BY <1>0, <1>3, <2>1, <2>2, <3>1, <3>2 DEF LogInv
    <3>7. \/ Entries(c)[LastLogIndex(c)].term > Entries(i)[LastLogIndex(i)].term
          \/ /\ Entries(c)[LastLogIndex(c)].term = Entries(i)[LastLogIndex(i)].term
             /\ LastLogIndex(c) >= LastLogIndex(i)
      BY <3>2, <3>3, <3>4 DEF UpToDate
    <3>8. BacksLog(G, N, A, Terms, i, m.term, Entries(c), LastLogIndex(c))
      BY <1>0, <3>4, <3>5, <3>6, <3>7, UpToDateBacks
    <3> QED BY <2>2, <2>3, <3>1, <3>8 DEF VoteOK
  <2> QED BY <2>4, <2>5
<1>9. /\ appendRequests' \ appendRequests = {} /\ snapRequests' \ snapRequests = {}
      /\ appendReplies' \ appendReplies = {} /\ snapReplies' \ snapReplies = {}
      /\ applied' \ applied = {}
  BY <1>2
<1> QED BY <1>2, <1>4, <1>5, <1>6, <1>8, <1>9, LogKept

\* The voters of a candidate back the leader it becomes.
LEMMA ElectBacks ==
  ASSUME NEW G, NEW N, NEW A, NEW K, NEW E, Ghosts(G, N, A, K, E),
         NEW U \in Nat, U >= 1, U \notin E, NEW f, NEW s, NEW n, IsLog(f, s, n),
         Branch(G, N, K, f, s, n, U),
         NEW H, NEW M, Elects(G, N, U, f, n, H, M),
         NEW v \in Server, BacksLog(G, N, A, E, v, U, f, n)
  PROVE  Backs(H, M, A, E \cup {U}, v, U)
<1> SUFFICES ASSUME NEW t \in Nat, NEW k \in Nat, t < U, Own(H, M, t, k), k <= A[t][v]
             PROVE  Same(H, M, U, t, k) \/ Lost(H, M, E \cup {U}, t, k, U - 1)
  BY DEF Backs
<1>1. PICK w \in Nat : w = f[n].term
  BY LogFacts
<1>2. /\ Later(G, N, A, K, E, H, M, A, K, E \cup {U})
      /\ H[U] = G[w] /\ M[U] = n
      /\ \A u \in Nat : u # U => H[u] = G[u] /\ M[u] = N[u]
  <2>1. /\ Later(G, N, A, K, E, H, M, A, K, E \cup {U})
        /\ OneMoreLog(G, N, A, K, U, f, n, H, M)
    BY ElectGrows
  <2> QED BY <1>1, <2>1 DEF OneMoreLog
<1>3. H[t] = G[t] /\ M[t] = N[t] /\ N[t] \in Nat
  BY <1>2 DEF Ghosts
<1>4. Own(G, N, t, k)
  BY <1>3 DEF Own
<1>5. Holds(G, N, f, n, t, k) \/ Lost(G, N, E, t, k, U - 1)
  BY <1>4 DEF BacksLog
<1>6. ASSUME Holds(G, N, f, n, t, k) PROVE Same(H, M, U, t, k)
  <2>1. k <= n /\ k <= N[t] /\ \A l \in 1 .. k : G[w][l] = G[t][l]
    BY <1>1, <1>6 DEF Holds, Same
  <2> QED BY <1>2, <1>3, <2>1 DEF Same
<1>7. ASSUME Lost(G, N, E, t, k, U - 1) PROVE Lost(H, M, E \cup {U}, t, k, U - 1)
  <2>1. k \in 1 .. N[t] /\ U - 1 \in Nat
    BY <1>4 DEF Own
  <2> QED BY <1>2, <1>7, <2>1, LaterLost
<1> QED BY <1>5, <1>6, <1>7

\* becomeLeader: the log of the candidate becomes the log of its term.
LEMMA LogBecomeLeader ==
  ASSUME Known, Known', TermsGrow, NEW G, NEW N, NEW A, NEW K, LogInv(G, N, A, K),
         NEW i \in Server, raftState[i] = Candidate, BecomeLeader(i),
         UNCHANGED <<votes, applied, applyVars, appendMsgs, snapMsgs>>
  PROVE  LogSafe'
<1> USE DEF Known
<1>1. /\ raftState' = [raftState EXCEPT ![i] = Leader]
      /\ nextIndex' = [nextIndex EXCEPT ![i] = [j \in Server |-> LastLogIndex(i) + 1]]
      /\ matchIndex' = [matchIndex EXCEPT ![i] = InitialMatch(i)]
      /\ elected' = elected \cup {<<currentTerm[i], i>>}
      /\ UNCHANGED <<currentTerm, logs, snapshotIndex, commitIndex, lastApplied>>
      /\ UNCHANGED <<votes, applied, appendRequests, appendReplies, snapRequests, snapReplies>>
  BY DEF BecomeLeader, applyVars, appendMsgs, snapMsgs
<1>2. PICK U \in Nat : U = currentTerm[i]
  BY DEF TypeOK
<1>3. U >= 1 /\ <<U, i>> \notin elected
  BY <1>2 DEF ElectInv, CandidateIsFresh
<1>4. U \notin Terms
  <2> SUFFICES ASSUME NEW e \in elected, e[1] = U PROVE FALSE
    BY DEF Terms
  <2>1. e \in elected' /\ <<U, i>> \in elected'
    BY <1>1, <1>2
  <2>2. e[2] = i
    BY <2>1 DEF ElectionSafety
  <2>3. e = <<U, i>>
    <3>1. elected \subseteq Nat \X Server
      BY DEF TypeOK
    <3>2. e = <<e[1], e[2]>>
      BY <3>1
    <3> QED BY <2>2, <3>2
  <2> QED BY <1>3, <2>3
<1>5. Terms' = Terms \cup {U}
  <2>1. elected' = elected \cup {<<U, i>>} /\ <<U, i>>[1] = U
    BY <1>1, <1>2
  <2>2. ASSUME NEW x PROVE x \in Terms' <=> x \in Terms \cup {U}
    BY <2>1 DEF Terms
  <2> QED BY <2>2
<1>6. PICK f, s, n : f = Entries(i) /\ s = snapshotIndex[i] /\ n = LastLogIndex(i)
  OBVIOUS
<1>7. IsLog(f, s, n) /\ Ghosts(G, N, A, K, Terms) /\ n \in Nat /\ s \in Nat /\ s <= n
  BY <1>6, EntriesType, LogFacts DEF LogInv
<1>8. Branch(G, N, K, f, s, n, U)
  BY <1>2, <1>6 DEF LogInv, PeerNow, PeerOK
<1>9. PICK w \in Nat : w = f[n].term
  BY <1>7, LogFacts
<1>10. PICK H, M : Elects(G, N, U, f, n, H, M)
  BY DEF Elects
<1>11. /\ Later(G, N, A, K, Terms, H, M, A, K, Terms \cup {U})
       /\ H[U] = G[w] /\ M[U] = n
       /\ \A t \in Nat : t # U => H[t] = G[t] /\ M[t] = N[t]
       /\ \A k \in Nat : ~Own(H, M, U, k)
       /\ K[U] = 0
  <2>1. /\ Later(G, N, A, K, Terms, H, M, A, K, Terms \cup {U})
        /\ OneMoreLog(G, N, A, K, U, f, n, H, M)
    BY <1>4, <1>7, <1>8, <1>10, ElectGrows
  <2> QED BY <1>9, <2>1 DEF OneMoreLog
<1>21. Later(G, N, A, K, Terms, H, M, A, K, Terms')
  BY <1>5, <1>11
<1>12. Commits(H, M, A, K)
  BY <1>21, LaterCommits DEF LogInv
<1>13. \A j \in Server : j # i => Untouched(j)
  BY <1>1 DEF TypeOK, Untouched
<1>14. /\ PeerNow(H, M, A, K, i)'
       /\ \A t, x \in Nat : AckedNow(G, N, A, K, i, t, x) => AckedNow(H, M, A, K, i, t, x)'
  BY <1>1, <1>21, QuietPeer DEF LogInv
<1>15. ASSUME NEW e \in elected' \ elected PROVE ChosenIn(H, M, A, e[1])'
  <2>1. e = <<U, i>>
    BY <1>1, <1>2
  <2>2. PICK Q \in SUBSET Server : Q = VotersFor(U, i)
    BY DEF VotersFor
  <2>3. IsMajority(Cardinality(Q))
    <3>1. VotersFor(U, i)' = Q /\ e \in elected' /\ e[1] = U /\ e[2] = i
      BY <1>1, <2>1, <2>2 DEF VotersFor
    <3>2. 2 * Cardinality(Q) > Cardinality(Server)
      BY <3>1 DEF QuorumInv, LeaderHasQuorum
    <3>3. Cardinality(Q) \in Nat /\ Cardinality(Server) \in Nat
      BY CardinalityMonotone, ServerAssumption, FS_CardinalityType
    <3> QED BY <3>2, <3>3 DEF IsMajority
  <2>4. ASSUME NEW v \in Q
        PROVE  U <= currentTerm'[v] /\ Backs(H, M, A, Terms', v, U)
    <3>1. v \in Server /\ <<U, v, i>> \in votes
      BY <2>2 DEF VotersFor
    <3>2. U <= currentTerm'[v]
      BY <1>1, <3>1 DEF ElectInv, VotesArePast
    <3>3. VoteCounts(v, i)
      BY <1>2, <1>4, <3>1 DEF VoteCounts
    <3>4. BacksLog(G, N, A, Terms, v, U, f, n)
      BY <1>2, <1>6, <3>1, <3>3 DEF LogInv, VoteOK
    <3>5. Backs(H, M, A, Terms', v, U)
      BY <1>3, <1>4, <1>5, <1>7, <1>8, <1>10, <3>1, <3>4, ElectBacks
    <3> QED BY <3>2, <3>5
  <2>5. IsMajority(Cardinality(Q))'
    BY <2>3 DEF IsMajority
  <2> QED BY <2>1, <2>4, <2>5 DEF ChosenIn
<1>16. \A v, c \in Server :
         ~(VoteCounts(v, c)' /\ (c = i \/ <<currentTerm'[c], v, c>> \notin votes))
  BY <1>1, <1>2, <1>5 DEF VoteCounts
<1>17. LeaderNow(H, M, A, K, i)'
  <2>1. Entries(i)' = f /\ LastLogIndex(i)' = n /\ snapshotIndex'[i] = s
        /\ currentTerm'[i] = U
    BY <1>1, <1>2, <1>6, SameEntries
  <2>2. n > 0 => G[w][n].term = w
    BY <1>8, <1>9 DEF Branch
  <2>3. LeadersLog(H, M, U, f, n)
    BY <1>9, <1>11, <2>2 DEF LeadersLog
  <2>4. K[U] <= commitIndex'[i]
    BY <1>1, <1>11 DEF TypeOK
  <2>5. ASSUME NEW j \in Server PROVE AckedNow(H, M, A, K, j, U, matchIndex[i][j])'
    <3>1. matchIndex'[i][j] = IF j = i THEN n ELSE 0
      BY <1>1, <1>6 DEF TypeOK, InitialMatch
    <3>2. CASE j = i
      <4>1. \A k \in s + 1 .. n : f[k] = H[U][k]
        BY <1>8, <1>9, <1>11 DEF Branch
      <4>2. \A k \in 1 .. n : ~Own(H, M, U, k)
        BY <1>11
      <4>3. Acked(H, M, A, K, i, U, n, f, s, n, U)
        BY <1>7, <1>11, <4>1, <4>2 DEF Acked
      <4> QED BY <2>1, <3>1, <3>2, <4>3 DEF AckedNow
    <3>3. CASE j # i
      <4>1. snapshotIndex'[j] \in Nat /\ LastLogIndex(j)' \in Nat
        BY LogFactNext DEF LogFact, IsLog
      <4>2. snapshotIndex'[j] + 1 .. 0 = {} /\ 1 .. 0 = {} /\ 0 <= LastLogIndex(j)'
        BY <4>1
      <4>3. M[U] \in Nat
        BY <1>7, <1>11
      <4>4. Acked(H, M, A, K, j, U, 0, Entries(j)', snapshotIndex'[j], LastLogIndex(j)',
                  currentTerm'[j])
        BY <4>2, <4>3 DEF Acked
      <4> QED BY <3>1, <3>3, <4>4 DEF AckedNow
    <3> QED BY <3>2, <3>3
  <2>6. ASSUME NEW j \in Server PROVE SendableTo(i, j)'
    <3>1. nextIndex'[i][j] = n + 1
      BY <1>1, <1>6 DEF TypeOK
    <3> QED BY <1>7, <2>1, <3>1 DEF SendableTo
  <2> QED BY <1>11, <2>1, <2>3, <2>4, <2>5, <2>6 DEF LeaderNow
<1>18. /\ appendRequests' \ appendRequests = {} /\ snapRequests' \ snapRequests = {}
       /\ appendReplies' \ appendReplies = {} /\ snapReplies' \ snapReplies = {}
       /\ applied' \ applied = {} /\ elected \subseteq elected'
  BY <1>1
<1>19. \A t \in Nat : (M[t] = N[t] /\ K[t] = K[t]) \/ <<t, i>> \in elected'
  BY <1>1, <1>2, <1>11
<1>20. LogInv(H, M, A, K)'
  BY <1>21, <1>12, <1>13, <1>14, <1>15, <1>16, <1>17, <1>18, <1>19, LogFrame
<1> QED BY <1>20 DEF LogSafe

\* The replies to RequestVote.
LEMMA LogVoteReply ==
  ASSUME Known, Known', TermsGrow, NEW G, NEW N, NEW A, NEW K, LogInv(G, N, A, K),
         NEW r \in voteReplies, HandleVoteReply(r)
  PROVE  LogSafe'
<1>1. PICK i \in Server : i = r.args.from
  BY DEF Known, TypeOK, VoteArgs
<1>2. UNCHANGED <<applyVars, appendMsgs, snapMsgs, votes, applied>>
  BY DEF HandleVoteReply
<1>3. CASE ReplyFromNewerTerm(i, r) /\ UNCHANGED <<leaderVars, elected>>
  <2>1. UpdateTermAndBecomeFollower(i, r.term)
    BY <1>3 DEF ReplyFromNewerTerm
  <2>2. LogInv(G, N, A, K)'
    BY <1>2, <1>3, <2>1, LogStepDown
  <2> QED BY <2>2 DEF LogSafe
<1>4. CASE Counting(i, r) /\ BecomeLeader(i)
  BY <1>2, <1>4, LogBecomeLeader DEF Counting
<1>5. CASE UNCHANGED <<raftState, persistVars, leaderVars, elected>>
  <2>1. /\ \A j \in Server : Untouched(j)
        /\ appendRequests' \ appendRequests = {} /\ snapRequests' \ snapRequests = {}
        /\ appendReplies' \ appendReplies = {} /\ snapReplies' \ snapReplies = {}
        /\ applied' \ applied = {}
    BY <1>2, <1>5 DEF Untouched, persistVars, leaderVars, applyVars, appendMsgs, snapMsgs
  <2>2. LogInv(G, N, A, K)'
    BY <1>2, <1>5, <2>1, LogStutter
  <2> QED BY <2>2 DEF LogSafe
<1> QED BY <1>1, <1>3, <1>4, <1>5 DEF HandleVoteReply, CountVote

\* Start adds one entry behind the log.
LEMMA StartedLog ==
  ASSUME TypeOK, NEW i \in Server, NEW e \in LogEntry,
         logs'[i] = Append(logs[i], e), snapshotIndex'[i] = snapshotIndex[i]
  PROVE  /\ LastLogIndex(i)' = LastLogIndex(i) + 1
         /\ Entries(i)'[LastLogIndex(i) + 1] = e
         /\ \A k \in snapshotIndex[i] .. LastLogIndex(i) : Entries(i)'[k] = Entries(i)[k]
<1>1. logs[i] \in Seq(LogEntry) /\ snapshotIndex[i] \in Nat
  BY LogTypes
<1>2. PICK s \in Nat, z \in Nat : s = snapshotIndex[i] /\ z = Len(logs[i])
  BY <1>1
<1>3. /\ Len(logs'[i]) = z + 1 /\ logs'[i][z + 1] = e
      /\ \A k \in 1 .. z : logs'[i][k] = logs[i][k]
  BY <1>1, <1>2, AppendProperties
<1>4. LastLogIndex(i) = z - 1 + s /\ LastLogIndex(i)' = z + 1 - 1 + s
  BY <1>2, <1>3 DEF LastLogIndex
<1>5. LastLogIndex(i)' = LastLogIndex(i) + 1 /\ LastLogIndex(i) + 1 = z + s
  BY <1>4
<1>6. ASSUME NEW k \in s .. z + s PROVE Entries(i)'[k] = logs'[i][k - s + 1]
  BY <1>2, <1>4, <1>5, <1>6 DEF Entries, Log, Slot
<1>7. ASSUME NEW k \in s .. z - 1 + s PROVE Entries(i)[k] = logs[i][k - s + 1]
  BY <1>2, <1>4, <1>7 DEF Entries, Log, Slot
<1>8. PICK y : y = z + s /\ y \in s .. z + s /\ y - s + 1 = z + 1
  OBVIOUS
<1>9. \A k \in s .. z - 1 + s : k \in s .. z + s /\ k - s + 1 \in 1 .. z
  BY <1>2
<1>10. Entries(i)'[y] = e
  BY <1>3, <1>6, <1>8
<1>11. \A k \in s .. z - 1 + s : Entries(i)'[k] = Entries(i)[k]
  BY <1>3, <1>6, <1>7, <1>9
<1> QED BY <1>2, <1>4, <1>5, <1>8, <1>10, <1>11

\* The leader of term T: what it knows in one place.
LEMMA LeaderFacts ==
  ASSUME Known, NEW G, NEW N, NEW A, NEW K, LogInv(G, N, A, K), NEW i \in Server,
         raftState[i] = Leader, NEW T, T = currentTerm[i]
  PROVE  /\ T \in Nat /\ T >= 1 /\ T \in Terms /\ <<T, i>> \in elected
         /\ Complete(G, N, K, T)
         /\ LeadersLog(G, N, T, Entries(i), LastLogIndex(i))
         /\ K[T] <= commitIndex[i] /\ N[T] = LastLogIndex(i)
         /\ \A k \in Nat : Own(G, N, T, k) => k <= A[T][i]
         /\ \A j \in Server : AckedNow(G, N, A, K, j, T, matchIndex[i][j])
         /\ \A j \in Server \ {i} : SendableTo(i, j)
         /\ \A k \in snapshotIndex[i] + 1 .. LastLogIndex(i) : Entries(i)[k] = G[T][k]
         /\ \A k \in snapshotIndex[i] .. LastLogIndex(i) :
              Entries(i)[k].term = IF k = 0 THEN 0 ELSE G[T][k].term
<1> USE DEF Known
<1>1. T \in Nat /\ <<T, i>> \in elected
  BY DEF TypeOK, HintInv, LeadersAreElected
<1>2. T >= 1
  BY <1>1 DEF ElectInv, ElectedArePast
<1>3. T \in Terms
  BY <1>1 DEF Terms
<1>4. Complete(G, N, K, T)
  BY <1>3, LeadersComplete
<1>5. LeaderNow(G, N, A, K, i)
  BY DEF LogInv
<1>6. /\ LeadersLog(G, N, T, Entries(i), LastLogIndex(i))
      /\ K[T] <= commitIndex[i]
      /\ \A k \in Nat : Own(G, N, T, k) => k <= A[T][i]
      /\ \A j \in Server : AckedNow(G, N, A, K, j, T, matchIndex[i][j])
      /\ \A j \in Server \ {i} : SendableTo(i, j)
  BY <1>5 DEF LeaderNow
<1>7. IsLog(Entries(i), snapshotIndex[i], LastLogIndex(i))
  BY EntriesType
<1>8. /\ Branch(G, N, K, Entries(i), snapshotIndex[i], LastLogIndex(i), T)
      /\ Ghosts(G, N, A, K, Terms)
  BY DEF LogInv, PeerNow, PeerOK
<1>9. /\ \A k \in snapshotIndex[i] + 1 .. LastLogIndex(i) : Entries(i)[k] = G[T][k]
      /\ \A k \in snapshotIndex[i] .. LastLogIndex(i) :
           Entries(i)[k].term = IF k = 0 THEN 0 ELSE G[T][k].term
  BY <1>1, <1>4, <1>6, <1>7, <1>8, LeaderEntries
<1> QED BY <1>1, <1>2, <1>3, <1>4, <1>6, <1>9 DEF LeadersLog

\* Start: the leader's log grows.
LEMMA LogStart ==
  ASSUME Known, Known', TermsGrow, NEW G, NEW N, NEW A, NEW K, LogInv(G, N, A, K),
         NEW i \in Server, NEW cmd \in Command, Start(i, cmd)
  PROVE  LogSafe'
<1> USE DEF Known
<1>1. /\ logs' = [logs EXCEPT ![i] = Started(i, cmd)] /\ raftState[i] = Leader
      /\ UNCHANGED <<currentTerm, raftState, snapshotIndex, commitIndex, lastApplied>>
      /\ UNCHANGED <<nextIndex, matchIndex, votes, elected, applied>>
      /\ UNCHANGED <<appendRequests, appendReplies, snapRequests, snapReplies>>
  BY DEF Start, electionVars, applyVars, leaderVars, appendMsgs, snapMsgs, historyVars
<1>2. PICK T : T = currentTerm[i]
  OBVIOUS
<1>3. PICK f, s, n : f = Entries(i) /\ s = snapshotIndex[i] /\ n = LastLogIndex(i)
  OBVIOUS
<1>4. /\ T \in Nat /\ T >= 1 /\ T \in Terms /\ <<T, i>> \in elected
      /\ LeadersLog(G, N, T, f, n) /\ K[T] <= commitIndex[i] /\ N[T] = n
      /\ \A k \in Nat : Own(G, N, T, k) => k <= A[T][i]
      /\ \A j \in Server : AckedNow(G, N, A, K, j, T, matchIndex[i][j])
      /\ \A j \in Server \ {i} : SendableTo(i, j)
  BY <1>1, <1>2, <1>3, LeaderFacts
<1>5. PICK e \in LogEntry : e = [term |-> T, cmd |-> cmd] /\ e.term = T
  <2>1. [term |-> T, cmd |-> cmd] \in LogEntry /\ [term |-> T, cmd |-> cmd].term = T
    BY <1>4 DEF LogEntry
  <2> QED BY <2>1
<1>6. logs'[i] = Append(logs[i], e)
  BY <1>1, <1>2, <1>5 DEF TypeOK, Started
<1>7. PICK g : g = Entries(i)'
  OBVIOUS
<1>8. /\ LastLogIndex(i)' = n + 1 /\ g[n + 1] = e
      /\ \A k \in s .. n : g[k] = f[k]
  BY <1>1, <1>3, <1>6, <1>7, StartedLog
<1>9. IsLog(f, s, n) /\ IsLog(g, s, n + 1)
  BY <1>1, <1>3, <1>7, <1>8, EntriesType, LogFactNext DEF LogFact
<1>10. Ghosts(G, N, A, K, Terms) /\ n \in Nat /\ Terms' = Terms
  BY <1>1, <1>9, LogFacts DEF LogInv, Terms
<1>11. PICK H, M, B : Appends(G, N, A, T, i, n, e, H, M, B)
  BY DEF Appends
<1>12. /\ Later(G, N, A, K, Terms, H, M, B, K, Terms')
       /\ H[T][n + 1] = e /\ M[T] = n + 1 /\ B[T][i] = n + 1
       /\ \A t \in Nat : t # T => M[t] = N[t] /\ B[t] = A[t]
       /\ \A j \in Server : j # i => B[T][j] = A[T][j]
  BY <1>4, <1>5, <1>10, <1>11, AppendGrows
<1>13. commitIndex[i] \in Nat /\ PeerOK(G, N, A, K, Terms, i, f, s, n, T, commitIndex[i])
  BY <1>2, <1>3 DEF TypeOK, LogInv, PeerNow
<1>14. /\ PeerOK(H, M, B, K, Terms, i, g, s, n + 1, T, commitIndex[i])
       /\ \A t, y \in Nat : Acked(G, N, A, K, i, t, y, f, s, n, T) =>
                            Acked(H, M, B, K, i, t, y, g, s, n + 1, T)
  BY <1>4, <1>5, <1>8, <1>9, <1>10, <1>11, <1>13, StartPeer
<1>15. PeerNow(H, M, B, K, i)'
  <2>1. snapshotIndex[i] <= lastApplied[i] /\ lastApplied[i] <= commitIndex[i]
    BY DEF LogInv, PeerNow
  <2> QED BY <1>1, <1>2, <1>3, <1>7, <1>8, <1>10, <1>14, <2>1 DEF PeerNow
<1>16. \A t, x \in Nat : AckedNow(G, N, A, K, i, t, x) => AckedNow(H, M, B, K, i, t, x)'
  BY <1>1, <1>2, <1>3, <1>7, <1>8, <1>14 DEF AckedNow
<1>17. Commits(H, M, B, K)
  BY <1>12, LaterCommits DEF LogInv
<1>18. \A j \in Server : j # i => Untouched(j)
  BY <1>1 DEF TypeOK, Untouched
<1>19. \A j \in Server : \A t, x \in Nat :
         AckedNow(G, N, A, K, j, t, x) => AckedNow(H, M, B, K, j, t, x)'
  <2>1. ASSUME NEW j \in Server, j # i
        PROVE  \A t, x \in Nat : AckedNow(G, N, A, K, j, t, x) => AckedNow(H, M, B, K, j, t, x)'
    BY <1>12, <1>18, <2>1, QuietPeer DEF Untouched
  <2> QED BY <1>16, <2>1
<1>20. LeaderNow(H, M, B, K, i)'
  <2>1. LeadersLog(H, M, T, g, n + 1)
    BY <1>5, <1>8, <1>12 DEF LeadersLog
  <2>2. ASSUME NEW k \in Nat, Own(H, M, T, k) PROVE k <= B[T][i]
    BY <1>12, <2>2 DEF Own
  <2>3. ASSUME NEW j \in Server PROVE AckedNow(H, M, B, K, j, T, matchIndex[i][j])'
    <3>1. PICK x \in Nat : x = matchIndex[i][j]
      BY DEF TypeOK
    <3>2. AckedNow(H, M, B, K, j, T, x)'
      BY <1>4, <1>19, <3>1
    <3>3. matchIndex'[i][j] = x
      BY <1>1, <3>1
    <3> QED BY <3>2, <3>3
  <2>4. ASSUME NEW j \in Server \ {i} PROVE SendableTo(i, j)'
    <3>1. nextIndex[i][j] \in 1 .. n + 1
      BY <1>3, <1>4 DEF SendableTo
    <3>2. nextIndex[i][j] \in 1 .. (n + 1) + 1
      BY <1>10, <3>1
    <3> QED BY <1>1, <1>8, <3>2 DEF SendableTo
  <2>5. currentTerm'[i] = T /\ Entries(i)' = g /\ LastLogIndex(i)' = n + 1
        /\ K[T] <= commitIndex'[i]
    BY <1>1, <1>2, <1>4, <1>7, <1>8
  <2> QED BY <2>1, <2>2, <2>3, <2>4, <2>5 DEF LeaderNow
<1>21. \A v, c \in Server :
         ~(VoteCounts(v, c)' /\ (c = i \/ <<currentTerm'[c], v, c>> \notin votes))
  BY <1>1 DEF VoteCounts, Leader, Candidate
<1>22. /\ appendRequests' \ appendRequests = {} /\ snapRequests' \ snapRequests = {}
       /\ appendReplies' \ appendReplies = {} /\ snapReplies' \ snapReplies = {}
       /\ applied' \ applied = {} /\ elected' \ elected = {} /\ elected \subseteq elected'
  BY <1>1
<1>23. /\ \A t \in Nat, j \in Server : j # i => B[t][j] = A[t][j]
       /\ \A t \in Nat : B[t][i] = A[t][i] \/ t = currentTerm'[i]
       /\ \A t \in Nat : (M[t] = N[t] /\ K[t] = K[t]) \/ <<t, i>> \in elected'
  BY <1>1, <1>2, <1>4, <1>12
<1>24. LogInv(H, M, B, K)'
  BY <1>12, <1>15, <1>16, <1>17, <1>18, <1>20, <1>21, <1>22, <1>23, LogFrame
<1> QED BY <1>24 DEF LogSafe

\* No message is added.
SameMessages ==
  /\ appendRequests' = appendRequests /\ appendReplies' = appendReplies
  /\ snapRequests' = snapRequests /\ snapReplies' = snapReplies

\* A step of peer i that casts no vote and sends nothing.
LEMMA LogSilent ==
  ASSUME Known, Known', TermsGrow, UNCHANGED <<elected, votes>>, SameMessages,
         NEW G, NEW N, NEW A, NEW K, LogInv(G, N, A, K),
         NEW i \in Server, \A j \in Server : j # i => Untouched(j),
         PeerNow(G, N, A, K, i)',
         \A t, x \in Nat : AckedNow(G, N, A, K, i, t, x) => AckedNow(G, N, A, K, i, t, x)',
         raftState'[i] = Candidate =>
           /\ raftState[i] = Candidate /\ currentTerm'[i] = currentTerm[i]
           /\ LastLogIndex(i)' = LastLogIndex(i)
           /\ LastLogTerm(i)' = LastLogTerm(i),
         raftState'[i] = Leader => LeaderNow(G, N, A, K, i)',
         \A a \in applied' \ applied : AppliedOK(G, K, a)
  PROVE  LogInv(G, N, A, K)'
<1> USE DEF Known
<1>1. /\ appendRequests' \ appendRequests = {} /\ snapRequests' \ snapRequests = {}
      /\ appendReplies' \ appendReplies = {} /\ snapReplies' \ snapReplies = {}
  BY DEF SameMessages
<1>2. ASSUME NEW v \in Server, NEW c \in Server, VoteCounts(v, c)',
             c = i \/ <<currentTerm'[c], v, c>> \notin votes
      PROVE  VoteOK(G, N, A, v, c)'
  <2>1. c = i /\ Terms' = Terms
    BY <1>2 DEF VoteCounts, Terms
  <2>2. /\ raftState[c] = Candidate /\ currentTerm'[c] = currentTerm[c]
        /\ LastLogIndex(c)' = LastLogIndex(c) /\ LastLogTerm(c)' = LastLogTerm(c)
    BY <1>2, <2>1 DEF VoteCounts
  <2>3. VoteCounts(v, c)
    BY <1>2, <2>1, <2>2 DEF VoteCounts
  <2>4. VoteOK(G, N, A, v, c)
    BY <2>3 DEF LogInv
  <2>5. /\ Entries(c)[LastLogIndex(c)].term = LastLogTerm(c)
        /\ Entries(c)'[LastLogIndex(c)'].term = LastLogTerm(c)'
    BY EntriesType, LogFactNext DEF LogFact
  <2> QED BY <2>1, <2>2, <2>4, <2>5 DEF VoteOK, BacksLog, Holds
<1> QED BY <1>1, <1>2, LogKept

\* Restart: the peer comes back with the log, the term and the vote it had.
LEMMA LogRestart ==
  ASSUME Known, Known', TermsGrow, NEW G, NEW N, NEW A, NEW K, LogInv(G, N, A, K),
         NEW i \in Server, Restart(i)
  PROVE  LogInv(G, N, A, K)'
<1> USE DEF Known
<1>1. /\ raftState' = [raftState EXCEPT ![i] = Follower]
      /\ currentTerm' = [currentTerm EXCEPT ![i] = disk[i].currentTerm]
      /\ logs' = [logs EXCEPT ![i] = disk[i].logs]
      /\ snapshotIndex' = [snapshotIndex EXCEPT ![i] = disk[i].snapshotIndex]
      /\ commitIndex' = [commitIndex EXCEPT ![i] = disk[i].snapshotIndex]
      /\ lastApplied' = [lastApplied EXCEPT ![i] = disk[i].snapshotIndex]
      /\ nextIndex' = [nextIndex EXCEPT ![i] = [j \in Server |-> 0]]
      /\ matchIndex' = [matchIndex EXCEPT ![i] = [j \in Server |-> 0]]
      /\ UNCHANGED <<votes, elected, applied>> /\ SameMessages
  BY DEF Restart, ReadPersist, appendMsgs, snapMsgs, historyVars, SameMessages
<1>2. /\ disk[i].currentTerm = currentTerm[i] /\ disk[i].logs = logs[i]
      /\ disk[i].snapshotIndex = snapshotIndex[i]
  <2>1. disk[i] = Persisted(i)
    BY DEF DiskInSync
  <2> QED BY ONLY <2>1 DEF Persisted
<1>3. /\ raftState'[i] = Follower /\ currentTerm'[i] = currentTerm[i]
      /\ logs'[i] = logs[i] /\ snapshotIndex'[i] = snapshotIndex[i]
      /\ commitIndex'[i] = snapshotIndex[i] /\ lastApplied'[i] = snapshotIndex[i]
  BY <1>1, <1>2 DEF TypeOK
<1>4. \A j \in Server : j # i => Untouched(j)
  BY <1>1 DEF TypeOK, Untouched
<1>5. Terms' = Terms /\ Ghosts(G, N, A, K, Terms) /\ PeerNow(G, N, A, K, i)
  BY <1>1 DEF Terms, LogInv
<1>6. Later(G, N, A, K, Terms, G, N, A, K, Terms')
  BY <1>5, LaterRefl
<1>7. \A t, x \in Nat : AckedNow(G, N, A, K, i, t, x) => AckedNow(G, N, A, K, i, t, x)'
  BY <1>3, <1>6, QuietPeer
<1>8. PeerNow(G, N, A, K, i)'
  <2>1. PICK f, s, n : f = Entries(i) /\ s = snapshotIndex[i] /\ n = LastLogIndex(i)
    OBVIOUS
  <2>2. Entries(i)' = f /\ LastLogIndex(i)' = n
    BY <1>3, <2>1, SameEntries
  <2>3. IsLog(f, s, n)
    BY <2>1, EntriesType
  <2>4. PeerOK(G, N, A, K, Terms, i, f, s, n, currentTerm[i], commitIndex[i])
    BY <1>5, <2>1 DEF PeerNow
  <2>5. Committed(G, K, f, s, n, currentTerm[i], s)
    BY <2>3, <2>4 DEF PeerOK, Branch, Committed, IsLog
  <2>6. PeerOK(G, N, A, K, Terms, i, f, s, n, currentTerm[i], s)
    BY <2>4, <2>5 DEF PeerOK
  <2>7. s <= s
    BY <2>3 DEF IsLog
  <2> QED BY <1>3, <1>5, <2>1, <2>2, <2>6, <2>7 DEF PeerNow
<1>9. raftState'[i] # Leader /\ raftState'[i] # Candidate /\ applied' \ applied = {}
  BY <1>1, <1>3 DEF Leader, Candidate, Follower
<1> QED BY <1>1, <1>4, <1>7, <1>8, <1>9, LogSilent

\* Apply: what is sent on applyCh was committed.
LEMMA LogApply ==
  ASSUME Known, Known', TermsGrow, NEW G, NEW N, NEW A, NEW K, LogInv(G, N, A, K),
         NEW i \in Server, Apply(i)
  PROVE  LogInv(G, N, A, K)'
<1> USE DEF Known
<1>1. /\ lastApplied' = [lastApplied EXCEPT ![i] = commitIndex[i]]
      /\ applied' = applied \cup
           {<<k, Log(i, k)>> : k \in lastApplied[i] + 1 .. commitIndex[i]}
      /\ UNCHANGED <<currentTerm, raftState, logs, snapshotIndex, commitIndex>>
      /\ UNCHANGED <<nextIndex, matchIndex, votes, elected>> /\ SameMessages
  BY DEF Apply, electionVars, persistVars, leaderVars, appendMsgs, snapMsgs, SameMessages
<1>2. \A j \in Server : j # i => Untouched(j)
  BY <1>1 DEF TypeOK, Untouched
<1>3. PICK f, s, n, T, c : /\ f = Entries(i) /\ s = snapshotIndex[i] /\ n = LastLogIndex(i)
                           /\ T = currentTerm[i] /\ c = commitIndex[i]
  OBVIOUS
<1>4. /\ IsLog(f, s, n) /\ T \in Nat /\ c \in Nat /\ s \in Nat /\ n \in Nat
      /\ lastApplied[i] \in Nat
      /\ \A k \in s .. n : f[k] = Log(i, k)
  BY <1>3, EntriesType DEF TypeOK, IsLog
<1>5. /\ Terms' = Terms /\ Ghosts(G, N, A, K, Terms)
      /\ PeerOK(G, N, A, K, Terms, i, f, s, n, T, c)
      /\ s <= lastApplied[i] /\ lastApplied[i] <= c
  BY <1>1, <1>3 DEF Terms, LogInv, PeerNow
<1>6. /\ Branch(G, N, K, f, s, n, T) /\ s <= c /\ c <= n
      /\ Done(G, K, c, f[c].term, T)
  BY <1>5 DEF PeerOK, Committed
<1>7. /\ Entries(i)' = f /\ LastLogIndex(i)' = n /\ snapshotIndex'[i] = s
      /\ currentTerm'[i] = T /\ commitIndex'[i] = c /\ lastApplied'[i] = c
      /\ LastLogTerm(i)' = LastLogTerm(i)
  BY <1>1, <1>3, SameEntries, LogUntouched DEF TypeOK
<1>8. PeerNow(G, N, A, K, i)'
  <2>1. s <= c /\ c <= c
    BY <1>4, <1>6
  <2> QED BY <1>5, <1>7, <2>1 DEF PeerNow
<1>9. \A t, x \in Nat : AckedNow(G, N, A, K, i, t, x) => AckedNow(G, N, A, K, i, t, x)'
  BY <1>3, <1>7 DEF AckedNow
<1>10. ASSUME NEW a \in applied' \ applied PROVE AppliedOK(G, K, a)
  <2>1. PICK k \in lastApplied[i] + 1 .. c : a = <<k, Log(i, k)>>
    BY <1>1, <1>3, <1>10
  <2>2. k \in Nat /\ s < k /\ k <= c /\ k > 0 /\ s < c /\ k \in s .. n /\ k \in s + 1 .. c
    BY <1>4, <1>5, <1>6, <2>1
  <2>3. PICK t \in 0 .. T : c <= K[t] /\ \A l \in s + 1 .. c : f[l] = G[t][l]
    BY <1>4, <1>5, <1>6, <2>2, CommittedIsSame
  <2>4. t \in Nat /\ K[t] \in Nat
    BY <1>4, <1>5, <2>3 DEF Ghosts
  <2>5. k <= K[t]
    BY <1>4, <2>2, <2>3, <2>4
  <2>6. a[1] = k /\ a[2] = f[k] /\ f[k] = G[t][k]
    BY <1>4, <2>1, <2>2, <2>3
  <2> QED BY <2>2, <2>4, <2>5, <2>6 DEF AppliedOK
<1>11. ASSUME raftState'[i] = Leader PROVE LeaderNow(G, N, A, K, i)'
  <2>1. commitIndex'[i] >= commitIndex[i] /\ raftState[i] = Leader
    BY <1>1, <1>3, <1>4, <1>11
  <2>2. /\ currentTerm'[i] = currentTerm[i] /\ LastLogIndex(i)' = LastLogIndex(i)
        /\ matchIndex'[i] = matchIndex[i] /\ nextIndex'[i] = nextIndex[i]
        /\ elected' = elected
    BY <1>1, <1>3, <1>7
  <2> QED BY <1>2, <1>7, <1>9, <2>1, <2>2, LeaderStays
<1>12. raftState'[i] = Candidate =>
         /\ raftState[i] = Candidate /\ currentTerm'[i] = currentTerm[i]
         /\ LastLogIndex(i)' = LastLogIndex(i)
         /\ LastLogTerm(i)' = LastLogTerm(i)
  BY <1>1, <1>3, <1>7
<1> QED BY <1>1, <1>2, <1>8, <1>9, <1>10, <1>11, <1>12, LogSilent

\* Snapshot: what is cut off was committed.
LEMMA LogSnapshot ==
  ASSUME Known, Known', TermsGrow, NEW G, NEW N, NEW A, NEW K, LogInv(G, N, A, K),
         NEW i \in Server, NEW index, Snapshot(i, index)
  PROVE  LogInv(G, N, A, K)'
<1> USE DEF Known
<1>1. /\ logs' = [logs EXCEPT ![i] = SubSeq(@, Slot(i, index), Len(@))]
      /\ snapshotIndex' = [snapshotIndex EXCEPT ![i] = index]
      /\ UNCHANGED <<currentTerm, raftState, commitIndex, lastApplied>>
      /\ UNCHANGED <<nextIndex, matchIndex, votes, elected, applied>> /\ SameMessages
  BY DEF Snapshot, electionVars, applyVars, leaderVars, appendMsgs, snapMsgs, historyVars,
         SameMessages
<1>2. \A j \in Server : j # i => Untouched(j)
  BY <1>1 DEF TypeOK, Untouched
<1>3. PICK f, s, n, T, c, g : /\ f = Entries(i) /\ s = snapshotIndex[i] /\ n = LastLogIndex(i)
                              /\ T = currentTerm[i] /\ c = commitIndex[i]
                              /\ g = Entries(i)'
  OBVIOUS
<1>4. /\ LastLogIndex(i)' = n /\ LastLogTerm(i)' = LastLogTerm(i)
      /\ index \in Nat /\ snapshotIndex'[i] = index
      /\ s <= index /\ index <= lastApplied[i]
      /\ \A k \in index .. n : g[k] = f[k]
  BY <1>3, SnapshotLog
<1>5. /\ IsLog(f, s, n) /\ IsLog(g, index, n) /\ T \in Nat /\ c \in Nat
      /\ lastApplied[i] \in Nat
  BY <1>3, <1>4, EntriesType, LogFactNext DEF TypeOK, LogFact
<1>6. /\ Terms' = Terms /\ Ghosts(G, N, A, K, Terms)
      /\ PeerOK(G, N, A, K, Terms, i, f, s, n, T, c)
      /\ s <= lastApplied[i] /\ lastApplied[i] <= c
  BY <1>1, <1>3 DEF Terms, LogInv, PeerNow
<1>7. index <= c
  BY <1>4, <1>5, <1>6
<1>8. /\ PeerOK(G, N, A, K, Terms, i, g, index, n, T, c)
      /\ \A t, y \in Nat : Acked(G, N, A, K, i, t, y, f, s, n, T) =>
                           Acked(G, N, A, K, i, t, y, g, index, n, T)
  BY <1>4, <1>5, <1>6, <1>7, CompactPeer
<1>9. /\ currentTerm'[i] = T /\ commitIndex'[i] = c /\ lastApplied'[i] = lastApplied[i]
  BY <1>1, <1>3
<1>10. PeerNow(G, N, A, K, i)'
  BY <1>3, <1>4, <1>6, <1>8, <1>9 DEF PeerNow
<1>11. \A t, x \in Nat : AckedNow(G, N, A, K, i, t, x) => AckedNow(G, N, A, K, i, t, x)'
  BY <1>3, <1>4, <1>8, <1>9 DEF AckedNow
<1>12. ASSUME raftState'[i] = Leader PROVE LeaderNow(G, N, A, K, i)'
  <2>1. commitIndex'[i] >= commitIndex[i] /\ raftState[i] = Leader
    BY <1>1, <1>3, <1>5, <1>12
  <2>2. /\ currentTerm'[i] = currentTerm[i] /\ LastLogIndex(i)' = LastLogIndex(i)
        /\ matchIndex'[i] = matchIndex[i] /\ nextIndex'[i] = nextIndex[i]
        /\ elected' = elected
    BY <1>1, <1>3, <1>4
  <2> QED BY <1>2, <1>4, <1>11, <2>1, <2>2, LeaderStays
<1>13. /\ raftState'[i] = Candidate =>
            /\ raftState[i] = Candidate /\ currentTerm'[i] = currentTerm[i]
            /\ LastLogIndex(i)' = LastLogIndex(i)
            /\ LastLogTerm(i)' = LastLogTerm(i)
       /\ applied' \ applied = {}
  BY <1>1, <1>3, <1>4
<1> QED BY <1>1, <1>2, <1>10, <1>11, <1>12, <1>13, LogSilent

\* The leader of term T commits up to x.
CommitsTo(K, T, x, L) == L = [K EXCEPT ![T] = x]

\* What ceil(n/2) peers hold may be committed.
LEMMA CommitGrows ==
  ASSUME NEW G, NEW N, NEW A, NEW K, NEW E, Ghosts(G, N, A, K, E), Commits(G, N, A, K),
         NEW T \in Nat, NEW x \in Nat, K[T] < x, Own(G, N, T, x),
         NEW Q \in SUBSET Server,
         Cardinality(Q) >= Cardinality(Server) - Cardinality(Server) \div 2,
         \A j \in Q : x <= A[T][j],
         NEW L, CommitsTo(K, T, x, L)
  PROVE  /\ Later(G, N, A, K, E, G, N, A, L, E) /\ Commits(G, N, A, L)
         /\ L[T] = x /\ \A t \in Nat : t # T => L[t] = K[t]
<1>1. /\ K \in [Nat -> Nat] /\ N \in [Nat -> Nat] /\ A \in [Nat -> [Server -> Nat]]
      /\ \A t \in Nat : K[t] <= N[t]
  BY DEF Ghosts
<1>2. L \in [Nat -> Nat] /\ L[T] = x /\ \A t \in Nat : t # T => L[t] = K[t]
  BY <1>1 DEF CommitsTo
<1>3. x <= N[T]
  BY <1>1 DEF Own
<1>4. ASSUME NEW t \in Nat PROVE L[t] <= N[t] /\ K[t] <= L[t]
  <2>1. CASE t = T
    BY <1>1, <1>2, <1>3, <2>1
  <2>2. CASE t # T
    BY <1>1, <1>2, <2>2
  <2> QED BY <2>1, <2>2
<1>5. Ghosts(G, N, A, L, E)
  BY <1>2, <1>4 DEF Ghosts
<1>6. Later(G, N, A, K, E, G, N, A, K, E)
  BY LaterRefl
<1>7. Later(G, N, A, K, E, G, N, A, L, E)
  BY <1>4, <1>5, <1>6 DEF Later
<1>8. ASSUME NEW t \in Nat, L[t] > 0
      PROVE  /\ Own(G, N, t, L[t])
             /\ Cardinality({j \in Server : L[t] <= A[t][j]})
                  >= Cardinality(Server) - Cardinality(Server) \div 2
  <2>1. CASE t = T
    <3> DEFINE R == {j \in Server : x <= A[T][j]}
    <3>1. R \in SUBSET Server /\ Q \subseteq R
      OBVIOUS
    <3> HIDE DEF R
    <3>2. /\ Cardinality(Q) \in Nat /\ Cardinality(R) \in Nat
          /\ Cardinality(Q) <= Cardinality(R)
      BY <3>1, CardinalityMonotone
    <3>3. Cardinality(Server) \in Nat
      BY ServerAssumption, FS_CardinalityType
    <3>4. Cardinality(R) >= Cardinality(Server) - Cardinality(Server) \div 2
      BY <3>2, <3>3
    <3> QED BY <1>2, <2>1, <3>4 DEF R
  <2>2. CASE t # T
    BY <1>2, <1>8, <2>2 DEF Commits
  <2> QED BY <2>1, <2>2
<1>9. Commits(G, N, A, L)
  BY <1>8 DEF Commits
<1> QED BY <1>2, <1>7, <1>9

\* Some peer holds what ceil(n/2) peers hold.
LEMMA SomePeerHolds ==
  ASSUME NEW Q \in SUBSET Server,
         Cardinality(Q) >= Cardinality(Server) - Cardinality(Server) \div 2
  PROVE  \E j \in Q : TRUE
<1>1. Cardinality(Server) \in Nat /\ Cardinality(Server) > 0
  BY ServerAssumption, FS_CardinalityType, FS_EmptySet
<1>2. Cardinality(Server) - Cardinality(Server) \div 2 > 0
  BY <1>1
<1>3. Cardinality(Q) # 0
  <2>1. Cardinality(Q) \in Nat
    BY ServerAssumption, FS_Subset, FS_CardinalityType
  <2> QED BY <1>1, <1>2, <2>1
<1> QED BY <1>3, FS_EmptySet

\* What commit() takes for committed is an entry of the leader's own term that
\* ceil(n/2) peers keep.
LEMMA CommitIsHeld ==
  ASSUME Known, NEW G, NEW N, NEW A, NEW K, LogInv(G, N, A, K), NEW i \in Server,
         raftState[i] = Leader, NEW T, T = currentTerm[i],
         NEW match \in [Server -> Nat],
         \A j \in Server : AckedNow(G, N, A, K, j, T, match[j]),
         NEW x, x = MajorityIndex(match), Committable(i, x)
  PROVE  /\ x \in Nat /\ commitIndex[i] < x /\ x <= LastLogIndex(i)
         /\ x \in snapshotIndex[i] + 1 .. LastLogIndex(i)
         /\ Own(G, N, T, x) /\ K[T] < x
         /\ \A j \in {n \in Server : match[n] >= x} : x <= A[T][j]
<1>0. /\ T \in Nat /\ T \in Terms /\ <<T, i>> \in elected
      /\ LeadersLog(G, N, T, Entries(i), LastLogIndex(i))
      /\ K[T] <= commitIndex[i] /\ N[T] = LastLogIndex(i)
      /\ \A k \in snapshotIndex[i] + 1 .. LastLogIndex(i) : Entries(i)[k] = G[T][k]
  BY LeaderFacts
<1> USE DEF Known
<1>1. PICK f, s, n, c : /\ f = Entries(i) /\ s = snapshotIndex[i] /\ n = LastLogIndex(i)
                        /\ c = commitIndex[i]
  OBVIOUS
<1>2. /\ T \in Nat /\ T \in Terms /\ N[T] = n /\ K[T] <= c
      /\ \A k \in s + 1 .. n : f[k] = G[T][k]
  BY <1>0, <1>1
<1>3. Ghosts(G, N, A, K, Terms) /\ s <= lastApplied[i] /\ lastApplied[i] <= c
  BY <1>1 DEF LogInv, PeerNow
<1>4. /\ s \in Nat /\ c \in Nat /\ n \in Nat /\ lastApplied[i] \in Nat /\ K[T] \in Nat
      /\ \A k \in s .. n : f[k] = Log(i, k)
  BY <1>1, <1>2, <1>3, EntriesType DEF TypeOK, IsLog, Ghosts
<1> DEFINE Q == {j \in Server : match[j] >= x}
<1>5. x \in Nat /\ Cardinality(Q) >= Cardinality(Server) - Cardinality(Server) \div 2
  BY MajorityIndexReached
<1>6. x > c /\ Log(i, x).term = T
  BY <1>1 DEF Committable
<1>7. \E j \in Q : TRUE
  <2>1. Q \in SUBSET Server
    OBVIOUS
  <2> HIDE DEF Q
  <2> QED BY <1>5, <2>1, SomePeerHolds
<1>8. PICK j \in Server : match[j] >= x
  BY <1>7
<1>9. match[j] <= N[T] /\ match[j] \in Nat
  BY <1>8 DEF AckedNow, Acked
<1>10. x <= n
  BY <1>2, <1>4, <1>5, <1>8, <1>9
<1>11. x \in s + 1 .. n /\ x \in s .. n /\ x \in 1 .. n /\ K[T] < x
  BY <1>2, <1>3, <1>4, <1>5, <1>6, <1>10
<1>12. G[T][x].term = T
  BY <1>2, <1>4, <1>6, <1>11
<1>13. Own(G, N, T, x)
  BY <1>2, <1>11, <1>12 DEF Own
<1>14. ASSUME NEW v \in Q PROVE x <= A[T][v]
  <2>1. v \in Server /\ match[v] \in Nat /\ x <= match[v] /\ A[T][v] \in Nat
    BY <1>2, <1>3, <1>5, <1>14 DEF Ghosts
  <2>2. \A k \in 1 .. match[v] : Own(G, N, T, k) => k <= A[T][v] \/ k <= K[T]
    BY <2>1 DEF AckedNow, Acked
  <2>3. x \in 1 .. match[v]
    BY <1>5, <1>11, <2>1
  <2>4. x <= A[T][v] \/ x <= K[T]
    BY <1>13, <2>2, <2>3
  <2> QED BY <1>4, <1>5, <1>11, <2>4
<1> QED BY <1>1, <1>5, <1>6, <1>10, <1>11, <1>13, <1>14

\* Commit: a leader commits an entry of its own term.
LEMMA LogCommit ==
  ASSUME Known, Known', TermsGrow, NEW G, NEW N, NEW A, NEW K, LogInv(G, N, A, K),
         NEW i \in Server, Commit(i)
  PROVE  LogSafe'
<1> USE DEF Known
<1>1. PICK match, x : /\ match = [matchIndex[i] EXCEPT ![i] = LastLogIndex(i)]
                      /\ x = MajorityIndex(match)
  OBVIOUS
<1>2. /\ raftState[i] = Leader
      /\ matchIndex' = [matchIndex EXCEPT ![i] = match]
      /\ commitIndex' = [commitIndex EXCEPT ![i] = IF Committable(i, x) THEN x ELSE @]
      /\ UNCHANGED <<currentTerm, raftState, logs, snapshotIndex, lastApplied>>
      /\ UNCHANGED <<nextIndex, votes, elected, applied>> /\ SameMessages
  BY <1>1 DEF Commit, electionVars, persistVars, appendMsgs, snapMsgs, historyVars,
              SameMessages
<1>3. \A j \in Server : j # i => Untouched(j)
  BY <1>2 DEF TypeOK, Untouched
<1>4. PICK f, s, n, T, c : /\ f = Entries(i) /\ s = snapshotIndex[i] /\ n = LastLogIndex(i)
                           /\ T = currentTerm[i] /\ c = commitIndex[i]
  OBVIOUS
<1>5. /\ T \in Nat /\ T \in Terms /\ <<T, i>> \in elected
      /\ LeadersLog(G, N, T, f, n) /\ K[T] <= c /\ N[T] = n
      /\ \A k \in Nat : Own(G, N, T, k) => k <= A[T][i]
      /\ \A j \in Server : AckedNow(G, N, A, K, j, T, matchIndex[i][j])
      /\ \A j \in Server \ {i} : SendableTo(i, j)
      /\ \A k \in s + 1 .. n : f[k] = G[T][k]
  BY <1>2, <1>4, LeaderFacts
<1>6. /\ IsLog(f, s, n) /\ c \in Nat /\ s \in Nat /\ n \in Nat
      /\ lastApplied[i] \in Nat
  BY <1>4, EntriesType DEF TypeOK, IsLog
<1>7. /\ match \in [Server -> Nat] /\ match[i] = n
      /\ \A j \in Server : j # i => match[j] = matchIndex[i][j]
  BY <1>1, <1>4, <1>6 DEF TypeOK
<1>8. ASSUME NEW j \in Server PROVE AckedNow(G, N, A, K, j, T, match[j])
  <2>1. CASE j # i
    BY <1>5, <1>7, <2>1
  <2>2. CASE j = i
    <3>1. \A k \in 1 .. n : Own(G, N, T, k) => k <= A[T][i]
      BY <1>5, <1>6
    <3>2. n <= n /\ T <= T
      BY <1>5, <1>6
    <3>3. Acked(G, N, A, K, i, T, n, f, s, n, T)
      BY <1>5, <3>1, <3>2 DEF Acked
    <3> QED BY <1>4, <1>7, <2>2, <3>3 DEF AckedNow
  <2> QED BY <2>1, <2>2
<1>9. /\ Terms' = Terms /\ Ghosts(G, N, A, K, Terms) /\ Commits(G, N, A, K)
      /\ PeerOK(G, N, A, K, Terms, i, f, s, n, T, c)
      /\ s <= lastApplied[i] /\ lastApplied[i] <= c
  BY <1>2, <1>4 DEF Terms, LogInv, PeerNow
<1>10. PICK d : d = commitIndex'[i]
  OBVIOUS
<1>11. \E L : /\ Later(G, N, A, K, Terms, G, N, A, L, Terms) /\ Commits(G, N, A, L)
              /\ \A t \in Nat : t # T => L[t] = K[t]
              /\ L[T] <= d /\ c <= d /\ d \in Nat
              /\ PeerOK(G, N, A, L, Terms, i, f, s, n, T, d)
  <2>1. CASE Committable(i, x)
    <3>1. /\ x \in Nat /\ c < x /\ x <= n /\ x \in s + 1 .. n
          /\ Own(G, N, T, x) /\ K[T] < x
          /\ \A j \in {v \in Server : match[v] >= x} : x <= A[T][j]
      BY <1>1, <1>2, <1>4, <1>7, <1>8, <2>1, CommitIsHeld
    <3>2. d = x
      BY <1>2, <1>10, <2>1 DEF TypeOK
    <3> DEFINE Q == {j \in Server : match[j] >= x}
    <3>3. /\ Cardinality(Q) >= Cardinality(Server) - Cardinality(Server) \div 2
          /\ Q \in SUBSET Server /\ \A j \in Q : x <= A[T][j]
      BY <1>1, <1>7, <3>1, MajorityIndexReached
    <3> HIDE DEF Q
    <3>4. PICK L : CommitsTo(K, T, x, L)
      BY DEF CommitsTo
    <3>5. /\ Later(G, N, A, K, Terms, G, N, A, L, Terms) /\ Commits(G, N, A, L)
          /\ L[T] = x /\ \A t \in Nat : t # T => L[t] = K[t]
      BY <1>5, <1>9, <3>1, <3>3, <3>4, CommitGrows
    <3>6. T <= T
      BY <1>5
    <3>7. PeerOK(G, N, A, L, Terms, i, f, s, n, T, c)
      BY <1>5, <1>6, <1>9, <3>5, <3>6, LaterPeer
    <3>8. Done(G, L, x, f[x].term, T)
      <4>1. T \in 0 .. T /\ x <= L[T] /\ x > 0
        BY <1>5, <1>6, <3>1, <3>5
      <4>2. G[T][x].term = f[x].term
        BY <1>5, <3>1
      <4> QED BY <4>1, <4>2 DEF Done
    <3>9. Committed(G, L, f, s, n, T, x)
      BY <1>6, <3>1, <3>8 DEF Committed
    <3>10. PeerOK(G, N, A, L, Terms, i, f, s, n, T, x)
      BY <3>7, <3>9 DEF PeerOK
    <3>11. L[T] <= x /\ c <= x
      BY <1>6, <3>1, <3>5
    <3> QED BY <3>1, <3>2, <3>5, <3>10, <3>11
  <2>2. CASE ~Committable(i, x)
    <3>1. d = c /\ c <= d
      BY <1>2, <1>4, <1>6, <1>10, <2>2 DEF TypeOK
    <3>2. Later(G, N, A, K, Terms, G, N, A, K, Terms)
      BY <1>9, LaterRefl
    <3> QED BY <1>5, <1>6, <1>9, <3>1, <3>2
  <2> QED BY <2>1, <2>2
<1>12. PICK L : /\ Later(G, N, A, K, Terms, G, N, A, L, Terms) /\ Commits(G, N, A, L)
                /\ \A t \in Nat : t # T => L[t] = K[t]
                /\ L[T] <= d /\ c <= d /\ d \in Nat
                /\ PeerOK(G, N, A, L, Terms, i, f, s, n, T, d)
  BY <1>11
<1>13. /\ Entries(i)' = f /\ LastLogIndex(i)' = n /\ snapshotIndex'[i] = s
       /\ currentTerm'[i] = T /\ lastApplied'[i] = lastApplied[i]
       /\ nextIndex'[i] = nextIndex[i] /\ matchIndex'[i] = match
  BY <1>2, <1>4, SameEntries DEF TypeOK
<1>14. PeerNow(G, N, A, L, i)'
  <2>1. lastApplied[i] <= d
    BY <1>6, <1>9, <1>12
  <2> QED BY <1>9, <1>10, <1>12, <1>13, <2>1 DEF PeerNow
<1>15. Later(G, N, A, K, Terms, G, N, A, L, Terms')
  BY <1>9, <1>12
<1>16. \A j \in Server : \A t, y \in Nat :
         AckedNow(G, N, A, K, j, t, y) => AckedNow(G, N, A, L, j, t, y)'
  <2>1. ASSUME NEW j \in Server
        PROVE  \A t, y \in Nat : AckedNow(G, N, A, K, j, t, y) => AckedNow(G, N, A, L, j, t, y)'
    BY <1>2, <1>15, QuietPeer
  <2> QED BY <2>1
<1>17. LeaderNow(G, N, A, L, i)'
  <2>1. ASSUME NEW j \in Server PROVE AckedNow(G, N, A, L, j, T, matchIndex[i][j])'
    <3>1. PICK y \in Nat : y = match[j]
      BY <1>7
    <3>2. AckedNow(G, N, A, L, j, T, y)'
      BY <1>5, <1>8, <1>16, <3>1
    <3>3. matchIndex'[i][j] = y
      BY <1>13, <3>1
    <3> QED BY <3>2, <3>3
  <2>2. \A j \in Server \ {i} : SendableTo(i, j)'
    BY <1>4, <1>5, <1>13 DEF SendableTo
  <2>3. L[T] <= commitIndex'[i]
    BY <1>10, <1>12
  <2> QED BY <1>5, <1>13, <2>1, <2>2, <2>3 DEF LeaderNow
<1>18. \A v, u \in Server :
         ~(VoteCounts(v, u)' /\ (u = i \/ <<currentTerm'[u], v, u>> \notin votes))
  BY <1>2 DEF VoteCounts, Leader, Candidate
<1>19. /\ appendRequests' \ appendRequests = {} /\ snapRequests' \ snapRequests = {}
       /\ appendReplies' \ appendReplies = {} /\ snapReplies' \ snapReplies = {}
       /\ applied' \ applied = {} /\ elected' \ elected = {} /\ elected \subseteq elected'
  BY <1>2 DEF SameMessages
<1>20. /\ \A t \in Nat : (N[t] = N[t] /\ L[t] = K[t]) \/ <<t, i>> \in elected'
       /\ \A t, y \in Nat : AckedNow(G, N, A, K, i, t, y) => AckedNow(G, N, A, L, i, t, y)'
  BY <1>2, <1>5, <1>12, <1>16
<1>21. LogInv(G, N, A, L)'
  BY <1>3, <1>12, <1>14, <1>15, <1>17, <1>18, <1>19, <1>20, LogFrame
<1> QED BY <1>21 DEF LogSafe

\* The end of a log from index x on, as the heartBeat loop slices it.
LEMMA LogSuffix ==
  ASSUME TypeOK, NEW i \in Server, NEW x \in Nat, NEW e,
         x > snapshotIndex[i], x <= LastLogIndex(i) + 1,
         e = SubSeq(logs[i], Slot(i, x), Len(logs[i]))
  PROVE  /\ e \in Seq(LogEntry) /\ Len(e) = LastLogIndex(i) - x + 1
         /\ \A k \in 1 .. LastLogIndex(i) - x + 1 : e[k] = Entries(i)[x - 1 + k]
<1>1. logs[i] \in Seq(LogEntry) /\ Len(logs[i]) \in Nat \ {0} /\ snapshotIndex[i] \in Nat
  BY LogTypes
<1>2. PICK s \in Nat, z \in Nat, n \in Int :
        s = snapshotIndex[i] /\ z = Len(logs[i]) /\ n = z - 1 + s /\ z >= 1
  BY <1>1
<1>3. LastLogIndex(i) = n
  BY <1>2 DEF LastLogIndex
<1>4. x \in Nat /\ s \in Nat /\ z \in Nat /\ n = z - 1 + s /\ x > s /\ x <= n + 1
  BY <1>2, <1>3
<1>5. PICK a \in Int : a = x - s + 1 /\ a >= 1 /\ a <= z + 1
  BY ONLY <1>4
<1>6. e = SubSeq(logs[i], a, z)
  BY <1>2, <1>5 DEF Slot
<1>7. \A k \in a .. z : logs[i][k] \in LogEntry
  BY <1>1, <1>2, <1>5
<1>8. /\ e \in Seq(LogEntry) /\ Len(e) = IF a <= z THEN z - a + 1 ELSE 0
      /\ \A k \in 1 .. z - a + 1 : e[k] = logs[i][a + k - 1]
  BY <1>5, <1>6, <1>7, SubSeqProperties
<1>9. z - a + 1 = n - x + 1 /\ (IF a <= z THEN z - a + 1 ELSE 0) = n - x + 1
  BY ONLY <1>5, <1>4
<1>10. ASSUME NEW k \in 1 .. n - x + 1 PROVE e[k] = Entries(i)[x - 1 + k]
  <2>1. PICK y : y = x - 1 + k /\ y \in s .. n /\ y - s + 1 = a + k - 1
    BY ONLY <1>5, <1>10, <1>4
  <2>2. Entries(i)[y] = logs[i][y - s + 1]
    BY <1>2, <1>3, <2>1 DEF Entries, Log, Slot
  <2> QED BY <1>8, <1>9, <2>1, <2>2
<1> QED BY <1>3, <1>8, <1>9, <1>10

\* What a leader sends to a peer that follows is a piece of its log.
LEMMA AppendIsPiece ==
  ASSUME Known, NEW G, NEW N, NEW A, NEW K, LogInv(G, N, A, K), NEW i \in Server,
         raftState[i] = Leader, NEW j \in Following(i), SendableTo(i, j),
         NEW m, m = AppendEntriesArgs(i, j)
  PROVE  AppendCallOK(G, N, K, m)
<1> USE DEF Known
<1>1. PICK f, s, n, T, c : /\ f = Entries(i) /\ s = snapshotIndex[i] /\ n = LastLogIndex(i)
                           /\ T = currentTerm[i] /\ c = commitIndex[i]
  OBVIOUS
<1>2. /\ T \in Nat /\ T \in Terms /\ <<T, i>> \in elected
      /\ LeadersLog(G, N, T, f, n) /\ K[T] <= c /\ N[T] = n
      /\ \A k \in s + 1 .. n : f[k] = G[T][k]
      /\ \A k \in s .. n : f[k].term = IF k = 0 THEN 0 ELSE G[T][k].term
  BY <1>1, LeaderFacts
<1>3. /\ IsLog(f, s, n) /\ c \in Nat /\ s \in Nat /\ n \in Nat /\ s <= n
      /\ \A k \in s .. n : f[k] = Log(i, k)
  BY <1>1, EntriesType DEF TypeOK, IsLog
<1>4. PICK x \in Nat : x = nextIndex[i][j] /\ x > s /\ x <= n + 1 /\ x >= 1
  <2>1. j \in Server /\ ~(nextIndex[i][j] <= s)
    BY <1>1 DEF Following, Lagging
  <2>2. nextIndex[i][j] \in Nat
    BY <2>1 DEF TypeOK
  <2>3. nextIndex[i][j] \in 1 .. n + 1
    BY <1>1 DEF SendableTo
  <2> QED BY <1>3, <2>1, <2>2, <2>3
<1>5. PICK p \in Nat : p = x - 1 /\ p \in s .. n
  BY <1>3, <1>4
<1>6. PICK e : e = SubSeq(logs[i], Slot(i, x), Len(logs[i]))
  OBVIOUS
<1>7. /\ Len(e) = n - x + 1
      /\ \A k \in 1 .. n - x + 1 : e[k] = f[x - 1 + k]
  BY <1>1, <1>4, <1>6, LogSuffix
<1>8. PICK l \in Nat : l = Len(e) /\ p + l = n /\ l = n - x + 1
  BY <1>3, <1>4, <1>5, <1>7
<1>9. /\ m.term = T /\ m.prevLogIndex = p /\ m.prevLogTerm = Log(i, p).term
      /\ m.entries = e /\ m.leaderCommit = c
  BY <1>1, <1>4, <1>5, <1>6 DEF AppendEntriesArgs
<1>10. PieceOf(G, N, T, p, f[p].term, e, l)
  <2>1. p + l <= N[T]
    BY <1>2, <1>3, <1>8
  <2>2. f[p].term = IF p = 0 THEN 0 ELSE G[T][p].term
    BY <1>2, <1>5
  <2>3. ASSUME NEW k \in 1 .. l PROVE e[k] = G[T][p + k]
    <3>1. PICK y : y = p + k /\ y \in s + 1 .. n /\ y = x - 1 + k
      BY <1>3, <1>5, <1>8
    <3>2. e[k] = f[y]
      BY <1>7, <1>8, <3>1
    <3> QED BY <1>2, <3>1, <3>2
  <2> QED BY <2>1, <2>2, <2>3 DEF PieceOf
<1>11. f[p] = Log(i, p)
  BY <1>3, <1>5
<1>12. c <= n /\ s <= c /\ Done(G, K, c, f[c].term, T)
  BY <1>1 DEF LogInv, PeerNow, PeerOK, Committed
<1>13. c > 0 => f[c].term = G[T][c].term
  <2>1. c \in s .. n
    BY <1>3, <1>12
  <2> QED BY <1>2, <1>3, <2>1
<1> QED BY <1>8, <1>9, <1>10, <1>11, <1>12, <1>13 DEF AppendCallOK

\* What a leader sends to a peer that lags behind is committed.
LEMMA SnapIsDone ==
  ASSUME Known, NEW G, NEW N, NEW A, NEW K, LogInv(G, N, A, K), NEW i \in Server,
         raftState[i] = Leader, NEW j \in Lagging(i),
         NEW m, m = InstallSnapshotArgs(i, j)
  PROVE  SnapCallOK(G, N, K, m)
<1> USE DEF Known
<1>1. PICK f, s, n, T : /\ f = Entries(i) /\ s = snapshotIndex[i] /\ n = LastLogIndex(i)
                        /\ T = currentTerm[i]
  OBVIOUS
<1>2. /\ T \in Nat /\ T \in Terms /\ <<T, i>> \in elected
      /\ LeadersLog(G, N, T, f, n) /\ N[T] = n
      /\ \A k \in Server \ {i} : SendableTo(i, k)
      /\ \A k \in s .. n : f[k].term = IF k = 0 THEN 0 ELSE G[T][k].term
  BY <1>1, LeaderFacts
<1>3. /\ IsLog(f, s, n) /\ s \in Nat /\ n \in Nat /\ s <= n
      /\ f[s] = logs[i][1]
  BY <1>1, EntriesType DEF TypeOK, IsLog
<1>4. 0 < s
  <2>1. j \in Server \ {i} /\ nextIndex[i][j] <= s
    BY <1>1 DEF Lagging
  <2>2. nextIndex[i][j] \in 1 .. n + 1
    BY <1>1, <1>2, <2>1 DEF SendableTo
  <2> QED BY <1>3, <2>1, <2>2
<1>5. Done(G, K, s, f[s].term, T)
  BY <1>1 DEF LogInv, PeerNow, PeerOK, Branch
<1>6. f[s].term = G[T][s].term
  <2>1. s \in s .. n
    BY <1>3
  <2> QED BY <1>2, <1>3, <1>4, <2>1
<1>7. /\ m.term = T /\ m.lastIncludedIndex = s /\ m.lastIncludedTerm = f[s].term
  BY <1>1, <1>3 DEF InstallSnapshotArgs
<1> QED BY <1>2, <1>3, <1>4, <1>5, <1>6, <1>7 DEF SnapCallOK

\* HeartBeat: what a leader sends is right.
LEMMA LogHeartBeat ==
  ASSUME Known, Known', TermsGrow, NEW G, NEW N, NEW A, NEW K, LogInv(G, N, A, K),
         NEW i \in Server, HeartBeat(i)
  PROVE  LogInv(G, N, A, K)'
<1>1. /\ raftState[i] = Leader
      /\ \A j \in Following(i) : SendableTo(i, j)
      /\ snapRequests' = snapRequests \cup
           {InstallSnapshotArgs(i, j) : j \in Lagging(i)}
      /\ appendRequests' = appendRequests \cup
           {AppendEntriesArgs(i, j) : j \in Following(i)}
      /\ UNCHANGED <<currentTerm, raftState, logs, snapshotIndex, commitIndex, lastApplied>>
      /\ UNCHANGED <<nextIndex, matchIndex, votes, elected, applied>>
      /\ UNCHANGED <<appendReplies, snapReplies>>
  BY DEF HeartBeat, electionVars, persistVars, applyVars, leaderVars, historyVars
<1>2. \A j \in Server : Untouched(j)
  BY <1>1 DEF Untouched
<1>3. ASSUME NEW m \in appendRequests' \ appendRequests PROVE AppendCallOK(G, N, K, m)
  <2>1. PICK j \in Following(i) : m = AppendEntriesArgs(i, j)
    BY <1>1, <1>3
  <2> QED BY <1>1, <2>1, AppendIsPiece
<1>4. ASSUME NEW m \in snapRequests' \ snapRequests PROVE SnapCallOK(G, N, K, m)
  <2>1. PICK j \in Lagging(i) : m = InstallSnapshotArgs(i, j)
    BY <1>1, <1>4
  <2> QED BY <1>1, <2>1, SnapIsDone
<1>5. /\ appendReplies' \ appendReplies = {} /\ snapReplies' \ snapReplies = {}
      /\ applied' \ applied = {}
  BY <1>1
<1> QED BY <1>1, <1>2, <1>3, <1>4, <1>5, LogStutter

\* The entries AppendEntries finds in place end where the logs differ.
LEMMA MatchedIsLongest ==
  ASSUME TypeOK, NEW m \in AppendArgs, NEW i \in Server,
         Matched(i, m) < Len(m.entries), NEW x, x = Matched(i, m) + 1
  PROVE  ~(/\ m.prevLogIndex + x <= LastLogIndex(i)
           /\ Log(i, m.prevLogIndex + x).term = m.entries[x].term)
<1> DEFINE Agree(k) == /\ m.prevLogIndex + k <= LastLogIndex(i)
                       /\ Log(i, m.prevLogIndex + k).term = m.entries[k].term
           S == {n \in 0 .. Len(m.entries) : \A k \in 1 .. n : Agree(k)}
<1>1. PICK l \in Nat : l = Len(m.entries)
  BY DEF AppendArgs
<1>2. /\ Matched(i, m) \in 0 .. l
      /\ \A k \in 1 .. Matched(i, m) : Agree(k)
  BY <1>1, MatchedType
<1>3. PICK y \in Nat : y = Matched(i, m) /\ y < l /\ x = y + 1
  BY <1>1, <1>2
<1>4. S \in SUBSET Int /\ \A n \in S : n <= l
  <2>1. S \subseteq 0 .. l
    BY <1>1
  <2> HIDE DEF S
  <2> QED BY <1>1, <2>1
<1>5. y \in S
  BY <1>1, <1>2, <1>3
<1>6. Matched(i, m) = Max(S)
  BY DEF Matched
<1>7. ASSUME Agree(x) PROVE FALSE
  <2>1. ASSUME NEW k \in 1 .. x PROVE Agree(k)
    <3>1. k \in 1 .. y \/ k = x
      BY <1>3
    <3> QED BY <1>2, <1>3, <1>7, <3>1
  <2>2. x \in 0 .. Len(m.entries)
    BY <1>1, <1>3
  <2>3. x \in S
    BY <2>1, <2>2
  <2> HIDE DEF S
  <2>4. Max(S) >= x
    <3>1. S # {} /\ l \in Int
      BY <1>1, <2>3
    <3> QED BY <1>4, <2>3, <3>1, MaxBounded
  <2> QED BY <1>3, <1>6, <2>4
<1> QED BY <1>7

\* AppendEntries merges the piece of log it gets into the peer's log.
LEMMA MergedIsMerge ==
  ASSUME TypeOK, TypeOK', NEW m \in AppendArgs, NEW i \in Server, PrevMatches(i, m),
         logs'[i] = Merged(i, m), snapshotIndex'[i] = snapshotIndex[i],
         NEW f, NEW s, NEW n, NEW p, NEW e, NEW l, NEW g, NEW z,
         f = Entries(i), s = snapshotIndex[i], n = LastLogIndex(i),
         p = m.prevLogIndex, e = m.entries, l = Len(m.entries),
         g = Entries(i)', z = LastLogIndex(i)'
  PROVE  \E x : Merges(f, s, n, p, e, l, x, g, z)
<1>1. PICK x : x = Matched(i, m)
  OBVIOUS
<1>2. /\ e \in Seq(LogEntry) /\ p \in Nat /\ l \in Nat /\ s \in Nat /\ n \in Nat /\ s <= n
      /\ logs[i] \in Seq(LogEntry) /\ Len(logs[i]) \in Nat /\ Len(logs[i]) >= 1
      /\ n = Len(logs[i]) - 1 + s
  BY LogTypes DEF AppendArgs, LastLogIndex
<1>3. /\ p \in s .. n /\ s <= p /\ p <= n
  BY <1>2 DEF PrevMatches
<1>4. \A k \in s .. n : f[k] = Log(i, k)
  BY EntriesType
<1>5. /\ x \in 0 .. l /\ x \in Nat
      /\ \A k \in 1 .. x : p + k <= n /\ Log(i, p + k).term = e[k].term
  <2>1. /\ Matched(i, m) \in 0 .. Len(m.entries)
        /\ \A k \in 1 .. Matched(i, m) :
             /\ m.prevLogIndex + k <= LastLogIndex(i)
             /\ Log(i, m.prevLogIndex + k).term = m.entries[k].term
    BY MatchedType
  <2>2. x \in 0 .. l
    BY <1>1, <2>1
  <2> QED BY <1>1, <1>2, <2>1, <2>2
<1>10. /\ x \in Nat /\ x <= l /\ p \in Nat /\ l \in Nat /\ s \in Nat /\ n \in Nat
       /\ s <= p /\ p <= n
  BY <1>2, <1>3, <1>5
<1>6. ASSUME NEW k \in 1 .. x PROVE p + k <= n /\ f[p + k].term = e[k].term
  <2>1. p + k \in s .. n
    BY <1>2, <1>3, <1>5
  <2> QED BY <1>4, <1>5, <2>1
<1>7. ASSUME x < l, p + x + 1 <= n, f[p + x + 1].term = e[x + 1].term PROVE FALSE
  <2>1. PICK y \in Nat : y = x + 1
    BY <1>5
  <2>2. p + y = p + x + 1 /\ p + y \in s .. n
    <3>1. x < l /\ p + x + 1 <= n
      BY <1>7
    <3> QED BY ONLY <1>10, <2>1, <3>1
  <2>3. f[p + y] = Log(i, p + y)
    BY <1>4, <2>2
  <2>4. ~(p + y <= n /\ Log(i, p + y).term = e[y].term)
    BY <1>1, <1>7, <2>1, MatchedIsLongest
  <2>5. p + y <= n
    BY <1>7, <2>2
  <2> QED BY <1>7, <2>1, <2>2, <2>3, <2>4, <2>5
<1>8. ASSUME x = l PROVE z = n /\ g = f
  <2>1. logs'[i] = logs[i]
    BY <1>1, <1>8 DEF Merged
  <2> QED BY <2>1, SameEntries
<1>9. ASSUME x < l
      PROVE  /\ z = p + l
             /\ \A k \in s .. p + x : g[k] = f[k]
             /\ \A k \in p + x + 1 .. p + l : g[k] = e[k - p]
  <2>1. PICK a \in Nat : a = p - s + 1 + x /\ a >= 1 /\ a <= Len(logs[i])
    <3>1. p + x <= n
      <4>1. x = 0 \/ x \in 1 .. x
        BY <1>5
      <4> QED BY <1>2, <1>3, <1>5, <1>6, <4>1
    <3>2. p - s + 1 + x \in Nat /\ p - s + 1 + x >= 1 /\ p - s + 1 + x <= Len(logs[i])
      BY ONLY <1>2, <1>3, <1>5, <3>1
    <3> QED BY <3>2
  <2>2. PICK keep, new : keep = SubSeq(logs[i], 1, a) /\ new = SubSeq(e, x + 1, l)
    OBVIOUS
  <2>3. logs'[i] = keep \o new
    <3>1. Slot(i, p) + x = a /\ Matched(i, m) # Len(m.entries)
      BY <1>1, <1>2, <1>5, <1>9, <2>1 DEF Slot
    <3> QED BY <1>1, <2>2, <3>1 DEF Merged
  <2>4. /\ keep \in Seq(LogEntry) /\ Len(keep) = a
        /\ \A k \in 1 .. a : keep[k] = logs[i][k]
    <3>1. \A k \in 1 .. a : logs[i][k] \in LogEntry
      BY <1>2, <2>1
    <3>2. /\ keep \in Seq(LogEntry) /\ Len(keep) = IF 1 <= a THEN a - 1 + 1 ELSE 0
          /\ \A k \in 1 .. a - 1 + 1 : keep[k] = logs[i][1 + k - 1]
      BY <2>2, <3>1, SubSeqProperties
    <3>3. \A k \in 1 .. a : k \in 1 .. a - 1 + 1 /\ 1 + k - 1 = k
      BY <2>1
    <3> QED BY <2>1, <3>2, <3>3
  <2>5. /\ new \in Seq(LogEntry) /\ Len(new) = l - x
        /\ \A k \in 1 .. l - x : new[k] = e[x + k]
    <3>1. \A k \in x + 1 .. l : e[k] \in LogEntry
      BY <1>2, <1>5
    <3>2. PICK b \in Int, d \in Int : b = x + 1 /\ d = l /\ b <= d
      BY <1>2, <1>5, <1>9
    <3>3. /\ new \in Seq(LogEntry) /\ Len(new) = IF b <= d THEN d - b + 1 ELSE 0
          /\ \A k \in 1 .. d - b + 1 : new[k] = e[b + k - 1]
      BY <2>2, <3>1, <3>2, SubSeqProperties
    <3>4. d - b + 1 = l - x /\ \A k \in 1 .. l - x : b + k - 1 = x + k
      BY ONLY <1>10, <3>2
    <3> QED BY <3>2, <3>3, <3>4
  <2>6. /\ Len(logs'[i]) = a + (l - x)
        /\ \A k \in 1 .. a + (l - x) :
             logs'[i][k] = IF k <= a THEN logs[i][k] ELSE e[k - a + x]
    <3>1. /\ Len(logs'[i]) = a + (l - x)
          /\ \A k \in 1 .. a + (l - x) :
               logs'[i][k] = IF k <= a THEN keep[k] ELSE new[k - a]
      <4>1. /\ Len(keep \o new) = Len(keep) + Len(new)
            /\ \A k \in 1 .. Len(keep) + Len(new) :
                 (keep \o new)[k] = IF k <= Len(keep) THEN keep[k] ELSE new[k - Len(keep)]
        BY <2>4, <2>5, ConcatProperties
      <4> QED BY <2>3, <2>4, <2>5, <4>1
    <3>2. ASSUME NEW k \in 1 .. a + (l - x)
          PROVE  logs'[i][k] = IF k <= a THEN logs[i][k] ELSE e[k - a + x]
      <4>1. CASE k <= a
        <5>1. k \in 1 .. a
          BY <2>1, <4>1
        <5> QED BY <2>4, <3>1, <4>1, <5>1
      <4>2. CASE ~(k <= a)
        <5>1. k - a \in 1 .. l - x /\ x + (k - a) = k - a + x
          BY ONLY <1>10, a \in Nat, <3>2, <4>2
        <5> QED BY <2>5, <3>1, <4>2, <5>1
      <4> QED BY <4>1, <4>2
    <3> QED BY <3>1, <3>2
  <2>7. z = p + l
    <3>1. z = a + (l - x) - 1 + s
      <4>1. z = Len(logs'[i]) - 1 + s
        BY DEF LastLogIndex
      <4>2. Len(logs'[i]) = a + (l - x)
        BY <2>6
      <4> QED BY ONLY <1>10, <4>1, <4>2, a \in Nat
    <3>2. a \in Nat /\ a = p - s + 1 + x
      BY <2>1
    <3> QED BY ONLY <1>10, <3>1, <3>2
  <2>8. ASSUME NEW k \in s .. p + l
        PROVE  g[k] = IF k <= p + x THEN f[k] ELSE e[k - p]
    <3>1. g[k] = logs'[i][k - s + 1]
      BY <2>7, <2>8 DEF Entries, Log, Slot
    <3>2. /\ k - s + 1 \in 1 .. a + (l - x) /\ k - s + 1 - a + x = k - p
          /\ k <= p + x <=> k - s + 1 <= a
      BY ONLY <1>2, <1>3, <1>5, <2>1, <2>8
    <3>3. g[k] = IF k <= p + x THEN logs[i][k - s + 1] ELSE e[k - p]
      <4>1. PICK q \in Int : q = k - s + 1
        BY <1>10, <2>8
      <4>2. /\ q \in 1 .. a + (l - x) /\ q - a + x = k - p
            /\ k <= p + x <=> q <= a
        <5>1. a \in Nat /\ a = p - s + 1 + x
          BY <2>1
        <5> QED BY ONLY <1>10, <2>8, <4>1, <5>1
      <4>3. logs'[i][q] = IF q <= a THEN logs[i][q] ELSE e[q - a + x]
        BY <2>6, <4>2
      <4> QED BY <3>1, <4>1, <4>2, <4>3
    <3>4. ASSUME k <= p + x PROVE f[k] = logs[i][k - s + 1]
      <4>1. k \in s .. n
        <5>1. a <= Len(logs[i]) /\ n = Len(logs[i]) - 1 + s
          BY <1>2, <2>1
        <5> QED BY ONLY <1>2, <1>3, <1>5, <2>1, <2>8, <3>4, <5>1
      <4> QED BY <1>4, <4>1 DEF Log, Slot
    <3> QED BY <3>3, <3>4
  <2>9. ASSUME NEW k \in s .. p + x PROVE g[k] = f[k]
    <3>1. k \in s .. p + l /\ k <= p + x
      BY <1>2, <1>5, <1>9, <2>9
    <3> QED BY <2>8, <3>1
  <2>10. ASSUME NEW k \in p + x + 1 .. p + l PROVE g[k] = e[k - p]
    <3>1. k \in s .. p + l /\ ~(k <= p + x)
      BY <1>2, <1>3, <1>5, <2>10
    <3> QED BY <2>8, <3>1
  <2> QED BY <2>7, <2>9, <2>10
<1> QED BY <1>3, <1>5, <1>6, <1>7, <1>8, <1>9 DEF Merges

\* The hint of a peer whose log does not fit names an index that the leader's
\* log has, or the one behind it.
LEMMA ConflictInRange ==
  ASSUME TypeOK, NEW m \in AppendArgs, NEW i \in Server, NEW N, NEW T \in Nat,
         N[T] \in Nat, m.prevLogIndex <= N[T], snapshotIndex[i] <= N[T]
  PROVE  HintOK(N, T, Conflict(i, m))
<1> DEFINE p == m.prevLogIndex
           s == snapshotIndex[i]
           term == Log(i, p).term
           S == {s} \cup {k \in s .. p : Log(i, k).term # term}
           stop == Max(S)
<1>1. p \in Nat /\ s \in Nat /\ LastLogIndex(i) \in Nat
  BY LogTypes DEF AppendArgs
<1>2. CASE p < s
  <2>1. Conflict(i, m) = [xLen |-> s + 1, xIndex |-> -1, xTerm |-> -1]
    BY <1>2 DEF Conflict
  <2>2. s + 1 \in 1 .. N[T] + 1 /\ s + 1 # -1
    BY <1>1
  <2> QED BY <2>1, <2>2 DEF HintOK
<1>3. CASE ~(p < s) /\ p > LastLogIndex(i)
  <2>1. Conflict(i, m) = [xLen |-> LastLogIndex(i) + 1, xIndex |-> -1, xTerm |-> -1]
    BY <1>3 DEF Conflict
  <2>2. LastLogIndex(i) + 1 \in 1 .. N[T] + 1 /\ LastLogIndex(i) + 1 # -1
    BY <1>1, <1>3
  <2> QED BY <2>1, <2>2 DEF HintOK
<1>4. CASE ~(p < s) /\ ~(p > LastLogIndex(i))
  <2>1. S \in SUBSET (s .. p) /\ S # {} /\ s \in Int /\ p \in Int
    BY <1>1, <1>4
  <2>2. \A k \in S : k = s \/ Log(i, k).term # term
    OBVIOUS
  <2> HIDE DEF S, s, p
  <2>3. stop \in S
    BY ONLY <2>1, MaxWithin
  <2>4. stop \in s .. p /\ (stop = s \/ Log(i, stop).term # term)
    BY <2>1, <2>2, <2>3
  <2>5. Conflict(i, m) =
          IF stop = s THEN [xLen |-> s + 1, xIndex |-> -1, xTerm |-> -1]
          ELSE [xLen |-> -1, xIndex |-> stop + 1, xTerm |-> term]
    BY <1>4 DEF Conflict, S, s, p
  <2>6. s <= N[T] /\ p <= N[T]
    BY DEF s, p
  <2>7. stop # s => stop # p
    BY <2>4
  <2> HIDE DEF stop, term
  <2>8. CASE stop = s
    <3>1. s + 1 \in 1 .. N[T] + 1 /\ s + 1 # -1
      BY <1>1, <2>6
    <3> QED BY <2>5, <2>8, <3>1 DEF HintOK
  <2>9. CASE stop # s
    <3>1. stop + 1 \in 1 .. N[T]
      BY <1>1, <2>4, <2>6, <2>7, <2>9
    <3> QED BY <2>5, <2>9, <3>1 DEF HintOK
  <2> QED BY <2>8, <2>9
<1> QED BY <1>2, <1>3, <1>4

\* The snapshot of a peer that is not ahead of a leader's term ends within the
\* leader's log.
LEMMA SnapshotInLog ==
  ASSUME Known, NEW G, NEW N, NEW A, NEW K, LogInv(G, N, A, K), NEW i \in Server,
         NEW T \in Terms, currentTerm[i] <= T
  PROVE  snapshotIndex[i] <= N[T] /\ N[T] \in Nat /\ T \in Nat
<1> USE DEF Known
<1>1. PICK s : s = snapshotIndex[i]
  OBVIOUS
<1>2. /\ Done(G, K, s, Entries(i)[s].term, currentTerm[i])
      /\ Ghosts(G, N, A, K, Terms) /\ Complete(G, N, K, T)
  BY <1>1, LeadersComplete DEF LogInv, PeerNow, PeerOK, Branch
<1>3. /\ T \in Nat /\ N[T] \in Nat /\ s \in Nat /\ currentTerm[i] \in Nat
      /\ \A t \in Nat : K[t] \in Nat
  BY <1>1, <1>2 DEF Ghosts, TypeOK
<1>4. CASE s = 0
  BY <1>1, <1>3, <1>4
<1>5. CASE s # 0
  <2>1. PICK t \in 0 .. currentTerm[i] : s <= K[t]
    BY <1>2, <1>5 DEF Done
  <2>2. t \in 0 .. T /\ t \in Nat
    BY <1>3, <2>1
  <2>3. K[t] <= N[T]
    BY <1>2, <2>2 DEF Complete, Same
  <2> QED BY <1>1, <1>3, <2>1, <2>2, <2>3
<1> QED BY <1>4, <1>5

\* AppendEntries of an older term: nothing is touched, and the reply is of a
\* newer term.
LEMMA LogAppendRefused ==
  ASSUME Known, Known', TermsGrow, NEW G, NEW N, NEW A, NEW K, LogInv(G, N, A, K),
         NEW m \in appendRequests, AppendEntries(m), ~Accepts(m.to, m)
  PROVE  LogInv(G, N, A, K)'
<1> USE DEF Known
<1>1. m.to \in Server /\ m.term \in Nat /\ currentTerm[m.to] \in Nat
  BY DEF TypeOK, AppendArgs
<1>2. currentTerm[m.to] > m.term
  BY <1>1 DEF Accepts
<1>3. /\ AppendReply(m, currentTerm[m.to], FALSE, NoHint)
      /\ UNCHANGED <<currentTerm, raftState, logs, snapshotIndex, commitIndex, lastApplied>>
      /\ UNCHANGED <<nextIndex, matchIndex, votes, elected, applied>>
      /\ UNCHANGED <<appendRequests, snapRequests, snapReplies>>
  BY DEF AppendEntries, electionVars, persistVars, leaderVars, snapMsgs, historyVars
<1>4. \A j \in Server : Untouched(j)
  BY <1>3 DEF Untouched
<1>5. ASSUME NEW r \in appendReplies' \ appendReplies PROVE AppendReplyOK(G, N, A, K, r)'
  <2>1. r.args.term = m.term /\ r.term = currentTerm[m.to] /\ r.success = FALSE
    BY <1>3, <1>5 DEF AppendReply, WithReply
  <2>2. ~(r.term <= r.args.term)
    BY <1>1, <1>2, <2>1
  <2> QED BY <2>1, <2>2 DEF AppendReplyOK
<1>6. /\ appendRequests' \ appendRequests = {} /\ snapRequests' \ snapRequests = {}
      /\ snapReplies' \ snapReplies = {} /\ applied' \ applied = {}
  BY <1>3
<1> QED BY <1>3, <1>4, <1>5, <1>6, LogStutter

\* AppendEntries whose previous entry is not in the log: the log stays, and the
\* hint is within the leader's log.
LEMMA LogAppendMismatch ==
  ASSUME Known, Known', TermsGrow, NEW G, NEW N, NEW A, NEW K, LogInv(G, N, A, K),
         NEW m \in appendRequests, AppendEntries(m),
         Accepts(m.to, m), ~PrevMatches(m.to, m)
  PROVE  LogInv(G, N, A, K)'
<1> USE DEF Known
<1>1. PICK i \in Server, T \in Nat : i = m.to /\ T = m.term /\ currentTerm[i] \in Nat
  BY DEF TypeOK, AppendArgs
<1>2. m \in AppendArgs /\ <<T, m.from>> \in elected /\ currentTerm[i] <= T
  BY <1>1 DEF TypeOK, HintInv, CallersAreElected, Accepts
<1>3. T \in Terms
  BY <1>2 DEF Terms
<1>4. /\ AppendReply(m, currentTerm[i], FALSE, Conflict(i, m))
      /\ currentTerm' = [currentTerm EXCEPT ![i] = T]
      /\ raftState' = [raftState EXCEPT ![i] = Follower]
      /\ UNCHANGED <<logs, snapshotIndex, commitIndex, lastApplied>>
      /\ UNCHANGED <<nextIndex, matchIndex, votes, elected, applied>>
      /\ UNCHANGED <<appendRequests, snapRequests, snapReplies>>
  BY <1>1 DEF AppendEntries, leaderVars, snapMsgs, historyVars
<1>5. \A j \in Server : j # i => Untouched(j)
  BY <1>4 DEF Untouched, TypeOK
<1>6. /\ PeerNow(G, N, A, K, i)'
      /\ \A t, x \in Nat : AckedNow(G, N, A, K, i, t, x) => AckedNow(G, N, A, K, i, t, x)'
  BY <1>4, LogQuiet
<1>7. raftState'[i] # Leader /\ raftState'[i] # Candidate
  BY <1>4 DEF TypeOK, Leader, Candidate, Follower
<1>8. \A v, c \in Server :
        ~(VoteCounts(v, c)' /\ (c = i \/ <<currentTerm'[c], v, c>> \notin votes))
  BY <1>4, <1>7 DEF VoteCounts
<1>9. HintOK(N, T, Conflict(i, m))
  <2>1. snapshotIndex[i] <= N[T] /\ N[T] \in Nat
    BY <1>2, <1>3, SnapshotInLog
  <2>2. m.prevLogIndex <= N[T]
    <3>1. m.prevLogIndex + Len(m.entries) <= N[T]
      BY <1>1 DEF LogInv, AppendCallOK, PieceOf
    <3>2. m.prevLogIndex \in Nat /\ Len(m.entries) \in Nat
      BY <1>2 DEF AppendArgs
    <3> QED BY <2>1, <3>1, <3>2
  <2> QED BY <1>2, <2>1, <2>2, ConflictInRange
<1>10. ASSUME NEW r \in appendReplies' \ appendReplies PROVE AppendReplyOK(G, N, A, K, r)'
  <2>1. r.args.term = T /\ r.success = FALSE /\ r.hint = Conflict(i, m)
    BY <1>1, <1>4, <1>10 DEF AppendReply, WithReply
  <2> QED BY <1>9, <2>1 DEF AppendReplyOK
<1>11. /\ appendRequests' \ appendRequests = {} /\ snapRequests' \ snapRequests = {}
       /\ snapReplies' \ snapReplies = {} /\ applied' \ applied = {} /\ elected' = elected
  BY <1>4
<1> QED BY <1>5, <1>6, <1>7, <1>8, <1>10, <1>11, LogKept

\* Peer i acknowledges up to z in term T, if it holds that much.
AcksUpTo(A, T, i, z, ok, B) ==
  B = IF ok /\ z > A[T][i] THEN [A EXCEPT ![T] = [@ EXCEPT ![i] = z]] ELSE A

\* Then its acknowledgements have grown.
LEMMA AckGrows ==
  ASSUME NEW G, NEW N, NEW A, NEW K, NEW E, Ghosts(G, N, A, K, E),
         NEW T \in Nat, NEW i \in Server, NEW z \in Nat, z <= N[T],
         NEW ok \in BOOLEAN, NEW B, AcksUpTo(A, T, i, z, ok, B)
  PROVE  /\ Later(G, N, A, K, E, G, N, B, K, E)
         /\ \A t \in Nat, j \in Server : j # i => B[t][j] = A[t][j]
         /\ \A t \in Nat : A[t][i] <= B[t][i]
         /\ \A t \in Nat : B[t][i] = A[t][i] \/ (t = T /\ B[t][i] = z /\ ok)
         /\ ok => z <= B[T][i]
<1>1. /\ A \in [Nat -> [Server -> Nat]] /\ N \in [Nat -> Nat]
      /\ \A t \in Nat, j \in Server : A[t][j] <= N[t]
  BY DEF Ghosts
<1>2. Later(G, N, A, K, E, G, N, A, K, E)
  BY LaterRefl
<1>3. CASE ~(ok /\ z > A[T][i])
  <2>1. B = A
    BY <1>3 DEF AcksUpTo
  <2>2. A[T][i] \in Nat /\ \A t \in Nat : A[t][i] \in Nat
    BY <1>1
  <2>3. ok => z <= A[T][i]
    BY <1>3, <2>2
  <2>4. \A t \in Nat : A[t][i] <= A[t][i]
    BY <2>2
  <2> QED BY <1>2, <2>1, <2>3, <2>4
<1>4. CASE ok /\ z > A[T][i]
  <2>1. B = [A EXCEPT ![T] = [@ EXCEPT ![i] = z]]
    BY <1>4 DEF AcksUpTo
  <2>2. /\ B \in [Nat -> [Server -> Nat]] /\ B[T][i] = z
        /\ \A t \in Nat : t # T => B[t] = A[t]
        /\ \A j \in Server : j # i => B[T][j] = A[T][j]
    BY <1>1, <2>1
  <2>3. ASSUME NEW t \in Nat, NEW j \in Server
        PROVE  A[t][j] <= B[t][j] /\ B[t][j] <= N[t]
    <3>1. A[t][j] \in Nat /\ B[t][j] \in Nat /\ N[t] \in Nat /\ A[t][j] <= N[t]
      BY <1>1, <2>2
    <3>2. CASE t = T /\ j = i
      BY <1>4, <2>2, <3>1, <3>2
    <3>3. CASE ~(t = T /\ j = i)
      <4>1. B[t][j] = A[t][j]
        BY <2>2, <3>3
      <4> QED BY <3>1, <4>1
    <3> QED BY <3>2, <3>3
  <2>4. Ghosts(G, N, B, K, E)
    BY <2>2, <2>3 DEF Ghosts
  <2>5. Later(G, N, A, K, E, G, N, B, K, E)
    BY <1>2, <2>3, <2>4 DEF Later
  <2>6. z <= B[T][i]
    BY <2>2
  <2>7. /\ \A t \in Nat, j \in Server : j # i => B[t][j] = A[t][j]
        /\ \A t \in Nat : B[t][i] = A[t][i] \/ (t = T /\ B[t][i] = z /\ ok)
    BY <1>4, <2>2
  <2> QED BY <2>3, <2>5, <2>6, <2>7
<1> QED BY <1>3, <1>4

\* AppendEntries that fits: the log is merged and what was sent acknowledged.
LEMMA LogAppendMatch ==
  ASSUME Known, Known', TermsGrow, NEW G, NEW N, NEW A, NEW K, LogInv(G, N, A, K),
         NEW m \in appendRequests, AppendEntries(m),
         Accepts(m.to, m), PrevMatches(m.to, m)
  PROVE  LogSafe' /\ commitIndex'[m.to] >= commitIndex[m.to]
<1> USE DEF Known
<1>1. PICK i \in Server, T \in Nat, V \in Nat :
        i = m.to /\ T = m.term /\ V = currentTerm[i]
  <2>1. m.to \in Server /\ m.term \in Nat /\ currentTerm[m.to] \in Nat
    BY DEF TypeOK, AppendArgs
  <2> QED BY <2>1
<1>2. m \in AppendArgs /\ <<T, m.from>> \in elected /\ V <= T
  BY <1>1 DEF TypeOK, HintInv, CallersAreElected, Accepts
<1>3. T \in Terms
  BY <1>2 DEF Terms
<1>4. /\ AppendReply(m, V, TRUE, NoHint)
      /\ currentTerm' = [currentTerm EXCEPT ![i] = T]
      /\ raftState' = [raftState EXCEPT ![i] = Follower]
      /\ logs' = [logs EXCEPT ![i] = Merged(i, m)]
      /\ commitIndex' = [commitIndex EXCEPT ![i] = FollowerCommit(i, m, LastLogIndex(i)')]
      /\ UNCHANGED <<snapshotIndex, lastApplied>>
      /\ UNCHANGED <<nextIndex, matchIndex, votes, elected, applied>>
      /\ UNCHANGED <<appendRequests, snapRequests, snapReplies>>
  BY <1>1 DEF AppendEntries, leaderVars, snapMsgs, historyVars
<1>5. \A j \in Server : j # i => Untouched(j)
  BY <1>4 DEF Untouched, TypeOK
<1>6. PICK f, s, n, c, g, z :
        /\ f = Entries(i) /\ s = snapshotIndex[i] /\ n = LastLogIndex(i)
        /\ c = commitIndex[i] /\ g = Entries(i)' /\ z = LastLogIndex(i)'
  OBVIOUS
<1>7. PICK p \in Nat, e \in Seq(LogEntry), l \in Nat, d \in Nat :
        p = m.prevLogIndex /\ e = m.entries /\ l = Len(m.entries) /\ d = m.leaderCommit
  <2>1. /\ m.prevLogIndex \in Nat /\ m.entries \in Seq(LogEntry)
        /\ Len(m.entries) \in Nat /\ m.leaderCommit \in Nat
    BY <1>2 DEF AppendArgs
  <2> QED BY <2>1
<1>8. /\ currentTerm'[i] = T /\ logs'[i] = Merged(i, m) /\ snapshotIndex'[i] = s
      /\ commitIndex'[i] = FollowerCommit(i, m, z) /\ lastApplied'[i] = lastApplied[i]
      /\ raftState'[i] = Follower
  BY <1>4, <1>6 DEF TypeOK
<1>9. PICK x : Merges(f, s, n, p, e, l, x, g, z)
  BY <1>1, <1>2, <1>6, <1>7, <1>8, MergedIsMerge
<1>10. /\ IsLog(f, s, n) /\ IsLog(g, s, z) /\ c \in Nat /\ z \in Nat /\ n \in Nat
       /\ lastApplied[i] \in Nat /\ \A k \in s .. n : f[k] = Log(i, k)
  BY <1>6, <1>8, EntriesType, LogFactNext DEF LogFact, IsLog, TypeOK
<1>11. /\ Terms' = Terms /\ Ghosts(G, N, A, K, Terms) /\ Commits(G, N, A, K)
       /\ PeerOK(G, N, A, K, Terms, i, f, s, n, V, c)
       /\ s <= lastApplied[i] /\ lastApplied[i] <= c
  BY <1>1, <1>4, <1>6 DEF Terms, LogInv, PeerNow
<1>12. Complete(G, N, K, T)
  BY <1>3, LeadersComplete
<1>13. /\ PieceOf(G, N, T, p, f[p].term, e, l) /\ d <= p + l
       /\ d > 0 => Done(G, K, d, G[T][d].term, T)
  <2>1. AppendCallOK(G, N, K, m)
    BY DEF LogInv
  <2>2. m.prevLogTerm = f[p].term
    BY <1>1, <1>6, <1>7, <1>10 DEF PrevMatches
  <2> QED BY <1>1, <1>7, <2>1, <2>2 DEF AppendCallOK
<1>14. PICK y \in Nat : y = p + l /\ y <= N[T]
  BY <1>13 DEF PieceOf
<1>15. PICK ok \in BOOLEAN : ok <=> Holds(G, N, g, z, T, y)
  OBVIOUS
<1>16. PICK B : AcksUpTo(A, T, i, y, ok, B)
  BY DEF AcksUpTo
<1>17. /\ Later(G, N, A, K, Terms, G, N, B, K, Terms)
       /\ \A t \in Nat, j \in Server : j # i => B[t][j] = A[t][j]
       /\ \A t \in Nat : A[t][i] <= B[t][i]
       /\ \A t \in Nat : B[t][i] = A[t][i] \/ (t = T /\ B[t][i] = y /\ ok)
       /\ ok => y <= B[T][i]
  BY <1>11, <1>14, <1>16, AckGrows
<1>18. Ghosts(G, N, B, K, Terms) /\ Commits(G, N, B, K)
  BY <1>11, <1>17, LaterCommits DEF Later
<1>19. PeerOK(G, N, B, K, Terms, i, g, s, z, T, IF d > c THEN d ELSE c)
  <2>1. \A t \in Nat : \/ B[t][i] = A[t][i]
                       \/ t = T /\ B[t][i] = p + l /\ Holds(G, N, g, z, T, p + l)
    BY <1>14, <1>15, <1>17
  <2> QED BY <1>2, <1>3, <1>9, <1>10, <1>11, <1>12, <1>13, <1>18, <2>1, MergePeer
<1>20. /\ Acked(G, N, B, K, i, T, y, g, s, z, T)
       /\ \A t, w \in Nat : Acked(G, N, A, K, i, t, w, f, s, n, V) =>
                            Acked(G, N, B, K, i, t, w, g, s, z, T)
  <2>1. Holds(G, N, g, z, T, p + l) => p + l <= B[T][i]
    BY <1>14, <1>15, <1>17
  <2>2. Branch(G, N, K, f, s, n, V)
    BY <1>11 DEF PeerOK
  <2>3. /\ Acked(G, N, B, K, i, T, p + l, g, s, z, T)
        /\ \A t, w \in Nat : Acked(G, N, A, K, i, t, w, f, s, n, V) =>
                             Acked(G, N, B, K, i, t, w, g, s, z, T)
    BY <1>2, <1>3, <1>9, <1>10, <1>11, <1>13, <1>17, <1>18, <2>1, <2>2, MergeAcked
  <2> QED BY <1>14, <2>3
<1>21. commitIndex'[i] = (IF d > c THEN d ELSE c)
  <2>1. y <= z
    BY <1>20, <1>10, <1>14 DEF Acked
  <2>2. Min({d, z}) = d
    <3>1. Min({d, z}) = IF d <= z THEN d ELSE z
      <4>1. d \in Int /\ z \in Int
        BY <1>10
      <4> QED BY ONLY <4>1, MinMaxPair
    <3> QED BY <1>10, <1>13, <1>14, <2>1, <3>1
  <2> QED BY <1>6, <1>7, <1>8, <2>2 DEF FollowerCommit
<1>22. PeerNow(G, N, B, K, i)'
  <2>1. lastApplied[i] <= (IF d > c THEN d ELSE c)
    BY <1>10, <1>11
  <2> QED BY <1>6, <1>8, <1>11, <1>19, <1>21, <2>1 DEF PeerNow
<1>23. /\ AckedNow(G, N, B, K, i, T, y)'
       /\ \A t, w \in Nat : AckedNow(G, N, A, K, i, t, w) => AckedNow(G, N, B, K, i, t, w)'
  BY <1>1, <1>6, <1>8, <1>20 DEF AckedNow
<1>24. raftState'[i] # Leader /\ raftState'[i] # Candidate
  BY <1>8 DEF Leader, Candidate, Follower
<1>25. \A v, u \in Server :
         ~(VoteCounts(v, u)' /\ (u = i \/ <<currentTerm'[u], v, u>> \notin votes))
  BY <1>4, <1>24 DEF VoteCounts
<1>26. ASSUME NEW r \in appendReplies' \ appendReplies PROVE AppendReplyOK(G, N, B, K, r)'
  <2>1. r.args.to = i /\ r.args.term = T /\ r.args.match = y /\ r.success = TRUE
    BY <1>1, <1>4, <1>7, <1>14, <1>26 DEF AppendReply, WithReply
  <2> QED BY <1>23, <2>1 DEF AppendReplyOK
<1>27. /\ appendRequests' \ appendRequests = {} /\ snapRequests' \ snapRequests = {}
       /\ snapReplies' \ snapReplies = {} /\ applied' \ applied = {}
       /\ elected' \ elected = {} /\ elected \subseteq elected'
  BY <1>4
<1>28. /\ Later(G, N, A, K, Terms, G, N, B, K, Terms')
       /\ \A t \in Nat : B[t][i] = A[t][i] \/ t = currentTerm'[i]
       /\ \A t \in Nat : (N[t] = N[t] /\ K[t] = K[t]) \/ <<t, i>> \in elected'
  BY <1>8, <1>11, <1>17
<1>29. LogInv(G, N, B, K)'
  BY <1>5, <1>17, <1>18, <1>22, <1>23, <1>24, <1>25, <1>26, <1>27, <1>28, LogFrame
<1>30. commitIndex'[i] >= commitIndex[i]
  BY <1>6, <1>10, <1>21
<1> QED BY <1>1, <1>29, <1>30 DEF LogSafe

\* AppendEntries.
LEMMA LogAppend ==
  ASSUME Known, Known', TermsGrow, NEW G, NEW N, NEW A, NEW K, LogInv(G, N, A, K),
         NEW m \in appendRequests, AppendEntries(m)
  PROVE  LogSafe'
<1>1. LogInv(G, N, A, K)' => LogSafe'
  BY DEF LogSafe
<1> QED BY <1>1, LogAppendRefused, LogAppendMismatch, LogAppendMatch

\* InstallSnapshot keeps what lies above the snapshot.
LEMMA InstalledLog ==
  ASSUME TypeOK, NEW m \in SnapArgs, NEW i \in Server,
         m.lastIncludedIndex > snapshotIndex[i],
         logs'[i] = LogAfterSnapshot(i, m), snapshotIndex'[i] = m.lastIncludedIndex,
         NEW f, NEW n, NEW z, NEW u, NEW g, NEW w,
         f = Entries(i), n = LastLogIndex(i), z = m.lastIncludedIndex,
         u = m.lastIncludedTerm, g = Entries(i)', w = LastLogIndex(i)'
  PROVE  Installs(f, n, z, u, g, w)
<1>1. PICK s \in Nat : s = snapshotIndex[i]
  BY LogTypes
<1>2. z \in Nat /\ u \in Nat /\ n \in Nat /\ s < z
  BY <1>1, LogTypes DEF SnapArgs
<1>3. PICK rest, top : /\ rest = IF n > z THEN SubSeq(logs[i], Slot(i, z + 1), Len(logs[i]))
                                 ELSE << >>
                       /\ top = <<Dummy(u)>>
  OBVIOUS
<1>4. PICK y \in Nat : y = IF n > z THEN n - z ELSE 0
  <2>1. (IF n > z THEN n - z ELSE 0) \in Nat
    BY <1>2
  <2> QED BY <2>1
<1>5. /\ rest \in Seq(LogEntry) /\ Len(rest) = y
      /\ \A k \in 1 .. y : rest[k] = f[z + k]
  <2>1. CASE n > z
    <3>1. PICK x \in Nat : x = z + 1 /\ x > snapshotIndex[i] /\ x <= n + 1
      BY <1>1, <1>2, <2>1
    <3>2. rest = SubSeq(logs[i], Slot(i, x), Len(logs[i]))
      BY <1>3, <2>1, <3>1
    <3>3. /\ rest \in Seq(LogEntry) /\ Len(rest) = n - x + 1
          /\ \A k \in 1 .. n - x + 1 : rest[k] = f[x - 1 + k]
      <4>1. /\ rest \in Seq(LogEntry) /\ Len(rest) = LastLogIndex(i) - x + 1
            /\ \A k \in 1 .. LastLogIndex(i) - x + 1 : rest[k] = Entries(i)[x - 1 + k]
        <5>1. x > snapshotIndex[i] /\ x <= LastLogIndex(i) + 1
          BY <3>1
        <5> QED BY ONLY TypeOK, i \in Server, x \in Nat, <3>2, <5>1, LogSuffix
      <4> QED BY <4>1
    <3>4. n - x + 1 = y /\ \A k \in 1 .. y : x - 1 + k = z + k
      BY <1>2, <1>4, <2>1, <3>1
    <3> QED BY <3>3, <3>4
  <2>2. CASE ~(n > z)
    <3>1. rest = << >> /\ y = 0
      BY <1>3, <1>4, <2>2
    <3> QED BY <3>1
  <2> QED BY <2>1, <2>2
<1>6. top \in Seq(LogEntry) /\ Len(top) = 1 /\ top[1].term = u
  BY <1>2, <1>3 DEF Dummy, LogEntry
<1>7. logs'[i] = top \o rest
  BY <1>3 DEF LogAfterSnapshot
<1>8. /\ Len(logs'[i]) = 1 + y
      /\ \A k \in 1 .. 1 + y : logs'[i][k] = IF k <= 1 THEN top[k] ELSE rest[k - 1]
  <2>1. /\ Len(top \o rest) = Len(top) + Len(rest)
        /\ \A k \in 1 .. Len(top) + Len(rest) :
             (top \o rest)[k] = IF k <= Len(top) THEN top[k] ELSE rest[k - Len(top)]
    BY <1>5, <1>6, ConcatProperties
  <2> QED BY <1>5, <1>6, <1>7, <2>1
<1>9. w = z + y
  <2>1. w = Len(logs'[i]) - 1 + z
    BY DEF LastLogIndex
  <2>2. Len(logs'[i]) = 1 + y
    BY <1>8
  <2> QED BY ONLY <1>2, <2>1, <2>2, y \in Nat
<1>10. ASSUME NEW k \in z .. z + y PROVE g[k] = logs'[i][k - z + 1]
  BY <1>9, <1>10 DEF Entries, Log, Slot
<1>11. g[z].term = u
  <2>1. z \in z .. z + y /\ z - z + 1 = 1 /\ 1 \in 1 .. 1 + y
    BY <1>2
  <2>2. g[z] = logs'[i][1]
    BY <1>10, <2>1
  <2> QED BY <1>6, <1>8, <2>1, <2>2
<1>12. ASSUME NEW k \in z + 1 .. n PROVE g[k] = f[k]
  <2>1. PICK q \in Int : q = k - z + 1
    BY <1>2, <1>12
  <2>2. n > z /\ y = n - z
    BY <1>2, <1>4, <1>12
  <2>3. k \in z .. z + y /\ q \in 1 .. 1 + y /\ ~(q <= 1) /\ q - 1 \in 1 .. y /\ z + (q - 1) = k
    BY ONLY <1>2, <1>12, <2>1, <2>2
  <2>4. g[k] = rest[q - 1]
    BY <1>8, <1>10, <2>1, <2>3
  <2>5. rest[q - 1] = f[z + (q - 1)]
    BY <1>5, <2>3
  <2> QED BY <2>3, <2>4, <2>5
<1>13. w = IF n > z THEN n ELSE z
  BY <1>2, <1>4, <1>9
<1> QED BY <1>11, <1>12, <1>13 DEF Installs

\* InstallSnapshot of an older term.
LEMMA LogInstallRefused ==
  ASSUME Known, Known', TermsGrow, NEW G, NEW N, NEW A, NEW K, LogInv(G, N, A, K),
         NEW m \in snapRequests, InstallSnapshot(m), ~Accepts(m.to, m)
  PROVE  LogInv(G, N, A, K)'
<1> USE DEF Known
<1>1. m.to \in Server /\ m.term \in Nat /\ currentTerm[m.to] \in Nat
  BY DEF TypeOK, SnapArgs
<1>2. currentTerm[m.to] > m.term
  BY <1>1 DEF Accepts
<1>3. /\ SnapReply(m, currentTerm[m.to])
      /\ UNCHANGED <<currentTerm, raftState, logs, snapshotIndex, commitIndex, lastApplied>>
      /\ UNCHANGED <<nextIndex, matchIndex, votes, elected, applied>>
      /\ UNCHANGED <<appendRequests, appendReplies, snapRequests>>
  BY DEF InstallSnapshot, electionVars, persistVars, applyVars, leaderVars, appendMsgs,
         historyVars
<1>4. \A j \in Server : Untouched(j)
  BY <1>3 DEF Untouched
<1>5. ASSUME NEW r \in snapReplies' \ snapReplies PROVE SnapReplyOK(G, N, A, K, r)'
  <2>1. r.args.term = m.term /\ r.term = currentTerm[m.to]
    BY <1>3, <1>5 DEF SnapReply, WithReply
  <2>2. ~(r.term <= r.args.term)
    BY <1>1, <1>2, <2>1
  <2> QED BY <2>2 DEF SnapReplyOK
<1>6. /\ appendRequests' \ appendRequests = {} /\ snapRequests' \ snapRequests = {}
      /\ appendReplies' \ appendReplies = {} /\ applied' \ applied = {}
  BY <1>3
<1> QED BY <1>3, <1>4, <1>5, <1>6, LogStutter

\* A peer that accepts a snapshot is not the leader of that term, and if it is
\* a candidate, it has lost.
LEMMA LogInstall ==
  ASSUME Known, Known', TermsGrow, NEW G, NEW N, NEW A, NEW K, LogInv(G, N, A, K),
         NEW m \in snapRequests, InstallSnapshot(m)
  PROVE  LogInv(G, N, A, K)'
<1> USE DEF Known
<1>1. PICK i \in Server, T \in Nat, V \in Nat :
        i = m.to /\ T = m.term /\ V = currentTerm[i]
  <2>1. m.to \in Server /\ m.term \in Nat /\ currentTerm[m.to] \in Nat
    BY DEF TypeOK, SnapArgs
  <2> QED BY <2>1
<1>2. m \in SnapArgs /\ <<T, m.from>> \in elected /\ m.from # i
  BY <1>1 DEF TypeOK, HintInv, CallersAreElected, ElectInv, CallersAreOthers
<1>3. T \in Terms
  BY <1>2 DEF Terms
<1>4. SUFFICES ASSUME Accepts(i, m) PROVE LogInv(G, N, A, K)'
  BY <1>1, LogInstallRefused
<1>5. V <= T
  BY <1>1, <1>4 DEF Accepts
<1>6. PICK f, s, n, c, g, w :
        /\ f = Entries(i) /\ s = snapshotIndex[i] /\ n = LastLogIndex(i)
        /\ c = commitIndex[i] /\ g = Entries(i)' /\ w = LastLogIndex(i)'
  OBVIOUS
<1>7. PICK z \in Nat, u \in Nat : z = m.lastIncludedIndex /\ u = m.lastIncludedTerm
  BY <1>2 DEF SnapArgs
<1>8. /\ SnapReply(m, T)
      /\ currentTerm' = [currentTerm EXCEPT ![i] = T]
      /\ raftState' = [raftState EXCEPT ![i] = IF T > V THEN Follower ELSE @]
      /\ UNCHANGED <<nextIndex, matchIndex, votes, elected, applied>>
      /\ UNCHANGED <<appendRequests, appendReplies, snapRequests>>
  BY <1>1, <1>4 DEF InstallSnapshot, leaderVars, appendMsgs, historyVars
<1>9. \/ z <= s /\ UNCHANGED <<logs, snapshotIndex, commitIndex, lastApplied>>
      \/ /\ z > s
         /\ logs' = [logs EXCEPT ![i] = LogAfterSnapshot(i, m)]
         /\ snapshotIndex' = [snapshotIndex EXCEPT ![i] = z]
         /\ commitIndex' = [commitIndex EXCEPT ![i] = Raised(@, z)]
         /\ lastApplied' = [lastApplied EXCEPT ![i] = Raised(@, z)]
  BY <1>1, <1>4, <1>6, <1>7 DEF InstallSnapshot, applyVars
<1>10. currentTerm'[i] = T /\ raftState'[i] = IF T > V THEN Follower ELSE raftState[i]
  BY <1>8 DEF TypeOK
<1>11. \A j \in Server : j # i => Untouched(j)
  <2>1. \A j \in Server : j # i =>
          /\ logs'[j] = logs[j] /\ snapshotIndex'[j] = snapshotIndex[j]
          /\ commitIndex'[j] = commitIndex[j] /\ lastApplied'[j] = lastApplied[j]
    <3>1. CASE UNCHANGED <<logs, snapshotIndex, commitIndex, lastApplied>>
      BY <3>1
    <3>2. CASE /\ logs' = [logs EXCEPT ![i] = LogAfterSnapshot(i, m)]
               /\ snapshotIndex' = [snapshotIndex EXCEPT ![i] = z]
               /\ commitIndex' = [commitIndex EXCEPT ![i] = Raised(@, z)]
               /\ lastApplied' = [lastApplied EXCEPT ![i] = Raised(@, z)]
      BY <3>2 DEF TypeOK
    <3> QED BY <1>9, <3>1, <3>2
  <2>2. \A j \in Server : j # i =>
          /\ currentTerm'[j] = currentTerm[j] /\ raftState'[j] = raftState[j]
          /\ matchIndex'[j] = matchIndex[j] /\ nextIndex'[j] = nextIndex[j]
    BY <1>8 DEF TypeOK
  <2> QED BY <2>1, <2>2 DEF Untouched
<1>12. /\ Terms' = Terms /\ Ghosts(G, N, A, K, Terms)
       /\ PeerOK(G, N, A, K, Terms, i, f, s, n, V, c)
       /\ s <= lastApplied[i] /\ lastApplied[i] <= c
  BY <1>1, <1>6, <1>8 DEF Terms, LogInv, PeerNow
<1>13. /\ IsLog(f, s, n) /\ IsLog(g, snapshotIndex'[i], w) /\ c \in Nat /\ s \in Nat
       /\ lastApplied[i] \in Nat
  BY <1>6, EntriesType, LogFactNext DEF LogFact, IsLog, TypeOK
<1>14. /\ 0 < z /\ z <= N[T] /\ u = G[T][z].term
       /\ Done(G, K, z, G[T][z].term, T)
  BY <1>1, <1>7 DEF LogInv, SnapCallOK
<1>15. /\ PeerNow(G, N, A, K, i)' /\ z <= snapshotIndex'[i]
       /\ \A t, x \in Nat : AckedNow(G, N, A, K, i, t, x) => AckedNow(G, N, A, K, i, t, x)'
  <2>1. CASE z <= s /\ UNCHANGED <<logs, snapshotIndex, commitIndex, lastApplied>>
    <3>1. z <= snapshotIndex'[i]
      BY <1>6, <2>1
    <3>2. /\ PeerNow(G, N, A, K, i)'
          /\ \A t, x \in Nat : AckedNow(G, N, A, K, i, t, x) => AckedNow(G, N, A, K, i, t, x)'
      BY <1>8, <2>1, LogQuiet
    <3> QED BY <3>1, <3>2
  <2>2. CASE /\ z > s
             /\ logs' = [logs EXCEPT ![i] = LogAfterSnapshot(i, m)]
             /\ snapshotIndex' = [snapshotIndex EXCEPT ![i] = z]
             /\ commitIndex' = [commitIndex EXCEPT ![i] = Raised(@, z)]
             /\ lastApplied' = [lastApplied EXCEPT ![i] = Raised(@, z)]
    <3>1. /\ logs'[i] = LogAfterSnapshot(i, m) /\ snapshotIndex'[i] = z /\ s < z
          /\ commitIndex'[i] = (IF c < z THEN z ELSE c)
          /\ lastApplied'[i] = (IF lastApplied[i] < z THEN z ELSE lastApplied[i])
      BY <1>6, <1>13, <2>2 DEF TypeOK, Raised
    <3>2. Installs(f, n, z, u, g, w)
      BY <1>2, <1>6, <1>7, <2>2, <3>1, InstalledLog
    <3>3. IsLog(g, z, w)
      BY <1>13, <3>1
    <3>4. /\ PeerOK(G, N, A, K, Terms, i, g, z, w, T, IF c < z THEN z ELSE c)
          /\ \A t, y \in Nat : Acked(G, N, A, K, i, t, y, f, s, n, V) =>
                               Acked(G, N, A, K, i, t, y, g, z, w, T)
      BY <1>3, <1>5, <1>12, <1>13, <1>14, <3>1, <3>2, <3>3, InstallPeer
    <3>5. /\ z <= lastApplied'[i] /\ lastApplied'[i] <= commitIndex'[i]
          /\ z <= snapshotIndex'[i]
      BY <1>12, <1>13, <3>1
    <3>6. PeerNow(G, N, A, K, i)'
      BY <1>6, <1>10, <1>12, <3>1, <3>4, <3>5 DEF PeerNow
    <3>7. \A t, x \in Nat : AckedNow(G, N, A, K, i, t, x) => AckedNow(G, N, A, K, i, t, x)'
      BY <1>1, <1>6, <1>10, <3>1, <3>4 DEF AckedNow
    <3> QED BY <3>5, <3>6, <3>7
  <2> QED BY <1>9, <2>1, <2>2
<1>16. raftState'[i] # Leader
  <2>1. ASSUME raftState'[i] = Leader PROVE FALSE
    <3>1. raftState[i] = Leader /\ ~(T > V)
      BY <1>10, <2>1 DEF Leader, Follower
    <3>2. V = T
      BY <1>5, <3>1
    <3>3. <<T, i>> \in elected
      BY <1>1, <3>1, <3>2 DEF HintInv, LeadersAreElected
    <3> QED BY <1>2, <3>3 DEF ElectionSafety
  <2> QED BY <2>1
<1>17. \A v, x \in Server :
         ~(VoteCounts(v, x)' /\ (x = i \/ <<currentTerm'[x], v, x>> \notin votes))
  BY <1>3, <1>8, <1>10, <1>12 DEF VoteCounts
<1>18. ASSUME NEW r \in snapReplies' \ snapReplies PROVE SnapReplyOK(G, N, A, K, r)'
  <2>1. r.args = m
    BY <1>8, <1>18 DEF SnapReply, WithReply
  <2>2. r.args.to = i /\ r.args.term = T /\ r.args.lastIncludedIndex = z
    BY <1>1, <1>7, <2>1
  <2>3. Acked(G, N, A, K, i, T, z, g, snapshotIndex'[i], w, T)
    BY <1>12, <1>13, <1>14, <1>15, InstallAcked
  <2>4. AckedNow(G, N, A, K, i, T, z)'
    BY <1>6, <1>10, <2>3 DEF AckedNow
  <2> QED BY <2>2, <2>4 DEF SnapReplyOK
<1>19. /\ appendRequests' \ appendRequests = {} /\ snapRequests' \ snapRequests = {}
       /\ appendReplies' \ appendReplies = {} /\ applied' \ applied = {} /\ elected' = elected
  BY <1>8
<1> QED BY <1>11, <1>15, <1>16, <1>17, <1>18, <1>19, LogKept

\* A leader learns something about peer j.
LEMMA LogProgress ==
  ASSUME Known, Known', TermsGrow, NEW G, NEW N, NEW A, NEW K, LogInv(G, N, A, K),
         NEW i \in Server, NEW j \in Server, SameMessages,
         UNCHANGED <<currentTerm, raftState, logs, snapshotIndex, commitIndex, lastApplied>>,
         UNCHANGED <<votes, elected, applied>>,
         \A k \in Server : k # i =>
           matchIndex'[k] = matchIndex[k] /\ nextIndex'[k] = nextIndex[k],
         \A k \in Server : k # j =>
           matchIndex'[i][k] = matchIndex[i][k] /\ nextIndex'[i][k] = nextIndex[i][k],
         NEW x \in Nat, matchIndex'[i][j] = x, NEW y \in Nat, nextIndex'[i][j] = y,
         raftState[i] = Leader =>
           AckedNow(G, N, A, K, j, currentTerm[i], x) /\ y \in 1 .. LastLogIndex(i) + 1
  PROVE  LogInv(G, N, A, K)'
<1> USE DEF Known
<1>1. \A k \in Server : k # i => Untouched(k)
  BY DEF Untouched
<1>2. /\ PeerNow(G, N, A, K, i)'
      /\ \A t, z \in Nat : AckedNow(G, N, A, K, i, t, z) => AckedNow(G, N, A, K, i, t, z)'
  BY LogQuiet
<1>3. /\ Entries(i)' = Entries(i) /\ LastLogIndex(i)' = LastLogIndex(i)
      /\ LastLogTerm(i)' = LastLogTerm(i)
  BY SameEntries, LogUntouched
<1>4. ASSUME raftState'[i] = Leader PROVE LeaderNow(G, N, A, K, i)'
  <2>1. raftState[i] = Leader /\ elected' = elected
    BY <1>4
  <2>2. PICK T \in Nat : T = currentTerm[i]
    BY DEF TypeOK
  <2>3. /\ LeadersLog(G, N, T, Entries(i), LastLogIndex(i))
        /\ K[T] <= commitIndex[i]
        /\ \A k \in Nat : Own(G, N, T, k) => k <= A[T][i]
        /\ \A k \in Server : AckedNow(G, N, A, K, k, T, matchIndex[i][k])
        /\ \A k \in Server \ {i} : SendableTo(i, k)
    BY <2>1, <2>2 DEF LogInv, LeaderNow
  <2>4. \A k \in Server : \A t, z \in Nat :
          AckedNow(G, N, A, K, k, t, z) => AckedNow(G, N, A, K, k, t, z)'
    BY <1>1, <1>2, <2>1, AcksStay
  <2>5. ASSUME NEW k \in Server PROVE AckedNow(G, N, A, K, k, T, matchIndex[i][k])'
    <3>4. matchIndex'[i][k] \in Nat
      BY DEF TypeOK
    <3>1. PICK z \in Nat : z = matchIndex'[i][k]
      BY <3>4
    <3>2. AckedNow(G, N, A, K, k, T, z)
      BY <2>1, <2>2, <2>3, <3>1
    <3>3. AckedNow(G, N, A, K, k, T, z)'
      BY <2>4, <3>2
    <3> QED BY <3>1, <3>3
  <2>6. ASSUME NEW k \in Server \ {i} PROVE SendableTo(i, k)'
    <3>1. nextIndex'[i][k] \in 1 .. LastLogIndex(i) + 1
      BY <2>1, <2>3 DEF SendableTo
    <3> QED BY <1>3, <3>1 DEF SendableTo
  <2>7. /\ T = currentTerm'[i] /\ K[T] <= commitIndex'[i]
        /\ LeadersLog(G, N, T, Entries(i)', LastLogIndex(i)')
    BY <1>3, <2>2, <2>3
  <2> QED BY <2>3, <2>5, <2>6, <2>7 DEF LeaderNow
<1>5. /\ UNCHANGED <<elected, votes>> /\ applied' \ applied = {}
      /\ raftState'[i] = Candidate =>
           raftState[i] = Candidate /\ currentTerm'[i] = currentTerm[i]
  OBVIOUS
<1> QED BY <1>1, <1>2, <1>3, <1>4, <1>5, LogSilent

\* lastIndexForTerm returns an index of the log, or 0.
LEMMA LastIndexInLog ==
  ASSUME TypeOK, NEW i \in Server, NEW term
  PROVE  LastIndexForTerm(i, term) \in 0 .. LastLogIndex(i)
<1> DEFINE S == {0} \cup {k \in snapshotIndex[i] + 1 .. LastLogIndex(i) :
                          Log(i, k).term = term}
<1>1. PICK b \in Int : b = LastLogIndex(i) /\ b >= 0
  BY LogTypes
<1>2. S \in SUBSET (0 .. b) /\ S # {}
  BY <1>1, LogTypes
<1> HIDE DEF S
<1>3. Max(S) \in S
  <2>1. 0 \in Int
    OBVIOUS
  <2> QED BY ONLY <1>2, <2>1, MaxWithin
<1>4. LastIndexForTerm(i, term) = Max(S)
  BY DEF LastIndexForTerm, S
<1> QED BY <1>1, <1>2, <1>3, <1>4

\* A good hint backs nextIndex up to an index of the log, or to the one behind it.
LEMMA BackUpInLog ==
  ASSUME TypeOK, NEW i \in Server, NEW hint \in Hint, NEW next,
         NEW N, NEW T, N[T] = LastLogIndex(i), HintOK(N, T, hint)
  PROVE  BackUp(i, hint, next) \in 1 .. LastLogIndex(i) + 1
<1>1. PICK n \in Nat : n = LastLogIndex(i) /\ n = N[T]
  BY LogTypes
<1>2. LastIndexForTerm(i, hint.xTerm) \in 0 .. n
  BY <1>1, LastIndexInLog
<1>3. CASE hint.xLen # -1
  BY <1>1, <1>3 DEF BackUp, HintOK
<1>4. CASE hint.xLen = -1
  <2>1. hint.xIndex \in 1 .. n
    BY <1>1, <1>4 DEF HintOK
  <2>2. hint.xIndex # -1
    BY <2>1
  <2>3. PICK z \in 0 .. n : z = LastIndexForTerm(i, hint.xTerm)
    BY <1>2
  <2>4. BackUp(i, hint, next) = IF z = 0 THEN hint.xIndex ELSE z + 1
    BY <1>4, <2>2, <2>3 DEF BackUp
  <2>5. (IF z = 0 THEN hint.xIndex ELSE z + 1) \in 1 .. n + 1
    BY ONLY <2>1, z \in 0 .. n, n \in Nat
  <2> QED BY <1>1, <2>4, <2>5
<1> QED BY <1>3, <1>4

\* A reply that is not stale answers a call of the leader's present term.
LEMMA ReplyIsCurrent ==
  ASSUME Known, NEW r, NEW i \in Server, NEW t \in Nat, i = r.args.from, t = r.args.term,
         ReplyIsToLeader(r), ReplyOfThisTerm(i, r)
  PROVE  t = currentTerm[i] /\ r.term = t
<1>1. <<t, i>> \in elected
  BY DEF ReplyIsToLeader
<1>2. t <= currentTerm[i] /\ currentTerm[i] \in Nat
  BY <1>1 DEF Known, TypeOK, ElectInv, ElectedArePast
<1> QED BY <1>2 DEF ReplyOfThisTerm

\* The larger of two acknowledged indices is acknowledged, and nextIndex may be
\* set behind it.
LEMMA LargerAck ==
  ASSUME Known, NEW G, NEW N, NEW A, NEW K, LogInv(G, N, A, K),
         NEW i \in Server, NEW j \in Server \ {i}, NEW z \in Nat, raftState[i] = Leader,
         AckedNow(G, N, A, K, j, currentTerm[i], z)
  PROVE  /\ AckedNow(G, N, A, K, j, currentTerm[i], Max({matchIndex[i][j], z}))
         /\ Max({nextIndex[i][j], z + 1}) \in 1 .. LastLogIndex(i) + 1
<1> USE DEF Known
<1>1. PICK T, n : T = currentTerm[i] /\ n = LastLogIndex(i)
  OBVIOUS
<1>2. /\ T \in Nat /\ T \in Terms /\ <<T, i>> \in elected
      /\ LeadersLog(G, N, T, Entries(i), n) /\ N[T] = n
      /\ \A k \in Server : AckedNow(G, N, A, K, k, T, matchIndex[i][k])
      /\ \A k \in Server \ {i} : SendableTo(i, k)
  BY <1>1, LeaderFacts
<1>3. PICK a \in Int, b \in Int, c \in Int, d \in Int :
        a = matchIndex[i][j] /\ b = z /\ c = nextIndex[i][j] /\ d = z + 1
  <2>1. matchIndex[i][j] \in Int /\ nextIndex[i][j] \in Int /\ z \in Int /\ z + 1 \in Int
    BY DEF TypeOK
  <2> QED BY <2>1
<1>4. /\ Max({a, b}) = (IF a >= b THEN a ELSE b)
      /\ Max({c, d}) = (IF c >= d THEN c ELSE d)
  BY MinMaxPair
<1>5. n \in Nat /\ z <= n
  <2>1. z <= N[T]
    BY <1>1 DEF AckedNow, Acked
  <2>2. n \in Nat
    BY <1>1, LogTypes
  <2> QED BY <1>2, <2>1, <2>2
<1>6. c \in 1 .. n + 1
  BY <1>1, <1>2, <1>3 DEF SendableTo
<1>7. (IF c >= d THEN c ELSE d) \in 1 .. n + 1
  BY <1>3, <1>5, <1>6
<1>8. AckedNow(G, N, A, K, j, T, a) /\ AckedNow(G, N, A, K, j, T, b)
  BY <1>1, <1>2, <1>3
<1>9. AckedNow(G, N, A, K, j, T, IF a >= b THEN a ELSE b)
  BY <1>8
<1> QED BY <1>1, <1>3, <1>4, <1>7, <1>9

\* HandleAppendReply.
LEMMA LogAppendReply ==
  ASSUME Known, Known', TermsGrow, NEW G, NEW N, NEW A, NEW K, LogInv(G, N, A, K),
         NEW r \in appendReplies, HandleAppendReply(r)
  PROVE  LogInv(G, N, A, K)'
<1> USE DEF Known
<1>1. PICK i \in Server, j \in Server, t \in Nat, z \in Nat :
        i = r.args.from /\ j = r.args.to /\ t = r.args.term /\ z = r.args.match
  <2>1. /\ r.args.from \in Server /\ r.args.to \in Server /\ r.args.term \in Nat
        /\ r.args.match \in Nat
    BY DEF TypeOK, AppendCall
  <2> QED BY <2>1
<1>2. ReplyIsToLeader(r) /\ r.hint \in Hint /\ j # i
  BY <1>1 DEF ElectInv, CallersAreOthers, ReplyIsToLeader, TypeOK
<1>3. UNCHANGED <<applyVars, voteMsgs, appendMsgs, snapMsgs, historyVars>>
  BY DEF HandleAppendReply
<1>4. /\ UNCHANGED <<votes, elected, applied, applyVars, appendMsgs, snapMsgs>>
      /\ UNCHANGED <<commitIndex, lastApplied>> /\ SameMessages
  BY <1>3 DEF applyVars, appendMsgs, snapMsgs, historyVars, SameMessages
<1>5. AppendReplyOK(G, N, A, K, r)
  BY DEF LogInv
<1>6. CASE ReplyFromNewerTerm(i, r) /\ UNCHANGED leaderVars
  <2>1. UpdateTermAndBecomeFollower(i, r.term)
    BY <1>6 DEF ReplyFromNewerTerm
  <2> QED BY <1>4, <1>6, <2>1, LogStepDown
<1>7. CASE /\ ReplyOfThisTerm(i, r) /\ r.success
           /\ nextIndex' = [nextIndex EXCEPT ![i][j] = Max({@, z + 1})]
           /\ matchIndex' = [matchIndex EXCEPT ![i][j] = Max({@, z})]
           /\ UNCHANGED <<raftState, gotVotes, leaderID, persistVars>>
  <2>1. UNCHANGED <<currentTerm, raftState, logs, snapshotIndex>>
    BY <1>7 DEF persistVars
  <2>2. PICK x, y : x = matchIndex'[i][j] /\ y = nextIndex'[i][j]
    OBVIOUS
  <2>3. x \in Nat /\ y \in Nat
    BY <2>2 DEF TypeOK
  <2>4. x = Max({matchIndex[i][j], z}) /\ y = Max({nextIndex[i][j], z + 1})
    BY <1>7, <2>2 DEF TypeOK
  <2>5. t = currentTerm[i]
    BY <1>1, <1>2, <1>7, ReplyIsCurrent
  <2>6. AckedNow(G, N, A, K, j, currentTerm[i], z)
    BY <1>1, <1>5, <1>7, <2>5 DEF AppendReplyOK
  <2>7. raftState[i] = Leader =>
          AckedNow(G, N, A, K, j, currentTerm[i], x) /\ y \in 1 .. LastLogIndex(i) + 1
    BY <1>2, <2>4, <2>6, LargerAck
  <2>8. /\ \A k \in Server : k # i =>
             matchIndex'[k] = matchIndex[k] /\ nextIndex'[k] = nextIndex[k]
        /\ \A k \in Server : k # j =>
             matchIndex'[i][k] = matchIndex[i][k] /\ nextIndex'[i][k] = nextIndex[i][k]
    BY <1>7 DEF TypeOK
  <2> QED BY <1>4, <2>1, <2>2, <2>3, <2>7, <2>8, LogProgress
<1>8. CASE /\ ReplyOfThisTerm(i, r) /\ ~r.success
           /\ nextIndex' = [nextIndex EXCEPT ![i][j] = BackUp(i, r.hint, @)]
           /\ UNCHANGED matchIndex
           /\ UNCHANGED <<raftState, gotVotes, leaderID, persistVars>>
  <2>1. UNCHANGED <<currentTerm, raftState, logs, snapshotIndex>>
    BY <1>8 DEF persistVars
  <2>2. PICK x, y : x = matchIndex'[i][j] /\ y = nextIndex'[i][j]
    OBVIOUS
  <2>3. x \in Nat /\ y \in Nat
    BY <2>2 DEF TypeOK
  <2>4. x = matchIndex[i][j] /\ y = BackUp(i, r.hint, nextIndex[i][j])
    BY <1>8, <2>2 DEF TypeOK
  <2>5. t = currentTerm[i] /\ r.term = t
    BY <1>1, <1>2, <1>8, ReplyIsCurrent
  <2>6. HintOK(N, t, r.hint)
    <3>1. r.term <= r.args.term
      BY <1>1, <2>5
    <3> QED BY <1>1, <1>5, <1>8, <3>1 DEF AppendReplyOK
  <2>7. ASSUME raftState[i] = Leader
        PROVE  AckedNow(G, N, A, K, j, currentTerm[i], x) /\ y \in 1 .. LastLogIndex(i) + 1
    <3>1. /\ t \in Nat /\ t \in Terms /\ <<t, i>> \in elected
          /\ LeadersLog(G, N, t, Entries(i), LastLogIndex(i)) /\ N[t] = LastLogIndex(i)
          /\ \A k \in Server : AckedNow(G, N, A, K, k, t, matchIndex[i][k])
      BY <2>5, <2>7, LeaderFacts
    <3>2. y \in 1 .. LastLogIndex(i) + 1
      BY <1>2, <2>4, <2>6, <3>1, BackUpInLog
    <3> QED BY <2>4, <2>5, <3>1, <3>2
  <2>8. /\ \A k \in Server : k # i =>
             matchIndex'[k] = matchIndex[k] /\ nextIndex'[k] = nextIndex[k]
        /\ \A k \in Server : k # j =>
             matchIndex'[i][k] = matchIndex[i][k] /\ nextIndex'[i][k] = nextIndex[i][k]
    BY <1>8 DEF TypeOK
  <2> QED BY <1>4, <2>1, <2>2, <2>3, <2>7, <2>8, LogProgress
<1> QED BY <1>1, <1>6, <1>7, <1>8 DEF HandleAppendReply

\* HandleSnapReply.
LEMMA LogSnapReply ==
  ASSUME Known, Known', TermsGrow, NEW G, NEW N, NEW A, NEW K, LogInv(G, N, A, K),
         NEW r \in snapReplies, HandleSnapReply(r)
  PROVE  LogInv(G, N, A, K)'
<1> USE DEF Known
<1>1. PICK i \in Server, j \in Server, t \in Nat, z \in Nat :
        i = r.args.from /\ j = r.args.to /\ t = r.args.term /\ z = r.args.lastIncludedIndex
  <2>1. /\ r.args.from \in Server /\ r.args.to \in Server /\ r.args.term \in Nat
        /\ r.args.lastIncludedIndex \in Nat
    BY DEF TypeOK, SnapArgs
  <2> QED BY <2>1
<1>2. ReplyIsToLeader(r) /\ j # i
  BY <1>1 DEF ElectInv, CallersAreOthers, ReplyIsToLeader
<1>3. UNCHANGED <<applyVars, voteMsgs, appendMsgs, snapMsgs, historyVars>>
  BY DEF HandleSnapReply
<1>4. /\ UNCHANGED <<votes, elected, applied, applyVars, appendMsgs, snapMsgs>>
      /\ UNCHANGED <<commitIndex, lastApplied>> /\ SameMessages
  BY <1>3 DEF applyVars, appendMsgs, snapMsgs, historyVars, SameMessages
<1>5. SnapReplyOK(G, N, A, K, r)
  BY DEF LogInv
<1>6. CASE ReplyFromNewerTerm(i, r) /\ UNCHANGED leaderVars
  <2>1. UpdateTermAndBecomeFollower(i, r.term)
    BY <1>6 DEF ReplyFromNewerTerm
  <2> QED BY <1>4, <1>6, <2>1, LogStepDown
<1>7. CASE /\ ReplyOfThisTerm(i, r)
           /\ nextIndex' = [nextIndex EXCEPT ![i][j] = Max({@, z + 1})]
           /\ matchIndex' = [matchIndex EXCEPT ![i][j] = Max({@, z})]
           /\ UNCHANGED <<raftState, gotVotes, leaderID, persistVars>>
  <2>1. UNCHANGED <<currentTerm, raftState, logs, snapshotIndex>>
    BY <1>7 DEF persistVars
  <2>2. PICK x, y : x = matchIndex'[i][j] /\ y = nextIndex'[i][j]
    OBVIOUS
  <2>3. x \in Nat /\ y \in Nat
    BY <2>2 DEF TypeOK
  <2>4. x = Max({matchIndex[i][j], z}) /\ y = Max({nextIndex[i][j], z + 1})
    BY <1>7, <2>2 DEF TypeOK
  <2>5. t = currentTerm[i] /\ r.term = t
    BY <1>1, <1>2, <1>7, ReplyIsCurrent
  <2>6. AckedNow(G, N, A, K, j, currentTerm[i], z)
    <3>1. r.term <= r.args.term
      BY <1>1, <2>5
    <3> QED BY <1>1, <1>5, <2>5, <3>1 DEF SnapReplyOK
  <2>7. raftState[i] = Leader =>
          AckedNow(G, N, A, K, j, currentTerm[i], x) /\ y \in 1 .. LastLogIndex(i) + 1
    BY <1>2, <2>4, <2>6, LargerAck
  <2>8. /\ \A k \in Server : k # i =>
             matchIndex'[k] = matchIndex[k] /\ nextIndex'[k] = nextIndex[k]
        /\ \A k \in Server : k # j =>
             matchIndex'[i][k] = matchIndex[i][k] /\ nextIndex'[i][k] = nextIndex[i][k]
    BY <1>7 DEF TypeOK
  <2> QED BY <1>4, <2>1, <2>2, <2>3, <2>7, <2>8, LogProgress
<1> QED BY <1>1, <1>6, <1>7 DEF HandleSnapReply

-----------------------------------------------------------------------------
(* The invariant of the logs.                                              *)

\* Every action keeps it.
LEMMA LogNext ==
  ASSUME Known, Known', TermsGrow, LogSafe, [Next]_vars
  PROVE  LogSafe'
<1>0. PICK G, N, A, K : LogInv(G, N, A, K)
  BY DEF LogSafe
<1>15. LogInv(G, N, A, K)' => LogSafe'
  BY DEF LogSafe
<1>1. ASSUME NEW i \in Server, StartAElection(i) PROVE LogSafe'
  BY <1>0, <1>1, <1>15, LogElection
<1>2. ASSUME NEW i \in Server, HeartBeat(i) PROVE LogSafe'
  BY <1>0, <1>2, <1>15, LogHeartBeat
<1>3. ASSUME NEW i \in Server, Commit(i) PROVE LogSafe'
  BY <1>0, <1>3, LogCommit
<1>4. ASSUME NEW i \in Server, Apply(i) PROVE LogSafe'
  BY <1>0, <1>4, <1>15, LogApply
<1>5. ASSUME NEW i \in Server, Restart(i) PROVE LogSafe'
  BY <1>0, <1>5, <1>15, LogRestart
<1>6. ASSUME NEW i \in Server, NEW cmd \in Command, Start(i, cmd) PROVE LogSafe'
  BY <1>0, <1>6, LogStart
<1>7. ASSUME NEW i \in Server, NEW index \in SnapshotAt, Snapshot(i, index) PROVE LogSafe'
  BY <1>0, <1>7, <1>15, LogSnapshot
<1>8. ASSUME NEW m \in voteRequests, RequestVote(m) PROVE LogSafe'
  BY <1>0, <1>8, <1>15, LogVote
<1>9. ASSUME NEW m \in appendRequests, AppendEntries(m) PROVE LogSafe'
  BY <1>0, <1>9, LogAppend
<1>10. ASSUME NEW m \in snapRequests, InstallSnapshot(m) PROVE LogSafe'
  BY <1>0, <1>10, <1>15, LogInstall
<1>11. ASSUME NEW r \in voteReplies, HandleVoteReply(r) PROVE LogSafe'
  BY <1>0, <1>11, LogVoteReply
<1>12. ASSUME NEW r \in appendReplies, HandleAppendReply(r) PROVE LogSafe'
  BY <1>0, <1>12, <1>15, LogAppendReply
<1>13. ASSUME NEW r \in snapReplies, HandleSnapReply(r) PROVE LogSafe'
  BY <1>0, <1>13, <1>15, LogSnapReply
<1>14. CASE UNCHANGED vars
  <2>1. /\ \A j \in Server : Untouched(j)
        /\ UNCHANGED <<votes, elected>>
        /\ appendRequests' \ appendRequests = {} /\ snapRequests' \ snapRequests = {}
        /\ appendReplies' \ appendReplies = {} /\ snapReplies' \ snapReplies = {}
        /\ applied' \ applied = {}
    BY <1>14 DEF vars, electionVars, persistVars, applyVars, leaderVars, appendMsgs,
                 snapMsgs, historyVars, Untouched
  <2> QED BY <1>0, <1>15, <2>1, LogStutter
<1> QED BY <1>1, <1>2, <1>3, <1>4, <1>5, <1>6, <1>7, <1>8, <1>9, <1>10, <1>11, <1>12,
           <1>13, <1>14
        DEF Next

\* Before the first election no log has an entry.
LEMMA LogInit == Init => LogSafe
<1> SUFFICES ASSUME Init PROVE LogSafe
  OBVIOUS
<1> DEFINE G == [t \in Nat |-> [k \in Nat |-> Dummy(0)]]
           N == [t \in Nat |-> 0]
           A == [t \in Nat |-> [j \in Server |-> 0]]
<1>1. Dummy(0) \in LogEntry
  BY DEF Dummy, LogEntry
<1>2. Terms = {}
  BY DEF Init, Terms
<1>3. /\ G \in LogFunctions /\ N \in [Nat -> Nat] /\ A \in [Nat -> [Server -> Nat]]
      /\ \A t \in Nat : N[t] = 0 /\ 1 .. N[t] = {} /\ \A j \in Server : A[t][j] = 0
  BY <1>1 DEF LogFunctions
<1> HIDE DEF G, N, A
<1>4. Ghosts(G, N, A, N, Terms)
  BY <1>2, <1>3 DEF Ghosts, Tree
<1>5. Commits(G, N, A, N)
  BY <1>3 DEF Commits
<1>6. ASSUME NEW i \in Server PROVE PeerNow(G, N, A, N, i)
  <2>1. /\ snapshotIndex[i] = 0 /\ LastLogIndex(i) = 0 /\ currentTerm[i] = 0
        /\ commitIndex[i] = 0 /\ lastApplied[i] = 0 /\ Log(i, 0) = Dummy(0)
    BY DEF Init, LastLogIndex, Log, Slot
  <2>2. Entries(i)[0] = Dummy(0)
    BY <2>1 DEF Entries
  <2>3. Dummy(0).term = 0
    BY DEF Dummy
  <2>4. 0 + 1 .. 0 = {} /\ 0 <= 0 /\ ~(0 > 0)
    OBVIOUS
  <2>5. Done(G, N, 0, 0, 0)
    BY DEF Done
  <2>6. Branch(G, N, N, Entries(i), 0, 0, 0)
    BY <2>2, <2>3, <2>4, <2>5 DEF Branch
  <2>7. Kept(G, N, A, Terms, i, Entries(i), 0, 0)
    BY <1>3 DEF Kept, Own
  <2>8. Committed(G, N, Entries(i), 0, 0, 0, 0)
    BY <2>2, <2>3, <2>4, <2>5 DEF Committed
  <2> QED BY <2>1, <2>4, <2>6, <2>7, <2>8 DEF PeerNow, PeerOK
<1>7. /\ elected = {} /\ votes = {} /\ applied = {} /\ appendRequests = {}
      /\ snapRequests = {} /\ appendReplies = {} /\ snapReplies = {}
      /\ \A i \in Server : raftState[i] = Follower
  BY DEF Init
<1>8. \A i \in Server : raftState[i] # Leader /\ raftState[i] # Candidate
  BY <1>7 DEF Follower, Candidate, Leader
<1>9. LogInv(G, N, A, N)
  BY <1>4, <1>5, <1>6, <1>7, <1>8 DEF LogInv, VoteCounts
<1> QED BY <1>9 DEF LogSafe

\* As long as no term has two leaders, the logs of all the leaders form one
\* tree: every peer's log is a piece of it, every later leader has what was
\* committed, and what travels in messages of any age is true of it.
THEOREM LogInvariant == Spec /\ []ElectionSafety => []LogSafe
<1>1. TypeInv => TypeOK
  BY DEF TypeInv
<1>2. (/\ TypeInv /\ DiskInSync /\ QuorumInv /\ HintInv /\ ElectInv /\ ElectionSafety
       /\ TypeInv' /\ DiskInSync' /\ QuorumInv' /\ HintInv' /\ ElectInv'
       /\ ElectionSafety' /\ LogSafe /\ [Next]_vars)
        => LogSafe'
  <2> SUFFICES ASSUME TypeInv, DiskInSync, QuorumInv, HintInv, ElectInv, ElectionSafety,
                      TypeInv', DiskInSync', QuorumInv', HintInv', ElectInv',
                      ElectionSafety', LogSafe, [Next]_vars
               PROVE  LogSafe'
    OBVIOUS
  <2>1. Known /\ Known'
    BY <1>1 DEF Known, TypeInv
  <2>2. TermsGrow
    BY <1>1, TermStep
  <2> QED BY <2>1, <2>2, LogNext
<1> QED BY <1>2, LogInit, TypeInvariant, DiskIsInSync, QuorumInvariant, HintInvariant,
           ElectInvariant, PTL DEF Spec

-----------------------------------------------------------------------------
(* What the invariant implies.                                             *)

\* The apply, commit and heartBeat loops stay within rf.logs.
LEMMA LogSafeNoPanic == ASSUME Known, LogSafe PROVE NoPanic
<1>1. PICK G, N, A, K : LogInv(G, N, A, K)
  BY DEF LogSafe
<1>2. ASSUME NEW i \in Server
      PROVE  /\ snapshotIndex[i] <= lastApplied[i] /\ lastApplied[i] <= commitIndex[i]
             /\ commitIndex[i] <= LastLogIndex(i)
  BY <1>1 DEF LogInv, PeerNow, PeerOK, Committed
<1>3. ASSUME NEW i \in Server, raftState[i] = Leader, NEW j \in Server \ {i}
      PROVE  SendableTo(i, j)
  BY <1>1, <1>3 DEF LogInv, LeaderNow
<1> QED BY <1>2, <1>3 DEF NoPanic

\* Two peers that have entries of one term at an index have the same entries.
LEMMA LogSafeMatching == ASSUME Known, LogSafe PROVE LogMatching
<1>1. PICK G, N, A, K : LogInv(G, N, A, K)
  BY DEF LogSafe
<1>2. TypeOK /\ Ghosts(G, N, A, K, Terms)
  BY <1>1 DEF Known, LogInv
<1>3. ASSUME NEW i \in Server, NEW j \in Server,
             NEW base, base = Max({snapshotIndex[i], snapshotIndex[j]}),
             NEW top, top = Min({LastLogIndex(i), LastLogIndex(j)}),
             NEW k \in base + 1 .. top, Log(i, k).term = Log(j, k).term,
             NEW n \in base + 1 .. k
      PROVE  Log(i, n) = Log(j, n)
  <2>1. PICK f, s, x, g, z, y :
          /\ f = Entries(i) /\ s = snapshotIndex[i] /\ x = LastLogIndex(i)
          /\ g = Entries(j) /\ z = snapshotIndex[j] /\ y = LastLogIndex(j)
    OBVIOUS
  <2>2. /\ IsLog(f, s, x) /\ \A l \in s .. x : f[l] = Log(i, l)
        /\ IsLog(g, z, y) /\ \A l \in z .. y : g[l] = Log(j, l)
    BY <1>2, <2>1, EntriesType
  <2>3. s \in Nat /\ x \in Nat /\ z \in Nat /\ y \in Nat
    BY <2>2 DEF IsLog
  <2>4. /\ base \in Nat /\ top \in Nat /\ base >= s /\ base >= z /\ top <= x /\ top <= y
    <3>1. s \in Int /\ z \in Int /\ x \in Int /\ y \in Int
      BY <2>3
    <3>2. /\ Max({s, z}) = IF s >= z THEN s ELSE z
          /\ Min({x, y}) = IF x <= y THEN x ELSE y
      BY <3>1, MinMaxPair
    <3> QED BY <1>3, <2>1, <2>3, <3>2
  <2>5. /\ k \in Nat /\ n \in Nat /\ n <= k /\ 1 <= n
        /\ k > s /\ k <= x /\ n > s /\ n <= x /\ k > z /\ k <= y /\ n > z /\ n <= y
    BY <1>3, <2>3, <2>4
  <2>6. PICK V \in Nat, U \in Nat : V = currentTerm[i] /\ U = currentTerm[j]
    <3>1. currentTerm[i] \in Nat /\ currentTerm[j] \in Nat
      BY <1>2 DEF TypeOK
    <3> QED BY <3>1
  <2>7. Branch(G, N, K, f, s, x, V) /\ Branch(G, N, K, g, z, y, U)
    BY <1>1, <2>1, <2>6 DEF LogInv, PeerNow, PeerOK
  <2>8. PICK w, v : w = f[x].term /\ v = g[y].term
    OBVIOUS
  <2>9. /\ w \in Nat /\ N[w] \in Nat /\ \A l \in s + 1 .. x : f[l] = G[w][l]
    BY <1>2, <2>2, <2>6, <2>7, <2>8, BranchFacts
  <2>10. /\ v \in Nat /\ N[v] \in Nat
         /\ \A l \in z + 1 .. y : l \in 1 .. N[v] /\ g[l] = G[v][l]
    BY <1>2, <2>2, <2>6, <2>7, <2>8, BranchFacts
  <2>11. k \in s + 1 .. x /\ n \in s + 1 .. x /\ k \in z + 1 .. y /\ n \in z + 1 .. y
    BY <2>3, <2>5
  <2>12. k \in s .. x /\ n \in s .. x /\ k \in z .. y /\ n \in z .. y
    BY <2>3, <2>5
  <2>13. f[k].term = G[v][k].term
    BY <1>3, <2>2, <2>10, <2>11, <2>12
  <2>14. k <= N[v]
    BY <2>5, <2>10, <2>11
  <2>15. Same(G, N, w, v, k)
    BY <1>2, <2>2, <2>5, <2>6, <2>7, <2>8, <2>10, <2>13, <2>14, BranchMatch
  <2>16. n \in 1 .. k
    BY <2>5
  <2>17. G[w][n] = G[v][n]
    BY <2>15, <2>16 DEF Same
  <2> QED BY <2>2, <2>9, <2>10, <2>11, <2>12, <2>17
<1> QED BY <1>3 DEF LogMatching

\* A leader has the log of its term, and that log lacks nothing.
LEMMA LeaderHas ==
  ASSUME Known, NEW G, NEW N, NEW A, NEW K, LogInv(G, N, A, K), NEW i \in Server,
         raftState[i] = Leader, NEW T, T = currentTerm[i]
  PROVE  /\ T \in Nat /\ Complete(G, N, K, T) /\ N[T] = LastLogIndex(i)
         /\ \A q \in Server : AckedNow(G, N, A, K, q, T, matchIndex[i][q])
         /\ \A k \in snapshotIndex[i] + 1 .. LastLogIndex(i) : Entries(i)[k] = G[T][k]
<1>1. /\ T \in Nat /\ T >= 1 /\ T \in Terms /\ <<T, i>> \in elected
      /\ Complete(G, N, K, T)
      /\ LeadersLog(G, N, T, Entries(i), LastLogIndex(i))
      /\ K[T] <= commitIndex[i] /\ N[T] = LastLogIndex(i)
      /\ \A k \in Nat : Own(G, N, T, k) => k <= A[T][i]
      /\ \A q \in Server : AckedNow(G, N, A, K, q, T, matchIndex[i][q])
      /\ \A q \in Server \ {i} : SendableTo(i, q)
      /\ \A k \in snapshotIndex[i] + 1 .. LastLogIndex(i) : Entries(i)[k] = G[T][k]
      /\ \A k \in snapshotIndex[i] .. LastLogIndex(i) :
           Entries(i)[k].term = IF k = 0 THEN 0 ELSE G[T][k].term
  BY LeaderFacts
<1> QED BY <1>1

\* A peer in the leader's term has the leader's entries up to matchIndex.
LEMMA LogSafeReplicated == ASSUME Known, LogSafe PROVE MatchIndexIsReplicated
<1>1. PICK G, N, A, K : LogInv(G, N, A, K)
  BY DEF LogSafe
<1>2. ASSUME NEW i \in Server, NEW j \in Server, raftState[i] = Leader,
             currentTerm[j] = currentTerm[i]
      PROVE  /\ matchIndex[i][j] <= LastLogIndex(j)
             /\ \A k \in 1 .. matchIndex[i][j] :
                  k > snapshotIndex[i] /\ k > snapshotIndex[j] => Log(i, k) = Log(j, k)
  <2>1. PICK T : T = currentTerm[i]
    OBVIOUS
  <2>2. /\ T \in Nat /\ Complete(G, N, K, T) /\ N[T] = LastLogIndex(i)
        /\ \A q \in Server : AckedNow(G, N, A, K, q, T, matchIndex[i][q])
        /\ \A k \in snapshotIndex[i] + 1 .. LastLogIndex(i) : Entries(i)[k] = G[T][k]
    BY <1>1, <1>2, <2>1, LeaderHas
  <2>3. PICK x \in Nat : x = matchIndex[i][j]
    <3>1. matchIndex[i][j] \in Nat
      BY DEF Known, TypeOK
    <3> QED BY <3>1
  <2>4. /\ x <= N[T] /\ x <= LastLogIndex(j)
        /\ \A k \in snapshotIndex[j] + 1 .. x : Entries(j)[k] = G[T][k]
    <3>1. AckedNow(G, N, A, K, j, T, x)
      BY <2>2, <2>3
    <3> QED BY <1>2, <2>1, <3>1 DEF AckedNow, Acked
  <2>5. /\ \A k \in snapshotIndex[i] .. LastLogIndex(i) : Entries(i)[k] = Log(i, k)
        /\ \A k \in snapshotIndex[j] .. LastLogIndex(j) : Entries(j)[k] = Log(j, k)
    BY EntriesType DEF Known
  <2>6. /\ snapshotIndex[i] \in Nat /\ LastLogIndex(i) \in Nat
        /\ snapshotIndex[j] \in Nat /\ LastLogIndex(j) \in Nat
    BY LogTypes DEF Known
  <2>7. ASSUME NEW k \in 1 .. x, k > snapshotIndex[i], k > snapshotIndex[j]
        PROVE  Log(i, k) = Log(j, k)
    <3>1. /\ k \in snapshotIndex[i] + 1 .. LastLogIndex(i)
          /\ k \in snapshotIndex[j] + 1 .. x
          /\ k \in snapshotIndex[i] .. LastLogIndex(i)
          /\ k \in snapshotIndex[j] .. LastLogIndex(j)
      BY <2>2, <2>3, <2>4, <2>6, <2>7
    <3> QED BY <2>2, <2>4, <2>5, <3>1
  <2> QED BY <2>3, <2>4, <2>7
<1> QED BY <1>2 DEF MatchIndexIsReplicated

\* What was applied was committed by the leader of a term.
LEMMA AppliedInTerm ==
  ASSUME Known, NEW G, NEW N, NEW A, NEW K, LogInv(G, N, A, K), NEW a \in applied
  PROVE  \E t \in Terms : /\ t \in Nat /\ a[1] \in Nat /\ a[1] > 0 /\ a[1] <= K[t]
                          /\ K[t] \in Nat /\ N[t] \in Nat /\ G[t][a[1]] = a[2]
<1>1. PICK t \in Nat : a[1] > 0 /\ a[1] <= K[t] /\ G[t][a[1]] = a[2]
  BY DEF LogInv, AppliedOK
<1>2. /\ K[t] \in Nat /\ N[t] \in Nat /\ K[t] <= N[t] /\ (t \notin Terms => N[t] = 0)
  BY <1>1 DEF LogInv, Ghosts, Tree
<1>3. a[1] \in Nat
  BY DEF Known, TypeOK
<1>4. t \in Terms
  BY <1>1, <1>2, <1>3
<1> QED BY <1>1, <1>2, <1>3, <1>4

\* One entry is applied at an index.
LEMMA LogSafeApplied == ASSUME Known, LogSafe PROVE StateMachineSafety
<1>1. PICK G, N, A, K : LogInv(G, N, A, K)
  BY DEF LogSafe
<1>2. ASSUME NEW a \in applied, NEW b \in applied, a[1] = b[1],
             NEW t \in Terms, NEW u \in Terms, t \in Nat, u \in Nat, t <= u,
             a[1] \in Nat, a[1] > 0, a[1] <= K[t], K[t] \in Nat
      PROVE  G[t][a[1]] = G[u][a[1]]
  <2>1. Complete(G, N, K, u)
    BY <1>1, LeadersComplete
  <2>2. t \in 0 .. u
    BY <1>2
  <2>3. Same(G, N, t, u, K[t])
    BY <2>1, <2>2 DEF Complete
  <2>4. a[1] \in 1 .. K[t]
    BY <1>2
  <2> QED BY <2>3, <2>4 DEF Same
<1>3. ASSUME NEW a \in applied, NEW b \in applied, a[1] = b[1]
      PROVE  a[2] = b[2]
  <2>1. PICK t \in Terms : /\ t \in Nat /\ a[1] \in Nat /\ a[1] > 0 /\ a[1] <= K[t]
                           /\ K[t] \in Nat /\ G[t][a[1]] = a[2]
    BY <1>1, AppliedInTerm
  <2>2. PICK u \in Terms : /\ u \in Nat /\ b[1] \in Nat /\ b[1] > 0 /\ b[1] <= K[u]
                           /\ K[u] \in Nat /\ G[u][b[1]] = b[2]
    BY <1>1, AppliedInTerm
  <2>3. CASE t <= u
    BY <1>2, <1>3, <2>1, <2>2, <2>3
  <2>4. CASE u <= t
    BY <1>2, <1>3, <2>1, <2>2, <2>4
  <2> QED BY <2>1, <2>2, <2>3, <2>4
<1> QED BY <1>3 DEF StateMachineSafety

\* The newest leader has every applied entry.
LEMMA LogSafeComplete == ASSUME Known, LogSafe PROVE LeaderCompleteness
<1>1. PICK G, N, A, K : LogInv(G, N, A, K)
  BY DEF LogSafe
<1>2. ASSUME NEW i \in Server, raftState[i] = Leader,
             \A e \in elected : e[1] <= currentTerm[i], NEW a \in applied
      PROVE  \/ a[1] <= snapshotIndex[i]
             \/ a[1] <= LastLogIndex(i) /\ Log(i, a[1]) = a[2]
  <2>1. PICK T : T = currentTerm[i]
    OBVIOUS
  <2>2. /\ T \in Nat /\ Complete(G, N, K, T) /\ N[T] = LastLogIndex(i)
        /\ \A q \in Server : AckedNow(G, N, A, K, q, T, matchIndex[i][q])
        /\ \A k \in snapshotIndex[i] + 1 .. LastLogIndex(i) : Entries(i)[k] = G[T][k]
    BY <1>1, <1>2, <2>1, LeaderHas
  <2>3. PICK t \in Terms : /\ t \in Nat /\ a[1] \in Nat /\ a[1] > 0 /\ a[1] <= K[t]
                           /\ K[t] \in Nat /\ N[t] \in Nat /\ G[t][a[1]] = a[2]
    BY <1>1, AppliedInTerm
  <2>4. t <= T
    BY <1>2, <2>1 DEF Terms
  <2>5. Same(G, N, t, T, K[t])
    <3>1. t \in 0 .. T
      BY <2>2, <2>3, <2>4
    <3> QED BY <2>2, <3>1 DEF Complete
  <2>6. a[1] \in 1 .. K[t]
    BY <2>3
  <2>7. K[t] <= N[T] /\ G[T][a[1]] = a[2]
    BY <2>3, <2>5, <2>6 DEF Same
  <2>8. /\ \A k \in snapshotIndex[i] .. LastLogIndex(i) : Entries(i)[k] = Log(i, k)
        /\ snapshotIndex[i] \in Nat /\ LastLogIndex(i) \in Nat
    BY EntriesType, LogTypes DEF Known
  <2>9. a[1] <= LastLogIndex(i)
    BY <2>2, <2>3, <2>7, <2>8
  <2>10. CASE a[1] > snapshotIndex[i]
    <3>1. /\ a[1] \in snapshotIndex[i] + 1 .. LastLogIndex(i)
          /\ a[1] \in snapshotIndex[i] .. LastLogIndex(i)
      BY <2>3, <2>8, <2>9, <2>10
    <3> QED BY <2>2, <2>7, <2>8, <2>9, <3>1
  <2> QED BY <2>3, <2>8, <2>10
<1> QED BY <1>2 DEF LeaderCompleteness

\* commitIndex goes back in a restart only.
CommitsGrow ==
  \A i \in Server : restarts'[i] = restarts[i] => commitIndex'[i] >= commitIndex[i]

\* No step takes a commit index back: AppendEntries cuts nothing that is
\* committed.
LEMMA CommitStep ==
  ASSUME Known, Known', TermsGrow, LogSafe, [Next]_vars
  PROVE  CommitsGrow
<1>0. PICK G, N, A, K : LogInv(G, N, A, K)
  BY DEF LogSafe
<1>1. /\ commitIndex \in [Server -> Nat] /\ commitIndex' \in [Server -> Nat]
      /\ restarts \in [Server -> Nat]
  BY DEF Known, TypeOK
<1>2. ASSUME UNCHANGED commitIndex PROVE CommitsGrow
  BY <1>1, <1>2 DEF CommitsGrow
<1>3. ASSUME NEW i \in Server, NEW c, commitIndex' = [commitIndex EXCEPT ![i] = c],
             commitIndex'[i] >= commitIndex[i]
      PROVE  CommitsGrow
  BY <1>1, <1>3 DEF CommitsGrow
<1>4. ASSUME NEW i \in Server, Commit(i) PROVE CommitsGrow
  <2>1. PICK index : commitIndex' = [commitIndex EXCEPT ![i] =
                                       IF Committable(i, index) THEN index ELSE @]
    BY <1>4 DEF Commit
  <2>2. commitIndex'[i] = IF Committable(i, index) THEN index ELSE commitIndex[i]
    BY <1>1, <2>1
  <2>3. commitIndex'[i] >= commitIndex[i]
    BY <1>1, <2>2 DEF Committable
  <2> QED BY <1>3, <2>1, <2>3
<1>5. ASSUME NEW i \in Server, Restart(i) PROVE CommitsGrow
  <2>1. /\ restarts'[i] = restarts[i] + 1
        /\ \A j \in Server : j # i => commitIndex'[j] = commitIndex[j]
    BY <1>1, <1>5 DEF Restart
  <2>2. restarts'[i] # restarts[i]
    BY <1>1, <2>1
  <2>3. \A j \in Server : j # i => commitIndex'[j] >= commitIndex[j]
    BY <1>1, <2>1
  <2> QED BY <2>2, <2>3 DEF CommitsGrow
<1>6. ASSUME NEW m \in appendRequests, AppendEntries(m) PROVE CommitsGrow
  <2>1. m.to \in Server
    BY DEF Known, TypeOK, AppendArgs
  <2>2. CASE Accepts(m.to, m) /\ PrevMatches(m.to, m)
    <3>1. commitIndex' = [commitIndex EXCEPT ![m.to] =
                            FollowerCommit(m.to, m, LastLogIndex(m.to)')]
      BY <1>6, <2>2 DEF AppendEntries
    <3>2. commitIndex'[m.to] >= commitIndex[m.to]
      BY <1>0, <1>6, <2>2, LogAppendMatch
    <3> QED BY <1>3, <2>1, <3>1, <3>2
  <2>3. CASE ~(Accepts(m.to, m) /\ PrevMatches(m.to, m))
    <3>1. UNCHANGED commitIndex
      BY <1>6, <2>3 DEF AppendEntries
    <3> QED BY <1>2, <3>1
  <2> QED BY <2>2, <2>3
<1>7. ASSUME NEW m \in snapRequests, InstallSnapshot(m) PROVE CommitsGrow
  <2>1. m.to \in Server /\ m.lastIncludedIndex \in Nat
    BY DEF Known, TypeOK, SnapArgs
  <2>2. \/ UNCHANGED commitIndex
        \/ commitIndex' = [commitIndex EXCEPT ![m.to] = Raised(@, m.lastIncludedIndex)]
    BY <1>7 DEF InstallSnapshot, applyVars
  <2>3. CASE commitIndex' = [commitIndex EXCEPT ![m.to] = Raised(@, m.lastIncludedIndex)]
    <3>1. commitIndex'[m.to] = Raised(commitIndex[m.to], m.lastIncludedIndex)
      BY <1>1, <2>1, <2>3
    <3>2. commitIndex'[m.to] >= commitIndex[m.to]
      BY <1>1, <2>1, <3>1 DEF Raised
    <3> QED BY <1>3, <2>1, <2>3, <3>2
  <2> QED BY <1>2, <2>2, <2>3
<1>8. ASSUME NEW i \in Server,
             \/ StartAElection(i) \/ HeartBeat(i) \/ Apply(i)
             \/ \E cmd \in Command : Start(i, cmd)
             \/ \E index \in SnapshotAt : Snapshot(i, index)
      PROVE  CommitsGrow
  <2>1. UNCHANGED commitIndex
    BY <1>8 DEF StartAElection, HeartBeat, Apply, Start, Snapshot, applyVars
  <2> QED BY <1>2, <2>1
<1>9. ASSUME \/ \E m \in voteRequests : RequestVote(m)
             \/ \E r \in voteReplies : HandleVoteReply(r)
             \/ \E r \in appendReplies : HandleAppendReply(r)
             \/ \E r \in snapReplies : HandleSnapReply(r)
             \/ UNCHANGED vars
      PROVE  CommitsGrow
  <2>1. UNCHANGED commitIndex
    BY <1>9 DEF RequestVote, HandleVoteReply, HandleAppendReply, HandleSnapReply, vars,
                applyVars
  <2> QED BY <1>2, <2>1
<1> QED BY <1>4, <1>5, <1>6, <1>7, <1>8, <1>9 DEF Next

\* The log of a leader that stays leader grows at its end.
LeaderKeeps(i) ==
  (raftState[i] = Leader /\ raftState'[i] = Leader /\ currentTerm'[i] = currentTerm[i]) =>
    /\ LastLogIndex(i)' >= LastLogIndex(i)
    /\ snapshotIndex'[i] <= commitIndex[i]
    /\ \A k \in snapshotIndex'[i] + 1 .. LastLogIndex(i) :
         logs'[i][k - snapshotIndex'[i] + 1] = Log(i, k)

\* No other leader of its term is there to change it.
LEMMA LeaderKeepsLog ==
  ASSUME Known, Known', LogSafe, [Next]_vars
  PROVE  \A i \in Server : LeaderKeeps(i)
<1>0. /\ TypeOK /\ TypeOK' /\ NoPanic
      /\ \A j \in Server :
           /\ snapshotIndex[j] \in Nat /\ LastLogIndex(j) \in Nat /\ commitIndex[j] \in Nat
           /\ lastApplied[j] \in Nat /\ snapshotIndex[j] <= commitIndex[j]
           /\ logs[j] \in Seq(LogEntry) /\ Len(logs[j]) \in Nat \ {0}
           /\ lastApplied[j] <= commitIndex[j]
  <2>1. TypeOK /\ TypeOK' /\ NoPanic
    BY LogSafeNoPanic DEF Known
  <2>2. ASSUME NEW j \in Server
        PROVE  /\ snapshotIndex[j] \in Nat /\ LastLogIndex(j) \in Nat
               /\ commitIndex[j] \in Nat /\ lastApplied[j] \in Nat
               /\ logs[j] \in Seq(LogEntry) /\ Len(logs[j]) \in Nat \ {0}
    BY <2>1, LogTypes DEF TypeOK
  <2>3. ASSUME NEW j \in Server
        PROVE  snapshotIndex[j] <= commitIndex[j] /\ lastApplied[j] <= commitIndex[j]
    BY <2>1, <2>2 DEF NoPanic
  <2> QED BY <2>1, <2>2, <2>3
<1>1. ASSUME NEW j \in Server, logs'[j] = logs[j], snapshotIndex'[j] = snapshotIndex[j]
      PROVE  LeaderKeeps(j)
  <2>1. LastLogIndex(j)' = LastLogIndex(j)
    BY <1>1 DEF LastLogIndex
  <2>2. \A k \in snapshotIndex'[j] + 1 .. LastLogIndex(j) :
          logs'[j][k - snapshotIndex'[j] + 1] = Log(j, k)
    BY <1>1 DEF Log, Slot
  <2> QED BY <1>0, <1>1, <2>1, <2>2 DEF LeaderKeeps
<1>2. ASSUME UNCHANGED <<logs, snapshotIndex>> PROVE \A j \in Server : LeaderKeeps(j)
  BY <1>1, <1>2
<1>3. ASSUME NEW i \in Server, \A j \in Server : j # i => Untouched(j), LeaderKeeps(i)
      PROVE  \A j \in Server : LeaderKeeps(j)
  BY <1>1, <1>3 DEF Untouched
<1>4. ASSUME NEW i \in Server, NEW cmd \in Command, Start(i, cmd)
      PROVE  \A j \in Server : LeaderKeeps(j)
  <2>1. /\ logs' = [logs EXCEPT ![i] = Started(i, cmd)] /\ snapshotIndex' = snapshotIndex
        /\ \A j \in Server : j # i => logs'[j] = logs[j]
        /\ logs'[i] = Started(i, cmd)
    BY <1>0, <1>4 DEF Start, TypeOK
  <2>2. PICK e : Started(i, cmd) = Append(logs[i], e) /\ e \in LogEntry
    <3>1. currentTerm[i] \in Nat
      BY <1>0 DEF TypeOK
    <3> QED BY <3>1 DEF Started, LogEntry
  <2>3. Len(logs'[i]) = Len(logs[i]) + 1 /\ \A k \in 1 .. Len(logs[i]) : logs'[i][k] = logs[i][k]
    BY <1>0, <2>1, <2>2
  <2>4. LastLogIndex(i)' >= LastLogIndex(i)
    BY <1>0, <2>1, <2>3 DEF LastLogIndex
  <2>5. ASSUME NEW k \in snapshotIndex[i] + 1 .. LastLogIndex(i)
        PROVE  logs'[i][k - snapshotIndex[i] + 1] = Log(i, k)
    <3>1. k - snapshotIndex[i] + 1 \in 1 .. Len(logs[i])
      BY <1>0, <2>5 DEF LastLogIndex
    <3> QED BY <2>3, <3>1 DEF Log, Slot
  <2>6. LeaderKeeps(i)
    BY <1>0, <2>1, <2>4, <2>5 DEF LeaderKeeps
  <2> QED BY <1>1, <2>1, <2>6
<1>5. ASSUME NEW i \in Server, NEW index \in SnapshotAt, Snapshot(i, index)
      PROVE  \A j \in Server : LeaderKeeps(j)
  <2>1. /\ index \in snapshotIndex[i] .. lastApplied[i] /\ index <= LastLogIndex(i)
        /\ logs'[i] = SubSeq(logs[i], Slot(i, index), Len(logs[i]))
        /\ snapshotIndex'[i] = index
        /\ \A j \in Server : j # i => logs'[j] = logs[j] /\ snapshotIndex'[j] = snapshotIndex[j]
    BY <1>0, <1>5 DEF Snapshot, TypeOK
  <2>2. PICK q : q = Slot(i, index)
    OBVIOUS
  <2>3. q \in 1 .. Len(logs[i]) /\ index \in Nat /\ q = index - snapshotIndex[i] + 1
    BY <1>0, <2>1, <2>2 DEF Slot, LastLogIndex
  <2>4. /\ Len(logs'[i]) = Len(logs[i]) - q + 1
        /\ \A k \in 1 .. Len(logs[i]) - q + 1 : logs'[i][k] = logs[i][k + q - 1]
    <3>1. logs'[i] = SubSeq(logs[i], q, Len(logs[i]))
      BY <2>1, <2>2
    <3> QED BY <1>0, <2>3, <3>1
  <2>5. LastLogIndex(i)' = LastLogIndex(i)
    <3>1. PICK l \in Int, s \in Int : l = Len(logs[i]) /\ s = snapshotIndex[i]
      BY <1>0
    <3>2. LastLogIndex(i)' = Len(logs'[i]) - 1 + index /\ LastLogIndex(i) = l - 1 + s
      BY <2>1, <3>1 DEF LastLogIndex
    <3>3. Len(logs'[i]) = l - (index - s + 1) + 1
      BY <2>3, <2>4, <3>1
    <3>4. l \in Int /\ s \in Int /\ index \in Int
      BY <2>3, <3>1
    <3>5. (l - (index - s + 1) + 1) - 1 + index = l - 1 + s
      BY ONLY <3>4
    <3> QED BY <3>2, <3>3, <3>5
  <2>6. snapshotIndex'[i] <= commitIndex[i]
    BY <1>0, <2>1, <2>3
  <2>7. ASSUME NEW k \in index + 1 .. LastLogIndex(i)
        PROVE  logs'[i][k - index + 1] = Log(i, k)
    <3>1. k - index + 1 \in 1 .. Len(logs[i]) - q + 1
      BY <1>0, <2>3, <2>7 DEF LastLogIndex
    <3>2. (k - index + 1) + q - 1 = k - snapshotIndex[i] + 1
      BY <1>0, <2>3, <2>7
    <3> QED BY <2>4, <3>1, <3>2 DEF Log, Slot
  <2>9. /\ LastLogIndex(i)' >= LastLogIndex(i)
        /\ \A k \in snapshotIndex'[i] + 1 .. LastLogIndex(i) :
             logs'[i][k - snapshotIndex'[i] + 1] = Log(i, k)
    <3>1. LastLogIndex(i) >= LastLogIndex(i)
      BY <1>0
    <3> QED BY <2>1, <2>5, <2>7, <3>1
  <2>8. LeaderKeeps(i)
    BY <2>6, <2>9 DEF LeaderKeeps
  <2> QED BY <1>1, <2>1, <2>8
<1>6. ASSUME NEW i \in Server, Restart(i) PROVE \A j \in Server : LeaderKeeps(j)
  <2>1. \A j \in Server : j # i => logs'[j] = logs[j] /\ snapshotIndex'[j] = snapshotIndex[j]
    BY <1>0, <1>6 DEF Restart, ReadPersist, TypeOK
  <2>2. raftState'[i] # Leader
    BY <1>0, <1>6 DEF Restart, TypeOK, Leader, Follower
  <2> QED BY <1>1, <2>1, <2>2 DEF LeaderKeeps
<1>7. ASSUME NEW m \in appendRequests, AppendEntries(m)
      PROVE  \A j \in Server : LeaderKeeps(j)
  <2>1. CASE ~Accepts(m.to, m)
    BY <1>2, <1>7, <2>1 DEF AppendEntries, persistVars
  <2>2. CASE Accepts(m.to, m)
    <3>1. m.to \in Server
      BY <1>0 DEF TypeOK, AppendArgs
    <3>2. /\ raftState' = [raftState EXCEPT ![m.to] = Follower]
          /\ UNCHANGED snapshotIndex
          /\ logs' = logs \/ logs' = [logs EXCEPT ![m.to] = Merged(m.to, m)]
      BY <1>7, <2>2 DEF AppendEntries
    <3>4. \A j \in Server : j # m.to => logs'[j] = logs[j]
      BY <1>0, <3>2 DEF TypeOK
    <3>3. raftState'[m.to] # Leader
      BY <1>0, <3>1, <3>2 DEF TypeOK, Leader, Follower
    <3> QED BY <1>1, <3>1, <3>2, <3>3, <3>4 DEF LeaderKeeps
  <2> QED BY <2>1, <2>2
<1>8. ASSUME NEW m \in snapRequests, InstallSnapshot(m)
      PROVE  \A j \in Server : LeaderKeeps(j)
  <2>1. CASE ~Accepts(m.to, m)
    BY <1>2, <1>8, <2>1 DEF InstallSnapshot, persistVars
  <2>2. CASE Accepts(m.to, m)
    <3>1. /\ m.to \in Server /\ m.from \in Server /\ m.to # m.from /\ m.term \in Nat
          /\ <<m.term, m.from>> \in elected
      BY DEF Known, TypeOK, SnapArgs, ElectInv, CallersAreOthers, HintInv,
             CallersAreElected
    <3>2. /\ \A j \in Server : j # m.to =>
               logs'[j] = logs[j] /\ snapshotIndex'[j] = snapshotIndex[j]
          /\ currentTerm' = [currentTerm EXCEPT ![m.to] = m.term]
          /\ raftState' = [raftState EXCEPT ![m.to] =
                             IF m.term > currentTerm[m.to] THEN Follower ELSE @]
      BY <1>0, <1>8, <2>2 DEF InstallSnapshot, TypeOK
    <3>3. currentTerm'[m.to] = m.term
      BY <1>0, <3>1, <3>2 DEF TypeOK
    <3>4. ASSUME raftState[m.to] = Leader PROVE currentTerm[m.to] # m.term
      <4>1. <<currentTerm[m.to], m.to>> \in elected
        BY <3>1, <3>4 DEF Known, HintInv, LeadersAreElected
      <4> QED BY <3>1, <4>1 DEF Known, ElectionSafety
    <3>5. LeaderKeeps(m.to)
      BY <3>3, <3>4 DEF LeaderKeeps
    <3> QED BY <1>1, <3>1, <3>2, <3>5
  <2> QED BY <2>1, <2>2
<1>9. ASSUME NEW i \in Server,
             StartAElection(i) \/ HeartBeat(i) \/ Apply(i) \/ Commit(i)
      PROVE  \A j \in Server : LeaderKeeps(j)
  BY <1>2, <1>9 DEF StartAElection, HeartBeat, Apply, Commit, persistVars
<1>10. ASSUME \/ \E m \in voteRequests : RequestVote(m)
              \/ \E r \in voteReplies : HandleVoteReply(r)
              \/ \E r \in appendReplies : HandleAppendReply(r)
              \/ \E r \in snapReplies : HandleSnapReply(r)
              \/ UNCHANGED vars
      PROVE  \A j \in Server : LeaderKeeps(j)
  <2>1. UNCHANGED <<logs, snapshotIndex>>
    BY <1>10 DEF RequestVote, HandleVoteReply, HandleAppendReply, HandleSnapReply, vars,
                 persistVars, ReplyFromNewerTerm, UpdateTermAndBecomeFollower, CountVote,
                 BecomeLeader
  <2> QED BY <1>2, <2>1
<1> QED BY <1>4, <1>5, <1>6, <1>7, <1>8, <1>9, <1>10 DEF Next

-----------------------------------------------------------------------------
(* Log safety.                                                             *)

\* All the invariants together.
THEOREM KnownInvariant == Spec /\ []ElectionSafety => [](Known /\ LogSafe)
<1>1. TypeInv => TypeOK
  BY DEF TypeInv
<1>2. TypeInv /\ DiskInSync /\ QuorumInv /\ HintInv /\ ElectInv /\ ElectionSafety => Known
  BY <1>1 DEF Known
<1> QED BY <1>2, LogInvariant, TypeInvariant, DiskIsInSync, QuorumInvariant,
           HintInvariant, ElectInvariant, PTL

\* As long as no term has two leaders, no two peers, nor one peer before and
\* after a restart, ever send different entries for one index on applyCh.
THEOREM AppliedOnce == Spec /\ []ElectionSafety => []StateMachineSafety
<1>1. Known /\ LogSafe => StateMachineSafety
  BY LogSafeApplied
<1> QED BY <1>1, KnownInvariant, PTL

\* As long as no term has two leaders, the newest leader has every entry that
\* any peer has applied: the vote, the commit rule, a conflicting AppendEntries
\* and InstallSnapshot together leave nothing behind.
THEOREM NewestLeaderIsComplete == Spec /\ []ElectionSafety => []LeaderCompleteness
<1>1. Known /\ LogSafe => LeaderCompleteness
  BY LogSafeComplete
<1> QED BY <1>1, KnownInvariant, PTL

\* As long as no term has two leaders, logs that have an entry of one term at an
\* index have the same entries between the snapshots and that index, although
\* InstallSnapshot keeps a suffix without looking at its terms.
THEOREM LogsMatch == Spec /\ []ElectionSafety => []LogMatching
<1>1. Known /\ LogSafe => LogMatching
  BY LogSafeMatching
<1> QED BY <1>1, KnownInvariant, PTL

\* As long as no term has two leaders, what matchIndex counts is replicated,
\* whatever the order and the age of the replies.
THEOREM CountedIsReplicated == Spec /\ []ElectionSafety => []MatchIndexIsReplicated
<1>1. Known /\ LogSafe => MatchIndexIsReplicated
  BY LogSafeReplicated
<1> QED BY <1>1, KnownInvariant, PTL

\* As long as no term has two leaders, no slice or index expression of raft.go
\* is out of range: hints of any age keep nextIndex inside the leader's log, and
\* no commit index runs past a log.
THEOREM NeverPanics == Spec /\ []ElectionSafety => []NoPanic
<1>1. Known /\ LogSafe => NoPanic
  BY LogSafeNoPanic
<1> QED BY <1>1, KnownInvariant, PTL

\* As long as no term has two leaders, commitIndex goes back in a restart only:
\* what AppendEntries cuts off was never committed.
THEOREM CommitsNeverGoBack == Spec /\ []ElectionSafety => CommitMonotone
<1>1. Known /\ LogSafe /\ (Known /\ LogSafe)' /\ [Next]_vars
      => [\A i \in Server :
            restarts'[i] = restarts[i] => commitIndex'[i] >= commitIndex[i]]_vars
  <2> SUFFICES ASSUME Known, LogSafe, Known', [Next]_vars
               PROVE  CommitsGrow
    BY DEF CommitsGrow
  <2>1. TermsGrow
    BY TermStep DEF Known
  <2> QED BY <2>1, CommitStep
<1> QED BY <1>1, KnownInvariant, PTL DEF Spec, CommitMonotone

\* As long as no term has two leaders, a leader's log grows at its end only, and
\* it compacts committed entries only: InstallSnapshot, which does not make a
\* leader of the same term step down, never reaches one.
THEOREM LeadersAppendOnly == Spec /\ []ElectionSafety => LeaderAppendOnly
<1>1. Known /\ LogSafe /\ (Known /\ LogSafe)' /\ [Next]_vars
      => [\A i \in Server :
            (/\ raftState[i] = Leader /\ raftState'[i] = Leader
             /\ currentTerm'[i] = currentTerm[i]) =>
               /\ LastLogIndex(i)' >= LastLogIndex(i)
               /\ snapshotIndex'[i] <= commitIndex[i]
               /\ \A k \in snapshotIndex'[i] + 1 .. LastLogIndex(i) :
                    logs'[i][k - snapshotIndex'[i] + 1] = Log(i, k)]_vars
  <2> SUFFICES ASSUME Known, LogSafe, Known', [Next]_vars
               PROVE  \A i \in Server : LeaderKeeps(i)
    BY DEF LeaderKeeps
  <2> QED BY LeaderKeepsLog
<1> QED BY <1>1, KnownInvariant, PTL DEF Spec, LeaderAppendOnly

\* Two peers never apply different entries, elect a leader that lacks an applied
\* entry, or panic: with them a term has one leader, so no condition is left.
THEOREM TwoPeersAreSafe ==
  ASSUME Cardinality(Server) <= 2
  PROVE  Spec => [](StateMachineSafety /\ LeaderCompleteness /\ NoPanic)
BY TwoPeersOneLeader, AppliedOnce, NewestLeaderIsComplete, NeverPanics, PTL

\* Neither does any number of peers of which no two time out into the same term,
\* which is what the random timeout of ticker is for.
THEOREM OneCandidateIsSafe ==
  ASSUME OneTimer
  PROVE  Spec => [](StateMachineSafety /\ LeaderCompleteness /\ NoPanic)
BY OneCandidateOneLeader, AppliedOnce, NewestLeaderIsComplete, NeverPanics, PTL
=============================================================================
