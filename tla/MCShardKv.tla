----------------------------- MODULE MCShardKv ------------------------------
(***************************************************************************)
(* Instances of ShardKv for TLC.                                           *)
(***************************************************************************)
EXTENDS ShardKv

CONSTANTS k1, k2, c1

Groups == {1, 2}

\* The configurations of the code, with its 12 shards, that three Joins and
\* Leaves of one group each reach from the first one.
Twelve == INSTANCE ShardCfg WITH NShards <- 12, Gid <- 1 .. 4

Joined(c) == {<<c, g, Twelve!JoinBalance(c, {g})>> : g \in (1 .. 4) \ c.groups}
Left(c) == {<<c, g, Twelve!LeaveBalance(c, {g})>> : g \in c.groups}

First == Twelve!JoinBalance(Twelve!MakeShardConfig, {1})
After(cs) == UNION {{j[3] : j \in Joined(c) \cup Left(c)} : c \in cs}
Reached == {First} \cup After({First}) \cup After(After({First}))

\* Those whose successors CheckConfig accepts, and which lose no shard but to
\* the group that joins or from the group that leaves.
Balances ==
  {c \in Reached :
    /\ \A j \in Joined(c) \cup Left(c) : Twelve!CheckConfig(j[3])
    /\ \A j \in Joined(c), s \in 0 .. 11 :
         c.groups # {} => j[3].shards[s] \in {c.shards[s], j[2]}
    /\ \A j \in Left(c), s \in 0 .. 11 :
         j[3].groups # {} /\ c.shards[s] # j[2] => j[3].shards[s] = c.shards[s]}

\* With the 12 shards of the code, what Join and Leave make of a configuration
\* with the stored one's Num is balanced, and moves no shard needlessly.
TwelveBalanced == {c \in Reached : c.num = cur.version} \subseteq Balances

\* The client writes the key, with the right version or one that is too new, and
\* reads it back.
AGet == [kind |-> "get", version |-> 0]
APut(v) == [kind |-> "put", version |-> v]
PutGet == [c \in {c1} |-> <<{APut(0), APut(1)}, {AGet}>>]
=============================================================================
