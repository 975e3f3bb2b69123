------------------------------ MODULE ShardCfg ------------------------------
(***************************************************************************)
(* The shard configurations of shardkv1/shardcfg/shardcfg.go as values and *)
(* functions: which group serves a shard, and how Join and Leave rebalance *)
(* the shards.  A group's list of server names is named by its gid.        *)
(***************************************************************************)
EXTENDS Integers, Sequences, FiniteSets, FiniteSetsExt, SequencesExt

CONSTANTS NShards, Gid

ASSUME NShardsAssumption == NShards \in Nat \ {0}
ASSUME GidAssumption == Gid \subseteq Nat \ {0} /\ 1 \in Gid

Shard == 0 .. NShards - 1
Gid1 == 1

\* Num, Shards and Groups of a ShardConfig; shard -> 0 is unassigned.
Config == [num : Nat, shards : [Shard -> Gid \cup {0}], groups : SUBSET Gid]

MakeShardConfig == [num |-> 0, shards |-> [s \in Shard |-> 0], groups |-> {}]

Counts(c) ==
  [g \in c.groups |-> Cardinality({s \in Shard : c.shards[s] = g})]

\* analyze: of the groups with the most and with the fewest shards, those with
\* the smallest gid.
Most(n) == Min({g \in DOMAIN n : \A h \in DOMAIN n : n[h] <= n[g]})
Least(n) == Min({g \in DOMAIN n : \A h \in DOMAIN n : n[h] >= n[g]})

Assign(c, s, g) == [c EXCEPT !.shards[s] = g]

\* Seeded fault: it goes to the group with the smallest gid.
AssignIfLostFirst(c, s) ==
  IF c.shards[s] \in c.groups THEN c ELSE Assign(c, s, Min(c.groups))

\* A shard of a group that is no more goes to the group with the fewest.
AssignIfLost(c, s) ==
  IF c.shards[s] \in c.groups THEN c ELSE Assign(c, s, Least(Counts(c)))

\* Seeded fault: the loop ends one shard too early.
MoveOneEarly(c) ==
  LET n == Counts(c)
      most == Most(n)
      least == Least(n)
  IN  IF n[most] < n[least] + 3 THEN c
      ELSE Assign(c, Min({s \in Shard : c.shards[s] = most}), least)

\* One turn of the loop that moves shards from most to least.
MoveOne(c) ==
  LET n == Counts(c)
      most == Most(n)
      least == Least(n)
  IN  IF n[most] < n[least] + 2 THEN c
      ELSE Assign(c, Min({s \in Shard : c.shards[s] = most}), least)

\* Every turn that changes something moves a shard, so NShards turns do.
Rebalance(c) ==
  LET inOrder == [i \in 1 .. NShards |-> i - 1]
      assigned == FoldLeft(AssignIfLost, c, inOrder)
  IN  IF c.groups = {} THEN [c EXCEPT !.shards = [s \in Shard |-> 0]]
      ELSE FoldLeft(LAMBDA d, s : MoveOne(d), assigned, inOrder)

\* What Join and Leave accept; the callers drop the configuration otherwise.
CanJoin(c, gids) == gids # {} /\ gids \cap c.groups = {}
CanLeave(c, gids) == gids # {} /\ gids \subseteq c.groups

JoinBalance(c, gids) ==
  Rebalance([c EXCEPT !.groups = @ \cup gids, !.num = @ + 1])

LeaveBalance(c, gids) ==
  Rebalance([c EXCEPT !.groups = @ \ gids, !.num = @ + 1])

\* CheckConfig: every shard has a group, and the groups have the same number
\* of shards, give or take one.
CheckConfig(c) ==
  c.groups # {} =>
    /\ \A s \in Shard : c.shards[s] \in c.groups
    /\ \A g, h \in c.groups : Counts(c)[g] <= Counts(c)[h] + 1
=============================================================================
