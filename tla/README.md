# A TLA+ verification of the 6.5840 labs

The repository implements the labs of a distributed-systems course in Go:
MapReduce, a single key/value server with a lock on top of it, the Raft
consensus protocol, a replicated key/value service, and a sharded one. This
directory holds TLA+ models of its core, TLC configurations that check them on
small instances, and TLAPS proofs for instances of any size. Paths below are
relative to the repository's `src/`.

## 1. Inventory

| Component | State | Operations | Interacts with |
|---|---|---|---|
| Raft peer (`raft1/raft.go`) | term, vote, log, snapshot index, role, votes counted, leader hint, commit and apply positions, next and match index per peer | ticker and election, RequestVote, AppendEntries, InstallSnapshot, the senders of the three calls, Start, Snapshot, the heartbeat, commit and apply loops, persist, Make | other peers by RPC, the service by `applyCh` and calls, the persister |
| Persister (`tester1/persister.go`) | Raft state and snapshot | Save, reads, Checkpoint | Raft, the tester |
| Key/value server (`kvsrv1/server.go`) | value and version per key | Get, Put (compare-and-swap on the version) | clerks by RPC |
| Clerk (`kvsrv1/client.go`) | the operation under way | Get and Put with retries; ErrMaybe | server |
| Lock (`kvsrv1/lock/lock.go`) | the holder's name in one key | Acquire, Release | clerk |
| rsm (`kvraft1/rsm/rsm.go`) | `notify` map of waiting Submits, the state machine | Submit, reader, snapshots, restore | Raft by `Start`/`applyCh`, service by DoOp |
| kvraft (`kvraft1/server.go`, `client.go`) | table; the clerk's leader guess | Get, Put, snapshot; clerk with leader hints | rsm |
| Shard configuration (`shardkv1/shardcfg`) | shard to group, group to servers, number | Join, Leave, Rebalance | controller |
| Shard group (`shardkv1/shardgrp`) | shards owned, frozen, installed, with config numbers | Get, Put, FreezeShard, InstallShard, DeleteShard | rsm, controller, clerk |
| Shard controller (`shardkv1/shardctrler`) | current and next configuration in a kvsrv | InitConfig, ChangeConfigTo, recovery | kvsrv clerk, groups |
| MapReduce (`mr/`) | task table, phases | GetTask, CompleteTask, timer, worker loop | files, RPC |
| Network (`labrpc/labrpc.go`) | enabled ends, the process behind a server's name, calls in progress | Call, Forward, processReq, AddServer, DeleteServer, Enable | everything |
| Test harness (`tester1/group.go`, `srv.go`, `clnts.go`, `daemon*.go`, `demux/`, `sockrpc/`) | server processes, the saved Persister, the calls outstanding on a connection | StartServer, ShutdownServer, connect, disconnect; SendReceive and the readers of a connection | network, server processes |
| labgob, the rest of `tester1`, `kvtest1`, `models1`, `main`, `mrapps` | – | encoding, test harness, main programs | – |

What is hard, and what makes each part correct:

* **Raft**: handlers of many peers interleave; calls are lost, delayed,
  repeated and reordered; replies are computed in one state and used in
  another; peers crash between any two handlers; logs diverge and are repaired
  by hints; logs are cut by snapshots while calls refer to them. Correct means:
  one leader per term, logs that agree, nothing applied is lost, nothing
  different is applied for one index, no index out of range, and progress
  under a leader that stays.
* **Clerk and lock**: a Put may be executed after its caller moved on, and a
  resent Put may meet its own success. Correct means: a Put's result is the
  truth, each Put is performed at most once, the lock excludes, and is had.
* **rsm and kvraft**: Submit waits for an index that another leader's entry may
  take; the reader and InstallSnapshot compete for `applyCh` and `rf.mu`; the
  clerk follows hints. Correct means linearizable, no lost waiter, no deadlock.
* **Shards**: a controller may stop half way through a move and another one
  takes over. Correct means each key is served by one group under each
  configuration number, and moves finish.
* **MapReduce**: tasks time out while their worker still runs. Correct means
  every task's output is complete before the next phase, and the job ends.
* **Network and processes**: a server is shut down while calls are on their way
  to it, in it, or back. Correct means that nothing is acknowledged which the
  restarted server does not have, and that every call returns.

The full list of hazards, each with its line and the properties that cover it,
is `hazards` in `PROJECT.json`.

## 2. Modules

| Module | What it is |
|---|---|
| `Raft` | the Raft peer, its persister and the network between peers |
| `MCRaft` | instances for TLC: which timers fire into which term, how many calls leaders make, and initial states of later terms |
| `RaftProofs` | log arithmetic, the median and quorums; the commit rule meets the vote rule; type correctness, the persister is in sync, terms never go back; leaders have quorums, a split brain needs a double vote, leader hints name elected peers; when a term has one leader |
| `LogProofs` | log safety: state-machine safety, leader completeness, log matching, no panic |
| `KvClerk` | the key/value server, the clerk and the network between them, one key |
| `Lock` | the lock on top of `KvClerk` |
| `MCLock` | instances of `Lock`, and of the clerk alone |
| `ClerkProofs` | the contract of Put, and that no Put is performed twice |
| `LockProofs` | mutual exclusion, no `log.Fatalf`, type correctness |
| `KvSpec` | abstract: what a key/value service promises about one key, a linearizable register of versioned writes |
| `KvRaft`, `MCKvRaft` | rsm, the replicated server and its clerk, over what Raft promises; implements `KvSpec` |
| `KvRaftProofs` | the replicas agree and `KvRaft` implements `KvSpec`, while no older snapshot is restored or none is taken |
| `ShardCfg` | shard configurations as values, Join, Leave and Rebalance as functions |
| `ShardKv`, `MCShardKv` | shard groups, controllers and the sharded clerk, over `ShardCfg`; implements `KvSpec` |
| `ShardProofs` | the configurations Join and Leave make; one owner per shard, no invalid move, owners have the last write; `ShardKv` implements `KvSpec`; configurations are balanced |
| `MapReduce`, `MCMapReduce`, `MapReduceProofs` | coordinator, workers and files; the output is the sequential one |
| `Network`, `MCNetwork`, `NetworkProofs` | labrpc, server processes and the connections to them; acknowledged calls last |

### Raft

Every handler and every body of a background loop holds `rf.mu` from beginning
to end, so each is one action. A remote call is three steps: the request is put
into a message set, the callee executes the handler and puts down the reply,
the caller handles the reply. Messages stay in the sets, so a call may be
executed late, out of order and again, or never; this is more hostile than
`labrpc`, which executes a call at most once, but the heartbeat loop does send
equal calls again. The exception is the vote: `sendRequestVote` is one
goroutine per peer and election which handles one reply, so `pendingVotes`
records which of them have not returned. A reply is kept only if the goroutine
waiting for it would look at it (`Awaited`); terms and incarnations never go
back, so a reply that fails the test once would fail it for ever.

| Code | Model |
|---|---|
| `rf.currentTerm`, `voteFor`, `logs`, `snapshotIndex` | the variables of these names; slot 1 of `logs[i]` is Go's slot 0, the dummy entry |
| `persister` | `disk`, written by `Persist` in the step of the handler that calls `persist()` |
| `raftState`, `gotVotes`, `leaderID`, `commitIndex`, `lastApplied`, `nextIndex`, `matchIndex` | the variables of these names |
| the service's state | `svcIndex`, the index it reflects |
| ticker + startAElection | `StartAElection`, at any time |
| RequestVote / AppendEntries / InstallSnapshot | actions of these names |
| sendRequestVote + becomeLeader / sendAppendEntries / sendInstallSnapshot | `HandleVoteReply` with `BecomeLeader`, `HandleAppendReply`, `HandleSnapReply` |
| one round of heartBeat / commit / apply | `HeartBeat`, `Commit`, `Apply` |
| Start, Snapshot | `Start`, `Snapshot` |
| a crash, then Make and readPersist | `Restart` with `ReadPersist` |

`votes`, `elected` and `applied` are history variables, never read by an action.
Commands are model values, timers are nondeterminism, snapshots are their index.
Details that are kept because they matter: `becomeLeader` clears `voteFor`; a
candidate that hears from a leader of its term clears it too; `AppendEntries`
reads `reply.Term` before the term is updated, so the first reply of a peer
from an older term is dropped; `startAElection` leaves `leaderID` alone; the
commit index is `sorted[n/2]`; InstallSnapshot keeps the tail of the log
without comparing terms and pushes the snapshot to the service even when the
service is past it.

### Clerk and lock

One key (the server treats keys independently; every lock has its own). A Put's
first call is executed at most once; resent calls, which the clerk repeats in a
loop, any number of times; both may be executed after the Put returned. A Get
reads the table when it is executed; a Get that was lost is repeated, and since
it changes nothing, stale executions of it are left out. The version of a
missing key is 0 in the table, as the server treats it.

`Lock` composes with the clerk: each step of Acquire and Release is a clerk
step together with the change of the program counter `pc`. The clients'
identifiers are the values written; `kvtest.RandValue(8)` is taken to give
different clients different names.

### rsm, kvraft and the abstract register

`KvSpec` knows three steps: an operation is called, a Put takes effect, an
operation returns. A Put takes effect at most once, only on the version it
names, and may do so after it returned, unless its caller was told OK. The
result of a Get is the key's state at some moment of the call. `KvRaft` and
`ShardKv` keep the same three history variables (`hist`, `ops`, `ret`), so the
refinement mapping is the identity and `Register!Spec` is a property of both.

In `KvRaft` Raft is reduced to what `LogProofs` proves of logs: a leader of a new
term has what is committed, the newest leader commits entries of its own term, a
server's log and term survive. Snapshots are not abstracted in this way, since
`LogProofs` promises nothing about the order in which snapshots and entries reach
the service. `nextIndex` of a leader is the least index it may have for a server:
it moves back with that server's hints (`BackedUp`) and need not move forward,
because replies come late or never. Where it lies in the leader's snapshot,
`InstallSnapshot` may happen. As in `raft1/raft.go:511` the snapshot is compared
with the receiver's snapshot only, and the receiver's reader restores it even if
it has executed more: the table goes back and `applied` stays. `Spec` has these
steps; `InOrderSpec` is `Spec` without them (`NoRollback`), see sections 3 and 4.
Every call runs Submit in a thread at the server:

| Code | Model |
|---|---|
| Submit up to its loop | `Submit`: Start, and the registration in `notify` |
| the two branches of its select | `Finish` (a message came), `TimeAfter` and `GiveUp` (the term changed) |
| `ch`, of capacity 2; the pill | the thread's `ch`; `Pill`, sent only if there is `Room` |
| one turn of reader, with the snapshot | `Reader` |
| a snapshot from the leader, the reader's Restore | `InstallSnapshot` |
| a crash, then MakeRSM | `Restart` |
| DoOp of the server | `DoOp`, `DoOpReply` |
| Get and Put of the clerk | `Begin`, `CallFails`, `WrongLeader`, `Return` |

A client calls Get, and Put with any of the versions that `Requests` gives it,
right, stale or above the key's: the last meets ErrNoKey while the key is missing.
A failed call leaves its thread or its request behind, so it may be executed
much later. The clerk's reply structure is reused by Put, and a leader hint of 0
is not transmitted by gob: `DecodedHint` keeps the older hint, as the code does.

### Shards

A group is one state machine, which is what the replicas of a group are as long as
no older snapshot is restored (`KvRaftProofs`): per shard its state, its
largest Num and the data of the key. The store of the configurations is the
kvsrv of `KvClerk`, reduced to its contract: compare-and-swap that may answer
ErrMaybe. Each call of a controller is one step, and its `pc` names the next
one: `InitConfig`; `InitController` and `Recover` (the two Gets of doRecovery);
`ChangeConfigTo`, `Publish`, `Check` (putOnce after ErrMaybe); `Freeze`,
`Install`, `Delete` for each shard that moves; `Store`. `Stop` kills a
controller. All requests ever made stay in `sent`, and `Unheard` executes any of
them again at any time. The clerk's steps are `Query`, `Get`, `Put` with
`PutAnswered` and `PutCallFails`, and `GetGivesUp`. A client's n-th operation is
any of `Requests[c][n]`, with whatever version its caller chose. The targets of a
controller are those of the tester's `join` and `leave`, one group at a time.

putOnce compares the version after ErrMaybe with the one it wrote *at*, so its
own success counts as a failure; the model keeps this. A configuration can thus
be published and left, which is why `ConfigSettles` needs another controller.

### MapReduce

The coordinator's two handlers, the timer and the exit are actions; a worker
takes one step per file it renames or reads, and may die between any two. Map
and Reduce are functions; what Reduce returns is named by its arguments. The pairs
of the input are told apart by their place in it, and `kvs` counts how often a
worker has read each, as the list in the code does: a pair that is read twice
changes what Reduce is given. Glob
finds the output file of an earlier attempt as well, in which the JSON decoder
finds nothing: this holds because its first line, a word and a count, is no
JSON value, and is an assumption on the application. Files of an earlier job are
assumed to be gone (the tester removes them).

### Network and processes

One server, whose processes are numbered. `ProcessReq`, `StopWaiting`,
`TakeReply` and `Deliver` are the stretches of processReq between its waits;
`SendReceive`, `ReadReply`, `ReaderCloses` and `ReaderEnds` are those of the
connection. ShutdownServer is four steps (`Disconnect`, `DeleteServer`,
`CheckpointPersister`, `Kill`), StartServer and connect are three, and calls
happen between all of them. CheckpointPersister closes the listener of the
process and not the connection, so the process serves requests until it is
killed; that these are not acknowledged is due to the second isServerDead.

## 3. What the runs check

`tlc -workers 2 -config X.cfg M`. Each takes three minutes or less on two cores.

| Run (cfg) | Instance | Properties |
|---|---|---|
| RaftLogs | 3 peers, two histories: at the end of term 1 with logs of every length up to 2, s2 leads term 2, snapshots at index 1, 4 different calls; and logs that differ after a prefix of terms 1, 2, where s1 leads term 4 and s2 may lead term 5 | `TypeOK`, `NoPanic`, `MatchIndexIsReplicated`, `LogMatching`, `LeaderCompleteness`, `LeaderAppendOnly`, `CommitMonotone` |
| RaftTwoPeers | 2 peers from the start, 2 terms, all timers, a restart each, snapshots | `DiskInSync`, `LeaderHasQuorum`, `LeaderHintWasElected`, `ElectionSafety`, `StateMachineSafety`, `TermMonotone` |
| RaftLiveness | 3 peers; s3 leads term 4, s2 follows, s1 has a conflicting log and believes to lead term 2; snapshots; fair | `ReplicationCompletes` |
| Lock | 2 clients that make two Puts and one Put with any version; or 2 clients that take the lock, one round each, Release at any time; fair | `LockTypeOK`, `MutualExclusion`, `NoFatal`, `PutContract`, `PerformedOnce`, `LockProgress` |
| KvRaft | `InOrderSpec`; 2 servers, 2 clients with an operation each, a Put at version 0 and a Get or a Put at version 1, the latter with a second call; 2 elections, a restart, snapshots of logs of 2 entries | `ReplicasAgree`, `Linearizable` |
| ShardKv | 2 groups, 2 shards, 2 controllers of which one may stop, configurations 1 to 3, a client that puts at version 0 or 1, then gets; fair. Rebalance: 12 shards, 4 groups, 3 changes | `OneOwner`, `NoInvalidMove`, `OwnerHasShard`, `ConfigsAreBalanced`, `TwelveBalanced`, `Linearizable`, `ConfigSettles` |
| MapReduce | 3 workers of which one is prompt, 2 files, one of them with a word twice, 2 buckets, one of them empty for a file; fair | `OutputIsSequential`, `JobFinishes` |
| Network | a call of a peer and one of a client, 3 processes; fair | `AckedIsDurable`, `NoStrayReply`, `CallReturns` |

**Bounds.** `MaxTerm`, `MaxLog`, `MaxRestarts` and `MaxSent` (different calls
per term) stop timers, Start, crashes and heartbeats. `Candidates[t]` says whose
timers may fire into term t. It is everybody in the runs about elections, and
one peer per term in the runs about logs of three peers, for two reasons: it is
what makes several terms tractable, and the double vote reported below breaks
every log property in a term with two candidates, which would hide what these
runs are about. With two peers a majority is both, and no schedule of the code
elects two leaders (`TwoPeersOneLeader`), so RaftTwoPeers lets every timer fire. The initial states
of `MCRaft` for later terms are states of the program in which messages were
handled or lost; they skip the steps that lead to them. Deadlock checking is
off because bounded runs stop by themselves.
In `KvRaft` the servers lead in turn, the schedule in which an entry is replaced
at its index and its Submit still waits; the two servers named may be part of a
larger cluster, since a new leader needs no vote of the other. A snapshot older
than what a server has executed takes three entries and is out of this instance's
reach: there `InOrderSpec` and `Spec` have the same states, with snapshots that
are sent ahead of what the other server has. In `KvRaft` and
`ShardKv` a stale version is that of a Put which is repeated or executed late; in
`Lock` clients choose it too. Three
configurations let a shard go and come back while requests of the first move are
still on their way. The bounds differ per run because
each instance is about the smallest in which its schedule happens: every
property fails for a seeded fault of the code in its own run (`mutants` in
`PROJECT.json`).

**Fairness.** The loops of a peer (heartbeat, commit, apply) run for ever on
timers or a condition variable, hence fairness for each. The network loses calls
but not all of them, and the heartbeat repeats them, hence strong fairness for
the delivery of the call the newest leader makes now and of the answers to it.
The heartbeat of the newest leader is strongly fair too: the model keeps every
message, so a stale answer could move `nextIndex` back and forth for ever
between two heartbeats, while in the code one call has one answer.
Nothing is assumed about elections: `ReplicationCompletes` is about the leader
of the last term, which no timer deposes. For the lock: calls are executed and
answered in the end, and a client that holds the lock calls Release. There is
no fairness between clients, and `LockProgress` promises none.
A shard controller that is not killed goes on, and controllers are started now
and then, which begins with recovery (the tester does this). In MapReduce a
prompt worker ends its task before the timer, timers expire, and the prompt
worker, which asks every 100 ms or every second, does not miss a free task
for ever. In the network goroutines go on and handlers return; nothing is
assumed about the tester.

### Disagreements between the code and its tests

* **RaftTwoLeaders** (`ElectionSafety` violated). The comment at
  `raft1/raft.go:347-349` explains that clearing `voteFor` may give one term two
  leaders; `becomeLeader` (line 756) and a same-term AppendEntries to a
  candidate (lines 350-351) still clear it. TLC's schedule: s1 and s2
  campaign for term 1; s1 wins with the vote of s3 and clears its own; the late
  RequestVote of s2 reaches s1, which, already leader, grants it; s2 wins too. `checkOneLeader` of
  `raft1/test.go` calls this a failure.
* **RaftServiceRollback** (`NoServiceRollback` violated). A follower applied
  entries whose acknowledgements were lost; the leader compacts its log and sends
  a snapshot that is newer than the follower's own but older than what it has
  applied. InstallSnapshot pushes it to the service, which goes back, while the
  apply loop continues after `lastApplied`: `raft1/server.go:139-140` reports
  "apply out of order". The key/value service restores such a snapshot silently
  (`kvraft1/rsm/rsm.go:112`). In the terms of `KvRaft`: the log holds three
  entries, the second a Put; a follower whose answers were lost has executed two,
  the leader's reader, which is behind, one, and it takes its snapshot there. The
  follower restores a table without the Put, continues at index 3, and when it is
  elected answers Gets from that table: replicas no longer agree, and the register
  is no longer linearizable. `KvRaft` has these steps; its theorems are about the
  schedules without them.
* **KvRaftPutContract** (`PutContract` violated). Submit puts a Put into the log,
  sees a new term and answers ErrWrongLeader; the entry is committed all the
  same. The clerk does not count that call as a resend (`kvraft1/client.go:97`),
  repeats it, meets its own write, and returns ErrVersion, "definitely not
  performed" by the comment above it. `KvSpec` therefore takes ErrVersion as it
  takes ErrMaybe, and is in this looser than the model of the tests
  (`models1/kv.go:59-62`), for which ErrVersion means that the version differs. Apart from this
  result the register is the same. The group clerk has the same code.
* **ShardRestart** (`OneOwner` violated). StartServerShardGrp sets the initial
  shards and Nums *after* MakeRSM has restored the snapshot
  (`shardkv1/shardgrp/server.go:419-431`). Members of group 1 that restart after
  a shard has gone serve it again. `RestartSpec` adds this restart to the
  specification; without a snapshot the log is executed from its beginning and
  nothing is wrong, so the other run leaves restarts of groups out.

Smaller things met on the way, without a run: InitConfig stops the process when
its Put succeeded with ErrMaybe, since putOnce looks for the old version;
doRecovery reads two keys one after the other and stops the process ("invalid
config state") if another controller finishes in between, which `ConfigSettles`
allows for; the results of os.Rename are not looked at in `mr/worker.go`, so that
with a temporary directory on another file system all output is lost silently.

The median `sorted[n/2]` looks like another one: for an even number of peers it is
reached by only half of them. It is safe, since a vote needs more than half:
`CommitRuleMeetsVoteRule` proves that the two sets meet.

## 4. What is proved

`tlapm M.tla` for the modules with proofs; `LogProofs` takes about seven
minutes, `ShardProofs`, `KvRaftProofs` and `RaftProofs` about three to five. The constants are arbitrary:
any finite non-empty set of peers, any set of clients, groups, controllers,
workers or calls, any bounds. The assumptions are the named ASSUMEs of the
modules, which say that sets are finite or not empty, that bounds are natural
numbers, that `None` is no peer and no value, and, in `MapReduce`, what Map may
return. The bounds are only guards, so each theorem covers every bound.

### Raft

* **Types** (`RaftProofs`): `TypeCorrect`. It says more than the Go types:
  indices are natural numbers and no log is empty, although snapshots cut logs
  and hints set `nextIndex`. The strengthening `SnapshotIsApplied` (a peer's
  snapshot index is at most `lastApplied`) is needed because the apply loop
  reads the entries above `lastApplied`, which must not have been cut away.
* **Disk** (`DiskIsInSync`): every handler that changes durable state persists
  it before the lock is released. `TermsNeverGoBack` follows: the only step that
  could lower a term is a restart, and it reads what is on the disk.
* **Commit rule**: `CommitRuleMeetsVoteRule`, by counting: n - n/2 and more than
  n/2 exceed n.
* **Elections** (`RaftProofs`): `LeadersHaveQuorums`, with `QuorumInv`:
  `gotVotes` of a candidate is at most the number of peers that voted for it in
  its term and whose goroutine has returned; every granting reply is backed by
  a vote in the history. `TwoLeadersShareAVoter` draws the conclusion that
  matters here: the double vote is the only way to two leaders of a term.
  `LeaderHintsAreElected` with `HintInv`: every AppendEntries and
  InstallSnapshot in the network was sent by a peer elected in its term.
* **When a term has one leader.** `ElectionSafety` is false of the code for three
  peers (RaftTwoLeaders). It is proved for two peers, whatever timers fire
  (`TwoPeersOneLeader`), and for any number of peers if no two timers fire into
  the same term (`OneCandidateOneLeader`, with `OneTimer` about the constant
  `Candidates`). For two peers the invariant is `NoCrossVote`: of two candidates
  of a term neither votes for the other. It needs `SelfVoteStays`: a peer that
  voted for itself keeps that vote until its term has a leader, and by
  `LeadersHaveQuorums` a leader of two peers has both votes.
* **Logs** (`LogProofs`): `AppliedOnce` (`StateMachineSafety`),
  `NewestLeaderIsComplete`, `LogsMatch`, `CountedIsReplicated`, `NeverPanics`,
  `CommitsNeverGoBack` and `LeadersAppendOnly`, each of the form
  `Spec /\ []ElectionSafety => ...`. The condition is the only one, and it is
  weaker than a restriction of the timers: a schedule may have any number of
  candidates, double votes, crashes, snapshots and stale messages, as long as
  no term gets two leaders. It cannot be dropped, since two leaders of a term
  give one index and term two entries. `TwoPeersAreSafe` and
  `OneCandidateIsSafe` discharge it in the two cases above.

The inductive invariant of `LogProofs`, `LogSafe`, speaks of things no variable
holds, and quantifies them existentially: `G[t]`, the whole log of the leader of
term t, and its length `N[t]`; `A[t][j]`, up to where peer j has had that log
while it was in term t; `K[t]`, up to where the leader of t has committed
entries of its own term. It says:

* the logs of the leaders form a tree (`Tree`): where a leader's log has an
  entry of term u, it is up to there the log of the leader of term u;
* the part of a peer's log above its snapshot is a branch of the tree, and the
  snapshot is of committed entries (`Branch`). The two need not fit together:
  InstallSnapshot keeps the tail of the log without comparing terms, so a log
  may be one no leader ever had. That no property breaks over it is part of
  what is proved;
* what a peer once acknowledged it still has, or some later leader lacked it
  (`Kept`); a candidate's voters are in this sense behind it (`VoteOK`), and a
  leader has such a majority for good (`ChosenIn`);
* committed entries were acknowledged by n - n/2 peers (`Commits`);
* every AppendEntries, InstallSnapshot and reply that is still in the network,
  whatever its age, is true of the tree (`AppendCallOK`, `SnapCallOK`,
  `AppendReplyOK`, `SnapReplyOK`); a hint never points past the leader's log.

That leaders lack nothing committed (`Completeness`) is not part of the
invariant. It follows in each state, by taking the least term whose leader lacks
a committed entry: its voters and the acknowledging peers share one, which would
have had to keep the entry. Each action has a lemma that names the new values of
`G`, `N`, `A` and `K`; Start, becomeLeader, commit and a successful AppendEntries
are the four that change them.

### The services

* **Clerk** (`ClerkProofs`): `PutKeepsItsContract` and `VersionCountsPuts`. All
  calls of one Put name the same version, and once one has succeeded the table
  is past it (`PerformedInv`); the first call is executed at most once, so when
  the clerk reports ErrVersion after a single call, nothing is left in the
  network that could still succeed (`FirstCallInv`, `ReplyInv`).
* **Lock** (`LockProofs`): `LockTypeCorrect`, `LockIsExclusive`,
  `LockNeverFatal`. Exclusion is not inductive: a client that holds the lock
  loses it if some Put in the network still carries the current version. The
  invariant `LockInv` says which Puts can: a call's version is never above the
  table's; a call whose version is current belongs to a client whose clerk is
  still in that Put; a holder's name is in the table; a releasing Put carries
  the version at which its caller holds the lock. From it follow exclusion, and
  that a first release call never meets ErrVersion.
* **rsm and kvraft** (`KvRaftProofs`): `ReplicasAgreeTheorem` and
  `LinearizableTheorem`, the refinement of `KvSpec`, both of `InOrderSpec`: of all
  schedules in which no server takes over a snapshot older than what it has
  executed. The condition cannot be dropped, since the code takes that step
  (RaftServiceRollback) and it makes both false; nothing else is left out: crashes, elections, snapshots that are ahead, late and repeated
  calls are all there. `WithoutSnapshots` discharges it where the code does: with
  snapshots off (`MaxRaftState = 0`, maxraftstate -1 in the code) both hold of
  `Spec` itself. The invariant `KvInv`
  quantifies existentially over what no variable holds: `T[k]`, the table after
  the first k committed entries, up to the last entry that any reader has
  executed. Every table and every snapshot is one of them (`ReplicaInv`), and
  `ReplicasAgree` follows, because the replay of the committed entries gives
  the same tables; this is where the condition is needed.
  Versions grow along T and end at the length of the history
  (`VersionInv`). A write takes effect when its entry is executed for the first
  time; every later execution, after a restart or at another server, finds the
  same table. An entry finds at least the version that its operation found when
  it was called (`EffectInv`), since all that had been executed by then lies
  before it in the log: so nothing that a channel, a pill or a late reply tells
  the clerk is stale (`ReplyInv`). Of Raft it uses that the leader of the newest
  term has every committed entry and that a term has one leader, which is what
  `LogProofs` proves under its own condition.
* **Shards** (`ShardProofs`): `ShardHasOneOwner`, `MovesAreValid`, `OwnersServe`.
  The invariant `ShardInv` relates the history of published configurations to
  each group's state and Nums (`GroupInv`), to the data a frozen, installed or
  deleted shard has (`DataInv`), to every request that was ever sent and may be
  executed again (`SentInv`), and to what each controller has read and done
  (`CtlInv`). The key facts: a group's Num for a shard tells how far the moves
  of that shard have come, and a request of an older move meets a larger Num. It
  also shows that putOnce never gets past ErrMaybe, and that recovery only
  completes a configuration that was published. That Join, Leave and Rebalance
  give a group for every shard is proved by the least-number principle over the
  steps of the fold they are written with.
* **The sharded register** (`ShardLinearizable`): `ShardKv` implements `KvSpec`.
  On top of `ShardInv`, which says that the group that serves the shard has the
  last write, `RegInv` says that every copy of the data is what some write left,
  wherever it is: in a group, in a request or at a controller (`CopiesOK`); that
  a Put in the network is of an operation that was called (`PutsOK`), and every
  write of a Put that named the version before it (`WritesOK`); and that the
  answer a clerk has not handed on yet was true at some moment of the call
  (`AnswerOK`). The last is where the second try matters: after a call that
  failed, ErrVersion may mean that the first try took effect, and Put answers
  ErrMaybe.
* **Balance** (`BalancedTheorem`): every configuration that is stored or
  published is balanced, and moves no shard needlessly. The loop of Rebalance
  ends when the shards are even; in `ShardCfg` it is a fold of as many turns as
  there are shards, so that this is enough has to be shown. After k turns
  either the shards are even, or the group that joined has k of them
  (`Joining`); with all of them it would have more than one more than another,
  which `Joining` excludes.
  A Leave hands each shard that is lost to the group with the fewest, which
  keeps the others even (`AssignEven`), and no move follows. `BalanceInv` carries
  this through the controllers: the target of each is balanced, and moves only
  what it must against the configuration it will be compared with.
* **MapReduce** (`MapReduceProofs`): `JobOutputIsSequential`. A file has one
  possible content whoever writes it (`FileInv`); a task is done only after its
  files have their names (`DoneInv`); no worker looks for the files of a bucket
  before every map task is done (`PhaseInv`, `WorkerInv`). A worker reads each file
  it found once, and no two files share a pair, so it counts every pair of its
  bucket exactly once.
* **Network** (`NetworkProofs`): `AckedCallsLast`, `RepliesMatch`. At most one
  process lives, it is the one behind the server's name whenever there is a
  name, and processReq accepts a reply only while the Persister of that process
  has not been copied yet.

### Only model-checked

Liveness (`ReplicationCompletes`, `LockProgress`, `ConfigSettles`, `JobFinishes`,
`CallReturns`), which the proof system does not treat. `TwelveBalanced`, the
instance of the balance theorem for the 12 shards of the code and 4 groups,
computed with the folds themselves; it also covers the Leave of the last group,
which no controller asks for. The four runs that expect a violation, which state
what is false of the code.

## 5. Not modelled, and the plan

* `applyCh` as a queue. Raft's apply loop is one atomic step, so the sends after
  the unlock, and the send of InstallSnapshot under `rf.mu`, are not there: if
  the queue is full while the reader waits for `rf.mu` in PersistBytes, neither
  goes on. This is listed under the hazards.
* The data race on the entries of an AppendEntries (`raft1/raft.go:912`).
* labgob, apart from the effect of a zero field; annotations, statistics and the
  porcupine checker of the test harness, which observe and change nothing;
  `raft1/server.go`, apart from the index its state reflects; the programs that
  only start servers, and the MapReduce applications, which are pure.
* Randomised timeouts are nondeterminism, so nothing is said about how soon an
  election succeeds.
* Several keys, and several keys per shard: every table is a map whose keys are
  independent, and one key per shard is followed.

Planned: a module for the apply path.
