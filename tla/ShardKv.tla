------------------------------ MODULE ShardKv -------------------------------
(***************************************************************************)
(* The sharded key/value service: shard groups (shardgrp/server.go), their *)
(* clerk (shardgrp/client.go), the controllers that move shards            *)
(* (shardctrler.go) and the clerk of the whole service (shardkv1/client.go)*)
(*                                                                         *)
(* A group is one state machine that executes each request at one moment,  *)
(* which module KvRaft shows of rsm.go as long as no server is rolled back *)
(* by an older snapshot.  The configurations are kept by a key/value       *)
(* server, whose Put answers as module KvClerk shows.  A call's execution  *)
(* and its answer are one step; every request a clerk has sent may also be *)
(* executed before, after or instead of that, any number of times: resent  *)
(* calls, and calls of controllers that have stopped.                      *)
(***************************************************************************)
EXTENDS ShardCfg

CONSTANTS
  Controller,  \* controllers, old and new
  Client,      \* threads that own a clerk of the service
  KeyShard,    \* Key2Shard of the key the clients use
  Stoppable,   \* controllers that may be killed at any moment
  MaxNum,      \* bound: the Num of a configuration
  Requests     \* bound: the Gets and Puts that a client may call as its first
               \* operation, as its second one, ...

ASSUME KeyShardAssumption == KeyShard \in 0 .. NShards - 1
ASSUME StoppableAssumption == Stoppable \subseteq Controller
ASSUME BoundAssumption ==
  /\ MaxNum \in Nat
  /\ Requests \in [Client -> Seq(SUBSET [kind : {"get", "put"}, version : Nat])]

VARIABLES
  cur,    \* CurConfigKey: version and configuration
  new,    \* NewConfigKey, likewise
  grp,    \* state machine of each group: shards, nums and data by shard
  ctl,    \* each controller: pc and the local variables of its call
  sent,   \* requests that may be executed (again)
  fatal,  \* groups whose servers have called log.Fatalf
  clerk,  \* each client's clerk
  hist,   \* history: the writes to the key that took effect, in order
  ops,    \* history: the operations of each client
  ret     \* history: their results

ctlVars == <<cur, new, ctl>>
histVars == <<hist, ops, ret>>
vars == <<ctlVars, grp, sent, fatal, clerk, histVars>>

NoShard == "none"
Valid   == "valid"
Frozen  == "frozen"

NoData == [value |-> << >>, version |-> 0]

-----------------------------------------------------------------------------
(* The state machine of a group.  m is a request to group m.gid.           *)

State(m) == grp[m.gid].shards[m.shard]
Num(m) == grp[m.gid].nums[m.shard]
Data(m) == grp[m.gid].data[m.shard]

SetShard(m, state, data) ==
  grp' = [grp EXCEPT ![m.gid].shards[m.shard] = state,
                     ![m.gid].nums[m.shard] = m.num,
                     ![m.gid].data[m.shard] = data]

\* Seeded fault: the shard is read, but not frozen.
FrozenStateSame(m) == State(m)

FrozenState(m) == IF State(m) = NoShard THEN NoShard ELSE Frozen

\* doFreezeShard.  An older Num is answered OK, without data.
DoFreeze(m) ==
  /\ IF m.num < Num(m) THEN UNCHANGED grp
     ELSE SetShard(m, FrozenState(m), Data(m))
  /\ UNCHANGED fatal

\* Seeded fault: a repeated request counts as old.
FreezeReplyLess(m) ==
  IF m.num <= Num(m) \/ State(m) = NoShard THEN NoData ELSE Data(m)

FreezeReply(m) ==
  IF m.num < Num(m) \/ State(m) = NoShard THEN NoData ELSE Data(m)

InstallIsOld(m) == m.num <= Num(m)

\* doInstallShard.  Keys of the data are merged into the table.
DoInstall(m) ==
  IF InstallIsOld(m) THEN UNCHANGED <<grp, fatal>>
  ELSE /\ SetShard(m, Valid, IF m.data.version = 0 THEN Data(m) ELSE m.data)
       /\ fatal' = IF State(m) = Frozen THEN fatal \cup {m.gid} ELSE fatal

\* Seeded fault: Delete does not look at the Num.
DeleteIsOldNever(m) == FALSE

DeleteIsOld(m) == m.num < Num(m)

\* doDeleteShard
DoDelete(m) ==
  IF DeleteIsOld(m) THEN UNCHANGED <<grp, fatal>>
  ELSE /\ SetShard(m, NoShard, IF State(m) = NoShard THEN Data(m) ELSE NoData)
       /\ fatal' = IF State(m) = Valid THEN fatal \cup {m.gid} ELSE fatal

\* containShardAndNoFrozen
Serves(m) == State(m) = Valid

PutErr(m) ==
  CASE ~Serves(m)                                            -> "ErrWrongGroup"
    [] Serves(m) /\ Data(m).version = m.version              -> "OK"
    [] Serves(m) /\ Data(m).version \notin {m.version, 0}    -> "ErrVersion"
    [] Serves(m) /\ Data(m).version = 0 /\ m.version # 0     -> "ErrNoKey"

\* doPut; the value is named by the operation that writes it.
DoPut(m) ==
  /\ IF PutErr(m) = "OK"
     THEN /\ grp' = [grp EXCEPT ![m.gid].data[m.shard] =
                       [value |-> m.writer, version |-> m.version + 1]]
          /\ hist' = Append(hist, m.writer)
     ELSE UNCHANGED <<grp, hist>>
  /\ UNCHANGED fatal

\* A request is executed, and nobody hears the answer.
Unheard(m) ==
  /\ CASE m.kind = "freeze"  -> DoFreeze(m) /\ UNCHANGED hist
       [] m.kind = "install" -> DoInstall(m) /\ UNCHANGED hist
       [] m.kind = "delete"  -> DoDelete(m) /\ UNCHANGED hist
       [] m.kind = "put"     -> DoPut(m)
  /\ UNCHANGED <<ctlVars, sent, clerk, ops, ret>>

-----------------------------------------------------------------------------
(* A controller.  Its pc names the call it makes next.                     *)

IdleCtl == [pc |-> "idle", config |-> MakeShardConfig, ver |-> 0,
            target |-> MakeShardConfig, shard |-> 0, data |-> NoData]

\* Seeded fault: changeConfig looks at the shards after s only.
NextMoveAfter(from, to, s) ==
  Min({t \in Shard : t > s /\ from.shards[t] # to.shards[t]} \cup {NShards})

\* The first shard from s on that changeConfig moves, or NShards.
NextMove(from, to, s) ==
  Min({t \in Shard : t >= s /\ from.shards[t] # to.shards[t]} \cup {NShards})

\* The freeze, install or delete request of controller k.
Request(k, kind) ==
  LET s == k.shard
      gid == IF kind = "install" THEN k.target.shards[s] ELSE k.config.shards[s]
      data == IF kind = "install" THEN k.data ELSE NoData
  IN  [kind |-> kind, gid |-> gid, shard |-> s, num |-> k.target.num,
       data |-> data]

\* Controller k goes on as c, whose next call, if it is one to a group, is now
\* in the network.
Continue(k, c) ==
  /\ ctl' = [ctl EXCEPT ![k] = c]
  /\ sent' = IF c.pc \in {"freeze", "install", "delete"}
             THEN sent \cup {Request(c, c.pc)} ELSE sent

\* c moves the first shard from s on, or, when there is none, stores the new
\* configuration.
MoveFrom(c, s) ==
  LET t == NextMove(c.config, c.target, s)
  IN  IF t < NShards THEN [c EXCEPT !.pc = "freeze", !.shard = t]
      ELSE [c EXCEPT !.pc = "store", !.shard = 0, !.data = NoData]

\* The clerk's Put to the store x: the results that its caller may see.
StorePut(x, config, ver) ==
  IF x.version = ver THEN [version |-> ver + 1, config |-> config] ELSE x

StorePutResults(x, ver) ==
  IF x.version = ver THEN {"OK", "ErrMaybe"} ELSE {"ErrVersion", "ErrMaybe"}

\* InitConfig: the tester's first configuration, all shards in Gid1.  After
\* ErrMaybe putOnce looks for version 0 and finds 1: fatal.
InitConfig(k) ==
  /\ ctl[k].pc = "idle" /\ cur.version = 0
  /\ cur' = StorePut(cur, JoinBalance(MakeShardConfig, {Gid1}), 0)
  /\ \E err \in StorePutResults(cur, 0) :
       ctl' = [ctl EXCEPT ![k].pc = IF err = "OK" THEN "idle" ELSE "fatal"]
  /\ UNCHANGED <<new, grp, sent, fatal, clerk, histVars>>

\* InitController, doRecovery: Get of CurConfigKey.
InitController(k) ==
  /\ ctl[k].pc = "idle" /\ cur.version > 0
  /\ ctl' = [ctl EXCEPT ![k].pc = "recover", ![k].config = cur.config,
                        ![k].ver = cur.version]
  /\ UNCHANGED <<cur, new, grp, sent, fatal, clerk, histVars>>

\* Seeded fault: recovery does not look at the versions.
RecoveryOutcomeNone(ver, config) == "none"

\* What doRecovery makes of the two versions; their difference is unsigned.
RecoveryOutcome(ver, config) ==
  LET ahead == ver - new.version
  IN  CASE new.version = 0 -> "none"
        [] new.version > 0 /\ ahead = 1 /\ config.num = new.config.num -> "none"
        [] new.version > 0 /\ ahead \in {0, 1}
             /\ (ahead = 0 \/ config.num # new.config.num) -> "move"
        [] new.version > 0 /\ ahead \notin {0, 1} -> "fatal"

\* doRecovery: Get of NewConfigKey.
Recover(k) ==
  LET c == ctl[k]
      outcome == RecoveryOutcome(c.ver, c.config)
  IN  /\ c.pc = "recover"
      /\ Continue(k, CASE outcome = "none"  -> IdleCtl
                       [] outcome = "fatal" -> [IdleCtl EXCEPT !.pc = "fatal"]
                       [] outcome = "move"  ->
                            MoveFrom([c EXCEPT !.target = new.config], 0))
      /\ UNCHANGED <<cur, new, grp, fatal, clerk, histVars>>

\* The tester queries the configuration, adds or removes a group and calls
\* ChangeConfigTo.
QueryAndChange(k, target) ==
  /\ ctl[k].pc = "idle" /\ cur.version > 0 /\ target.num <= MaxNum
  /\ ctl' = [ctl EXCEPT ![k].pc = "change", ![k].target = target]
  /\ UNCHANGED <<cur, new, grp, sent, fatal, clerk, histVars>>

\* ChangeConfigTo: Get of CurConfigKey.
ChangeConfigTo(k) ==
  /\ ctl[k].pc = "change"
  /\ ctl' = [ctl EXCEPT ![k] =
               IF @.target.num <= cur.config.num THEN IdleCtl
               ELSE [@ EXCEPT !.pc = "publish", !.config = cur.config,
                              !.ver = cur.version]]
  /\ UNCHANGED <<cur, new, grp, sent, fatal, clerk, histVars>>

PublishVersion(c) == c.ver - 1

\* putOnce of NewConfigKey.
Publish(k) ==
  LET c == ctl[k]
      ver == PublishVersion(c)
  IN  /\ c.pc = "publish"
      /\ new' = StorePut(new, c.target, ver)
      /\ \E err \in StorePutResults(new, ver) :
           IF err = "OK" THEN Continue(k, MoveFrom(c, 0))
           ELSE IF err = "ErrMaybe" THEN Continue(k, [c EXCEPT !.pc = "check"])
           ELSE Continue(k, IdleCtl)
      /\ UNCHANGED <<cur, grp, fatal, clerk, histVars>>

\* putOnce after ErrMaybe: Get of NewConfigKey.
Check(k) ==
  LET c == ctl[k]
  IN  /\ c.pc = "check"
      /\ IF new.config = c.target /\ new.version = PublishVersion(c)
         THEN Continue(k, MoveFrom(c, 0)) ELSE Continue(k, IdleCtl)
      /\ UNCHANGED <<cur, new, grp, fatal, clerk, histVars>>

\* changeConfig, for one shard: freeze it at the old group, ...
Freeze(k) ==
  LET c == ctl[k]
      m == Request(c, "freeze")
  IN  /\ c.pc = "freeze"
      /\ DoFreeze(m)
      /\ Continue(k, [c EXCEPT !.pc = "install", !.data = FreezeReply(m)])
      /\ UNCHANGED <<cur, new, clerk, histVars>>

\* ... install it at the new one ...
Install(k) ==
  LET c == ctl[k]
  IN  /\ c.pc = "install"
      /\ DoInstall(Request(c, "install"))
      /\ Continue(k, [c EXCEPT !.pc = "delete", !.data = NoData])
      /\ UNCHANGED <<cur, new, clerk, histVars>>

\* ... and delete it at the old one.
Delete(k) ==
  LET c == ctl[k]
  IN  /\ c.pc = "delete"
      /\ DoDelete(Request(c, "delete"))
      /\ Continue(k, MoveFrom(c, c.shard + 1))
      /\ UNCHANGED <<cur, new, clerk, histVars>>

\* putOnce of CurConfigKey; its result is not used.
Store(k) ==
  LET c == ctl[k]
  IN  /\ c.pc = "store"
      /\ cur' = StorePut(cur, c.target, c.ver)
      /\ Continue(k, IdleCtl)
      /\ UNCHANGED <<new, grp, fatal, clerk, histVars>>

\* A controller is killed, or cut off for good; its call stays in the network.
Stop(k) ==
  /\ k \in Stoppable /\ ctl[k].pc \notin {"stopped", "fatal"}
  /\ ctl' = [ctl EXCEPT ![k] = [IdleCtl EXCEPT !.pc = "stopped"]]
  /\ UNCHANGED <<cur, new, grp, sent, fatal, clerk, histVars>>

ControllerStep(k) ==
  \/ InitConfig(k) \/ InitController(k) \/ Recover(k)
  \/ ChangeConfigTo(k) \/ Publish(k) \/ Check(k)
  \/ Freeze(k) \/ Install(k) \/ Delete(k) \/ Store(k)

NewTargets ==
  {JoinBalance(cur.config, {g}) : g \in {h \in Gid : CanJoin(cur.config, {h})}}
  \cup
  {LeaveBalance(cur.config, {g}) : g \in {h \in Gid : CanLeave(cur.config, {h})
                                          /\ cur.config.groups # {h}}}

-----------------------------------------------------------------------------
(* The clerk of the service.                                               *)

Busy(c) == Len(ret[c]) < Len(ops[c])

Op(c) == ops[c][Len(ops[c])]

\* gid: the group the cached configuration names for the key; 0: no cache.
NewClerk == [pc |-> "idle", gid |-> 0, isUpdate |-> FALSE, rpcTimes |-> 0,
             err |-> ""]

\* The request of client c to group gid, for its n-th operation.
PutRequest(c, n, gid, version) ==
  [kind |-> "put", gid |-> gid, shard |-> KeyShard, version |-> version,
   writer |-> <<c, n>>]

GetRequest(gid) == [gid |-> gid, shard |-> KeyShard]

\* The call to the group goes out.
Ask(c, n, op, gid) ==
  /\ clerk' = [clerk EXCEPT ![c] = [@ EXCEPT !.pc = "call", !.gid = gid,
                                             !.rpcTimes = 0]]
  /\ sent' = IF op.kind = "put" THEN sent \cup {PutRequest(c, n, gid, op.version)}
             ELSE sent

\* What client c may call as its next operation.
MayCall(c) ==
  IF Len(ops[c]) < Len(Requests[c]) THEN Requests[c][Len(ops[c]) + 1] ELSE {}

\* Get and Put: query the configuration, if there is none in the cache.
Begin(c, kind, version) ==
  LET op == [kind |-> kind, version |-> version, low |-> Len(hist)]
  IN  /\ ~Busy(c) /\ cur.version > 0
      /\ ops' = [ops EXCEPT ![c] = Append(@, op)]
      /\ IF clerk[c].gid # 0 THEN Ask(c, Len(ops[c]) + 1, op, clerk[c].gid)
         ELSE /\ clerk' = [clerk EXCEPT ![c].pc = "query"]
              /\ UNCHANGED sent
      /\ UNCHANGED <<ctlVars, grp, fatal, hist, ret>>

\* getClientByShard
Query(c) ==
  /\ clerk[c].pc = "query"
  /\ Ask(c, Len(ops[c]), Op(c), cur.config.shards[KeyShard])
  /\ UNCHANGED <<ctlVars, grp, fatal, histVars>>

\* The operation of c returns r.
Return(c, r) ==
  /\ ret' = [ret EXCEPT ![c] = Append(@, r)]
  /\ clerk' = [clerk EXCEPT ![c] = [NewClerk EXCEPT !.gid = clerk[c].gid]]

\* ErrWrongGroup: query the configuration again.
TryAgain(c) ==
  /\ clerk' = [clerk EXCEPT ![c] = [NewClerk EXCEPT !.pc = "query",
                                                    !.isUpdate = TRUE]]
  /\ UNCHANGED ret

\* A Get is executed and answered.
Get(c) ==
  LET m == GetRequest(clerk[c].gid)
      d == Data(m)
  IN  /\ clerk[c].pc = "call" /\ Op(c).kind = "get"
      /\ IF Serves(m)
         THEN Return(c, [err |-> IF d.version = 0 THEN "ErrNoKey" ELSE "OK",
                         version |-> d.version, value |-> d.value])
         ELSE TryAgain(c)
      /\ UNCHANGED <<ctlVars, grp, sent, fatal, hist, ops>>

\* After MaxRPCTimes calls that failed a Get is given up like ErrWrongGroup.
GetGivesUp(c) ==
  /\ clerk[c].pc = "call" /\ Op(c).kind = "get"
  /\ TryAgain(c)
  /\ UNCHANGED <<ctlVars, grp, sent, fatal, hist, ops>>

\* ErrVersion may be the echo of the clerk's own write, in this group or,
\* before the shard moved, in another one.
PutResult(c, err) ==
  IF err = "ErrVersion" /\ (clerk[c].rpcTimes > 0 \/ clerk[c].isUpdate)
  THEN "ErrMaybe" ELSE err

\* A Put is executed, ...
Put(c) ==
  LET m == PutRequest(c, Len(ops[c]), clerk[c].gid, Op(c).version)
  IN  /\ clerk[c].pc = "call" /\ Op(c).kind = "put"
      /\ DoPut(m)
      /\ clerk' = [clerk EXCEPT ![c].pc = "answer", ![c].err = PutErr(m)]
      /\ UNCHANGED <<ctlVars, sent, ops, ret>>

\* ... and its answer reaches the clerk.
PutAnswered(c) ==
  /\ clerk[c].pc = "answer"
  /\ IF clerk[c].err = "ErrWrongGroup" THEN TryAgain(c)
     ELSE Return(c, [err |-> PutResult(c, clerk[c].err), version |-> 0,
                     value |-> << >>])
  /\ UNCHANGED <<ctlVars, grp, sent, fatal, hist, ops>>

\* A call of a Put fails, executed or not, and is made again.
PutCallFails(c) ==
  /\ clerk[c].pc \in {"call", "answer"} /\ Op(c).kind = "put"
  /\ clerk' = [clerk EXCEPT ![c].pc = "call", ![c].err = "", ![c].rpcTimes = 1]
  /\ UNCHANGED <<ctlVars, grp, sent, fatal, histVars>>

ClerkStep(c) ==
  \/ \E r \in MayCall(c) : Begin(c, r.kind, r.version)
  \/ Query(c) \/ Get(c) \/ GetGivesUp(c)
  \/ Put(c) \/ PutAnswered(c) \/ PutCallFails(c)

-----------------------------------------------------------------------------
\* StartServerShardGrp: the first group starts with every shard.
StartServer(g) ==
  [shards |-> [s \in Shard |-> IF g = Gid1 THEN Valid ELSE NoShard],
   nums |-> [s \in Shard |-> 0],
   data |-> [s \in Shard |-> NoData]]

Init ==
  /\ cur = [version |-> 0, config |-> MakeShardConfig] /\ new = cur
  /\ grp = [g \in Gid |-> StartServer(g)]
  /\ ctl = [k \in Controller |-> IdleCtl]
  /\ sent = {} /\ fatal = {}
  /\ clerk = [c \in Client |-> NewClerk]
  /\ hist = << >>
  /\ ops = [c \in Client |-> << >>] /\ ret = [c \in Client |-> << >>]

Next ==
  \/ \E k \in Controller :
       \/ ControllerStep(k) \/ Stop(k)
       \/ \E target \in NewTargets : QueryAndChange(k, target)
  \/ \E m \in sent : Unheard(m)
  \/ \E c \in Client : ClerkStep(c)

Spec == Init /\ [][Next]_vars

\* A controller that is not killed goes on with what it is doing, and is now
\* and then started anew, which begins with InitController.
FairSpec ==
  /\ Spec
  /\ \A k \in Controller \ Stoppable :
       WF_vars(ControllerStep(k)) /\ SF_vars(InitController(k))

\* The members of group g are restarted, from a snapshot of their state (a
\* restart without one executes the whole log again, and changes nothing).
\* StartServerShardGrp then sets the shards and the Nums to their first values.
RestartFromSnapshot(g) ==
  /\ grp' = [grp EXCEPT ![g].shards = IF g = Gid1 THEN StartServer(g).shards
                                      ELSE @,
                        ![g].nums = StartServer(g).nums]
  /\ UNCHANGED <<ctlVars, sent, fatal, clerk, histVars>>

RestartSpec ==
  Init /\ [][Next \/ \E g \in Gid : RestartFromSnapshot(g)]_vars

-----------------------------------------------------------------------------
(* Correctness.                                                            *)

Register == INSTANCE KvSpec

\* While shards move, controllers stop and supersede each other, and requests
\* are executed late or twice, the clients see one linearizable register.
Linearizable == Register!Spec

\* No two groups serve a shard.
OneOwner ==
  \A s \in Shard : \A g, h \in Gid :
    grp[g].shards[s] = Valid /\ grp[h].shards[s] = Valid => g = h

\* The groups never meet what their servers take for impossible: an Install
\* of a frozen shard, a Delete of a valid one.
NoInvalidMove == fatal = {}

\* The group that the stored configuration names for a shard serves it, as
\* long as no newer configuration is on its way; and whoever serves the key's
\* shard has its last write.
OwnerHasShard ==
  /\ new.version < cur.version =>
       \A s \in Shard : grp[cur.config.shards[s]].shards[s] = Valid
  /\ \A g \in Gid : grp[g].shards[KeyShard] = Valid =>
       grp[g].data[KeyShard].version = Len(hist)

\* No shard moves between groups that are in both configurations.
MovesOnlyForChange(from, to) ==
  \A s \in Shard : from.shards[s] # to.shards[s] =>
    from.shards[s] \notin to.groups \/ to.shards[s] \notin from.groups

\* Join and Leave make configurations that CheckConfig accepts, and a shard
\* moves only to a group that joins or from one that leaves.
ConfigsAreBalanced ==
  /\ \A x \in {cur, new} : x.version > 0 => CheckConfig(x.config)
  /\ cur.version > 0 /\ new.version = cur.version =>
       MovesOnlyForChange(cur.config, new.config)

\* A configuration that was published is reached, whoever published it and
\* wherever that controller stopped, unless the last controller has died of an
\* "invalid config state".
ConfigSettles ==
  (new.version > 0 /\ new.version = cur.version)
    ~> (\/ new.version # cur.version
        \/ \A k \in Controller \ Stoppable : ctl[k].pc = "fatal")
=============================================================================
