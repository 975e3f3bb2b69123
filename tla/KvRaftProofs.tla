---------------------------- MODULE KvRaftProofs ----------------------------
(***************************************************************************)
(* The replicated key/value service implements the register of KvSpec, and *)
(* its replicas agree, for any number of servers, clients, elections,      *)
(* restarts and snapshots, in the schedules in which no server takes over  *)
(* a snapshot older than what it has executed (InOrderSpec); and in every  *)
(* schedule of a service that takes no snapshots.  Without that condition  *)
(* both are false: the table that is restored lacks what lies in between.  *)
(*                                                                         *)
(* The argument: let T[k] be the table after the first k committed         *)
(* entries, for the entries some reader has executed.  The version of T    *)
(* grows with k and reaches Len(hist) at the last of them.  An entry that  *)
(* is executed for the first time lies after all that was executed when    *)
(* its operation was called, so the version it finds is at least the one   *)
(* of that moment: nothing that the clerk learns is stale.  Later readers  *)
(* find the same table, whatever path they took: replay, snapshot or       *)
(* restart.                                                                *)
(***************************************************************************)
EXTENDS KvRaft, WellFoundedInduction, SequenceTheorems, TLAPS

-----------------------------------------------------------------------------
(* Types.                                                                  *)

Value == {None} \cup (Client \X Nat)
Table == [value : Value, version : Nat]
Entry == [term : Nat, call : CallId]
OpRec == [kind : {"get", "put"}, version : Nat, low : Nat]
Err == {"OK", "ErrNoKey", "ErrVersion", "ErrMaybe"}
Reply == [err : Err, version : Nat, value : Value]
Msg == [id : CallId, res : Reply] \cup {Pill}
Pc == {"none", "sent", "wait", "giveup", "ok", "wrong", "end"}
ThreadRec == [pc : Pc, srv : Server, op : Nat, term : Nat, index : Nat,
              ch : Seq(Msg), res : Reply \cup {<< >>}]
ClerkRec == [leader : Server, calls : Nat, rpcTimes : {0, 1},
             leaderHint : -1 .. N - 1]

RaftType ==
  /\ term \in [Server -> Nat]
  /\ leader \in [Server -> BOOLEAN]
  /\ leaderID \in [Server -> -1 .. N - 1]
  /\ log \in [Server -> Seq(Entry)]
  /\ committed \in Seq(Entry)

RsmType ==
  /\ table \in [Server -> Table]
  /\ applied \in [Server -> Nat]
  /\ snapshot \in [Server -> [table : Table, index : Nat]]
  /\ notify \in [Server -> SUBSET [index : Nat, id : CallId]]

ThreadType == thread \in [CallId -> ThreadRec]

ClerkType ==
  /\ clerk \in [Client -> ClerkRec]
  /\ ops \in [Client -> Seq(OpRec)]
  /\ ret \in [Client -> Seq(Reply)]

HistType ==
  /\ executed \in Nat /\ executed <= Len(committed)
  /\ hist \in Seq(Client \X Nat)

-----------------------------------------------------------------------------
(* The inductive invariant.                                                *)

\* A term has one leader; the leader of the newest term has every committed
\* entry; a leader's log reaches to its snapshot.
LeaderInv ==
  \A s \in Server : leader[s] =>
    /\ \A t \in Server : leader[t] /\ term[t] = term[s] => t = s
    /\ (\A t \in Server : term[t] <= term[s]) => IsPrefix(committed, log[s])
    /\ snapshot[s].index <= Len(log[s])

\* The call has been made.
Known(id) == thread[id].pc # "none"

\* Calls are numbered, and every call is for an operation of its client.
ThreadInv ==
  \A id \in CallId :
    /\ id[2] > clerk[id[1]].calls => ~Known(id)
    /\ Known(id) => thread[id].op \in 1 .. Len(ops[id[1]])

\* What is in a log comes from a call.
LogInv ==
  /\ \A s \in Server : \A k \in 1 .. Len(log[s]) : Known(log[s][k].call)
  /\ \A k \in 1 .. Len(committed) : Known(committed[k].call)

\* A client has at most one operation under way, and its last call is for it.
BusyInv ==
  \A c \in Client :
    /\ Len(ops[c]) \in {Len(ret[c]), Len(ret[c]) + 1}
    /\ Busy(c) => /\ CallOf(c) \in CallId /\ Known(CallOf(c))
                  /\ thread[CallOf(c)].op = Len(ops[c])

Writer(id) == <<id[1], thread[id].op>>

\* T[k] is the table after the first k entries.
Execution(T) ==
  /\ T \in [0 .. executed -> Table]
  /\ T[0] = EmptyTable
  /\ \A k \in 1 .. executed :
       T[k] = DoOp(T[k - 1], OpOf(committed[k].call), Writer(committed[k].call))

\* A table is the state of the register at one moment.
VersionInv(T) ==
  /\ T[executed].version = Len(hist)
  /\ \A k \in 0 .. executed :
       /\ T[k].version <= Len(hist)
       /\ T[k].value = IF T[k].version = 0 THEN None ELSE hist[T[k].version]

\* Entry k finds no older version than its operation found when it was
\* called; and if it finds the version that it names, it is in the history.
EffectInv(T) ==
  \A k \in 1 .. executed :
    LET id == committed[k].call
    IN  /\ OpOf(id).low <= T[k - 1].version
        /\ OpOf(id).kind = "put" /\ OpOf(id).version = T[k - 1].version =>
             \E j \in 1 .. Len(hist) : hist[j] = Writer(id)

\* The write that made version j named version j - 1.
HistInv ==
  \A j \in 1 .. Len(hist) :
    LET w == hist[j]
    IN  /\ w[2] \in 1 .. Len(ops[w[1]])
        /\ ops[w[1]][w[2]].kind = "put" /\ ops[w[1]][w[2]].version = j - 1

LowInv ==
  \A c \in Client : \A n \in 1 .. Len(ops[c]) : ops[c][n].low <= Len(hist)

\* A Put that returned OK is in the history.
RetInv ==
  \A c \in Client : \A n \in 1 .. Len(ret[c]) :
    ops[c][n].kind = "put" /\ ret[c][n].err = "OK" =>
      \E j \in 1 .. Len(hist) : hist[j] = <<c, n>>

\* Every table, and every snapshot, is one of T.
ReplicaInv(T) ==
  \A s \in Server :
    /\ applied[s] <= executed /\ table[s] = T[applied[s]]
    /\ snapshot[s].index <= executed /\ snapshot[s].table = T[snapshot[s].index]

\* r is the reply of an execution of call id.
Answer(T, id, r) ==
  \E k \in 1 .. executed :
    committed[k].call = id /\ r = DoOpReply(T[k - 1], OpOf(id))

\* What is in a channel, or on its way to the clerk, is such a reply.
ReplyInv(T) ==
  \A id \in CallId :
    /\ \A m \in Range(thread[id].ch) : m = Pill \/ Answer(T, m.id, m.res)
    /\ thread[id].pc = "ok" => Answer(T, id, thread[id].res)

KvType == RaftType /\ RsmType /\ ThreadType /\ ClerkType /\ HistType

\* What does not speak of T.
PlainInv == LeaderInv /\ ThreadInv /\ LogInv /\ BusyInv /\ HistInv /\ LowInv /\ RetInv

\* What does.
TableInv(T) ==
  Execution(T) /\ VersionInv(T) /\ EffectInv(T) /\ ReplicaInv(T) /\ ReplyInv(T)

KvInv(T) == KvType /\ PlainInv /\ TableInv(T)

-----------------------------------------------------------------------------
(* Facts about the model's operators.                                      *)

LEMMA ServerFacts ==
  /\ N \in Nat /\ N > 0 /\ 0 \in Server
  /\ \A s \in Server : s \in Nat
  /\ \A c \in Client : MaxCalls[c] \in Nat
  BY NAssumption, MaxCallsAssumption DEF Server

LEMMA CallIdIs ==
  ASSUME NEW id \in CallId
  PROVE  /\ id[1] \in Client /\ id[2] \in Nat /\ id[2] \in 1 .. MaxCalls[id[1]]
         /\ id = <<id[1], id[2]>> /\ id # None
<1>1. PICK c \in Client : id \in {c} \X (1 .. MaxCalls[c])
  BY DEF CallId
<1>2. id[1] = c /\ id[2] \in 1 .. MaxCalls[c] /\ id = <<id[1], id[2]>>
  BY <1>1
<1>3. \A x, y : <<x, y>> # << >>
  OBVIOUS
<1>4. id # None
  BY <1>2, <1>3 DEF None
<1>5. \A k \in 1 .. MaxCalls[c] : k \in Nat
  BY ServerFacts
<1> QED BY <1>2, <1>4, <1>5

LEMMA CallIdOf ==
  ASSUME NEW c \in Client, NEW n \in 1 .. MaxCalls[c]
  PROVE  <<c, n>> \in CallId
BY DEF CallId

\* A message that is for call id is not a pill.
LEMMA PillIs ==
  /\ Pill = [id |-> None, res |-> None]
  /\ \A id \in CallId : Pill.id # id
  /\ \A m \in Msg : m # Pill => m.id \in CallId /\ m.res \in Reply
BY CallIdIs DEF Pill, Msg

LEMMA PrefixIs ==
  ASSUME NEW S, NEW s \in Seq(S), NEW t \in Seq(S)
  PROVE  IsPrefix(s, t) <=> Len(s) <= Len(t) /\ \A k \in 1 .. Len(s) : s[k] = t[k]
<1>1. ASSUME Len(s) <= Len(t)
      PROVE  (SubSeq(s, 1, Len(s)) = SubSeq(t, 1, Len(s)))
              <=> \A k \in 1 .. Len(s) : s[k] = t[k]
  <2> DEFINE u == SubSeq(s, 1, Len(s))
             v == SubSeq(t, 1, Len(s))
  <2>1. /\ u = [k \in 1 .. Len(s) |-> s[k]]
        /\ v = [k \in 1 .. Len(s) |-> t[k]]
    BY <1>1
  <2> QED BY <2>1
<1> QED BY <1>1 DEF IsPrefix

\* The least-number principle, for a set.
LEMMA LeastNumber ==
  ASSUME NEW T \in SUBSET Nat, T # {}
  PROVE  \E x \in T : \A y \in T : x <= y
<1> DEFINE R == {ss \in Nat \X Nat : ss[1] < ss[2]}
<1>1. IsWellFoundedOn(R, Nat)
  BY NatLessThanWellFounded DEF OpToRel
<1>2. \A x, y \in Nat : <<y, x>> \in R <=> y < x
  OBVIOUS
<1> HIDE DEF R
<1>3. PICK x \in T : \A y \in T : ~ (<<y, x>> \in R)
  BY <1>1, WFMin
<1>4. \A y \in T : ~ (y < x)
  BY <1>2, <1>3
<1> QED BY <1>4

\* Induction up to a bound, for a set.
LEMMA UpTo ==
  ASSUME NEW n \in Nat, NEW P, 0 \in P, \A k \in 0 .. n - 1 : k \in P => k + 1 \in P
  PROVE  \A k \in 0 .. n : k \in P
<1> DEFINE T == {k \in 0 .. n : k \notin P}
<1>1. SUFFICES ASSUME T # {} PROVE FALSE
  OBVIOUS
<1>2. PICK k \in T : \A j \in T : k <= j
  <2>1. T \in SUBSET Nat
    OBVIOUS
  <2> HIDE DEF T
  <2> QED BY <1>1, <2>1, LeastNumber
<1>3. k # 0 /\ k - 1 \in 0 .. n - 1
  BY <1>2
<1>4. k - 1 \notin T
  BY <1>2, <1>3
<1>5. k - 1 \in P
  BY <1>3, <1>4
<1>6. (k - 1) + 1 = k
  BY <1>2
<1> QED BY <1>2, <1>3, <1>5, <1>6

\* Some server is in the newest term.
LEMMA NewestTermIs ==
  ASSUME RaftType
  PROVE  /\ NewestTerm \in Nat
         /\ \A s \in Server : term[s] <= NewestTerm
         /\ \E s \in Server : term[s] = NewestTerm
<1> DEFINE P == {k \in 0 .. N - 1 : \E s \in 0 .. k : \A t \in 0 .. k : term[t] <= term[s]}
<1>0. N - 1 \in Nat /\ \A s \in 0 .. N - 1 : term[s] \in Nat
  BY ServerFacts DEF RaftType, Server
<1>1. 0 \in P
  BY <1>0
<1>2. ASSUME NEW k \in 0 .. (N - 1) - 1, k \in P PROVE k + 1 \in P
  <2>1. PICK s \in 0 .. k : \A t \in 0 .. k : term[t] <= term[s]
    BY <1>2
  <2>2. k + 1 \in 0 .. N - 1 /\ s \in 0 .. N - 1 /\ s \in 0 .. k + 1
    BY <1>0
  <2>3. \A t \in 0 .. k + 1 : t \in 0 .. k \/ t = k + 1
    OBVIOUS
  <2>4. CASE term[s] <= term[k + 1]
    <3>1. \A t \in 0 .. k + 1 : term[t] <= term[k + 1]
      BY <1>0, <2>1, <2>2, <2>3, <2>4
    <3> QED BY <2>2, <3>1
  <2>5. CASE term[k + 1] <= term[s]
    BY <1>0, <2>1, <2>2, <2>3, <2>5
  <2> QED BY <1>0, <2>2, <2>4, <2>5
<1>3. N - 1 \in P
  <2> HIDE DEF P
  <2>1. \A k \in 0 .. N - 1 : k \in P
    BY <1>0, <1>1, <1>2, UpTo
  <2> QED BY <1>0, <2>1
<1>4. PICK s \in Server : \A t \in Server : term[t] <= term[s]
  BY <1>3 DEF Server
<1>5. Range(term) = {term[t] : t \in Server}
  BY DEF RaftType, Range
<1>6. \E x \in Range(term) : \A t \in Server : term[t] <= x
  BY <1>4, <1>5
<1>7. NewestTerm \in Range(term) /\ \A t \in Server : term[t] <= NewestTerm
  BY <1>6 DEF NewestTerm
<1> QED BY <1>5, <1>7 DEF RaftType

-----------------------------------------------------------------------------
LEMMA KvInit == Init => KvInv([k \in 0 .. 0 |-> EmptyTable])
<1> SUFFICES ASSUME Init PROVE KvInv([k \in 0 .. 0 |-> EmptyTable])
  OBVIOUS
<1> DEFINE T == [k \in 0 .. 0 |-> EmptyTable]
<1>1. EmptyTable \in Table
  BY DEF EmptyTable, Table, Value
<1>2. NoThread \in ThreadRec /\ NoThread.pc = "none" /\ NoThread.ch = << >>
  BY ServerFacts DEF NoThread, ThreadRec, Pc
<1>3. KvType
  <2>1. RaftType
    BY ServerFacts DEF Init, RaftType
  <2>2. RsmType
    BY <1>1 DEF Init, RsmType
  <2>3. ThreadType
    BY <1>2 DEF Init, ThreadType
  <2>4. ClerkType
    BY ServerFacts DEF Init, ClerkType, ClerkRec
  <2>5. HistType
    BY DEF Init, HistType
  <2> QED BY <2>1, <2>2, <2>3, <2>4, <2>5 DEF KvType
<1>4. PlainInv
  <2>1. LeaderInv /\ LogInv /\ HistInv /\ LowInv /\ RetInv
    BY DEF Init, LeaderInv, LogInv, HistInv, LowInv, RetInv
  <2>2. ThreadInv
    BY <1>2 DEF Init, ThreadInv, Known
  <2>3. BusyInv
    BY DEF Init, BusyInv, Busy
  <2> QED BY <2>1, <2>2, <2>3 DEF PlainInv
<1>5. TableInv(T)
  <2>1. executed = 0 /\ Len(hist) = 0 /\ 0 .. 0 = {0} /\ 1 .. 0 = {}
    BY DEF Init
  <2>2. Execution(T) /\ VersionInv(T) /\ EffectInv(T)
    BY <1>1, <2>1 DEF Execution, VersionInv, EffectInv, EmptyTable
  <2>3. ReplicaInv(T)
    BY <2>1 DEF Init, ReplicaInv
  <2>4. ReplyInv(T)
    BY <1>2 DEF Init, ReplyInv, Range
  <2> QED BY <2>2, <2>3, <2>4 DEF TableInv
<1> QED BY <1>3, <1>4, <1>5 DEF KvInv

-----------------------------------------------------------------------------
(* What steps keep.                                                        *)

\* Calls keep their operations, and what is committed stays.
Stable ==
  /\ \A id \in CallId : Known(id) => Known(id)' /\ thread'[id].op = thread[id].op
  /\ \A c \in Client : /\ Len(ops[c]) <= Len(ops'[c])
                       /\ \A n \in 1 .. Len(ops[c]) : ops'[c][n] = ops[c][n]
  /\ Len(committed) <= Len(committed')
  /\ \A k \in 1 .. Len(committed) : committed'[k] = committed[k]

LEMMA OpIs ==
  ASSUME KvType, PlainInv, NEW id \in CallId, Known(id)
  PROVE  /\ OpOf(id) \in OpRec /\ id[1] \in Client
         /\ thread[id].op \in 1 .. Len(ops[id[1]]) /\ Writer(id) \in Client \X Nat
         /\ OpOf(id) = ops[id[1]][thread[id].op]
         /\ Writer(id)[1] = id[1] /\ Writer(id)[2] = thread[id].op
<1>1. id[1] \in Client
  BY CallIdIs
<1>2. thread[id].op \in 1 .. Len(ops[id[1]]) /\ thread[id].op \in Nat
  BY DEF PlainInv, ThreadInv, KvType, ThreadType, ThreadRec
<1>3. ops[id[1]] \in Seq(OpRec)
  BY <1>1 DEF KvType, ClerkType
<1> QED BY <1>1, <1>2, <1>3 DEF OpOf, Writer

LEMMA OpStable ==
  ASSUME KvType, PlainInv, Stable, NEW id \in CallId, Known(id)
  PROVE  OpOf(id)' = OpOf(id) /\ Writer(id)' = Writer(id) /\ Known(id)'
<1>1. Known(id)' /\ thread'[id].op = thread[id].op
  BY DEF Stable
<1>2. id[1] \in Client /\ thread[id].op \in 1 .. Len(ops[id[1]])
  BY OpIs
<1>3. ops'[id[1]][thread[id].op] = ops[id[1]][thread[id].op]
  BY <1>2 DEF Stable
<1> QED BY <1>1, <1>3 DEF OpOf, Writer

\* The entries that were executed.
LEMMA ExecutedIs ==
  ASSUME KvType, PlainInv, NEW k \in 1 .. executed
  PROVE  k \in 1 .. Len(committed) /\ committed[k].call \in CallId
         /\ Known(committed[k].call)
<1>1. k \in 1 .. Len(committed)
  BY DEF KvType, HistType, RaftType
<1>2. committed[k] \in Entry
  BY <1>1 DEF KvType, RaftType
<1> QED BY <1>1, <1>2 DEF Entry, PlainInv, LogInv

LEMMA ExecutedStable ==
  ASSUME KvType, PlainInv, Stable, NEW k \in 1 .. executed
  PROVE  /\ committed'[k] = committed[k]
         /\ OpOf(committed[k].call)' = OpOf(committed[k].call)
         /\ Writer(committed[k].call)' = Writer(committed[k].call)
<1>1. k \in 1 .. Len(committed) /\ committed[k].call \in CallId /\ Known(committed[k].call)
  BY ExecutedIs
<1>2. committed'[k] = committed[k]
  BY <1>1 DEF Stable
<1>3. /\ ops'[committed[k].call[1]][thread'[committed[k].call].op]
           = ops[committed[k].call[1]][thread[committed[k].call].op]
      /\ <<committed[k].call[1], thread'[committed[k].call].op>>
           = <<committed[k].call[1], thread[committed[k].call].op>>
  BY <1>1, OpStable DEF OpOf, Writer
<1> QED BY <1>2, <1>3 DEF OpOf, Writer

LEMMA TableFrame ==
  ASSUME NEW T, KvInv(T), Stable, UNCHANGED histVars
  PROVE  Execution(T)' /\ VersionInv(T)' /\ EffectInv(T)'
<1>1. KvType /\ PlainInv /\ Execution(T) /\ VersionInv(T) /\ EffectInv(T)
  BY DEF KvInv, TableInv
<1>2. executed' = executed /\ hist' = hist
  BY DEF histVars
<1>3. \A k \in 1 .. executed :
        /\ committed'[k] = committed[k]
        /\ OpOf(committed[k].call)' = OpOf(committed[k].call)
        /\ Writer(committed[k].call)' = Writer(committed[k].call)
  BY <1>1, ExecutedStable
<1>4. Execution(T)'
  BY <1>1, <1>2, <1>3 DEF Execution, DoOp
<1>5. VersionInv(T)'
  BY <1>1, <1>2 DEF VersionInv
<1>6. EffectInv(T)'
  BY <1>1, <1>2, <1>3 DEF EffectInv
<1> QED BY <1>4, <1>5, <1>6

\* T2 goes on where T ends.
LEMMA AnswerFrame ==
  ASSUME NEW T, NEW T2, KvType, PlainInv, Stable, executed' \in Nat, executed <= executed',
         \A k \in 0 .. executed : T2[k] = T[k],
         NEW id, NEW r, Answer(T, id, r)
  PROVE  Answer(T2, id, r)'
<1>0. executed \in Nat
  BY DEF KvType, HistType
<1>1. PICK k \in 1 .. executed : committed[k].call = id /\ r = DoOpReply(T[k - 1], OpOf(id))
  BY DEF Answer
<1>2. committed'[k].call = id /\ OpOf(id)' = OpOf(id)
  BY <1>1, ExecutedStable
<1>3. k \in 1 .. executed' /\ k - 1 \in 0 .. executed /\ T2[k - 1] = T[k - 1]
  BY <1>0, <1>1
<1>4. r = DoOpReply(T2[k - 1], OpOf(id)')
  BY <1>1, <1>2, <1>3
<1>5. r = DoOpReply(T2[k - 1], OpOf(id))'
  BY <1>4 DEF DoOpReply
<1> QED BY <1>2, <1>3, <1>5 DEF Answer

\* Threads hand on the messages that they have.
LEMMA ReplyFrame ==
  ASSUME NEW T, KvInv(T), Stable, UNCHANGED executed,
         \A d \in CallId : Range(thread'[d].ch) \subseteq Range(thread[d].ch) \cup {Pill},
         \A d \in CallId : thread'[d].pc = "ok" =>
           \/ thread[d].pc = "ok" /\ thread'[d].res = thread[d].res
           \/ Answer(T, d, thread'[d].res)
  PROVE  ReplyInv(T)'
<1>1. KvType /\ PlainInv /\ ReplyInv(T)
  BY DEF KvInv, TableInv
<1>2. executed' \in Nat /\ executed <= executed'
  BY <1>1 DEF KvType, HistType
<1>3. ASSUME NEW id, NEW r, Answer(T, id, r) PROVE Answer(T, id, r)'
  BY <1>1, <1>2, <1>3, AnswerFrame
<1> SUFFICES ASSUME NEW d \in CallId
             PROVE  /\ \A m \in Range(thread'[d].ch) : m = Pill \/ Answer(T, m.id, m.res)'
                    /\ \A r : thread'[d].pc = "ok" /\ r = thread'[d].res => Answer(T, d, r)'
  BY DEF ReplyInv, Answer, Pill
<1>4. ASSUME NEW m \in Range(thread'[d].ch), m # Pill
      PROVE  Answer(T, m.id, m.res)'
  <2>1. Answer(T, m.id, m.res)
    BY <1>1, <1>4 DEF ReplyInv
  <2> QED BY <1>3, <2>1
<1>5. ASSUME NEW r, thread'[d].pc = "ok", r = thread'[d].res PROVE Answer(T, d, r)'
  <2>1. Answer(T, d, r)
    BY <1>1, <1>5 DEF ReplyInv
  <2> QED BY <1>3, <2>1
<1> QED BY <1>4, <1>5

LEMMA HistFrame ==
  ASSUME KvType, PlainInv, Stable, UNCHANGED hist
  PROVE  HistInv'
<1> SUFFICES ASSUME NEW j \in 1 .. Len(hist)
             PROVE  /\ hist[j][2] \in 1 .. Len(ops'[hist[j][1]])
                    /\ ops'[hist[j][1]][hist[j][2]].kind = "put"
                    /\ ops'[hist[j][1]][hist[j][2]].version = j - 1
  BY DEF HistInv
<1>1. /\ hist[j][2] \in 1 .. Len(ops[hist[j][1]])
      /\ ops[hist[j][1]][hist[j][2]].kind = "put"
      /\ ops[hist[j][1]][hist[j][2]].version = j - 1
  BY DEF PlainInv, HistInv
<1>2. hist[j] \in Client \X Nat /\ hist[j][1] \in Client
  BY DEF KvType, HistType
<1>3. /\ Len(ops[hist[j][1]]) <= Len(ops'[hist[j][1]])
      /\ ops'[hist[j][1]][hist[j][2]] = ops[hist[j][1]][hist[j][2]]
  BY <1>1, <1>2 DEF Stable
<1> QED BY <1>1, <1>3

-----------------------------------------------------------------------------
(* Raft.                                                                   *)

\* Leaders step down, or stay in their term and add to their log.
LEMMA LeaderFrame ==
  ASSUME KvType, LeaderInv, RaftType', UNCHANGED committed,
         \A x \in Server : term[x] <= term'[x],
         \A x \in Server : leader'[x] =>
           /\ leader[x] /\ term'[x] = term[x]
           /\ Len(log[x]) <= Len(log'[x])
           /\ \A k \in 1 .. Len(log[x]) : log'[x][k] = log[x][k]
           /\ snapshot'[x].index <= Len(log'[x])
  PROVE  LeaderInv'
<1> SUFFICES ASSUME NEW s \in Server, leader'[s]
             PROVE  /\ \A t \in Server : leader'[t] /\ term'[t] = term'[s] => t = s
                    /\ (\A t \in Server : term'[t] <= term'[s]) => IsPrefix(committed, log'[s])
                    /\ snapshot'[s].index <= Len(log'[s])
  BY DEF LeaderInv
<1>1. \A t \in Server : leader'[t] /\ term'[t] = term'[s] => t = s
  BY DEF LeaderInv
<1>2. ASSUME \A t \in Server : term'[t] <= term'[s] PROVE IsPrefix(committed, log'[s])
  <2>1. \A t \in Server : term[t] \in Nat /\ term'[t] \in Nat
    BY DEF KvType, RaftType
  <2>2. \A t \in Server : term[t] <= term[s]
    BY <1>2, <2>1
  <2>3. committed \in Seq(Entry) /\ log[s] \in Seq(Entry) /\ log'[s] \in Seq(Entry)
    BY DEF KvType, RaftType
  <2>4. IsPrefix(committed, log[s])
    BY <2>2 DEF LeaderInv
  <2>5. Len(committed) <= Len(log[s]) /\ \A k \in 1 .. Len(committed) : committed[k] = log[s][k]
    BY <2>3, <2>4, PrefixIs
  <2>6. Len(committed) \in Nat /\ Len(log[s]) \in Nat /\ Len(log'[s]) \in Nat
    BY <2>3
  <2>7. Len(committed) <= Len(log'[s])
        /\ \A k \in 1 .. Len(committed) : committed[k] = log'[s][k]
    BY <2>5, <2>6
  <2> QED BY <2>3, <2>7, PrefixIs
<1> QED BY <1>1, <1>2

\* A step of Raft that the layer above does not see.
LEMMA RaftFrame ==
  ASSUME NEW T, KvInv(T), RaftType', LeaderInv', LogInv',
         Len(committed) <= Len(committed'),
         \A k \in 1 .. Len(committed) : committed'[k] = committed[k],
         UNCHANGED <<rsmVars, thread, clerkVars, histVars>>
  PROVE  KvInv(T)'
<1>1. KvType /\ PlainInv /\ TableInv(T)
  BY DEF KvInv
<1>2. /\ UNCHANGED <<table, applied, snapshot, notify>>
      /\ UNCHANGED <<thread, clerk, ops, ret, executed, hist>>
  BY DEF rsmVars, clerkVars, histVars
<1>3. Stable
  <2>1. \A c \in Client : Len(ops[c]) \in Nat
    BY <1>1 DEF KvType, ClerkType
  <2> QED BY <1>2, <2>1 DEF Stable, Known
<1>4. KvType'
  <2>1. Len(committed) \in Nat /\ Len(committed') \in Nat
    BY <1>1 DEF KvType, RaftType
  <2> QED BY <1>1, <1>2, <2>1 DEF KvType, RsmType, ThreadType, ClerkType, HistType
<1>5. PlainInv'
  BY <1>1, <1>2
     DEF PlainInv, ThreadInv, Known, BusyInv, Busy, CallOf, HistInv, LowInv, RetInv
<1>6. TableInv(T)'
  <2>1. Execution(T)' /\ VersionInv(T)' /\ EffectInv(T)'
    BY <1>3, TableFrame
  <2>2. ReplicaInv(T)'
    BY <1>1, <1>2 DEF TableInv, ReplicaInv
  <2>3. ReplyInv(T)'
    BY <1>2, <1>3, ReplyFrame
  <2> QED BY <2>1, <2>2, <2>3 DEF TableInv
<1> QED BY <1>4, <1>5, <1>6 DEF KvInv

LEMMA BecomeLeaderKeeps ==
  ASSUME NEW T, KvInv(T), NEW s \in Server, NEW voters \in SUBSET (Server \ {s}),
         BecomeLeader(s, voters)
  PROVE  KvInv(T)'
<1> DEFINE n == NewestTerm + 1
<1>1. KvType /\ PlainInv /\ RaftType /\ LeaderInv /\ LogInv
  BY DEF KvInv, KvType, PlainInv
<1>2. /\ IsPrefix(committed, log[s])
      /\ term' = [x \in Server |-> IF x \in voters \cup {s} THEN n ELSE term[x]]
      /\ leader' = [x \in Server |-> x = s \/ (leader[x] /\ x \notin voters)]
      /\ leaderID' = [x \in Server |-> IF x = s THEN s
                                       ELSE IF x \in voters THEN -1 ELSE leaderID[x]]
      /\ UNCHANGED <<log, committed>>
      /\ UNCHANGED <<rsmVars, thread, clerkVars, histVars>>
  BY DEF BecomeLeader
<1>3. n \in Nat /\ \A x \in Server : term[x] < n /\ term[x] \in Nat
  BY <1>1, NewestTermIs DEF RaftType
<1> HIDE DEF n
<1>4. RaftType'
  <2>1. \A x \in Server : x \in -1 .. N - 1
    BY ServerFacts DEF Server
  <2>2. -1 \in -1 .. N - 1
    BY ServerFacts
  <2> QED BY <1>1, <1>2, <1>3, <2>1, <2>2 DEF RaftType
<1>5. LeaderInv'
  <2> SUFFICES ASSUME NEW x \in Server, leader'[x]
               PROVE  /\ \A t \in Server : leader'[t] /\ term'[t] = term'[x] => t = x
                      /\ (\A t \in Server : term'[t] <= term'[x]) => IsPrefix(committed, log[x])
                      /\ snapshot[x].index <= Len(log[x])
    BY <1>2 DEF LeaderInv, rsmVars
  <2>1. \A t \in Server : leader'[t] /\ t # s => leader[t] /\ term'[t] = term[t] /\ term'[t] < n
    BY <1>2, <1>3
  <2>2. term'[s] = n
    BY <1>2
  <2>3. CASE x = s
    <3>1. \A t \in Server : leader'[t] /\ term'[t] = term'[x] => t = x
      BY <1>3, <2>1, <2>2, <2>3
    <3>2. snapshot[s].index <= Len(committed)
      BY <1>1 DEF KvInv, TableInv, ReplicaInv, KvType, HistType, RsmType, RaftType
    <3>3. Len(committed) <= Len(log[s])
      BY <1>2 DEF IsPrefix
    <3>4. snapshot[s].index \in Nat /\ Len(committed) \in Nat /\ Len(log[s]) \in Nat
      BY <1>1 DEF KvType, RsmType, RaftType
    <3> QED BY <1>2, <2>3, <3>1, <3>2, <3>3, <3>4
  <2>4. CASE x # s
    <3>1. leader[x] /\ term'[x] = term[x] /\ term'[x] < n /\ term'[x] \in Nat
      BY <1>3, <2>1, <2>4
    <3>2. ~(\A t \in Server : term'[t] <= term'[x])
      BY <1>3, <2>2, <3>1
    <3>3. \A t \in Server : leader'[t] /\ term'[t] = term'[x] => t = x
      BY <1>1, <1>3, <2>1, <2>2, <3>1 DEF LeaderInv
    <3> QED BY <1>1, <3>1, <3>2, <3>3 DEF LeaderInv
  <2> QED BY <2>3, <2>4
<1>6. LogInv'
  BY <1>1, <1>2 DEF LogInv, Known
<1>7. Len(committed) \in Nat
  BY <1>1 DEF RaftType
<1> QED BY <1>2, <1>4, <1>5, <1>6, <1>7, RaftFrame

LEMMA StepDownKeeps ==
  ASSUME NEW T, KvInv(T), NEW s \in Server, UpdateTermAndBecomeFollower(s)
  PROVE  KvInv(T)'
<1>1. KvType /\ PlainInv /\ RaftType /\ LeaderInv /\ LogInv
  BY DEF KvInv, KvType, PlainInv
<1>2. /\ term' = [term EXCEPT ![s] = NewestTerm]
      /\ leader' = [leader EXCEPT ![s] = FALSE]
      /\ leaderID' = [leaderID EXCEPT ![s] = -1]
      /\ UNCHANGED <<log, committed>>
      /\ UNCHANGED <<rsmVars, thread, clerkVars, histVars>>
  BY DEF UpdateTermAndBecomeFollower
<1>3. NewestTerm \in Nat /\ term[s] <= NewestTerm
  BY <1>1, NewestTermIs
<1>4. RaftType'
  <2>1. -1 \in -1 .. N - 1
    BY ServerFacts
  <2> QED BY <1>1, <1>2, <1>3, <2>1 DEF RaftType
<1>5. LeaderInv'
  <2>1. \A x \in Server : Len(log[x]) \in Nat /\ term[x] \in Nat
    BY <1>1 DEF RaftType
  <2>2. \A x \in Server : term[x] <= term'[x]
    BY <1>1, <1>2, <1>3, <2>1 DEF RaftType
  <2>3. \A x \in Server : leader'[x] => x # s /\ leader[x] /\ term'[x] = term[x]
    BY <1>1, <1>2 DEF RaftType
  <2>4. \A x \in Server : leader'[x] => snapshot'[x].index <= Len(log[x])
    BY <1>1, <1>2, <2>3 DEF LeaderInv, rsmVars
  <2> QED BY <1>1, <1>2, <1>4, <2>1, <2>2, <2>3, <2>4, LeaderFrame
<1>6. LogInv'
  BY <1>1, <1>2 DEF LogInv, Known
<1>7. Len(committed) \in Nat
  BY <1>1 DEF RaftType
<1> QED BY <1>2, <1>4, <1>5, <1>6, <1>7, RaftFrame

LEMMA AppendEntriesKeeps ==
  ASSUME NEW T, KvInv(T), NEW s \in Server, NEW t \in Server, AppendEntries(s, t)
  PROVE  KvInv(T)'
<1> DEFINE l == IF IsPrefix(log[s], log[t]) THEN log[t] ELSE log[s]
<1>1. KvType /\ PlainInv /\ RaftType /\ LeaderInv /\ LogInv
  BY DEF KvInv, KvType, PlainInv
<1>2. /\ s # t /\ leader[s] /\ term[t] <= term[s]
      /\ term' = [term EXCEPT ![t] = term[s]]
      /\ leader' = [leader EXCEPT ![t] = FALSE]
      /\ leaderID' = [leaderID EXCEPT ![t] = s]
      /\ log' = [log EXCEPT ![t] = l]
      /\ UNCHANGED committed
      /\ UNCHANGED <<rsmVars, thread, clerkVars, histVars>>
  BY DEF AppendEntries
<1>3. l \in {log[s], log[t]} /\ l \in Seq(Entry)
  BY <1>1 DEF RaftType
<1> HIDE DEF l
<1>4. RaftType'
  <2>1. s \in -1 .. N - 1
    BY ServerFacts DEF Server
  <2> QED BY <1>1, <1>2, <1>3, <2>1 DEF RaftType
<1>5. \A x \in Server : x # t => log'[x] = log[x]
  BY <1>1, <1>2 DEF RaftType
<1>6. LeaderInv'
  <2>1. \A x \in Server : Len(log[x]) \in Nat /\ term[x] \in Nat
    BY <1>1 DEF RaftType
  <2>2. \A x \in Server : term[x] <= term'[x]
    BY <1>1, <1>2, <2>1 DEF RaftType
  <2>3. \A x \in Server : leader'[x] => x # t /\ leader[x] /\ term'[x] = term[x]
    BY <1>1, <1>2 DEF RaftType
  <2>4. \A x \in Server : leader'[x] => snapshot'[x].index <= Len(log[x])
    BY <1>1, <1>2, <2>3 DEF LeaderInv, rsmVars
  <2> QED BY <1>1, <1>2, <1>4, <1>5, <2>1, <2>2, <2>3, <2>4, LeaderFrame
<1>7. LogInv'
  <2>1. log'[t] = l
    BY <1>1, <1>2 DEF RaftType
  <2>2. \A x \in Server : log'[x] \in {log[y] : y \in Server}
    BY <1>3, <1>5, <2>1
  <2> QED BY <1>1, <1>2, <2>2 DEF LogInv, Known
<1>8. Len(committed) \in Nat
  BY <1>1 DEF RaftType
<1> QED BY <1>2, <1>4, <1>6, <1>7, <1>8, RaftFrame

LEMMA CommitKeeps ==
  ASSUME NEW T, KvInv(T), NEW s \in Server, Commit(s)
  PROVE  KvInv(T)'
<1>1. KvType /\ PlainInv /\ RaftType /\ LeaderInv /\ LogInv
  BY DEF KvInv, KvType, PlainInv
<1>2. PICK i \in Len(committed) + 1 .. Len(log[s]) : committed' = SubSeq(log[s], 1, i)
  BY DEF Commit
<1>3. /\ leader[s] /\ term[s] = NewestTerm
      /\ UNCHANGED <<term, leader, leaderID, log>>
      /\ UNCHANGED <<rsmVars, thread, clerkVars, histVars>>
  BY DEF Commit
<1>4. log[s] \in Seq(Entry) /\ committed \in Seq(Entry) /\ Len(committed) \in Nat
      /\ Len(log[s]) \in Nat
  BY <1>1 DEF RaftType
<1>5. i \in Nat /\ i > Len(committed) /\ i <= Len(log[s])
  BY <1>2, <1>4
<1>6. /\ committed' \in Seq(Entry) /\ Len(committed') = i
      /\ \A k \in 1 .. i : committed'[k] = log[s][k]
  BY <1>2, <1>4, <1>5
<1>7. \A t \in Server : term[t] <= term[s]
  BY <1>1, <1>3, NewestTermIs
<1>8. \A k \in 1 .. Len(committed) : committed[k] = log[s][k]
  <2>1. IsPrefix(committed, log[s])
    BY <1>1, <1>3, <1>7 DEF LeaderInv
  <2> QED BY <1>4, <2>1, PrefixIs
<1>9. /\ Len(committed) <= Len(committed')
      /\ \A k \in 1 .. Len(committed) : committed'[k] = committed[k]
  BY <1>4, <1>5, <1>6, <1>8
<1>10. RaftType'
  BY <1>1, <1>3, <1>6 DEF RaftType
<1>11. LeaderInv'
  <2> SUFFICES ASSUME NEW x \in Server, leader[x], \A t \in Server : term[t] <= term[x]
               PROVE  IsPrefix(committed', log[x])
    BY <1>1, <1>3 DEF LeaderInv, rsmVars
  <2>1. term[x] = term[s]
    BY <1>1, <1>7 DEF RaftType
  <2>2. x = s
    BY <1>1, <1>3, <2>1 DEF LeaderInv
  <2> QED BY <1>4, <1>5, <1>6, <2>2, PrefixIs
<1>12. LogInv'
  <2>1. \A k \in 1 .. Len(committed') : k \in 1 .. Len(log[s]) /\ committed'[k] = log[s][k]
    BY <1>4, <1>5, <1>6
  <2> QED BY <1>1, <1>3, <2>1 DEF LogInv, Known
<1> QED BY <1>3, <1>9, <1>10, <1>11, <1>12, RaftFrame

-----------------------------------------------------------------------------
(* The rsm and the server.                                                 *)

\* Threads go on, and no call is made.
GoOn == \A d \in CallId : (Known(d)' <=> Known(d)) /\ thread'[d].op = thread[d].op

LEMMA GoOnStable ==
  ASSUME KvType, GoOn, UNCHANGED <<committed, ops>>
  PROVE  Stable
<1>1. Len(committed) \in Nat /\ \A c \in Client : Len(ops[c]) \in Nat
  BY DEF KvType, RaftType, ClerkType
<1> QED BY <1>1 DEF Stable, GoOn

LEMMA PlainFrame ==
  ASSUME KvType, PlainInv, GoOn, UNCHANGED <<committed, clerkVars, hist>>, LeaderInv', LogInv'
  PROVE  PlainInv'
<1>1. UNCHANGED <<clerk, ops, ret, hist>>
  BY DEF clerkVars
<1>2. ThreadInv'
  BY <1>1 DEF PlainInv, ThreadInv, GoOn, Known
<1>3. BusyInv'
  BY <1>1 DEF PlainInv, BusyInv, GoOn, Known, Busy, CallOf
<1>4. HistInv' /\ LowInv' /\ RetInv'
  BY <1>1 DEF PlainInv, HistInv, LowInv, RetInv
<1> QED BY <1>2, <1>3, <1>4 DEF PlainInv

\* A step of the servers that executes nothing new.
LEMMA ServerFrame ==
  ASSUME NEW T, KvInv(T), UNCHANGED <<committed, clerkVars, histVars>>,
         RaftType', RsmType', ThreadType', LeaderInv', LogInv', ReplicaInv(T)', GoOn,
         \A d \in CallId : Range(thread'[d].ch) \subseteq Range(thread[d].ch) \cup {Pill},
         \A d \in CallId : thread'[d].pc = "ok" =>
           \/ thread[d].pc = "ok" /\ thread'[d].res = thread[d].res
           \/ Answer(T, d, thread'[d].res)
  PROVE  KvInv(T)'
<1>1. KvType /\ PlainInv
  BY DEF KvInv
<1>2. UNCHANGED <<executed, hist, ops, ret, clerk>>
  BY DEF histVars, clerkVars
<1>3. Stable
  BY <1>1, <1>2, GoOnStable
<1>4. PlainInv'
  BY <1>1, <1>2, PlainFrame
<1>5. Execution(T)' /\ VersionInv(T)' /\ EffectInv(T)'
  BY <1>3, TableFrame
<1>6. ReplyInv(T)'
  BY <1>2, <1>3, ReplyFrame
<1>7. KvType'
  BY <1>1, <1>2 DEF KvType, ClerkType, HistType
<1> QED BY <1>4, <1>5, <1>6, <1>7 DEF KvInv, TableInv

LEMMA EntriesAreCalls ==
  ASSUME RaftType
  PROVE  /\ \A s \in Server : \A k \in 1 .. Len(log[s]) : log[s][k].call \in CallId
         /\ \A k \in 1 .. Len(committed) : committed[k].call \in CallId
<1>1. \A q \in Seq(Entry) : \A k \in 1 .. Len(q) : q[k] \in Entry
  OBVIOUS
<1>2. \A e \in Entry : e.call \in CallId
  BY DEF Entry
<1>3. committed \in Seq(Entry) /\ \A s \in Server : log[s] \in Seq(Entry)
  BY DEF RaftType
<1> QED BY <1>1, <1>2, <1>3

LEMMA LogKeeps ==
  ASSUME KvType, LogInv, GoOn, UNCHANGED <<log, committed>>
  PROVE  LogInv'
BY EntriesAreCalls DEF KvType, LogInv, GoOn, Known

\* The log after InstallSnapshot.
Spliced(p, q, i) == SubSeq(p, 1, i) \o SubSeq(q, i + 1, Len(q))

LEMMA SnapshotLog ==
  ASSUME NEW S, NEW p \in Seq(S), NEW q \in Seq(S), NEW i \in Nat, i <= Len(p)
  PROVE  /\ Spliced(p, q, i) \in Seq(S)
         /\ \A k \in 1 .. Len(Spliced(p, q, i)) :
              \/ k \in 1 .. Len(p) /\ Spliced(p, q, i)[k] = p[k]
              \/ k \in 1 .. Len(q) /\ Spliced(p, q, i)[k] = q[k]
<1> DEFINE low == SubSeq(p, 1, i)
           high == SubSeq(q, i + 1, Len(q))
           l == low \o high
<1>1. Len(p) \in Nat /\ Len(q) \in Nat
  OBVIOUS
<1>2. low \in Seq(S) /\ Len(low) = i /\ \A k \in 1 .. i : low[k] = p[k]
  BY <1>1
<1>3. /\ high \in Seq(S)
      /\ Len(high) = IF i + 1 <= Len(q) THEN Len(q) - (i + 1) + 1 ELSE 0
      /\ \A k \in 1 .. Len(q) - (i + 1) + 1 : high[k] = q[(i + 1) + k - 1]
  <2>1. \A k \in i + 1 .. Len(q) : q[k] \in S
    BY <1>1
  <2>2. i + 1 \in Int /\ Len(q) \in Int
    BY <1>1
  <2> QED BY <2>1, <2>2, SubSeqProperties
<1>0. Spliced(p, q, i) = l
  BY DEF Spliced
<1> HIDE DEF low, high
<1>4. /\ l \in Seq(S) /\ Len(l) = i + Len(high)
      /\ \A k \in 1 .. i + Len(high) : l[k] = IF k <= i THEN low[k] ELSE high[k - i]
  BY <1>2, <1>3, ConcatProperties
<1> HIDE DEF l
<1>5. ASSUME NEW k \in 1 .. Len(l)
      PROVE  \/ k \in 1 .. Len(p) /\ l[k] = p[k]
             \/ k \in 1 .. Len(q) /\ l[k] = q[k]
  <2>1. CASE k <= i
    BY <1>1, <1>2, <1>3, <1>4, <2>1
  <2>2. CASE k > i
    <3>1. /\ k - i \in 1 .. Len(q) - (i + 1) + 1 /\ k \in 1 .. Len(q)
          /\ (i + 1) + (k - i) - 1 = k /\ k \in 1 .. i + Len(high)
      BY <1>1, <1>3, <1>4, <2>2
    <3> QED BY <1>3, <1>4, <2>2, <3>1
  <2> QED BY <1>1, <1>3, <1>4, <2>1, <2>2
<1> QED BY <1>0, <1>4, <1>5, Zenon

\* The leaders, their logs and snapshots are as they were.
LEMMA LeadersKeep ==
  ASSUME KvType, LeaderInv, UNCHANGED <<term, leader, log, committed, snapshot>>
  PROVE  LeaderInv'
BY DEF LeaderInv

\* The snapshot is not newer than the one of t, and counts as a heartbeat.
LEMMA OldSnapshotKeeps ==
  ASSUME NEW T, KvInv(T), NEW s \in Server, NEW t \in Server, InstallSnapshot(s, t),
         ~ (snapshot[t].index < snapshot[s].index)
  PROVE  KvInv(T)'
<1>1. KvType /\ PlainInv /\ RaftType /\ LeaderInv /\ LogInv
  BY DEF KvInv, KvType, PlainInv
<1>2. /\ s # t /\ leader[s] /\ term[t] <= term[s]
      /\ term' = [term EXCEPT ![t] = term[s]]
      /\ leader' = [leader EXCEPT ![t] = FALSE]
      /\ leaderID' = [leaderID EXCEPT ![t] = s]
      /\ UNCHANGED <<log, committed>>
      /\ UNCHANGED <<rsmVars, thread, clerkVars, histVars>>
  BY DEF InstallSnapshot, rsmVars
<1>3. RaftType'
  <2>1. s \in -1 .. N - 1
    BY ServerFacts DEF Server
  <2> QED BY <1>1, <1>2, <2>1 DEF RaftType
<1>4. LeaderInv'
  <2>1. \A x \in Server : Len(log[x]) \in Nat /\ term[x] \in Nat
    BY <1>1 DEF RaftType
  <2>2. \A x \in Server : term[x] <= term'[x]
    BY <1>1, <1>2, <2>1 DEF RaftType
  <2>3. \A x \in Server : leader'[x] => x # t /\ leader[x] /\ term'[x] = term[x]
    BY <1>1, <1>2 DEF RaftType
  <2>4. \A x \in Server : leader'[x] => snapshot'[x].index <= Len(log[x])
    BY <1>1, <1>2, <2>3 DEF LeaderInv, rsmVars
  <2> QED BY <1>1, <1>2, <1>3, <2>1, <2>2, <2>3, <2>4, LeaderFrame
<1>5. LogInv'
  BY <1>1, <1>2 DEF LogInv, Known
<1>6. Len(committed) \in Nat
  BY <1>1 DEF RaftType
<1> QED BY <1>2, <1>3, <1>4, <1>5, <1>6, RaftFrame

\* What is taken over is not older than what t has executed.
LEMMA NotRolledBack ==
  ASSUME RsmType, NEW s \in Server, NEW t \in Server, InstallSnapshot(s, t), NoRollback,
         snapshot[t].index < snapshot[s].index
  PROVE  applied' = [applied EXCEPT ![t] = snapshot[s].index]
<1>1. /\ applied \in [Server -> Nat]
      /\ snapshot \in [Server -> [table : Table, index : Nat]]
      /\ snapshot[s].index \in Nat /\ snapshot[t].index \in Nat /\ applied[t] \in Nat
  BY DEF RsmType
<1>2. /\ snapshot' = [snapshot EXCEPT ![t] = snapshot[s]]
      /\ applied' = [applied EXCEPT ![t] = IF applied[t] < snapshot[s].index
                                           THEN snapshot[s].index ELSE applied[t]]
  BY DEF InstallSnapshot
<1>3. snapshot'[t] = snapshot[s] /\ snapshot[s] # snapshot[t]
  BY <1>1, <1>2
<1>4. applied[t] <= snapshot[s].index
  BY <1>1, <1>3 DEF NoRollback
<1>5. (IF applied[t] < snapshot[s].index THEN snapshot[s].index ELSE applied[t])
        = snapshot[s].index
  BY <1>1, <1>4
<1> QED BY <1>2, <1>5

LEMMA NewSnapshotKeeps ==
  ASSUME NEW T, KvInv(T), NEW s \in Server, NEW t \in Server, InstallSnapshot(s, t),
         NoRollback, snapshot[t].index < snapshot[s].index
  PROVE  KvInv(T)'
<1> DEFINE i == snapshot[s].index
           l == Spliced(log[s], log[t], i)
<1>1. KvType /\ PlainInv /\ RaftType /\ RsmType /\ LeaderInv /\ LogInv /\ ReplicaInv(T)
  BY DEF KvInv, KvType, PlainInv, TableInv
<1>2. /\ s # t /\ leader[s] /\ term[t] <= term[s]
      /\ term' = [term EXCEPT ![t] = term[s]]
      /\ leader' = [leader EXCEPT ![t] = FALSE]
      /\ leaderID' = [leaderID EXCEPT ![t] = s]
      /\ log' = [log EXCEPT ![t] = l]
      /\ table' = [table EXCEPT ![t] = snapshot[s].table]
      /\ snapshot' = [snapshot EXCEPT ![t] = snapshot[s]]
      /\ UNCHANGED <<committed, notify, thread>>
      /\ UNCHANGED <<committed, clerkVars, histVars>>
  BY DEF InstallSnapshot, Spliced
<1>4. applied' = [applied EXCEPT ![t] = i]
  BY <1>1, NotRolledBack
<1>3. /\ log[s] \in Seq(Entry) /\ log[t] \in Seq(Entry) /\ i \in Nat
      /\ Len(log[s]) \in Nat /\ Len(log[t]) \in Nat /\ i <= Len(log[s])
  BY <1>1, <1>2 DEF RaftType, RsmType, LeaderInv
<1>5. Spliced(log[s], log[t], i) = l
  OBVIOUS
<1> HIDE DEF l
<1>6. /\ l \in Seq(Entry)
      /\ \A k \in 1 .. Len(l) : \/ k \in 1 .. Len(log[s]) /\ l[k] = log[s][k]
                                \/ k \in 1 .. Len(log[t]) /\ l[k] = log[t][k]
  <2> HIDE DEF i
  <2> DEFINE m == Spliced(log[s], log[t], i)
  <2>1. /\ m \in Seq(Entry)
        /\ \A k \in 1 .. Len(m) : \/ k \in 1 .. Len(log[s]) /\ m[k] = log[s][k]
                                  \/ k \in 1 .. Len(log[t]) /\ m[k] = log[t][k]
    <3>1. log[s] \in Seq(Entry) /\ log[t] \in Seq(Entry) /\ i \in Nat /\ i <= Len(log[s])
      BY <1>3
    <3> QED BY SMTT(30), <3>1, SnapshotLog
  <2>2. m = l
    BY <1>5
  <2> HIDE DEF m
  <2> QED BY <2>1, <2>2
<1>7. RaftType'
  <2>1. s \in -1 .. N - 1
    BY ServerFacts DEF Server
  <2> QED BY <1>1, <1>2, <1>6, <2>1 DEF RaftType
<1>8. RsmType' /\ ThreadType'
  BY <1>1, <1>2, <1>4 DEF KvType, RsmType, ThreadType
<1>9. \A x \in Server : x # t => log'[x] = log[x] /\ snapshot'[x] = snapshot[x]
  BY <1>1, <1>2 DEF RaftType, RsmType
<1>10. LeaderInv'
  <2>1. \A x \in Server : Len(log[x]) \in Nat /\ term[x] \in Nat
    BY <1>1 DEF RaftType
  <2>2. \A x \in Server : term[x] <= term'[x]
    BY <1>1, <1>2, <2>1 DEF RaftType
  <2>3. \A x \in Server : leader'[x] => x # t /\ leader[x] /\ term'[x] = term[x]
    BY <1>1, <1>2 DEF RaftType
  <2>4. \A x \in Server : leader'[x] => snapshot'[x].index <= Len(log[x])
    BY <1>1, <1>9, <2>3 DEF LeaderInv
  <2> QED BY <1>1, <1>2, <1>7, <1>9, <2>1, <2>2, <2>3, <2>4, LeaderFrame
<1>11. LogInv'
  <2>1. log'[t] = l
    BY <1>1, <1>2 DEF RaftType
  <2>2. ASSUME NEW x \in Server, NEW k \in 1 .. Len(log'[x])
        PROVE  \E y \in Server : k \in 1 .. Len(log[y]) /\ log'[x][k] = log[y][k]
    BY <1>6, <1>9, <2>1
  <2>3. \A x \in Server : \A k \in 1 .. Len(log'[x]) : thread[log'[x][k].call].pc # "none"
    BY <1>1, <2>2 DEF LogInv, Known
  <2> QED BY <1>1, <1>2, <2>3 DEF LogInv, Known
<1>12. ReplicaInv(T)'
  <2>1. executed' = executed
    BY <1>2 DEF histVars
  <2> QED BY <1>1, <1>2, <1>4, <2>1 DEF RsmType, ReplicaInv
<1>13. GoOn
  BY <1>2 DEF GoOn, Known
<1> QED BY <1>2, <1>7, <1>8, <1>10, <1>11, <1>12, <1>13, ServerFrame

LEMMA InstallSnapshotKeeps ==
  ASSUME NEW T, KvInv(T), NEW s \in Server, NEW t \in Server, InstallSnapshot(s, t),
         NoRollback
  PROVE  KvInv(T)'
BY OldSnapshotKeeps, NewSnapshotKeeps

\* A Submit that returns keeps the number of its operation and no messages.
LEMMA ReturnsIs ==
  ASSUME ThreadType, NEW id \in CallId, NEW pc \in {"ok", "wrong"},
         NEW res \in Reply \cup {<< >>}
  PROVE  /\ Returns(id, pc, res) \in ThreadRec
         /\ Returns(id, pc, res).op = thread[id].op
         /\ Returns(id, pc, res).pc \in {pc, "end"} /\ Returns(id, pc, res).ch = << >>
         /\ Returns(id, pc, res).pc = "ok" => Returns(id, pc, res).res = res
<1>1. thread[id] \in ThreadRec
  BY DEF ThreadType
<1>2. NoThread \in ThreadRec
  BY ServerFacts DEF NoThread, ThreadRec, Pc
<1>3. CASE Current(id)
  BY <1>1, <1>2, <1>3 DEF Returns, ThreadRec, Pc, NoThread
<1>4. CASE ~Current(id)
  BY <1>1, <1>2, <1>4 DEF Returns, ThreadRec, Pc, NoThread
<1> QED BY <1>3, <1>4

LEMMA RangeAppend ==
  ASSUME NEW S, NEW q \in Seq(S), NEW m \in S
  PROVE  Append(q, m) \in Seq(S) /\ Range(Append(q, m)) = Range(q) \cup {m}
<1>1. /\ Append(q, m) \in Seq(S) /\ Len(Append(q, m)) = Len(q) + 1 /\ Len(q) \in Nat
      /\ \A k \in 1 .. Len(q) : Append(q, m)[k] = q[k]
      /\ Append(q, m)[Len(q) + 1] = m
  OBVIOUS
<1>2. DOMAIN q = 1 .. Len(q) /\ DOMAIN Append(q, m) = 1 .. Len(q) + 1
  BY <1>1
<1>3. 1 .. Len(q) + 1 = (1 .. Len(q)) \cup {Len(q) + 1}
  BY <1>1
<1> QED BY <1>1, <1>2, <1>3 DEF Range

LEMMA RangeEmpty == Range(<< >>) = {}
BY DEF Range

LEMMA SubmitKeeps ==
  ASSUME NEW T, KvInv(T), NEW id \in CallId, Submit(id)
  PROVE  KvInv(T)'
<1> DEFINE s == thread[id].srv
           i == Len(log[s]) + 1
           e == [term |-> term[s], call |-> id]
           back == Returns(id, "wrong", << >>)
<1>1. /\ KvType /\ PlainInv /\ RaftType /\ RsmType /\ ThreadType /\ LeaderInv /\ LogInv
      /\ ReplicaInv(T)
  BY DEF KvInv, KvType, PlainInv, TableInv
<1>2. thread[id] \in ThreadRec /\ s \in Server /\ i \in Nat
  BY <1>1 DEF ThreadType, ThreadRec, RaftType
<1>3. /\ thread[id].pc = "sent"
      /\ UNCHANGED <<term, leader, leaderID, committed, table, applied, snapshot>>
      /\ UNCHANGED <<committed, clerkVars, histVars>>
  BY DEF Submit
<1>4. ReplicaInv(T)'
  BY <1>1, <1>3 DEF ReplicaInv, histVars
<1>5. CASE leader[s]
  <2>1. /\ log' = [log EXCEPT ![s] = Append(log[s], e)]
        /\ notify' = [notify EXCEPT ![s] = {r \in notify[s] : r.index # i} \cup
                                           {[index |-> i, id |-> id]}]
        /\ thread' = [thread EXCEPT ![id].pc = "wait", ![id].term = term[s],
                                    ![id].index = i]
    BY <1>5 DEF Submit
  <2>2. e \in Entry
    BY <1>1, <1>2 DEF RaftType, Entry
  <2>3. /\ Append(log[s], e) \in Seq(Entry) /\ Len(Append(log[s], e)) = i
        /\ \A k \in 1 .. Len(log[s]) : Append(log[s], e)[k] = log[s][k]
        /\ Append(log[s], e)[i] = e
    BY <1>1, <1>2, <2>2 DEF RaftType
  <2> HIDE DEF e
  <2>4. RaftType'
    BY <1>1, <1>2, <1>3, <2>1, <2>3 DEF RaftType
  <2>5. RsmType'
    <3>1. notify[s] \in SUBSET [index : Nat, id : CallId]
      BY <1>1, <1>2 DEF RsmType
    <3>2. {r \in notify[s] : r.index # i} \cup {[index |-> i, id |-> id]}
            \in SUBSET [index : Nat, id : CallId]
      BY <1>2, <3>1
    <3> QED BY <1>1, <1>2, <1>3, <2>1, <3>2 DEF RsmType
  <2>6. /\ \A d \in CallId : d # id => thread'[d] = thread[d]
        /\ thread'[id] = [thread[id] EXCEPT !.pc = "wait", !.term = term[s], !.index = i]
    BY <1>1, <2>1 DEF ThreadType
  <2>7. /\ thread'[id] \in ThreadRec /\ thread'[id].pc = "wait"
        /\ thread'[id].op = thread[id].op /\ thread'[id].ch = thread[id].ch
    BY <1>1, <1>2, <2>6 DEF ThreadRec, Pc, RaftType
  <2>8. ThreadType'
    BY <1>1, <2>1, <2>6, <2>7 DEF ThreadType
  <2>9. GoOn
    BY <1>3, <2>6, <2>7 DEF GoOn, Known
  <2>10. \A x \in Server : /\ Len(log[x]) \in Nat /\ Len(log[x]) <= Len(log'[x])
                           /\ \A k \in 1 .. Len(log[x]) : log'[x][k] = log[x][k]
    BY <1>1, <1>2, <2>1, <2>3 DEF RaftType
  <2>11. LeaderInv'
    <3>1. \A x \in Server : term[x] <= term'[x]
      BY <1>1, <1>3 DEF RaftType
    <3>2. \A x \in Server : leader[x] => snapshot[x].index <= Len(log'[x])
      <4>1. \A x \in Server : Len(log'[x]) \in Nat /\ snapshot[x].index \in Nat
        BY <1>1, <2>4 DEF RaftType, RsmType
      <4> QED BY <1>1, <2>10, <4>1 DEF LeaderInv
    <3> QED BY <1>1, <1>3, <2>4, <2>10, <3>1, <3>2, LeaderFrame
  <2>12. LogInv'
    <3>1. ASSUME NEW x \in Server, NEW k \in 1 .. Len(log'[x])
          PROVE  \/ log'[x][k].call = id
                 \/ k \in 1 .. Len(log[x]) /\ log'[x][k] = log[x][k]
      <4>1. CASE x # s
        BY <1>1, <2>1, <3>1, <4>1 DEF RaftType
      <4>2. CASE x = s
        <5>1. log'[s] = Append(log[s], e)
          BY <1>1, <1>2, <2>1 DEF RaftType
        <5>2. k \in 1 .. Len(log[s]) \/ k = i
          BY <1>2, <2>3, <3>1, <4>2, <5>1
        <5> QED BY <2>3, <4>2, <5>1, <5>2 DEF e
      <4> QED BY <4>1, <4>2
    <3>2. \A x \in Server : \A k \in 1 .. Len(log[x]) :
            log[x][k].call \in CallId /\ Known(log[x][k].call)
      BY <1>1, EntriesAreCalls DEF LogInv
    <3>3. \A k \in 1 .. Len(committed) : committed[k].call \in CallId /\ Known(committed[k].call)
      BY <1>1, EntriesAreCalls DEF LogInv
    <3>4. thread'[id].pc # "none"
      BY <2>7
    <3> QED BY <1>3, <2>9, <3>1, <3>2, <3>3, <3>4 DEF LogInv, GoOn, Known
  <2>13. \A d \in CallId : thread'[d].ch = thread[d].ch
    BY <2>6, <2>7
  <2>14. \A d \in CallId : thread'[d].pc = "ok" =>
           thread[d].pc = "ok" /\ thread'[d].res = thread[d].res
    BY <2>6, <2>7
  <2> QED BY <1>3, <1>4, <2>4, <2>5, <2>8, <2>9, <2>11, <2>12, <2>13, <2>14, ServerFrame
<1>6. CASE ~leader[s]
  <2>1. thread' = [thread EXCEPT ![id] = back] /\ UNCHANGED <<log, notify>>
    BY <1>6 DEF Submit
  <2>2. back \in ThreadRec /\ back.op = thread[id].op /\ back.pc \in {"wrong", "end"}
        /\ back.ch = << >>
    BY <1>1, ReturnsIs
  <2> HIDE DEF back
  <2>3. \A d \in CallId : thread'[d] = IF d = id THEN back ELSE thread[d]
    BY <1>1, <2>1 DEF ThreadType
  <2>4. ThreadType' /\ RaftType' /\ RsmType'
    BY <1>1, <1>3, <2>1, <2>2 DEF ThreadType, RaftType, RsmType
  <2>5. GoOn
    BY <1>3, <2>2, <2>3 DEF GoOn, Known
  <2>6. LeaderInv' /\ LogInv'
    BY <1>1, <1>3, <2>1, <2>5, LeadersKeep, LogKeeps
  <2>7. \A d \in CallId : Range(thread'[d].ch) \subseteq Range(thread[d].ch) \cup {Pill}
    BY <2>2, <2>3, RangeEmpty
  <2>8. \A d \in CallId : thread'[d].pc = "ok" =>
          thread[d].pc = "ok" /\ thread'[d].res = thread[d].res
    BY <2>2, <2>3
  <2> QED BY <1>3, <1>4, <2>4, <2>5, <2>6, <2>7, <2>8, ServerFrame
<1> QED BY <1>5, <1>6

\* Steps of one thread that touch nothing else but notify.
LEMMA GiveUpKeeps ==
  ASSUME NEW T, KvInv(T), NEW id \in CallId, TimeAfter(id) \/ GiveUp(id)
  PROVE  KvInv(T)'
<1> DEFINE s == thread[id].srv
           back == Returns(id, "wrong", << >>)
<1>1. /\ KvType /\ PlainInv /\ RaftType /\ RsmType /\ ThreadType /\ LeaderInv /\ LogInv
      /\ ReplicaInv(T)
  BY DEF KvInv, KvType, PlainInv, TableInv
<1>2. thread[id] \in ThreadRec /\ s \in Server
  BY <1>1 DEF ThreadType, ThreadRec
<1>3. /\ thread[id].pc # "none"
      /\ UNCHANGED <<term, leader, leaderID, log, committed, table, applied, snapshot>>
      /\ UNCHANGED <<committed, clerkVars, histVars>>
  BY DEF TimeAfter, GiveUp, raftVars, rsmVars
<1>4. back \in ThreadRec /\ back.op = thread[id].op /\ back.pc \in {"wrong", "end"}
      /\ back.ch = << >>
  BY <1>1, ReturnsIs
<1>5. PICK th \in {back, [thread[id] EXCEPT !.pc = "giveup"]} : thread' = [thread EXCEPT ![id] = th]
  BY DEF TimeAfter, GiveUp
<1>6. th \in ThreadRec /\ th.op = thread[id].op /\ th.pc \in {"wrong", "end", "giveup"}
      /\ Range(th.ch) \subseteq Range(thread[id].ch)
  <2>1. CASE th = back
    BY <1>4, <2>1, RangeEmpty
  <2>2. CASE th = [thread[id] EXCEPT !.pc = "giveup"]
    BY <1>2, <2>2 DEF ThreadRec, Pc
  <2> QED BY <1>5, <2>1, <2>2
<1>7. \A d \in CallId : thread'[d] = IF d = id THEN th ELSE thread[d]
  BY <1>1, <1>5 DEF ThreadType
<1>8. RsmType'
  <2>1. UNCHANGED notify \/ notify' = [notify EXCEPT ![s] = {r \in @ : r.index # thread[id].index}]
    BY DEF TimeAfter, GiveUp, Unregister, rsmVars
  <2>2. notify' \in [Server -> SUBSET [index : Nat, id : CallId]]
    BY <1>1, <1>2, <2>1 DEF RsmType
  <2> QED BY <1>1, <1>3, <2>2 DEF RsmType
<1>9. ThreadType' /\ RaftType'
  BY <1>1, <1>3, <1>5, <1>6 DEF ThreadType, RaftType
<1>10. GoOn
  BY <1>3, <1>6, <1>7 DEF GoOn, Known
<1>11. LeaderInv' /\ LogInv'
  BY <1>1, <1>3, <1>10, LeadersKeep, LogKeeps
<1>12. \A d \in CallId : Range(thread'[d].ch) \subseteq Range(thread[d].ch) \cup {Pill}
  BY <1>6, <1>7
<1>13. \A d \in CallId : thread'[d].pc = "ok" =>
         thread[d].pc = "ok" /\ thread'[d].res = thread[d].res
  BY <1>6, <1>7
<1>14. ReplicaInv(T)'
  BY <1>1, <1>3 DEF ReplicaInv, histVars
<1> QED BY <1>3, <1>8, <1>9, <1>10, <1>11, <1>12, <1>13, <1>14, ServerFrame

\* A channel that gets a message keeps the others.
LEMMA AppendTo ==
  ASSUME NEW th \in ThreadRec, NEW m \in Msg
  PROVE  LET th2 == [th EXCEPT !.ch = Append(@, m)]
         IN  /\ th2 \in ThreadRec /\ th2.pc = th.pc /\ th2.op = th.op /\ th2.res = th.res
             /\ Range(th2.ch) = Range(th.ch) \cup {m}
<1> DEFINE q == Append(th.ch, m)
           th2 == [th EXCEPT !.ch = q]
<1>1. th.ch \in Seq(Msg)
  BY DEF ThreadRec
<1>2. q \in Seq(Msg) /\ Range(q) = Range(th.ch) \cup {m}
  BY <1>1, RangeAppend
<1>3. [th EXCEPT !.ch = Append(@, m)] = th2
  OBVIOUS
<1> HIDE DEF q
<1>4. th2 \in ThreadRec /\ th2.pc = th.pc /\ th2.op = th.op /\ th2.res = th.res /\ th2.ch = q
  BY <1>2 DEF ThreadRec
<1> QED BY <1>2, <1>3, <1>4, Zenon

LEMMA FinishKeeps ==
  ASSUME NEW T, KvInv(T), NEW id \in CallId, Finish(id)
  PROVE  KvInv(T)'
<1> DEFINE s == thread[id].srv
           msg == Head(thread[id].ch)
           back == IF IsOwn(id, msg) THEN Returns(id, "ok", msg.res)
                   ELSE Returns(id, "wrong", << >>)
           told(d) == [thread[d] EXCEPT !.ch = Append(@, Pill)]
<1>1. /\ KvType /\ PlainInv /\ RaftType /\ RsmType /\ ThreadType /\ LeaderInv /\ LogInv
      /\ ReplicaInv(T) /\ ReplyInv(T)
  BY DEF KvInv, KvType, PlainInv, TableInv
<1>2. thread[id] \in ThreadRec /\ s \in Server
  BY <1>1 DEF ThreadType, ThreadRec
<1>3. /\ thread[id].pc # "none" /\ thread[id].ch # << >>
      /\ notify' = [notify EXCEPT ![s] = {r \in @ : r.index # thread[id].index}]
      /\ UNCHANGED <<term, leader, leaderID, log, committed, table, applied, snapshot>>
      /\ UNCHANGED <<committed, clerkVars, histVars>>
  BY DEF Finish, Unregister, raftVars
<1>4. /\ DOMAIN thread' = CallId
      /\ thread'[id] = back
      /\ \A d \in CallId : d # id => thread'[d] \in {thread[d], told(d)}
      /\ thread' = [d \in CallId |-> thread'[d]]
  <2> DEFINE others == {r.id : r \in {r \in notify[s] : r.index # thread[id].index}}
             pilled == IF msg = Pill \/ IsOwn(id, msg) THEN {} ELSE others
  <2>1. thread' = [d \in CallId |->
           CASE d = id /\ IsOwn(id, msg) -> Returns(id, "ok", msg.res)
             [] d = id /\ ~IsOwn(id, msg) -> Returns(id, "wrong", << >>)
             [] d \in pilled \ {id} /\ Room(d) -> told(d)
             [] OTHER -> thread[d]]
    BY DEF Finish
  <2> HIDE DEF s, msg, told, others, pilled
  <2>2. ASSUME NEW d \in CallId, d # id PROVE thread'[d] \in {thread[d], told(d)}
    BY <2>1, <2>2
  <2>3. thread'[id] = back
    BY <2>1
  <2> QED BY <2>1, <2>2, <2>3
<1>5. msg \in Msg /\ msg \in Range(thread[id].ch)
  <2>1. \A q \in Seq(Msg) : q # << >> => Head(q) \in Msg /\ 1 \in DOMAIN q /\ Head(q) = q[1]
    OBVIOUS
  <2>2. thread[id].ch \in Seq(Msg)
    BY <1>2 DEF ThreadRec
  <2> QED BY <1>3, <2>1, <2>2 DEF Range
<1>6. IsOwn(id, msg) => msg.res \in Reply /\ Answer(T, id, msg.res)
  <2>1. ASSUME IsOwn(id, msg) PROVE msg # Pill /\ msg.id = id
    BY <2>1, PillIs DEF IsOwn
  <2>2. \A m \in Range(thread[id].ch) : m = Pill \/ Answer(T, m.id, m.res)
    BY <1>1 DEF ReplyInv
  <2> HIDE DEF msg
  <2> QED BY <1>5, <2>1, <2>2, PillIs
<1> HIDE DEF msg
<1>7. /\ back \in ThreadRec /\ back.op = thread[id].op /\ back.pc # "none" /\ back.ch = << >>
      /\ back.pc = "ok" => Answer(T, id, back.res)
  <2>1. CASE IsOwn(id, msg)
    <3> DEFINE b == Returns(id, "ok", msg.res)
    <3>1. /\ b \in ThreadRec /\ b.op = thread[id].op /\ b.pc \in {"ok", "end"} /\ b.ch = << >>
          /\ b.pc = "ok" => b.res = msg.res
      BY <1>1, <1>6, <2>1, ReturnsIs
    <3>2. back = b
      BY <2>1
    <3> HIDE DEF b, back
    <3> QED BY <1>6, <2>1, <3>1, <3>2
  <2>2. CASE ~IsOwn(id, msg)
    <3> DEFINE b == Returns(id, "wrong", << >>)
    <3>1. b \in ThreadRec /\ b.op = thread[id].op /\ b.pc \in {"wrong", "end"} /\ b.ch = << >>
      BY <1>1, ReturnsIs
    <3>2. back = b
      BY <2>2
    <3> HIDE DEF b, back
    <3> QED BY <3>1, <3>2
  <2> QED BY <2>1, <2>2
<1>8. ASSUME NEW d \in CallId
      PROVE  /\ told(d) \in ThreadRec /\ told(d).pc = thread[d].pc
             /\ told(d).op = thread[d].op /\ told(d).res = thread[d].res
             /\ Range(told(d).ch) = Range(thread[d].ch) \cup {Pill}
  <2>1. thread[d] \in ThreadRec /\ Pill \in Msg
    BY <1>1 DEF ThreadType, Msg
  <2> QED BY <2>1, AppendTo
<1> HIDE DEF back, told
<1>9. ThreadType' /\ RaftType' /\ RsmType'
  <2>1. \A d \in CallId : thread'[d] \in ThreadRec
    BY <1>1, <1>4, <1>7, <1>8 DEF ThreadType
  <2>2. ThreadType'
    BY <1>4, <2>1 DEF ThreadType
  <2>3. notify' \in [Server -> SUBSET [index : Nat, id : CallId]]
    BY <1>1, <1>2, <1>3 DEF RsmType
  <2> QED BY <1>1, <1>3, <2>2, <2>3 DEF RaftType, RsmType
<1>10. GoOn
  BY <1>3, <1>4, <1>7, <1>8 DEF GoOn, Known
<1>11. LeaderInv' /\ LogInv'
  BY <1>1, <1>3, <1>10, LeadersKeep, LogKeeps
<1>12. \A d \in CallId : Range(thread'[d].ch) \subseteq Range(thread[d].ch) \cup {Pill}
  BY <1>4, <1>7, <1>8, RangeEmpty
<1>13. \A d \in CallId : thread'[d].pc = "ok" =>
         \/ thread[d].pc = "ok" /\ thread'[d].res = thread[d].res
         \/ Answer(T, d, thread'[d].res)
  BY <1>4, <1>7, <1>8
<1>14. ReplicaInv(T)'
  BY <1>1, <1>3 DEF ReplicaInv, histVars
<1> QED BY <1>3, <1>9, <1>10, <1>11, <1>12, <1>13, <1>14, ServerFrame

\* What is left of a thread.
Ended(n) == [NoThread EXCEPT !.pc = "end", !.op = n]

LEMMA EndedIs ==
  ASSUME NEW n \in Nat
  PROVE  /\ Ended(n) \in ThreadRec /\ Ended(n).pc = "end" /\ Ended(n).op = n
         /\ Ended(n).ch = << >>
<1>1. NoThread \in ThreadRec
  BY ServerFacts DEF NoThread, ThreadRec, Pc
<1> QED BY <1>1 DEF Ended, ThreadRec, Pc, NoThread

LEMMA RestartKeeps ==
  ASSUME NEW T, KvInv(T), NEW s \in Server, Restart(s)
  PROVE  KvInv(T)'
<1> DEFINE ended(d) == Ended(thread[d].op)
<1>1. /\ KvType /\ PlainInv /\ RaftType /\ RsmType /\ ThreadType /\ LeaderInv /\ LogInv
      /\ ReplicaInv(T)
  BY DEF KvInv, KvType, PlainInv, TableInv
<1>2. /\ leader' = [leader EXCEPT ![s] = FALSE]
      /\ leaderID' = [leaderID EXCEPT ![s] = -1]
      /\ table' = [table EXCEPT ![s] = snapshot[s].table]
      /\ applied' = [applied EXCEPT ![s] = snapshot[s].index]
      /\ notify' = [notify EXCEPT ![s] = {}]
      /\ thread' = [d \in CallId |->
                      IF thread[d].srv = s /\ thread[d].pc \notin {"none", "sent"}
                      THEN ended(d) ELSE thread[d]]
      /\ UNCHANGED <<term, log, committed, snapshot>>
      /\ UNCHANGED <<committed, clerkVars, histVars>>
  BY DEF Restart, Restored, Ended
<1>3. \A d \in CallId :
        \/ thread'[d] = thread[d]
        \/ thread[d].pc # "none" /\ thread'[d] = ended(d)
  BY <1>2
<1>4. ASSUME NEW d \in CallId
      PROVE  /\ ended(d) \in ThreadRec /\ ended(d).pc = "end" /\ ended(d).op = thread[d].op
             /\ ended(d).ch = << >>
  <2>1. thread[d] \in ThreadRec /\ thread[d].op \in Nat
    BY <1>1 DEF ThreadType, ThreadRec
  <2> QED BY <2>1, EndedIs
<1> HIDE DEF ended
<1>5. ThreadType' /\ RaftType' /\ RsmType'
  <2>1. \A d \in CallId : thread'[d] \in ThreadRec
    BY <1>1, <1>3, <1>4 DEF ThreadType
  <2>2. ThreadType'
    BY <1>2, <2>1 DEF ThreadType
  <2>3. -1 \in -1 .. N - 1
    BY ServerFacts
  <2>4. RaftType'
    BY <1>1, <1>2, <2>3 DEF RaftType
  <2>5. RsmType'
    BY <1>1, <1>2 DEF RsmType
  <2> QED BY <2>2, <2>4, <2>5
<1>6. GoOn
  BY <1>3, <1>4 DEF GoOn, Known
<1>7. LogInv'
  BY <1>1, <1>2, <1>6, LogKeeps
<1>8. LeaderInv'
  <2>1. \A x \in Server : leader'[x] => leader[x]
    BY <1>1, <1>2 DEF RaftType
  <2>2. \A x \in Server : Len(log[x]) \in Nat /\ term[x] \in Nat
    BY <1>1 DEF RaftType
  <2>3. \A x \in Server : leader'[x] => snapshot'[x].index <= Len(log'[x])
    BY <1>1, <1>2, <2>1 DEF LeaderInv
  <2> QED BY <1>1, <1>2, <1>5, <2>1, <2>2, <2>3, LeaderFrame
<1>9. \A d \in CallId : Range(thread'[d].ch) \subseteq Range(thread[d].ch) \cup {Pill}
  BY <1>3, <1>4, RangeEmpty
<1>10. \A d \in CallId : thread'[d].pc = "ok" =>
         thread[d].pc = "ok" /\ thread'[d].res = thread[d].res
  BY <1>3, <1>4
<1>11. ReplicaInv(T)'
  <2>1. executed' = executed
    BY <1>2 DEF histVars
  <2> QED BY <1>1, <1>2, <2>1 DEF RsmType, ReplicaInv
<1> QED BY <1>2, <1>5, <1>6, <1>7, <1>8, <1>9, <1>10, <1>11, ServerFrame

-----------------------------------------------------------------------------
(* The reader.                                                             *)

LEMMA DoOpIs ==
  ASSUME NEW t \in Table, NEW op \in OpRec, NEW w \in Client \X Nat
  PROVE  /\ DoOp(t, op, w) \in Table /\ DoOpReply(t, op) \in Reply
         /\ op.kind = "put" /\ op.version = t.version =>
              /\ DoOp(t, op, w) # t
              /\ DoOp(t, op, w) = [value |-> w, version |-> t.version + 1]
         /\ ~(op.kind = "put" /\ op.version = t.version) => DoOp(t, op, w) = t
<1>1. /\ t.version \in Nat /\ t.value \in Value /\ op.version \in Nat
      /\ op.kind \in {"get", "put"} /\ w \in Value /\ None \in Value
  BY DEF Table, OpRec, Value
<1>2. DoOpReply(t, op) \in Reply
  <2>1. CASE op.kind = "get" /\ t.version = 0
    BY <1>1, <2>1 DEF DoOpReply, Reply, Err
  <2>2. CASE op.kind = "get" /\ t.version > 0
    BY <1>1, <2>2 DEF DoOpReply, Reply, Err
  <2>3. CASE op.kind = "put"
    <3>1. DoOpReply(t, op) = [err |-> IF t.version = op.version THEN "OK"
                  ELSE IF t.version = 0 THEN "ErrNoKey" ELSE "ErrVersion",
                  version |-> 0, value |-> None]
      BY <2>3 DEF DoOpReply
    <3> QED BY <1>1, <3>1 DEF Reply, Err
  <2> QED BY <1>1, <2>1, <2>2, <2>3
<1>3. CASE op.kind = "put" /\ op.version = t.version
  <2>1. DoOp(t, op, w) = [value |-> w, version |-> t.version + 1]
    BY <1>3 DEF DoOp
  <2>2. DoOp(t, op, w) \in Table /\ DoOp(t, op, w).version # t.version
    BY <1>1, <2>1 DEF Table
  <2> QED BY <1>2, <1>3, <2>1, <2>2
<1>4. CASE ~(op.kind = "put" /\ op.version = t.version)
  BY <1>2, <1>4 DEF DoOp
<1> QED BY <1>3, <1>4

\* The entry that the reader of s executes, its call, the table after it and
\* the message to the thread registered for it.
ReadIndex(s) == applied[s] + 1
ReadCall(s) == committed[ReadIndex(s)].call
After(s) == DoOp(table[s], OpOf(ReadCall(s)), Writer(ReadCall(s)))
ReadMsg(s) == [id |-> ReadCall(s), res |-> DoOpReply(table[s], OpOf(ReadCall(s)))]

LEMMA ReadIs ==
  ASSUME NEW T, KvInv(T), NEW s \in Server, Reader(s)
  PROVE  /\ ReadIndex(s) \in 1 .. Len(committed) /\ ReadIndex(s) - 1 = applied[s]
         /\ applied[s] \in 0 .. executed
         /\ table[s] = T[applied[s]] /\ table[s] \in Table
         /\ ReadCall(s) \in CallId /\ Known(ReadCall(s))
         /\ OpOf(ReadCall(s)) \in OpRec /\ Writer(ReadCall(s)) \in Client \X Nat
         /\ After(s) \in Table /\ ReadMsg(s) \in Msg
<1>1. /\ KvType /\ PlainInv /\ RaftType /\ RsmType /\ HistType /\ LogInv /\ ReplicaInv(T)
  BY DEF KvInv, KvType, PlainInv, TableInv
<1>2. /\ applied[s] \in Nat /\ executed \in Nat /\ applied[s] <= executed
      /\ table[s] = T[applied[s]] /\ table[s] \in Table
  BY <1>1 DEF RsmType, HistType, ReplicaInv
<1>3. ReadIndex(s) \in 1 .. Len(committed) /\ ReadIndex(s) - 1 = applied[s]
  <2>1. applied[s] + 1 <= Len(committed)
    BY DEF Reader
  <2>2. Len(committed) \in Nat
    BY <1>1 DEF RaftType
  <2> QED BY <1>2, <2>1, <2>2 DEF ReadIndex
<1>4. ReadCall(s) \in CallId /\ Known(ReadCall(s))
  BY <1>1, <1>3, EntriesAreCalls DEF ReadCall, LogInv
<1>5. OpOf(ReadCall(s)) \in OpRec /\ Writer(ReadCall(s)) \in Client \X Nat
  BY <1>1, <1>4, OpIs
<1>6. After(s) \in Table /\ DoOpReply(table[s], OpOf(ReadCall(s))) \in Reply
  BY <1>2, <1>5, DoOpIs DEF After
<1>7. ReadMsg(s) \in Msg
  BY <1>4, <1>6 DEF ReadMsg, Msg
<1> QED BY <1>2, <1>3, <1>4, <1>5, <1>6, <1>7

LEMMA ReaderIs ==
  ASSUME NEW T, KvInv(T), NEW s \in Server, Reader(s)
  PROVE  /\ table' = [table EXCEPT ![s] = After(s)]
         /\ applied' = [applied EXCEPT ![s] = ReadIndex(s)]
         /\ snapshot' \in {snapshot, [snapshot EXCEPT ![s] = [table |-> After(s), index |-> ReadIndex(s)]]}
         /\ ReadIndex(s) <= Len(log[s])
         /\ UNCHANGED <<term, leader, leaderID, log, committed, notify, clerk, ops, ret>>
         /\ ThreadType' /\ GoOn
         /\ \A d \in CallId : /\ thread'[d].pc = thread[d].pc /\ thread'[d].res = thread[d].res
                              /\ Range(thread'[d].ch) \subseteq Range(thread[d].ch) \cup {ReadMsg(s)}
         /\ ReadIndex(s) > executed =>
              /\ executed' = ReadIndex(s)
              /\ hist' = IF After(s) # table[s] THEN Append(hist, Writer(ReadCall(s))) ELSE hist
         /\ ReadIndex(s) <= executed => UNCHANGED <<executed, hist>>
<1> DEFINE i == ReadIndex(s)
           told == {r.id : r \in {r \in notify[s] : r.index = i}}
           more(d) == [thread[d] EXCEPT !.ch = Append(@, ReadMsg(s))]
<1>1. /\ KvType /\ RaftType /\ RsmType /\ ThreadType /\ HistType
  BY DEF KvInv, KvType
<1>2. /\ i <= Len(committed) /\ IsPrefix(SubSeq(committed, 1, i), log[s])
      /\ table' = [table EXCEPT ![s] = After(s)]
      /\ applied' = [applied EXCEPT ![s] = i]
      /\ thread' = [d \in CallId |-> IF d \in told THEN more(d) ELSE thread[d]]
      /\ snapshot' = IF MaxRaftState > 0 /\ Len(log[s]) - snapshot[s].index > MaxRaftState
                     THEN [snapshot EXCEPT ![s] = [table |-> After(s), index |-> i]]
                     ELSE snapshot
      /\ IF i > executed
         THEN /\ executed' = i
              /\ hist' = IF After(s) # table[s] THEN Append(hist, Writer(ReadCall(s))) ELSE hist
         ELSE UNCHANGED <<executed, hist>>
      /\ UNCHANGED <<term, leader, leaderID, log, committed, notify, clerk, ops, ret>>
  BY DEF Reader, ReadIndex, ReadCall, After, ReadMsg, Writer, raftVars, clerkVars, histVars
<1>3. i \in 1 .. Len(committed) /\ i \in Nat /\ ReadMsg(s) \in Msg /\ executed \in Nat
  BY <1>1, ReadIs DEF HistType
<1>4. i <= Len(log[s])
  <2>1. committed \in Seq(Entry) /\ log[s] \in Seq(Entry)
    BY <1>1 DEF RaftType
  <2>2. Len(SubSeq(committed, 1, i)) = i
    BY <1>3, <2>1
  <2> HIDE DEF i
  <2> QED BY <1>2, <2>2 DEF IsPrefix
<1>5. ASSUME NEW d \in CallId
      PROVE  /\ more(d) \in ThreadRec /\ more(d).pc = thread[d].pc
             /\ more(d).op = thread[d].op /\ more(d).res = thread[d].res
             /\ Range(more(d).ch) = Range(thread[d].ch) \cup {ReadMsg(s)}
  <2>1. thread[d] \in ThreadRec
    BY <1>1 DEF ThreadType
  <2> QED BY <1>3, <2>1, AppendTo
<1> HIDE DEF more, told, i
<1>6. \A d \in CallId : thread'[d] \in {thread[d], more(d)}
  BY <1>2
<1>7. ThreadType'
  <2>1. \A d \in CallId : thread'[d] \in ThreadRec
    BY <1>1, <1>5, <1>6 DEF ThreadType
  <2> QED BY <1>2, <2>1 DEF ThreadType
<1>8. GoOn
  BY <1>5, <1>6 DEF GoOn, Known
<1>9. \A d \in CallId : /\ thread'[d].pc = thread[d].pc /\ thread'[d].res = thread[d].res
                        /\ Range(thread'[d].ch) \subseteq Range(thread[d].ch) \cup {ReadMsg(s)}
  BY <1>5, <1>6
<1>10. /\ i > executed =>
              /\ executed' = i
              /\ hist' = IF After(s) # table[s] THEN Append(hist, Writer(ReadCall(s))) ELSE hist
       /\ i <= executed => UNCHANGED <<executed, hist>>
  BY <1>2, <1>3
<1> QED BY <1>2, <1>4, <1>7, <1>8, <1>9, <1>10 DEF i

\* What the step owes to the tables.
LEMMA ReaderKeeps ==
  ASSUME NEW T, KvInv(T), NEW s \in Server, Reader(s), NEW T2,
         HistType', HistInv', LowInv', RetInv',
         Execution(T2)', VersionInv(T2)', EffectInv(T2)',
         executed <= executed', ReadIndex(s) <= executed',
         \A k \in 0 .. executed : T2[k] = T[k], T2[ReadIndex(s)] = After(s)
  PROVE  KvInv(T2)'
<1> DEFINE i == ReadIndex(s)
<1>1. /\ KvType /\ PlainInv /\ RaftType /\ RsmType /\ ThreadType /\ LeaderInv /\ LogInv
      /\ ReplicaInv(T) /\ ReplyInv(T) /\ HistType
  BY DEF KvInv, KvType, PlainInv, TableInv
<1>2. /\ table' = [table EXCEPT ![s] = After(s)]
      /\ applied' = [applied EXCEPT ![s] = i]
      /\ snapshot' \in {snapshot, [snapshot EXCEPT ![s] = [table |-> After(s), index |-> i]]}
      /\ i <= Len(log[s])
      /\ UNCHANGED <<term, leader, leaderID, log, committed, notify, clerk, ops, ret>>
      /\ ThreadType' /\ GoOn
      /\ \A d \in CallId : /\ thread'[d].pc = thread[d].pc /\ thread'[d].res = thread[d].res
                           /\ Range(thread'[d].ch) \subseteq Range(thread[d].ch) \cup {ReadMsg(s)}
  BY ReaderIs
<1>3. i \in 1 .. Len(committed) /\ i \in Nat /\ i - 1 = applied[s] /\ After(s) \in Table
      /\ executed \in Nat /\ executed' \in Nat /\ applied[s] \in 0 .. executed
      /\ table[s] = T[applied[s]] /\ ReadCall(s) = committed[i].call
  BY <1>1, ReadIs DEF HistType, ReadCall
<1>0. T2[i] = After(s) /\ i <= executed'
  OBVIOUS
<1> HIDE DEF i
<1>4. Stable
  BY <1>1, <1>2, GoOnStable
<1>5. KvType'
  <2>1. RaftType'
    BY <1>1, <1>2 DEF RaftType
  <2>2. RsmType'
    <3>1. [table |-> After(s), index |-> i] \in [table : Table, index : Nat]
      BY <1>3
    <3>2. snapshot' \in [Server -> [table : Table, index : Nat]]
      BY <1>1, <1>2, <3>1 DEF RsmType
    <3> QED BY <1>1, <1>2, <1>3, <3>2 DEF RsmType
  <2>3. ClerkType'
    BY <1>1, <1>2 DEF KvType, ClerkType
  <2> QED BY <1>2, <2>1, <2>2, <2>3 DEF KvType
<1>6. LeaderInv'
  <2>1. \A x \in Server : Len(log[x]) \in Nat /\ term[x] \in Nat
    BY <1>1 DEF RaftType
  <2>2. \A x \in Server : leader[x] => snapshot'[x].index <= Len(log[x])
    <3>1. \A x \in Server : snapshot'[x] \in {snapshot[x], [table |-> After(s), index |-> i]}
                            /\ (x # s => snapshot'[x] = snapshot[x])
      BY <1>1, <1>2 DEF RsmType
    <3> QED BY <1>1, <1>2, <3>1 DEF LeaderInv
  <2>3. RaftType'
    BY <1>5 DEF KvType
  <2> QED BY <1>1, <1>2, <2>1, <2>2, <2>3, LeaderFrame
<1>7. LogInv'
  BY <1>1, <1>2, LogKeeps
<1>8. ThreadInv'
  BY <1>1, <1>2 DEF PlainInv, ThreadInv, GoOn, Known
<1>9. BusyInv'
  BY <1>1, <1>2 DEF PlainInv, BusyInv, GoOn, Known, Busy, CallOf
<1>10. ReplicaInv(T2)'
  <2>1. \A x \in Server : snapshot'[x] \in {snapshot[x], [table |-> After(s), index |-> i]}
    BY <1>1, <1>2 DEF RsmType
  <2>2. \A x \in Server : /\ applied[x] \in 0 .. executed /\ table[x] = T2[applied[x]]
                          /\ snapshot[x].index \in 0 .. executed
                          /\ snapshot[x].table = T2[snapshot[x].index]
    BY SMTT(30), <1>1, <1>3 DEF ReplicaInv, RsmType
  <2>3. ASSUME NEW x \in Server
        PROVE  applied'[x] <= executed' /\ table'[x] = T2[applied'[x]]
    BY <1>0, <1>1, <1>2, <1>3, <2>2 DEF RsmType
  <2>4. ASSUME NEW x \in Server
        PROVE  snapshot'[x].index <= executed' /\ snapshot'[x].table = T2[snapshot'[x].index]
    BY <1>0, <1>3, <2>1, <2>2
  <2> QED BY <2>3, <2>4 DEF ReplicaInv
<1>11. ReplyInv(T2)'
  <2>1. ASSUME NEW id, NEW r, Answer(T, id, r) PROVE Answer(T2, id, r)'
    BY <1>1, <1>3, <1>4, <2>1, AnswerFrame
  <2>2. ASSUME NEW m, m = ReadMsg(s) PROVE Answer(T2, m.id, m.res)'
    <3>1. PICK id \in CallId : id = ReadCall(s) /\ Known(id)
      BY ReadIs
    <3>2. m.id = id /\ m.res = DoOpReply(table[s], OpOf(id))
      BY <2>2, <3>1 DEF ReadMsg
    <3>3. OpOf(id)' = OpOf(id)
      BY <1>1, <1>4, <3>1, OpStable
    <3>4. PICK k \in Nat : k = i
      BY <1>3
    <3>5. m.res = DoOpReply(T2[k - 1], OpOf(m.id)')
      BY <1>3, <3>2, <3>3, <3>4
    <3>6. m.res = DoOpReply(T2[k - 1], OpOf(m.id))'
      BY <3>5 DEF DoOpReply
    <3>7. k \in 1 .. executed' /\ committed'[k].call = m.id
      BY <1>0, <1>2, <1>3, <3>1, <3>2, <3>4
    <3> QED BY <3>6, <3>7 DEF Answer
  <2> SUFFICES ASSUME NEW d \in CallId
               PROVE  /\ \A m \in Range(thread'[d].ch) : m = Pill \/ Answer(T2, m.id, m.res)'
                      /\ \A r : thread'[d].pc = "ok" /\ r = thread'[d].res => Answer(T2, d, r)'
    BY DEF ReplyInv, Answer, Pill
  <2>3. ASSUME NEW m \in Range(thread'[d].ch), m # Pill
        PROVE  Answer(T2, m.id, m.res)'
    <3>1. m = ReadMsg(s) \/ Answer(T, m.id, m.res)
      BY <1>1, <1>2, <2>3 DEF ReplyInv
    <3> QED BY <2>1, <2>2, <3>1
  <2>4. ASSUME NEW r, thread'[d].pc = "ok", r = thread'[d].res PROVE Answer(T2, d, r)'
    <3>1. Answer(T, d, r)
      BY <1>1, <1>2, <2>4 DEF ReplyInv
    <3> QED BY <2>1, <3>1
  <2> QED BY <2>3, <2>4
<1>12. PlainInv'
  BY <1>6, <1>7, <1>8, <1>9 DEF PlainInv
<1> QED BY <1>5, <1>10, <1>11, <1>12 DEF KvInv, TableInv

\* Another reader has executed the entry.
LEMMA ReaderAgain ==
  ASSUME NEW T, KvInv(T), NEW s \in Server, Reader(s), ReadIndex(s) <= executed
  PROVE  KvInv(T)'
<1>1. KvType /\ PlainInv /\ Execution(T) /\ HistType
  BY DEF KvInv, KvType, TableInv
<1>2. UNCHANGED <<executed, hist, committed, ops, ret>> /\ GoOn
  BY ReaderIs
<1>3. Stable
  BY <1>1, <1>2, GoOnStable
<1>4. Execution(T)' /\ VersionInv(T)' /\ EffectInv(T)'
  BY <1>2, <1>3, TableFrame DEF histVars
<1>5. HistType' /\ HistInv' /\ LowInv' /\ RetInv'
  BY <1>1, <1>2 DEF HistType, PlainInv, HistInv, LowInv, RetInv
<1>6. executed \in Nat /\ ReadIndex(s) \in 1 .. executed /\ ReadIndex(s) - 1 = applied[s]
      /\ table[s] = T[applied[s]]
  BY <1>1, ReadIs DEF HistType
<1>7. T[ReadIndex(s)] = After(s)
  BY <1>1, <1>6 DEF Execution, After, ReadCall
<1> QED BY <1>2, <1>4, <1>5, <1>6, <1>7, ReaderKeeps

\* The write, if the entry is one that takes effect.
Hit(s) == OpOf(ReadCall(s)).kind = "put" /\ OpOf(ReadCall(s)).version = table[s].version

\* The entry is executed for the first time.
LEMMA ReaderNewIs ==
  ASSUME NEW T, KvInv(T), NEW s \in Server, Reader(s), ReadIndex(s) > executed
  PROVE  /\ ReadIndex(s) = executed + 1 /\ applied[s] = executed /\ executed' = executed + 1
         /\ table[s] = T[executed] /\ table[s].version = Len(hist) /\ Len(hist) \in Nat
         /\ Hit(s) => /\ hist' = Append(hist, Writer(ReadCall(s)))
                      /\ After(s) = [value |-> Writer(ReadCall(s)), version |-> Len(hist) + 1]
         /\ ~Hit(s) => hist' = hist /\ After(s) = table[s]
<1>1. HistType /\ VersionInv(T)
  BY DEF KvInv, KvType, TableInv
<1>2. executed \in Nat /\ Len(hist) \in Nat
  BY <1>1 DEF HistType
<1>3. applied[s] \in 0 .. executed /\ ReadIndex(s) - 1 = applied[s] /\ table[s] = T[applied[s]]
      /\ ReadIndex(s) \in Nat
  BY ReadIs
<1>4. applied[s] = executed /\ ReadIndex(s) = executed + 1
  BY <1>2, <1>3
<1>5. table[s] = T[executed] /\ table[s].version = Len(hist)
  BY <1>1, <1>3, <1>4 DEF VersionInv
<1>6. /\ executed' = executed + 1
      /\ hist' = IF After(s) # table[s] THEN Append(hist, Writer(ReadCall(s))) ELSE hist
  BY <1>4, ReaderIs
<1>7. table[s] \in Table /\ OpOf(ReadCall(s)) \in OpRec /\ Writer(ReadCall(s)) \in Client \X Nat
  BY ReadIs
<1>8. /\ Hit(s) => /\ After(s) # table[s]
                   /\ After(s) = [value |-> Writer(ReadCall(s)), version |-> Len(hist) + 1]
      /\ ~Hit(s) => After(s) = table[s]
  BY <1>5, <1>7, DoOpIs DEF Hit, After
<1> QED BY <1>2, <1>4, <1>5, <1>6, <1>8

LEMMA ReaderFirst ==
  ASSUME NEW T, KvInv(T), NEW s \in Server, Reader(s), ReadIndex(s) > executed
  PROVE  \E T2 : KvInv(T2)'
<1>1. /\ KvType /\ PlainInv /\ Execution(T) /\ VersionInv(T) /\ EffectInv(T) /\ HistType
      /\ HistInv /\ LowInv /\ RetInv
  BY DEF KvInv, KvType, TableInv, PlainInv
<1>2. PICK n \in Nat : n = executed
  BY <1>1 DEF HistType
<1>3. PICK h \in Nat : h = Len(hist)
  BY <1>1 DEF HistType
<1>4. PICK id \in CallId : id = ReadCall(s) /\ Known(id)
  BY ReadIs
<1>5. PICK w \in Client \X Nat : w = Writer(id)
  BY <1>1, <1>4, OpIs
<1>6. PICK op \in OpRec : op = OpOf(id)
  BY <1>1, <1>4, OpIs
<1>7. PICK a \in Table : a = After(s)
  BY ReadIs
<1>8. PICK T2 : T2 = [k \in 0 .. n + 1 |-> IF k <= n THEN T[k] ELSE a]
  OBVIOUS
<1>9. UNCHANGED <<committed, ops, ret>> /\ GoOn /\ Stable
  BY <1>1, ReaderIs, GoOnStable
<1>10. /\ ReadIndex(s) = n + 1 /\ applied[s] = n /\ executed' = n + 1
       /\ table[s] = T[n] /\ table[s].version = h
       /\ Hit(s) <=> op.kind = "put" /\ op.version = h
       /\ Hit(s) => hist' = Append(hist, w) /\ a = [value |-> w, version |-> h + 1]
       /\ ~Hit(s) => hist' = hist /\ a = T[n]
  BY <1>2, <1>3, <1>4, <1>5, <1>6, <1>7, ReaderNewIs DEF Hit
<1>11. PICK hit \in BOOLEAN : hit <=> Hit(s)
  OBVIOUS
<1>12. T \in [0 .. n -> Table] /\ T2 \in [0 .. n + 1 -> Table] /\ T2[n + 1] = a
       /\ \A k \in 0 .. n : T2[k] = T[k]
  BY <1>1, <1>2, <1>8 DEF Execution
<1>13. /\ hist \in Seq(Client \X Nat) /\ hist' \in Seq(Client \X Nat)
       /\ Len(hist') = IF hit THEN h + 1 ELSE h
       /\ hit => hist'[h + 1] = w
       /\ \A j \in 1 .. h : hist'[j] = hist[j]
  <2>1. hist \in Seq(Client \X Nat)
    BY <1>1 DEF HistType
  <2>2. CASE hit
    <3>1. hist' = Append(hist, w)
      BY <1>10, <1>11, <2>2
    <3>2. /\ Append(hist, w) \in Seq(Client \X Nat) /\ Len(Append(hist, w)) = Len(hist) + 1
          /\ Append(hist, w)[Len(hist) + 1] = w
          /\ \A j \in 1 .. Len(hist) : Append(hist, w)[j] = hist[j]
      BY <2>1, AppendProperties
    <3> QED BY <1>3, <2>1, <2>2, <3>1, <3>2, Zenon
  <2>3. CASE ~hit
    BY <1>3, <1>10, <1>11, <2>1, <2>3
  <2> QED BY <2>1, <2>2, <2>3
<1>14. /\ committed[n + 1].call = id /\ n + 1 <= Len(committed)
  BY <1>4, <1>10, ReadIs DEF ReadCall
<1>15. OpOf(id)' = op /\ Writer(id)' = w
  BY <1>1, <1>4, <1>5, <1>6, <1>9, OpStable
<1>16. \A k \in 1 .. n : /\ OpOf(committed[k].call)' = OpOf(committed[k].call)
                         /\ Writer(committed[k].call)' = Writer(committed[k].call)
  BY <1>1, <1>2, <1>9, ExecutedStable
<1>17. HistType'
  BY <1>1, <1>2, <1>9, <1>10, <1>13, <1>14 DEF HistType
<1>18. Execution(T2)'
  <2>1. ASSUME NEW k \in 1 .. n + 1
        PROVE  T2[k] = DoOp(T2[k - 1], OpOf(committed[k].call), Writer(committed[k].call))'
    <3>1. CASE k = n + 1
      <4>1. T2[k] = DoOp(T2[k - 1], op, w)
        BY <1>4, <1>5, <1>6, <1>7, <1>10, <1>12, <3>1 DEF After
      <4>2. DoOp(T2[k - 1], op, w) = DoOp(T2[k - 1], OpOf(id), Writer(id))'
        BY <1>15 DEF DoOp
      <4> QED BY <1>9, <1>14, <3>1, <4>1, <4>2
    <3>2. CASE k \in 1 .. n
      <4>1. T2[k] = DoOp(T2[k - 1], OpOf(committed[k].call), Writer(committed[k].call))
        BY <1>1, <1>2, <1>12, <3>2 DEF Execution
      <4> QED BY <1>9, <1>16, <3>2, <4>1 DEF DoOp
    <3> QED BY <3>1, <3>2
  <2> QED BY <1>1, <1>2, <1>10, <1>12, <2>1 DEF Execution
<1>19. \A k \in 0 .. n : /\ T[k].version \in Nat /\ T[k].version <= h
                         /\ T[k].value = IF T[k].version = 0 THEN None ELSE hist[T[k].version]
  BY <1>1, <1>2, <1>3, <1>12 DEF VersionInv, Table
<1>20. VersionInv(T2)'
  <2>1. T2[n + 1].version = Len(hist')
    <3>1. CASE hit
      BY <1>10, <1>11, <1>12, <1>13, <3>1
    <3>2. CASE ~hit
      BY <1>10, <1>11, <1>12, <1>13, <3>2
    <3> QED BY <3>1, <3>2
  <2>2. \A k \in 0 .. n : /\ T2[k].version <= Len(hist')
                          /\ T2[k].value = IF T2[k].version = 0 THEN None ELSE hist'[T2[k].version]
    <3> SUFFICES ASSUME NEW k \in 0 .. n
                 PROVE  /\ T[k].version <= Len(hist')
                        /\ T[k].value = IF T[k].version = 0 THEN None ELSE hist'[T[k].version]
      BY <1>12
    <3>1. T[k].version = 0 \/ T[k].version \in 1 .. h
      BY <1>19
    <3>2. T[k].version <= Len(hist')
      BY <1>13, <1>19
    <3>3. CASE T[k].version = 0
      BY <1>19, <3>2, <3>3
    <3>4. CASE T[k].version \in 1 .. h
      <4>1. hist'[T[k].version] = hist[T[k].version] /\ T[k].version # 0
        BY SMTT(30), <1>13, <3>4
      <4> QED BY <1>19, <3>2, <4>1
    <3> QED BY <3>1, <3>3, <3>4
  <2>3. /\ T2[n + 1].version <= Len(hist')
        /\ T2[n + 1].value = IF T2[n + 1].version = 0 THEN None ELSE hist'[T2[n + 1].version]
    <3>1. CASE hit
      BY <1>10, <1>11, <1>12, <1>13, <3>1
    <3>2. CASE ~hit
      <4>1. T2[n + 1] = T2[n] /\ n \in 0 .. n
        BY <1>10, <1>11, <1>12, <3>2
      <4> QED BY <2>2, <4>1
    <3> QED BY <3>1, <3>2
  <2>4. \A k \in 0 .. n + 1 : k \in 0 .. n \/ k = n + 1
    OBVIOUS
  <2> QED BY <1>10, <2>1, <2>2, <2>3, <2>4 DEF VersionInv
<1>21. EffectInv(T2)'
  <2>1. ASSUME NEW k \in 1 .. n + 1, NEW d, d = committed'[k].call
        PROVE  /\ OpOf(d)'.low <= T2[k - 1].version
               /\ OpOf(d)'.kind = "put" /\ OpOf(d)'.version = T2[k - 1].version =>
                    \E j \in 1 .. Len(hist') : hist'[j] = Writer(d)'
    <3>1. CASE k = n + 1
      <4>1. d = id /\ T2[k - 1].version = h /\ OpOf(d)' = op /\ Writer(d)' = w
        BY <1>9, <1>10, <1>12, <1>14, <1>15, <2>1, <3>1
      <4>2. op.low <= h
        BY <1>1, <1>3, <1>4, <1>6, OpIs DEF LowInv
      <4>3. op.kind = "put" /\ op.version = h => h + 1 \in 1 .. Len(hist') /\ hist'[h + 1] = w
        BY <1>10, <1>11, <1>13
      <4> QED BY <4>1, <4>2, <4>3
    <3>2. CASE k \in 1 .. n
      <4>1. /\ OpOf(d).low <= T[k - 1].version
            /\ OpOf(d).kind = "put" /\ OpOf(d).version = T[k - 1].version =>
                    \E j \in 1 .. Len(hist) : hist[j] = Writer(d)
        BY <1>1, <1>2, <1>9, <2>1, <3>2 DEF EffectInv
      <4>2. OpOf(d)' = OpOf(d) /\ Writer(d)' = Writer(d)
        BY <1>1, <1>2, <1>9, <2>1, <3>2, ExecutedStable
      <4>3. T2[k - 1] = T[k - 1]
        BY <1>12, <3>2
      <4>4. \A j \in 1 .. Len(hist) : j \in 1 .. Len(hist') /\ hist'[j] = hist[j]
        BY <1>3, <1>13
      <4> QED BY <4>1, <4>2, <4>3, <4>4
    <3> QED BY <3>1, <3>2
  <2> QED BY <1>10, <2>1 DEF EffectInv
<1>22. HistInv'
  <2>1. ASSUME NEW j \in 1 .. Len(hist')
        PROVE  /\ hist'[j][2] \in 1 .. Len(ops[hist'[j][1]])
               /\ ops[hist'[j][1]][hist'[j][2]].kind = "put"
               /\ ops[hist'[j][1]][hist'[j][2]].version = j - 1
    <3>1. CASE j \in 1 .. h
      BY <1>1, <1>3, <1>13, <3>1 DEF HistInv
    <3>2. CASE hit /\ j = h + 1
      <4>1. /\ w[1] = id[1] /\ w[2] \in 1 .. Len(ops[w[1]])
            /\ op = ops[w[1]][w[2]]
        BY <1>1, <1>4, <1>5, <1>6, OpIs
      <4> QED BY <1>10, <1>11, <1>13, <3>2, <4>1
    <3> QED BY <1>13, <3>1, <3>2
  <2> QED BY <1>9, <2>1 DEF HistInv
<1>23. LowInv'
  <2>1. \A c \in Client : \A k \in 1 .. Len(ops[c]) : ops[c][k].low \in Nat
    <3>1. \A q \in Seq(OpRec) : \A k \in 1 .. Len(q) : q[k] \in OpRec
      OBVIOUS
    <3>2. \A o \in OpRec : o.low \in Nat
      BY DEF OpRec
    <3>3. \A c \in Client : ops[c] \in Seq(OpRec)
      BY <1>1 DEF KvType, ClerkType
    <3> QED BY <3>1, <3>2, <3>3
  <2>2. h <= Len(hist') /\ Len(hist') \in Nat
    BY <1>13
  <2> QED BY <1>1, <1>3, <1>9, <2>1, <2>2 DEF LowInv
<1>24. RetInv'
  <2>1. \A j \in 1 .. Len(hist) : j \in 1 .. Len(hist') /\ hist'[j] = hist[j]
    BY <1>3, <1>13
  <2> QED BY <1>1, <1>9, <2>1 DEF RetInv
<1>25. /\ executed <= executed' /\ ReadIndex(s) <= executed'
       /\ \A k \in 0 .. executed : T2[k] = T[k]
       /\ T2[ReadIndex(s)] = After(s)
  BY <1>2, <1>7, <1>10, <1>12
<1>26. KvInv(T2)'
  BY <1>17, <1>18, <1>20, <1>21, <1>22, <1>23, <1>24, <1>25, ReaderKeeps
<1> QED BY <1>26

-----------------------------------------------------------------------------
(* The clerk.                                                              *)

\* What a reply tells the clerk, by the moment at which it was made: after
\* the operation's call, and now or before.
LEMMA AnswerIs ==
  ASSUME NEW T, KvInv(T), NEW id \in CallId, Known(id), NEW r, Answer(T, id, r)
  PROVE  /\ r \in Reply
         /\ OpOf(id).kind = "get" =>
              \/ r.err = "ErrNoKey" /\ OpOf(id).low = 0
              \/ /\ r.err = "OK" /\ r.version \in 1 .. Len(hist)
                 /\ OpOf(id).low <= r.version /\ r.value = hist[r.version]
         /\ OpOf(id).kind = "put" =>
              \/ r.err = "OK" /\ \E j \in 1 .. Len(hist) : hist[j] = Writer(id)
              \/ r.err = "ErrNoKey" /\ OpOf(id).low = 0 /\ OpOf(id).version # 0
              \/ /\ r.err = "ErrVersion" /\ Len(hist) # 0
                 /\ OpOf(id).low # OpOf(id).version \/ Len(hist) # OpOf(id).version
<1>1. KvType /\ PlainInv /\ HistType /\ Execution(T) /\ VersionInv(T) /\ EffectInv(T)
  BY DEF KvInv, KvType, TableInv
<1>2. PICK k \in 1 .. executed : committed[k].call = id /\ r = DoOpReply(T[k - 1], OpOf(id))
  BY DEF Answer
<1>3. PICK op \in OpRec : op = OpOf(id)
  BY <1>1, OpIs
<1>4. op.version \in Nat /\ op.low \in Nat /\ op.kind \in {"get", "put"} /\ Len(hist) \in Nat
  BY <1>1, <1>3 DEF OpRec, HistType
<1>5. PICK t \in Table : t = T[k - 1]
  BY <1>1, <1>2 DEF HistType, Execution
<1>6. /\ t.version \in Nat /\ t.version <= Len(hist)
      /\ t.value = IF t.version = 0 THEN None ELSE hist[t.version]
  BY <1>1, <1>2, <1>5 DEF HistType, VersionInv, Table
<1>7. /\ op.low <= t.version
      /\ op.kind = "put" /\ op.version = t.version =>
           \E j \in 1 .. Len(hist) : hist[j] = Writer(id)
  BY <1>1, <1>2, <1>3, <1>5 DEF EffectInv
<1>8. r = DoOpReply(t, op) /\ r \in Reply
  <2>1. \E w : w \in Client \X Nat
    BY <1>1, OpIs
  <2> QED BY <1>2, <1>3, <1>5, <2>1, DoOpIs
<1>9. CASE op.kind = "get"
  <2>1. CASE t.version = 0
    <3>1. r.err = "ErrNoKey" /\ op.low = 0
      BY <1>4, <1>6, <1>7, <1>8, <1>9, <2>1 DEF DoOpReply
    <3> QED BY <1>3, <1>8, <1>9, <3>1
  <2>2. CASE t.version > 0
    <3>1. r.err = "OK" /\ r.version = t.version /\ r.value = t.value
      BY <1>6, <1>8, <1>9, <2>2 DEF DoOpReply
    <3>2. r.version \in 1 .. Len(hist) /\ op.low <= r.version /\ r.value = hist[r.version]
      BY <1>4, <1>6, <1>7, <2>2, <3>1
    <3> QED BY <1>3, <1>8, <1>9, <3>1, <3>2
  <2> QED BY <1>6, <2>1, <2>2
<1>10. CASE op.kind = "put"
  <2>1. r.err = IF t.version = op.version THEN "OK"
                ELSE IF t.version = 0 THEN "ErrNoKey" ELSE "ErrVersion"
    BY <1>8, <1>10 DEF DoOpReply
  <2>2. CASE t.version = op.version
    <3>1. \E j \in 1 .. Len(hist) : hist[j] = Writer(id)
      BY <1>7, <1>10, <2>2
    <3> QED BY <1>3, <1>8, <1>10, <2>1, <2>2, <3>1
  <2>3. CASE t.version # op.version /\ t.version = 0
    <3>1. op.low = 0 /\ op.version # 0 /\ r.err = "ErrNoKey"
      BY <1>4, <1>7, <2>1, <2>3
    <3> QED BY <1>3, <1>8, <1>10, <3>1
  <2>4. CASE t.version # op.version /\ t.version # 0
    <3>1. r.err = "ErrVersion" /\ Len(hist) # 0 /\ (op.low # op.version \/ Len(hist) # op.version)
      BY <1>4, <1>6, <1>7, <2>1, <2>4
    <3> QED BY <1>3, <1>8, <1>10, <3>1
  <2> QED BY <2>2, <2>3, <2>4
<1> QED BY <1>4, <1>9, <1>10

\* A step of a clerk.
LEMMA ClerkFrame ==
  ASSUME NEW T, KvInv(T), UNCHANGED <<raftVars, rsmVars, histVars>>, Stable,
         ThreadType', ClerkType', ThreadInv', BusyInv', LowInv', RetInv',
         \A d \in CallId : Range(thread'[d].ch) \subseteq Range(thread[d].ch),
         \A d \in CallId : thread'[d].pc = "ok" =>
           thread[d].pc = "ok" /\ thread'[d].res = thread[d].res
  PROVE  KvInv(T)'
<1>1. /\ KvType /\ PlainInv /\ RaftType /\ RsmType /\ HistType /\ LeaderInv /\ LogInv
      /\ ReplicaInv(T)
  BY DEF KvInv, KvType, PlainInv, TableInv
<1>2. /\ UNCHANGED <<term, leader, leaderID, log, committed, table, applied, snapshot, notify>>
      /\ UNCHANGED <<executed, hist>>
  BY DEF raftVars, rsmVars, histVars
<1>3. KvType'
  BY <1>1, <1>2 DEF KvType, RaftType, RsmType, HistType
<1>4. LeaderInv'
  BY <1>1, <1>2, LeadersKeep
<1>5. LogInv'
  BY <1>1, <1>2, EntriesAreCalls DEF LogInv, Stable, Known
<1>6. HistInv'
  BY <1>1, <1>2, HistFrame
<1>7. Execution(T)' /\ VersionInv(T)' /\ EffectInv(T)'
  BY TableFrame
<1>8. ReplicaInv(T)'
  BY <1>1, <1>2 DEF ReplicaInv
<1>9. ReplyInv(T)'
  BY <1>2, ReplyFrame
<1> QED BY <1>3, <1>4, <1>5, <1>6, <1>7, <1>8, <1>9 DEF KvInv, PlainInv, TableInv

\* The thread of a new call.
Sent(s, n) == [NoThread EXCEPT !.pc = "sent", !.srv = s, !.op = n]

LEMMA SentIs ==
  ASSUME NEW s \in Server, NEW n \in Nat
  PROVE  /\ Sent(s, n) \in ThreadRec /\ Sent(s, n).pc = "sent" /\ Sent(s, n).op = n
         /\ Sent(s, n).ch = << >>
<1>1. NoThread \in ThreadRec
  BY ServerFacts DEF NoThread, ThreadRec, Pc
<1> QED BY <1>1 DEF Sent, ThreadRec, Pc, NoThread

\* Some threads have ended.
Fewer(threads) ==
  /\ threads \in [CallId -> ThreadRec]
  /\ \A d \in CallId : \/ threads[d] = thread[d]
                       \/ thread[d].pc # "none" /\ threads[d] = Ended(thread[d].op)

LEMMA FewerIs ==
  ASSUME ThreadType, NEW threads, Fewer(threads), NEW d \in CallId
  PROVE  /\ threads[d].pc # "none" <=> thread[d].pc # "none"
         /\ threads[d].op = thread[d].op
         /\ Range(threads[d].ch) \subseteq Range(thread[d].ch)
         /\ threads[d].pc = "ok" => thread[d].pc = "ok" /\ threads[d].res = thread[d].res
<1>1. thread[d].op \in Nat
  BY DEF ThreadType, ThreadRec
<1>2. /\ Ended(thread[d].op).pc = "end" /\ Ended(thread[d].op).op = thread[d].op
      /\ Ended(thread[d].op).ch = << >>
  BY <1>1, EndedIs
<1> QED BY <1>2, RangeEmpty DEF Fewer

LEMMA UnheardIs ==
  ASSUME KvType, PlainInv, NEW c \in Client, Busy(c)
  PROVE  Fewer(Unheard(c))
<1> DEFINE id == CallOf(c)
<1>1. id \in CallId /\ thread \in [CallId -> ThreadRec]
  BY DEF PlainInv, BusyInv, KvType, ThreadType
<1>2. thread[id].op \in Nat
  BY <1>1 DEF ThreadRec
<1>3. Ended(thread[id].op) \in ThreadRec
  BY <1>2, EndedIs
<1>4. Unheard(c) = IF thread[id].pc \in {"ok", "wrong"}
                   THEN [thread EXCEPT ![id] = Ended(thread[id].op)] ELSE thread
  BY DEF Unheard, Ended
<1> HIDE DEF id
<1>5. CASE thread[id].pc \in {"ok", "wrong"}
  BY <1>1, <1>3, <1>4, <1>5 DEF Fewer
<1>6. CASE thread[id].pc \notin {"ok", "wrong"}
  BY <1>1, <1>4, <1>6 DEF Fewer
<1> QED BY <1>5, <1>6

\* The clerk of c makes a call, for the operation it has under way.
LEMMA CallKeeps ==
  ASSUME NEW T, KvInv(T), NEW c \in Client, NEW s \in Server, NEW threads,
         Fewer(threads),
         SendCall(c, Len(ops'[c]), s, threads),
         UNCHANGED <<raftVars, rsmVars, ret, histVars>>,
         clerk' \in [Client -> ClerkRec], clerk'[c].calls = clerk[c].calls + 1,
         ops' \in [Client -> Seq(OpRec)],
         \A x \in Client : x # c => clerk'[x] = clerk[x] /\ ops'[x] = ops[x],
         Len(ops[c]) <= Len(ops'[c]), Len(ops'[c]) = Len(ret[c]) + 1,
         \A n \in 1 .. Len(ops[c]) : ops'[c][n] = ops[c][n],
         \A n \in 1 .. Len(ops'[c]) : ops'[c][n].low <= Len(hist)
  PROVE  KvInv(T)'
<1>1. /\ KvType /\ PlainInv /\ ThreadType /\ ClerkType /\ ThreadInv /\ BusyInv /\ LowInv
      /\ RetInv
  BY DEF KvInv, KvType, PlainInv
<1>2. PICK n \in Nat : n = Len(ops'[c]) /\ n \in 1 .. Len(ops'[c])
  BY <1>1 DEF ClerkType
<1>3. PICK id \in CallId : /\ id = <<c, clerk[c].calls + 1>>
                           /\ thread' = [threads EXCEPT ![id] = Sent(s, n)]
  BY <1>2 DEF SendCall, Sent
<1>4. /\ Sent(s, n) \in ThreadRec /\ Sent(s, n).pc = "sent" /\ Sent(s, n).op = n
      /\ Sent(s, n).ch = << >>
  BY SentIs
<1>5. /\ \A x \in Client : clerk[x] \in ClerkRec /\ clerk[x].calls \in Nat
      /\ clerk[c].calls \in Nat
  BY <1>1 DEF ClerkType, ClerkRec
<1>6. ThreadType'
  BY <1>3, <1>4 DEF ThreadType, Fewer
<1>7. thread'[id] = Sent(s, n) /\ \A d \in CallId : d # id => thread'[d] = threads[d]
  BY <1>3 DEF Fewer
<1>8. id[1] = c /\ id[2] = clerk[c].calls + 1 /\ ~Known(id)
  BY <1>1, <1>3, <1>5 DEF ThreadInv
<1>9. \A d \in CallId : d # id =>
        /\ (Known(d)' <=> Known(d)) /\ thread'[d].op = thread[d].op
        /\ Range(thread'[d].ch) \subseteq Range(thread[d].ch)
        /\ thread'[d].pc = "ok" => thread[d].pc = "ok" /\ thread'[d].res = thread[d].res
  <2> SUFFICES ASSUME NEW d \in CallId, d # id
               PROVE  /\ thread'[d].pc # "none" <=> thread[d].pc # "none"
                      /\ thread'[d].op = thread[d].op
                      /\ Range(thread'[d].ch) \subseteq Range(thread[d].ch)
                      /\ thread'[d].pc = "ok" =>
                           thread[d].pc = "ok" /\ thread'[d].res = thread[d].res
    BY DEF Known
  <2>1. thread'[d] = threads[d]
    BY <1>7
  <2>2. /\ threads[d].pc # "none" <=> thread[d].pc # "none"
        /\ threads[d].op = thread[d].op
        /\ Range(threads[d].ch) \subseteq Range(thread[d].ch)
        /\ threads[d].pc = "ok" => thread[d].pc = "ok" /\ threads[d].res = thread[d].res
    BY <1>1, FewerIs
  <2> QED BY <2>1, <2>2, Zenon
<1>10. \A x \in Client : Len(ops[x]) \in Nat /\ Len(ops'[x]) \in Nat /\ Len(ret[x]) \in Nat
  BY <1>1 DEF ClerkType
<1>11. Stable
  <2>1. committed' = committed /\ Len(committed) \in Nat
    BY <1>1 DEF raftVars, KvType, RaftType
  <2>2. \A x \in Client : /\ Len(ops[x]) <= Len(ops'[x])
                          /\ \A k \in 1 .. Len(ops[x]) : ops'[x][k] = ops[x][k]
    BY <1>10
  <2>3. \A d \in CallId : Known(d) => Known(d)' /\ thread'[d].op = thread[d].op
    BY <1>8, <1>9
  <2> QED BY <2>1, <2>2, <2>3 DEF Stable
<1>12. ClerkType'
  BY <1>1 DEF ClerkType
<1>13. ThreadInv'
  <2> SUFFICES ASSUME NEW d \in CallId
               PROVE  /\ d[2] > clerk'[d[1]].calls => ~Known(d)'
                      /\ Known(d)' => thread'[d].op \in 1 .. Len(ops'[d[1]])
    BY DEF ThreadInv, Known
  <2>1. CASE d = id
    BY <1>2, <1>4, <1>5, <1>7, <1>8, <2>1
  <2>2. CASE d # id
    <3>1. d[1] \in Client /\ d[2] \in Nat
      BY CallIdIs
    <3>2. d[2] > clerk'[d[1]].calls => d[2] > clerk[d[1]].calls
      BY <1>5, <3>1
    <3>3. Known(d) => thread[d].op \in 1 .. Len(ops'[d[1]])
      <4>1. Known(d) => thread[d].op \in 1 .. Len(ops[d[1]])
        BY <1>1 DEF ThreadInv
      <4>2. Len(ops[d[1]]) <= Len(ops'[d[1]]) /\ Len(ops[d[1]]) \in Nat /\ Len(ops'[d[1]]) \in Nat
        BY <1>10, <1>11, <3>1 DEF Stable
      <4> QED BY <4>1, <4>2
    <3> QED BY <1>1, <1>9, <2>2, <3>2, <3>3 DEF ThreadInv
  <2> QED BY <2>1, <2>2
<1>14. BusyInv'
  <2> SUFFICES ASSUME NEW x \in Client
               PROVE  /\ Len(ops'[x]) \in {Len(ret[x]), Len(ret[x]) + 1}
                      /\ Len(ret[x]) < Len(ops'[x]) =>
                           \A d : d = <<x, clerk'[x].calls>> =>
                             d \in CallId /\ Known(d)' /\ thread'[d].op = Len(ops'[x])
    BY DEF BusyInv, Busy, CallOf, Known
  <2>1. CASE x = c
    <3>1. <<x, clerk'[x].calls>> = id
      BY <1>3, <2>1
    <3>2. Known(id)' /\ thread'[id].op = Len(ops'[c])
      BY <1>2, <1>4, <1>7 DEF Known
    <3> QED BY <2>1, <3>1, <3>2
  <2>2. CASE x # c
    <3>1. ops'[x] = ops[x] /\ clerk'[x] = clerk[x]
      BY <2>2
    <3>2. ASSUME Len(ret[x]) < Len(ops[x]), NEW d, d = <<x, clerk[x].calls>>
          PROVE  d \in CallId /\ Known(d)' /\ thread'[d].op = Len(ops[x])
      <4>1. d \in CallId /\ Known(d) /\ thread[d].op = Len(ops[x])
        BY <1>1, <3>2 DEF BusyInv, Busy, CallOf
      <4>2. d # id
        BY <1>8, <4>1
      <4> QED BY <1>9, <4>1, <4>2
    <3> QED BY <1>1, <3>1, <3>2 DEF BusyInv
  <2> QED BY <2>1, <2>2
<1>15. hist' = hist
  BY DEF histVars
<1>16. LowInv'
  BY <1>1, <1>15 DEF LowInv
<1>17. RetInv'
  <2> SUFFICES ASSUME NEW x \in Client, NEW k \in 1 .. Len(ret[x])
               PROVE  ops'[x][k].kind = "put" /\ ret[x][k].err = "OK" =>
                        \E j \in 1 .. Len(hist) : hist[j] = <<x, k>>
    BY <1>15 DEF RetInv
  <2>1. k \in 1 .. Len(ops[x])
    <3>1. Len(ops[x]) = Len(ret[x]) \/ Len(ops[x]) = Len(ret[x]) + 1
      BY <1>1 DEF BusyInv
    <3>2. Len(ops[x]) \in Nat /\ Len(ret[x]) \in Nat
      BY <1>10
    <3> QED BY <3>1, <3>2
  <2>2. ops'[x][k] = ops[x][k]
    BY <1>11, <2>1 DEF Stable
  <2> QED BY <1>1, <2>2 DEF RetInv
<1>18. \A d \in CallId :
         /\ Range(thread'[d].ch) \subseteq Range(thread[d].ch)
         /\ thread'[d].pc = "ok" => thread[d].pc = "ok" /\ thread'[d].res = thread[d].res
  BY <1>4, <1>7, <1>9, RangeEmpty
<1> QED BY <1>6, <1>11, <1>12, <1>13, <1>14, <1>16, <1>17, <1>18, ClerkFrame

LEMMA NextCall ==
  ASSUME NEW k \in ClerkRec, NEW s \in Server, NEW b \in {0, 1}, NEW h \in -1 .. N - 1
  PROVE  LET k2 == [k EXCEPT !.calls = @ + 1, !.leader = s, !.rpcTimes = b]
             k3 == [k EXCEPT !.calls = @ + 1, !.leader = s, !.leaderHint = h]
         IN  k2 \in ClerkRec /\ k2.calls = k.calls + 1 /\ k3 \in ClerkRec /\ k3.calls = k.calls + 1
<1>1. PICK k1 : k1 = [k EXCEPT !.calls = @ + 1]
  OBVIOUS
<1>2. k1 \in ClerkRec /\ k1.calls = k.calls + 1
  BY <1>1 DEF ClerkRec
<1>3. PICK k2 : k2 = [k1 EXCEPT !.leader = s]
  OBVIOUS
<1>4. k2 \in ClerkRec /\ k2.calls = k1.calls
  BY <1>2, <1>3 DEF ClerkRec
<1>5. PICK k3 : k3 = [k2 EXCEPT !.rpcTimes = b]
  OBVIOUS
<1>6. k3 \in ClerkRec /\ k3.calls = k2.calls
  BY <1>4, <1>5 DEF ClerkRec
<1>7. PICK k4 : k4 = [k2 EXCEPT !.leaderHint = h]
  OBVIOUS
<1>8. k4 \in ClerkRec /\ k4.calls = k2.calls
  BY <1>4, <1>7 DEF ClerkRec
<1>9. /\ [k EXCEPT !.calls = @ + 1, !.leader = s, !.rpcTimes = b] = k3
      /\ [k EXCEPT !.calls = @ + 1, !.leader = s, !.leaderHint = h] = k4
  BY <1>1, <1>3, <1>5, <1>7
<1> QED BY <1>2, <1>4, <1>6, <1>8, <1>9, Zenon

LEMMA ClerkIs ==
  ASSUME ClerkType, NEW c \in Client, NEW k \in ClerkRec, clerk' = [clerk EXCEPT ![c] = k]
  PROVE  /\ clerk' \in [Client -> ClerkRec] /\ clerk'[c] = k
         /\ \A x \in Client : x # c => clerk'[x] = clerk[x]
BY DEF ClerkType

LEMMA BeginKeeps ==
  ASSUME NEW T, KvInv(T), NEW c \in Client, NEW kind \in {"get", "put"}, NEW version \in Nat,
         Begin(c, kind, version)
  PROVE  KvInv(T)'
<1> DEFINE op == [kind |-> kind, version |-> version, low |-> Len(hist)]
<1>1. KvType /\ PlainInv /\ ThreadType /\ ClerkType /\ BusyInv /\ LowInv /\ HistType
  BY DEF KvInv, KvType, PlainInv
<1>2. /\ ~Busy(c)
      /\ ops' = [ops EXCEPT ![c] = Append(ops[c], op)]
      /\ SendCall(c, Len(ops[c]) + 1, clerk[c].leader, thread)
      /\ clerk' = [clerk EXCEPT ![c].calls = @ + 1]
      /\ UNCHANGED <<raftVars, rsmVars, ret, histVars>>
  BY DEF Begin
<1>3. op \in OpRec /\ op.low = Len(hist) /\ Len(hist) \in Nat
  BY <1>1 DEF HistType, OpRec
<1> HIDE DEF op
<1>4. /\ clerk[c] \in ClerkRec /\ clerk[c].leader \in Server /\ ops[c] \in Seq(OpRec)
      /\ Len(ops[c]) \in Nat /\ Len(ret[c]) \in Nat
  BY <1>1 DEF ClerkType, ClerkRec
<1>5. /\ Append(ops[c], op) \in Seq(OpRec) /\ Len(Append(ops[c], op)) = Len(ops[c]) + 1
      /\ \A n \in 1 .. Len(ops[c]) : Append(ops[c], op)[n] = ops[c][n]
      /\ Append(ops[c], op)[Len(ops[c]) + 1] = op
  BY <1>3, <1>4
<1>6. ops'[c] = Append(ops[c], op) /\ \A x \in Client : x # c => ops'[x] = ops[x]
  BY <1>1, <1>2 DEF ClerkType
<1>7. ops' \in [Client -> Seq(OpRec)]
  BY <1>1, <1>2, <1>5 DEF ClerkType
<1>8. /\ clerk' \in [Client -> ClerkRec] /\ clerk'[c].calls = clerk[c].calls + 1
      /\ \A x \in Client : x # c => clerk'[x] = clerk[x]
  <2>1. PICK k : k = [clerk[c] EXCEPT !.calls = @ + 1]
    OBVIOUS
  <2>2. k \in ClerkRec /\ k.calls = clerk[c].calls + 1
    BY <1>4, <2>1 DEF ClerkRec
  <2>3. clerk' = [clerk EXCEPT ![c] = k]
    BY <1>2, <2>1
  <2> QED BY <1>1, <2>2, <2>3, ClerkIs
<1>9. Len(ops[c]) = Len(ret[c])
  BY <1>1, <1>2, <1>4 DEF BusyInv, Busy
<1>10. \A n \in 1 .. Len(ops'[c]) : ops'[c][n].low <= Len(hist)
  <2> SUFFICES ASSUME NEW n \in 1 .. Len(ops'[c]) PROVE ops'[c][n].low <= Len(hist)
    OBVIOUS
  <2>1. n \in 1 .. Len(ops[c]) \/ n = Len(ops[c]) + 1
    BY <1>4, <1>5, <1>6
  <2>2. CASE n \in 1 .. Len(ops[c])
    BY <1>1, <1>5, <1>6, <2>2 DEF LowInv
  <2>3. CASE n = Len(ops[c]) + 1
    BY <1>3, <1>5, <1>6, <2>3
  <2> QED BY <2>1, <2>2, <2>3
<1>11. PICK threads : threads = thread /\ Fewer(threads)
  BY <1>1 DEF Fewer, ThreadType
<1>12. PICK s \in Server : s = clerk[c].leader
  BY <1>4
<1>13. SendCall(c, Len(ops'[c]), s, threads)
  BY <1>2, <1>5, <1>6, <1>11, <1>12
<1>14. /\ Len(ops[c]) <= Len(ops'[c]) /\ Len(ops'[c]) = Len(ret[c]) + 1
       /\ \A n \in 1 .. Len(ops[c]) : ops'[c][n] = ops[c][n]
  BY <1>4, <1>5, <1>6, <1>9
<1> QED BY <1>2, <1>6, <1>7, <1>8, <1>10, <1>11, <1>13, <1>14, CallKeeps

\* A second call for the same operation.
LEMMA AgainKeeps ==
  ASSUME NEW T, KvInv(T), NEW c \in Client, NEW s \in Server, Busy(c),
         SendCall(c, Len(ops[c]), s, Unheard(c)),
         clerk' \in [Client -> ClerkRec], clerk'[c].calls = clerk[c].calls + 1,
         \A x \in Client : x # c => clerk'[x] = clerk[x],
         UNCHANGED <<raftVars, rsmVars, ops, ret, histVars>>
  PROVE  KvInv(T)'
<1>1. KvType /\ PlainInv /\ ClerkType /\ BusyInv /\ LowInv
  BY DEF KvInv, KvType, PlainInv
<1>2. PICK threads : threads = Unheard(c) /\ Fewer(threads)
  BY <1>1, UnheardIs
<1>3. Len(ops[c]) \in Nat /\ Len(ret[c]) \in Nat /\ ops \in [Client -> Seq(OpRec)]
  BY <1>1 DEF ClerkType
<1>4. Len(ops[c]) = Len(ret[c]) + 1
  BY <1>1, <1>3 DEF BusyInv, Busy
<1>5. ops' = ops
  OBVIOUS
<1>6. SendCall(c, Len(ops'[c]), s, threads)
  BY <1>2, <1>5
<1>7. \A n \in 1 .. Len(ops'[c]) : ops'[c][n].low <= Len(hist)
  BY <1>1, <1>5 DEF LowInv
<1>8. /\ ops' \in [Client -> Seq(OpRec)] /\ Len(ops[c]) <= Len(ops'[c])
      /\ Len(ops'[c]) = Len(ret[c]) + 1
      /\ \A n \in 1 .. Len(ops[c]) : ops'[c][n] = ops[c][n]
  BY <1>3, <1>4, <1>5
<1> QED BY <1>2, <1>5, <1>6, <1>7, <1>8, CallKeeps

LEMMA CallFailsKeeps ==
  ASSUME NEW T, KvInv(T), NEW c \in Client, CallFails(c)
  PROVE  KvInv(T)'
<1>1. ClerkType
  BY DEF KvInv, KvType
<1>2. PICK s \in Server :
        /\ SendCall(c, Len(ops[c]), s, Unheard(c))
        /\ clerk' = [clerk EXCEPT ![c].calls = @ + 1, ![c].leader = s,
                                  ![c].rpcTimes = IF Kind(c) = "put" THEN 1 ELSE 0]
  BY DEF CallFails
<1>3. Busy(c) /\ UNCHANGED <<raftVars, rsmVars, ops, ret, histVars>>
  BY DEF CallFails
<1>4. PICK times \in {0, 1} : times = IF Kind(c) = "put" THEN 1 ELSE 0
  OBVIOUS
<1>5. clerk' = [clerk EXCEPT ![c] = [clerk[c] EXCEPT !.calls = @ + 1, !.leader = s, !.rpcTimes = times]]
  BY <1>2, <1>4
<1>6. clerk[c] \in ClerkRec
  BY <1>1 DEF ClerkType
<1>7. /\ clerk' \in [Client -> ClerkRec] /\ clerk'[c].calls = clerk[c].calls + 1
      /\ \A x \in Client : x # c => clerk'[x] = clerk[x]
  <2>1. PICK k : k = [clerk[c] EXCEPT !.calls = @ + 1, !.leader = s, !.rpcTimes = times]
    OBVIOUS
  <2>2. k \in ClerkRec /\ k.calls = clerk[c].calls + 1
    <3>1. 0 \in -1 .. N - 1
      BY ServerFacts
    <3> QED BY <1>6, <2>1, <3>1, NextCall
  <2>3. clerk' = [clerk EXCEPT ![c] = k]
    BY <1>5, <2>1
  <2> QED BY <1>1, <2>2, <2>3, ClerkIs
<1> QED BY <1>2, <1>3, <1>7, AgainKeeps

LEMMA WrongLeaderKeeps ==
  ASSUME NEW T, KvInv(T), NEW c \in Client, WrongLeader(c)
  PROVE  KvInv(T)'
<1> DEFINE h == DecodedHint(c, leaderID[thread[CallOf(c)].srv])
<1>1. KvType /\ PlainInv /\ RaftType /\ ThreadType /\ ClerkType
  BY DEF KvInv, KvType
<1>2. Busy(c) /\ UNCHANGED <<raftVars, rsmVars, ops, ret, histVars>>
  BY DEF WrongLeader
<1>3. clerk[c] \in ClerkRec /\ clerk[c].leaderHint \in -1 .. N - 1
  BY <1>1 DEF ClerkType, ClerkRec
<1>4. h \in -1 .. N - 1
  <2>1. CallOf(c) \in CallId
    BY <1>1, <1>2 DEF PlainInv, BusyInv
  <2>2. thread[CallOf(c)].srv \in Server
    BY <1>1, <2>1 DEF ThreadType, ThreadRec
  <2>3. leaderID[thread[CallOf(c)].srv] \in -1 .. N - 1 /\ 0 \in -1 .. N - 1
    BY <1>1, <2>2, ServerFacts DEF RaftType
  <2> QED BY <1>3, <2>3 DEF DecodedHint
<1>5. PICK s \in IF h < 0 THEN Server ELSE {h} :
        /\ SendCall(c, Len(ops[c]), s, Unheard(c))
        /\ clerk' = [clerk EXCEPT ![c].calls = @ + 1, ![c].leader = s, ![c].leaderHint = h]
  BY DEF WrongLeader
<1>6. s \in Server
  BY <1>4, <1>5, ServerFacts DEF Server
<1> HIDE DEF h
<1>7. clerk' = [clerk EXCEPT ![c] = [clerk[c] EXCEPT !.calls = @ + 1, !.leader = s, !.leaderHint = h]]
  BY <1>5
<1>8. /\ clerk' \in [Client -> ClerkRec] /\ clerk'[c].calls = clerk[c].calls + 1
      /\ \A x \in Client : x # c => clerk'[x] = clerk[x]
  <2>1. PICK k : k = [clerk[c] EXCEPT !.calls = @ + 1, !.leader = s, !.leaderHint = h]
    OBVIOUS
  <2>2. k \in ClerkRec /\ k.calls = clerk[c].calls + 1
    BY <1>3, <1>4, <1>6, <2>1, NextCall
  <2>3. clerk' = [clerk EXCEPT ![c] = k]
    BY <1>7, <2>1
  <2> QED BY <1>1, <2>2, <2>3, ClerkIs
<1> QED BY <1>2, <1>5, <1>6, <1>8, AgainKeeps

\* What the clerk hands on.
LEMMA ResultIs ==
  ASSUME NEW c \in Client, NEW r \in Reply
  PROVE  /\ ClerkResult(c, r) \in Reply
         /\ ClerkResult(c, r).version = r.version /\ ClerkResult(c, r).value = r.value
         /\ r.err # "ErrVersion" => ClerkResult(c, r).err = r.err
         /\ r.err = "ErrVersion" => ClerkResult(c, r).err \in {"ErrVersion", "ErrMaybe"}
BY DEF ClerkResult, Reply, Err

LEMMA ReturnKeeps ==
  ASSUME NEW T, KvInv(T), NEW c \in Client, Return(c)
  PROVE  KvInv(T)'
<1>1. /\ KvType /\ PlainInv /\ ThreadType /\ ClerkType /\ ThreadInv /\ BusyInv /\ LowInv
      /\ RetInv /\ ReplyInv(T)
  BY DEF KvInv, KvType, PlainInv, TableInv
<1>2. Busy(c)
  BY DEF Return
<1>3. PICK id \in CallId : id = CallOf(c) /\ Known(id) /\ thread[id].op = Len(ops[c])
  BY <1>1, <1>2 DEF BusyInv
<1>4. PICK r : r = thread[id].res
  OBVIOUS
<1>5. Answer(T, id, r)
  BY <1>1, <1>3, <1>4 DEF Return, ReplyInv
<1>6. PICK q \in Reply : q = ClerkResult(c, r)
  BY <1>3, <1>5, AnswerIs, ResultIs
<1>7. /\ ret' = [ret EXCEPT ![c] = Append(ret[c], q)]
      /\ thread' = Unheard(c)
      /\ clerk' = [clerk EXCEPT ![c] = [clerk[c] EXCEPT !.rpcTimes = 0, !.leaderHint = 0]]
      /\ UNCHANGED <<raftVars, rsmVars, histVars>> /\ UNCHANGED ops
  BY <1>3, <1>4, <1>6 DEF Return
<1>8. /\ Len(ops[c]) \in Nat /\ Len(ret[c]) \in Nat /\ ret[c] \in Seq(Reply)
      /\ Len(ops[c]) = Len(ret[c]) + 1
  BY <1>1, <1>2 DEF ClerkType, BusyInv, Busy
<1>9. /\ Append(ret[c], q) \in Seq(Reply) /\ Len(Append(ret[c], q)) = Len(ret[c]) + 1
      /\ \A n \in 1 .. Len(ret[c]) : Append(ret[c], q)[n] = ret[c][n]
      /\ Append(ret[c], q)[Len(ret[c]) + 1] = q
  BY <1>8
<1>10. ret'[c] = Append(ret[c], q) /\ \A x \in Client : x # c => ret'[x] = ret[x]
  BY <1>1, <1>7 DEF ClerkType
<1>11. /\ clerk' \in [Client -> ClerkRec]
       /\ \A x \in Client : clerk'[x].calls = clerk[x].calls
  <2>1. clerk[c] \in ClerkRec /\ 0 \in -1 .. N - 1
    BY <1>1, ServerFacts DEF ClerkType
  <2> QED BY <1>1, <1>7, <2>1 DEF ClerkType, ClerkRec
<1>12. ClerkType'
  BY <1>1, <1>7, <1>9, <1>11 DEF ClerkType
<1>13. Fewer(Unheard(c))
  BY <1>1, <1>2, UnheardIs
<1>14. ThreadType'
  BY <1>7, <1>13 DEF Fewer, ThreadType
<1>15. ASSUME NEW d \in CallId
       PROVE  /\ thread'[d].pc # "none" <=> thread[d].pc # "none"
              /\ thread'[d].op = thread[d].op
              /\ Range(thread'[d].ch) \subseteq Range(thread[d].ch)
              /\ thread'[d].pc = "ok" => thread[d].pc = "ok" /\ thread'[d].res = thread[d].res
  <2>1. PICK threads : threads = Unheard(c) /\ Fewer(threads)
    BY <1>13
  <2>2. /\ threads[d].pc # "none" <=> thread[d].pc # "none"
        /\ threads[d].op = thread[d].op
        /\ Range(threads[d].ch) \subseteq Range(thread[d].ch)
        /\ threads[d].pc = "ok" => thread[d].pc = "ok" /\ threads[d].res = thread[d].res
    BY <1>1, <2>1, FewerIs
  <2>3. thread' = threads
    BY <1>7, <2>1
  <2> QED BY <2>2, <2>3, Zenon
<1>16. GoOn
  BY <1>15 DEF GoOn, Known
<1>17. committed' = committed /\ hist' = hist
  BY <1>7 DEF raftVars, histVars
<1>18. Stable
  BY <1>1, <1>7, <1>16, <1>17, GoOnStable
<1>19. ThreadInv'
  <2>1. \A d \in CallId : d[1] \in Client
    BY CallIdIs
  <2> QED BY <1>1, <1>7, <1>11, <1>16, <2>1 DEF ThreadInv, GoOn, Known
<1>20. BusyInv'
  <2> SUFFICES ASSUME NEW x \in Client
               PROVE  /\ Len(ops[x]) \in {Len(ret'[x]), Len(ret'[x]) + 1}
                      /\ Len(ret'[x]) < Len(ops[x]) =>
                           \A d : d = <<x, clerk[x].calls>> =>
                             d \in CallId /\ Known(d)' /\ thread'[d].op = Len(ops[x])
    BY <1>7, <1>11 DEF BusyInv, Busy, CallOf, Known
  <2>1. CASE x = c
    BY <1>8, <1>9, <1>10, <2>1
  <2>2. CASE x # c
    <3>1. ret'[x] = ret[x]
      BY <1>10, <2>2
    <3>2. ASSUME Len(ret[x]) < Len(ops[x]), NEW d, d = <<x, clerk[x].calls>>
          PROVE  d \in CallId /\ Known(d)' /\ thread'[d].op = Len(ops[x])
      <4>1. d \in CallId /\ Known(d) /\ thread[d].op = Len(ops[x])
        BY <1>1, <3>2 DEF BusyInv, Busy, CallOf
      <4> QED BY <1>16, <4>1 DEF GoOn
    <3> QED BY <1>1, <3>1, <3>2 DEF BusyInv
  <2> QED BY <2>1, <2>2
<1>21. LowInv'
  BY <1>1, <1>7, <1>17 DEF LowInv
<1>22. RetInv'
  <2> SUFFICES ASSUME NEW x \in Client, NEW n \in 1 .. Len(ret'[x]),
                      ops[x][n].kind = "put", ret'[x][n].err = "OK"
               PROVE  \E j \in 1 .. Len(hist) : hist[j] = <<x, n>>
    BY <1>7, <1>17 DEF RetInv
  <2>1. CASE x = c /\ n = Len(ret[c]) + 1
    <3>1. q.err = "OK"
      BY <1>9, <1>10, <2>1
    <3>2. r \in Reply
      BY <1>3, <1>5, AnswerIs
    <3>3. r.err = "OK"
      BY <1>6, <3>1, <3>2, ResultIs
    <3>4. OpOf(id).kind = "put" /\ Writer(id) = <<x, n>>
      BY <1>3, <1>8, <2>1 DEF OpOf, Writer, CallOf
    <3>5. \E j \in 1 .. Len(hist) : hist[j] = Writer(id)
      BY <1>3, <1>5, <3>3, <3>4, AnswerIs
    <3> QED BY <3>4, <3>5
  <2>2. CASE ~(x = c /\ n = Len(ret[c]) + 1)
    <3>1. n \in 1 .. Len(ret[x]) /\ ret'[x][n] = ret[x][n]
      <4>1. CASE x = c
        BY <1>8, <1>9, <1>10, <2>2, <4>1
      <4>2. CASE x # c
        BY <1>10, <4>2
      <4> QED BY <4>1, <4>2
    <3> QED BY <1>1, <3>1 DEF RetInv
  <2> QED BY <2>1, <2>2
<1> QED BY <1>7, <1>12, <1>14, <1>15, <1>18, <1>19, <1>20, <1>21, <1>22, ClerkFrame

-----------------------------------------------------------------------------
(* Folds.                                                                  *)

\* The largest element of a set of numbers up to k + 1 that contains k + 1.
LEMMA MaxLast ==
  ASSUME NEW k \in Nat, NEW s \in SUBSET (1 .. k + 1), k + 1 \in s
  PROVE  Max(s) = k + 1 /\ s \ {k + 1} \in SUBSET (1 .. k)
<1>1. \A x \in s : k + 1 >= x
  OBVIOUS
<1>2. \A y \in s : (\A x \in s : y >= x) => y = k + 1
  OBVIOUS
<1>3. Max(s) = k + 1
  BY <1>1, <1>2 DEF Max
<1>4. s \ {k + 1} \in SUBSET (1 .. k)
  OBVIOUS
<1> QED BY <1>3, <1>4

\* A set of positive numbers up to n has its maximum as an element.
LEMMA MaxUpTo ==
  ASSUME NEW n \in Nat, NEW s \in SUBSET (1 .. n), s # {}
  PROVE  Max(s) \in s
<1> DEFINE T == {n - x : x \in s}
<1>0. \A x \in s : n - x \in Nat /\ x \in Nat
  OBVIOUS
<1>1. T \in SUBSET Nat /\ T # {}
  BY <1>0
<1>2. PICK d \in T : \A e \in T : d <= e
  <2> HIDE DEF T
  <2> QED BY <1>1, LeastNumber
<1>3. PICK x \in s : d = n - x
  BY <1>2
<1>4. \A y \in s : n - x <= n - y
  BY <1>2, <1>3
<1>5. \A y \in s : x >= y
  BY <1>0, <1>3, <1>4
<1> QED BY <1>5 DEF Max

\* f is the fold of G over subsets of 1 .. n, from their least element on.
IsFold(f, n, base, G) ==
  f = [s \in SUBSET (1 .. n) |->
         IF s = {} THEN base ELSE G[<<f[s \ {Max(s)}], Max(s)>>]]

\* A fold from the left over the numbers 1 .. n, as SequencesExt defines it: the
\* function that it calls iter exists.
LEMMA FoldExists ==
  ASSUME NEW n \in Nat, NEW X, NEW base \in X, NEW G \in [X \X (1 .. n) -> X]
  PROVE  \E f \in [SUBSET (1 .. n) -> X] : IsFold(f, n, base, G)
<1> USE DEF IsFold
<1> DEFINE Eq(f, k) == IsFold(f, k, base, G)
           P == {k \in 0 .. n : \E f \in [SUBSET (1 .. k) -> X] : Eq(f, k)}
<1>1. 0 \in P
  <2>1. SUBSET (1 .. 0) = {{}}
    OBVIOUS
  <2>2. LET f == [s \in SUBSET (1 .. 0) |-> base]
        IN  f \in [SUBSET (1 .. 0) -> X] /\ Eq(f, 0)
    BY <2>1
  <2> QED BY <2>2
<1>2. ASSUME NEW k \in 0 .. n - 1, k \in P PROVE k + 1 \in P
  <2>1. PICK f \in [SUBSET (1 .. k) -> X] : Eq(f, k)
    BY <1>2
  <2> DEFINE g == [s \in SUBSET (1 .. k + 1) |->
                     IF k + 1 \in s THEN G[<<f[s \ {k + 1}], k + 1>>] ELSE f[s]]
  <2>2. \A s \in SUBSET (1 .. k + 1) : k + 1 \notin s => s \in SUBSET (1 .. k)
    OBVIOUS
  <2>3. g \in [SUBSET (1 .. k + 1) -> X]
    <3>1. ASSUME NEW s \in SUBSET (1 .. k + 1), k + 1 \in s
          PROVE  G[<<f[s \ {k + 1}], k + 1>>] \in X
      <4>1. f[s \ {k + 1}] \in X
        BY <3>1, MaxLast
      <4> QED BY <4>1
    <3> QED BY <2>2, <3>1
  <2>4. ASSUME NEW s \in SUBSET (1 .. k)
        PROVE  g[s] = f[s] /\ s \in SUBSET (1 .. k + 1)
    OBVIOUS
  <2>5. ASSUME NEW s \in SUBSET (1 .. k + 1)
        PROVE  g[s] = IF s = {} THEN base ELSE G[<<g[s \ {Max(s)}], Max(s)>>]
    <3>1. CASE k + 1 \in s
      <4>1. Max(s) = k + 1 /\ s \ {k + 1} \in SUBSET (1 .. k)
        BY <3>1, MaxLast
      <4>2. g[s \ {k + 1}] = f[s \ {k + 1}]
        BY <4>1, <2>4
      <4> QED BY <3>1, <4>1, <4>2
    <3>2. CASE k + 1 \notin s
      <4>1. s \in SUBSET (1 .. k) /\ s \ {Max(s)} \in SUBSET (1 .. k)
        BY <3>2, <2>2
      <4>2. f[s] = IF s = {} THEN base ELSE G[<<f[s \ {Max(s)}], Max(s)>>]
        BY <2>1, <4>1
      <4> HIDE DEF g
      <4> QED BY <4>1, <4>2, <2>4
    <3> QED BY <3>1, <3>2
  <2>6. Eq(g, k + 1)
    <3>1. g = [s \in SUBSET (1 .. k + 1) |-> g[s]]
      OBVIOUS
    <3> HIDE DEF g
    <3> QED BY <2>5, <3>1
  <2> HIDE DEF g, Eq
  <2>7. k + 1 \in 0 .. n
    OBVIOUS
  <2> QED BY <2>3, <2>6, <2>7
<1> HIDE DEF P
<1>3. \A k \in 0 .. n : k \in P
  BY <1>1, <1>2, UpTo
<1>4. n \in P
  BY <1>3
<1> QED BY <1>4 DEF P

\* Replay gives the tables of T.
LEMMA ReplayIs ==
  ASSUME NEW T, KvInv(T), NEW n \in 0 .. executed
  PROVE  Replay(n) = T[n]
<1> DEFINE q == SubSeq(committed, 1, n)
           Do(t, e) == DoOp(t, OpOf(e.call), <<e.call[1], thread[e.call].op>>)
           Eq(f) == f = [s \in SUBSET (1 .. n) |->
                           IF s = {} THEN EmptyTable ELSE Do(f[s \ {Max(s)}], q[Max(s)])]
           it == CHOOSE f : Eq(f)
           G == [p \in Table \X (1 .. n) |-> Do(p[1], q[p[2]])]
<1>1. KvType /\ PlainInv /\ RaftType /\ HistType /\ Execution(T)
  BY DEF KvInv, KvType, TableInv
<1>2. n \in Nat /\ n <= Len(committed) /\ committed \in Seq(Entry) /\ executed \in Nat
  BY <1>1 DEF HistType, RaftType
<1>3. DOMAIN q = 1 .. n /\ \A k \in 1 .. n : q[k] = committed[k]
  BY <1>2
<1>4. Replay(n) = it[1 .. n]
  BY <1>3 DEF Replay, FoldLeft, MapThenFoldSet
<1>5. ASSUME NEW t \in Table, NEW k \in 1 .. n
      PROVE  /\ Do(t, q[k]) \in Table
             /\ Do(t, q[k]) = DoOp(t, OpOf(committed[k].call), Writer(committed[k].call))
  <2>1. k \in 1 .. executed
    BY <1>2
  <2>2. committed[k].call \in CallId /\ Known(committed[k].call)
    BY <1>1, <2>1, ExecutedIs
  <2>3. OpOf(committed[k].call) \in OpRec /\ Writer(committed[k].call) \in Client \X Nat
    BY <1>1, <2>2, OpIs
  <2>4. Do(t, q[k]) = DoOp(t, OpOf(committed[k].call), Writer(committed[k].call))
    BY <1>3 DEF Writer
  <2> QED BY <2>3, <2>4, DoOpIs
<1> HIDE DEF Do
<1>6. G \in [Table \X (1 .. n) -> Table]
  BY <1>5
<1>7. PICK f \in [SUBSET (1 .. n) -> Table] : IsFold(f, n, EmptyTable, G)
  <2>1. EmptyTable \in Table
    BY DEF EmptyTable, Table, Value
  <2> HIDE DEF G
  <2> QED BY <1>2, <1>6, <2>1, FoldExists
<1>8. ASSUME NEW s \in SUBSET (1 .. n), s # {}
      PROVE  Max(s) \in s
  BY <1>2, <1>8, MaxUpTo
<1>9. Eq(f)
  <2>1. ASSUME NEW s \in SUBSET (1 .. n)
        PROVE  f[s] = IF s = {} THEN EmptyTable ELSE Do(f[s \ {Max(s)}], q[Max(s)])
    <3>1. CASE s = {}
      BY <1>7, <3>1 DEF IsFold
    <3>2. CASE s # {}
      <4>1. Max(s) \in 1 .. n /\ f[s \ {Max(s)}] \in Table
        BY <1>7, <1>8, <3>2
      <4>2. f[s] = G[<<f[s \ {Max(s)}], Max(s)>>]
        BY <1>7, <3>2 DEF IsFold
      <4> QED BY <3>2, <4>1, <4>2
    <3> QED BY <3>1, <3>2
  <2> QED BY <1>7, <2>1 DEF IsFold
<1>10. Eq(it)
  <2> HIDE DEF Eq
  <2> QED BY <1>9
<1> HIDE DEF it, q
<1> DEFINE Q == {k \in 0 .. n : it[1 .. k] = T[k]}
<1>11. 0 \in Q
  <2>1. 1 .. 0 = {} /\ {} \in SUBSET (1 .. n)
    OBVIOUS
  <2>2. it[{}] = EmptyTable
    BY <1>10, <2>1
  <2> QED BY <1>1, <1>2, <2>1, <2>2 DEF Execution
<1>12. ASSUME NEW k \in 0 .. n - 1, k \in Q PROVE k + 1 \in Q
  <2>1. 1 .. k + 1 \in SUBSET (1 .. k + 1) /\ k + 1 \in 1 .. k + 1 /\ (1 .. k + 1) \ {k + 1} = 1 .. k
    BY <1>2
  <2>2. Max(1 .. k + 1) = k + 1
    BY <2>1, MaxLast
  <2>3. 1 .. k + 1 \in SUBSET (1 .. n) /\ 1 .. k + 1 # {} /\ k + 1 \in 1 .. n
    BY <1>2, <2>1
  <2>4. it[1 .. k + 1] = Do(it[1 .. k], q[k + 1])
    BY <1>10, <2>1, <2>2, <2>3
  <2>5. it[1 .. k] = T[k] /\ T[k] \in Table /\ k \in 0 .. n
    BY <1>1, <1>2, <1>12 DEF Execution
  <2>6. Do(T[k], q[k + 1])
          = DoOp(T[k], OpOf(committed[k + 1].call), Writer(committed[k + 1].call))
    BY <1>5, <2>3, <2>5
  <2>7. k + 1 \in 1 .. executed /\ (k + 1) - 1 = k
    BY <1>2
  <2>8. T[k + 1] = DoOp(T[k], OpOf(committed[k + 1].call), Writer(committed[k + 1].call))
    BY <1>1, <2>7 DEF Execution
  <2>9. k + 1 \in 0 .. n
    BY <2>3
  <2> QED BY <2>4, <2>5, <2>6, <2>8, <2>9
<1>13. \A k \in 0 .. n : k \in Q
  <2> HIDE DEF Q
  <2> QED BY <1>2, <1>11, <1>12, UpTo
<1>14. n \in 0 .. n
  BY <1>2
<1> QED BY <1>4, <1>13, <1>14

-----------------------------------------------------------------------------
(* The theorems.                                                           *)

Ind == \E T : KvInv(T)

LEMMA ServerStep ==
  ASSUME NEW T, KvInv(T), NEW s \in Server, NoRollback,
         \/ \E voters \in SUBSET (Server \ {s}) : BecomeLeader(s, voters)
         \/ UpdateTermAndBecomeFollower(s)
         \/ Commit(s) \/ Restart(s)
         \/ \E t \in Server : AppendEntries(s, t) \/ InstallSnapshot(s, t)
  PROVE  KvInv(T)'
<1>1. CASE \E voters \in SUBSET (Server \ {s}) : BecomeLeader(s, voters)
  BY <1>1, BecomeLeaderKeeps
<1>2. CASE UpdateTermAndBecomeFollower(s)
  BY <1>2, StepDownKeeps
<1>3. CASE Commit(s)
  BY <1>3, CommitKeeps
<1>4. CASE Restart(s)
  BY <1>4, RestartKeeps
<1>5. CASE \E t \in Server : AppendEntries(s, t) \/ InstallSnapshot(s, t)
  BY <1>5, AppendEntriesKeeps, InstallSnapshotKeeps
<1> QED BY <1>1, <1>2, <1>3, <1>4, <1>5

LEMMA ThreadStep ==
  ASSUME NEW T, KvInv(T), NEW id \in CallId,
         Submit(id) \/ TimeAfter(id) \/ Finish(id) \/ GiveUp(id)
  PROVE  KvInv(T)'
BY SubmitKeeps, GiveUpKeeps, FinishKeeps

LEMMA ClerkStep ==
  ASSUME NEW T, KvInv(T), NEW c \in Client,
         \/ \E r \in Requests[c] : Begin(c, r.kind, r.version)
         \/ CallFails(c) \/ WrongLeader(c) \/ Return(c)
  PROVE  KvInv(T)'
<1>1. CASE \E r \in Requests[c] : Begin(c, r.kind, r.version)
  <2>1. PICK r \in Requests[c] : Begin(c, r.kind, r.version)
    BY <1>1
  <2>2. r.kind \in {"get", "put"} /\ r.version \in Nat
    BY RequestsAssumption
  <2> QED BY <2>1, <2>2, BeginKeeps
<1>2. CASE CallFails(c)
  BY <1>2, CallFailsKeeps
<1>3. CASE WrongLeader(c)
  BY <1>3, WrongLeaderKeeps
<1>4. CASE Return(c)
  BY <1>4, ReturnKeeps
<1> QED BY <1>1, <1>2, <1>3, <1>4

LEMMA StutterStep ==
  ASSUME NEW T, KvInv(T), UNCHANGED vars
  PROVE  KvInv(T)'
<1>1. RaftType /\ LeaderInv /\ LogInv
  BY DEF KvInv, KvType, PlainInv
<1>2. UNCHANGED <<rsmVars, thread, clerkVars, histVars>>
  BY DEF vars
<1>3. UNCHANGED <<term, leader, leaderID, log, committed, snapshot, thread>>
  BY DEF vars, raftVars, rsmVars
<1>4. RaftType' /\ LeaderInv' /\ LogInv'
  BY <1>1, <1>3 DEF RaftType, LeaderInv, LogInv, Known
<1>5. Len(committed) \in Nat
  BY <1>1 DEF RaftType
<1> QED BY <1>2, <1>3, <1>4, <1>5, RaftFrame

LEMMA KvStep ==
  ASSUME Ind, [Next /\ NoRollback]_vars
  PROVE  Ind'
<1>1. PICK T : KvInv(T)
  BY DEF Ind
<1>2. CASE UNCHANGED vars
  BY <1>1, <1>2, StutterStep DEF Ind
<1>3. CASE Next /\ NoRollback
  <2>1. ASSUME NEW s \in Server, Reader(s) PROVE Ind'
    <3>1. ReadIndex(s) \in Nat /\ executed \in Nat
      BY <1>1, <2>1, ReadIs DEF KvInv, KvType, HistType
    <3>2. CASE ReadIndex(s) <= executed
      BY <1>1, <2>1, <3>2, ReaderAgain DEF Ind
    <3>3. CASE ReadIndex(s) > executed
      BY <1>1, <2>1, <3>3, ReaderFirst DEF Ind
    <3> QED BY <3>1, <3>2, <3>3
  <2>2. \/ \E s \in Server :
             \/ \E voters \in SUBSET (Server \ {s}) : BecomeLeader(s, voters)
             \/ UpdateTermAndBecomeFollower(s)
             \/ Commit(s) \/ Restart(s)
             \/ \E t \in Server : AppendEntries(s, t) \/ InstallSnapshot(s, t)
        \/ \E s \in Server : Reader(s)
        \/ \E id \in CallId : Submit(id) \/ TimeAfter(id) \/ Finish(id) \/ GiveUp(id)
        \/ \E c \in Client :
             \/ \E r \in Requests[c] : Begin(c, r.kind, r.version)
             \/ CallFails(c) \/ WrongLeader(c) \/ Return(c)
    BY <1>3 DEF Next
  <2>3. (\E s \in Server : Reader(s)) \/ KvInv(T)'
    BY <1>1, <1>3, <2>2, ServerStep, ThreadStep, ClerkStep
  <2> QED BY <2>1, <2>3 DEF Ind
<1> QED BY <1>2, <1>3

LEMMA KvInvariant == InOrderSpec => []Ind
<1>1. Init => Ind
  BY KvInit DEF Ind
<1>2. Ind /\ [Next /\ NoRollback]_vars => Ind'
  BY KvStep
<1> QED BY <1>1, <1>2, PTL DEF InOrderSpec

\* As long as no server takes over a snapshot older than what it has executed,
\* every table and every snapshot of a server is the committed log executed up
\* to the index it stands for, for any number of servers, clients, elections
\* and restarts: neither Restore of a snapshot nor the replay after a restart
\* repeats or skips an entry (rsm.go, reader).
THEOREM ReplicasAgreeTheorem == InOrderSpec => []ReplicasAgree
<1>1. ASSUME Ind PROVE ReplicasAgree
  <2>1. PICK T : KvInv(T)
    BY <1>1 DEF Ind
  <2>2. RsmType /\ HistType /\ ReplicaInv(T)
    BY <2>1 DEF KvInv, KvType, TableInv
  <2>3. \A s \in Server : /\ applied[s] \in 0 .. executed /\ table[s] = T[applied[s]]
                          /\ snapshot[s].index \in 0 .. executed
                          /\ snapshot[s].table = T[snapshot[s].index]
    BY <2>2 DEF RsmType, HistType, ReplicaInv
  <2>4. \A n \in 0 .. executed : Replay(n) = T[n]
    BY <2>1, ReplayIs
  <2> QED BY <2>3, <2>4 DEF ReplicasAgree
<1> QED BY <1>1, KvInvariant, PTL

-----------------------------------------------------------------------------
(* The register.                                                           *)

LEMMA NotBusy ==
  ASSUME KvType, PlainInv, NEW c \in Client
  PROVE  /\ Len(ops[c]) \in Nat /\ Len(ret[c]) \in Nat
         /\ Register!Idle(c) <=> ~Busy(c)
         /\ Busy(c) => Len(ops[c]) = Len(ret[c]) + 1
<1>1. Len(ops[c]) \in Nat /\ Len(ret[c]) \in Nat
  BY DEF KvType, ClerkType
<1>2. Len(ops[c]) = Len(ret[c]) \/ Len(ops[c]) = Len(ret[c]) + 1
  BY DEF PlainInv, BusyInv
<1> QED BY <1>1, <1>2 DEF Register!Idle, Busy

LEMMA BeginCalls ==
  ASSUME NEW T, KvInv(T), NEW c \in Client, NEW kind \in {"get", "put"}, NEW version \in Nat,
         Begin(c, kind, version)
  PROVE  Register!Call(c)
<1> DEFINE op == [kind |-> kind, version |-> version, low |-> Len(hist)]
           n == Len(ops[c]) + 1
<1>1. KvType /\ PlainInv /\ ClerkType
  BY DEF KvInv, KvType
<1>2. /\ ~Busy(c)
      /\ ops' = [ops EXCEPT ![c] = Append(ops[c], op)]
      /\ UNCHANGED <<hist, ret>>
  BY DEF Begin, histVars
<1>3. Register!Idle(c)
  BY <1>1, <1>2, NotBusy
<1>4. ops \in [Client -> Seq(OpRec)] /\ ops[c] \in Seq(OpRec) /\ op \in OpRec
  BY <1>1 DEF ClerkType, OpRec, KvType, HistType
<1>5. op.kind = kind /\ op.version = version /\ op.low = Len(hist)
  OBVIOUS
<1> HIDE DEF op
<1>6. ops'[c] = Append(ops[c], op)
  BY <1>2, <1>4
<1>7. Len(Append(ops[c], op)) = n /\ Append(ops[c], op)[n] = op
  BY <1>4
<1>8. Len(ops'[c]) = n /\ ops'[c][n] = op
  BY <1>6, <1>7
<1> HIDE DEF n
<1>9. ops' = [ops EXCEPT ![c] = Append(@, ops'[c][n])]
  BY <1>2, <1>8
<1> QED BY <1>2, <1>3, <1>5, <1>8, <1>9 DEF Register!Call, n

\* The first execution of an entry that takes effect is the moment of its
\* write.
LEMMA ReaderPerforms ==
  ASSUME NEW T, KvInv(T), NEW s \in Server, Reader(s)
  PROVE  \/ UNCHANGED <<hist, ops, ret>>
         \/ \E c \in Client : \E n \in 1 .. Len(ops[c]) : Register!Perform(c, n)
<1>1. KvType /\ PlainInv /\ HistType /\ HistInv /\ RetInv /\ ClerkType
  BY DEF KvInv, KvType, PlainInv
<1>2. UNCHANGED <<ops, ret>>
  BY ReaderIs
<1>3. ReadIndex(s) \in Nat /\ executed \in Nat
  BY <1>1, ReadIs DEF HistType
<1>4. CASE ReadIndex(s) <= executed
  BY <1>2, <1>4, ReaderIs
<1>5. CASE ReadIndex(s) > executed /\ ~Hit(s)
  BY <1>2, <1>5, ReaderNewIs
<1>6. CASE ReadIndex(s) > executed /\ Hit(s)
  <2>1. PICK id \in CallId : id = ReadCall(s) /\ Known(id)
    BY ReadIs
  <2>2. PICK c \in Client : c = id[1]
    BY CallIdIs
  <2>3. PICK n \in 1 .. Len(ops[c]) : n = thread[id].op
    BY <1>1, <2>1, <2>2, OpIs
  <2>4. OpOf(id) = ops[c][n] /\ Writer(id) = <<c, n>>
    BY <2>2, <2>3 DEF OpOf, Writer
  <2>5. hist' = Append(hist, <<c, n>>) /\ ops[c][n].kind = "put" /\ ops[c][n].version = Len(hist)
    BY <1>6, <2>1, <2>4, ReaderNewIs DEF Hit
  <2>6. hist \in Seq(Client \X Nat) /\ Len(hist) \in Nat
    BY <1>1 DEF HistType
  <2>7. \A j \in 1 .. Len(hist) : hist[j] # <<c, n>>
    <3> SUFFICES ASSUME NEW j \in 1 .. Len(hist), hist[j] = <<c, n>> PROVE FALSE
      OBVIOUS
    <3>1. hist[j][1] = c /\ hist[j][2] = n
      OBVIOUS
    <3>2. ops[c][n].version = j - 1
      BY <1>1, <3>1 DEF HistInv
    <3> QED BY <2>5, <2>6, <3>2
  <2>8. <<c, n>> \notin Register!Range(hist)
    <3>1. DOMAIN hist = 1 .. Len(hist)
      BY <2>6
    <3> QED BY <2>7, <3>1 DEF Register!Range
  <2>9. n <= Len(ret[c]) => ret[c][n].err # "OK"
    <3>1. Len(ops[c]) \in Nat /\ Len(ret[c]) \in Nat
      BY <1>1 DEF ClerkType
    <3>2. n <= Len(ret[c]) => n \in 1 .. Len(ret[c])
      BY <3>1
    <3> QED BY <1>1, <2>5, <2>7, <3>2 DEF RetInv
  <2>10. Register!Perform(c, n)
    BY <1>2, <2>5, <2>8, <2>9 DEF Register!Perform
  <2> QED BY <2>10
<1> QED BY <1>3, <1>4, <1>5, <1>6

LEMMA ReturnReturns ==
  ASSUME NEW T, KvInv(T), NEW c \in Client, Return(c)
  PROVE  Register!Return(c)
<1> DEFINE n == Len(ops[c])
<1>1. KvType /\ PlainInv /\ ClerkType /\ BusyInv /\ ReplyInv(T) /\ HistType
  BY DEF KvInv, KvType, PlainInv, TableInv
<1>2. Busy(c)
  BY DEF Return
<1>3. PICK id \in CallId : id = CallOf(c) /\ Known(id) /\ thread[id].op = n
  BY <1>1, <1>2 DEF BusyInv
<1>4. PICK r : r = thread[id].res
  OBVIOUS
<1>5. Answer(T, id, r)
  BY <1>1, <1>3, <1>4 DEF Return, ReplyInv
<1>6. r \in Reply
  BY <1>3, <1>5, AnswerIs
<1>7. PICK q \in Reply : q = ClerkResult(c, r)
  BY <1>6, ResultIs
<1>8. /\ ret' = [ret EXCEPT ![c] = Append(ret[c], q)]
      /\ UNCHANGED <<hist, ops>>
  BY <1>3, <1>4, <1>7 DEF Return, histVars
<1>9. ~Register!Idle(c) /\ n = Len(ret[c]) + 1 /\ Len(ret[c]) \in Nat
  BY <1>1, <1>2, NotBusy
<1>10. ret \in [Client -> Seq(Reply)] /\ ret[c] \in Seq(Reply)
  BY <1>1 DEF ClerkType
<1>11. Len(ret'[c]) = n /\ ret'[c][n] = q
  <2>1. ret'[c] = Append(ret[c], q)
    BY <1>8, <1>10
  <2>2. Len(Append(ret[c], q)) = Len(ret[c]) + 1 /\ Append(ret[c], q)[Len(ret[c]) + 1] = q
    BY <1>10
  <2> QED BY <1>9, <2>1, <2>2
<1>12. PICK op \in OpRec : op = OpOf(id)
  BY <1>1, <1>3, OpIs
<1>13. op = ops[c][n] /\ Writer(id) = <<c, n>>
  BY <1>3, <1>12 DEF OpOf, Writer, CallOf
<1>14. /\ q.version = r.version /\ q.value = r.value
       /\ r.err # "ErrVersion" => q.err = r.err
       /\ r.err = "ErrVersion" => q.err \in {"ErrVersion", "ErrMaybe"}
  BY <1>6, <1>7, ResultIs
<1>15. op.kind \in {"get", "put"}
  BY <1>12 DEF OpRec
<1>16. CASE op.kind = "get"
  <2>1. \/ r.err = "ErrNoKey" /\ op.low = 0
        \/ /\ r.err = "OK" /\ r.version \in 1 .. Len(hist)
           /\ op.low <= r.version /\ r.value = hist[r.version]
    BY <1>3, <1>5, <1>12, <1>16, AnswerIs
  <2>2. Register!GetMayReturn(op, q)
    BY <1>14, <2>1 DEF Register!GetMayReturn
  <2> QED BY <1>8, <1>9, <1>11, <1>13, <1>16, <2>2 DEF Register!Return
<1>17. CASE op.kind = "put"
  <2>1. \/ r.err = "OK" /\ \E j \in 1 .. Len(hist) : hist[j] = <<c, n>>
        \/ r.err = "ErrNoKey" /\ op.low = 0 /\ op.version # 0
        \/ /\ r.err = "ErrVersion" /\ Len(hist) # 0
           /\ op.low # op.version \/ Len(hist) # op.version
    BY <1>3, <1>5, <1>12, <1>13, <1>17, AnswerIs
  <2>2. (\E j \in 1 .. Len(hist) : hist[j] = <<c, n>>) => <<c, n>> \in Register!Range(hist)
    <3>1. DOMAIN hist = 1 .. Len(hist)
      BY <1>1 DEF HistType
    <3> QED BY <3>1 DEF Register!Range
  <2>3. Len(hist) # 0 => hist # << >>
    OBVIOUS
  <2>4. Register!PutMayReturn(c, n, op, q)
    BY <1>14, <2>1, <2>2, <2>3 DEF Register!PutMayReturn
  <2> QED BY <1>8, <1>9, <1>11, <1>13, <1>17, <2>4 DEF Register!Return
<1> QED BY <1>15, <1>16, <1>17

LEMMA RefinementStep ==
  ASSUME Ind, [Next]_vars
  PROVE  [Register!Next]_(Register!vars)
<1>1. PICK T : KvInv(T)
  BY DEF Ind
<1>2. SUFFICES UNCHANGED <<hist, ops, ret>> \/ Register!Next
  BY DEF Register!vars
<1>3. CASE UNCHANGED vars
  BY <1>3 DEF vars, clerkVars, histVars
<1>4. CASE Next
  <2>1. CASE \E s \in Server :
               \/ \E voters \in SUBSET (Server \ {s}) : BecomeLeader(s, voters)
               \/ UpdateTermAndBecomeFollower(s)
               \/ Commit(s) \/ Restart(s)
               \/ \E t \in Server : AppendEntries(s, t)
    BY <2>1 DEF BecomeLeader, UpdateTermAndBecomeFollower, Commit, Restart, AppendEntries,
                clerkVars, histVars
  <2>2. CASE \E s \in Server : Reader(s)
    BY <1>1, <2>2, ReaderPerforms DEF Register!Next
  <2>3. CASE \E id \in CallId : Submit(id) \/ TimeAfter(id) \/ Finish(id) \/ GiveUp(id)
    BY <2>3 DEF Submit, TimeAfter, Finish, GiveUp, clerkVars, histVars
  <2>4. ASSUME NEW c \in Client, NEW r \in Requests[c], Begin(c, r.kind, r.version)
        PROVE  Register!Next
    <3>1. r.kind \in {"get", "put"} /\ r.version \in Nat
      BY RequestsAssumption
    <3> QED BY <1>1, <2>4, <3>1, BeginCalls DEF Register!Next
  <2>5. ASSUME NEW s \in Server, NEW t \in Server, InstallSnapshot(s, t)
        PROVE  UNCHANGED <<hist, ops, ret>>
    BY <2>5 DEF InstallSnapshot, clerkVars, histVars
  <2>6. CASE \E c \in Client : CallFails(c) \/ WrongLeader(c)
    BY <2>6 DEF CallFails, WrongLeader, histVars
  <2>7. ASSUME NEW c \in Client, Return(c) PROVE Register!Next
    BY <1>1, <2>7, ReturnReturns DEF Register!Next
  <2> QED BY <1>4, <2>1, <2>2, <2>3, <2>4, <2>5, <2>6, <2>7 DEF Next
<1> QED BY <1>3, <1>4

\* As long as no server takes over a snapshot older than what it has executed,
\* the clerks of the replicated service see the register of KvSpec, for any
\* number of servers, clients, elections, restarts, snapshots and retries: a
\* write takes effect at the moment a reader first executes its entry, at most
\* once, and what a Get or Put is told was true at some moment of its call
\* (client.go, server.go and rsm.go of kvraft1).
THEOREM LinearizableTheorem == InOrderSpec => Linearizable
<1>1. Init => Register!Init
  BY DEF Init, Register!Init
<1>2. Ind /\ [Next /\ NoRollback]_vars => [Register!Next]_(Register!vars)
  BY RefinementStep
<1> QED BY <1>1, <1>2, KvInvariant, PTL DEF InOrderSpec, Linearizable, Register!Spec

-----------------------------------------------------------------------------
(* A service that takes no snapshots.                                      *)

NoSnapshot == snapshot = [s \in Server |-> [table |-> EmptyTable, index |-> 0]]

LEMMA NoSnapshotStep ==
  ASSUME MaxRaftState = 0, NoSnapshot, [Next]_vars
  PROVE  NoSnapshot' /\ [Next /\ NoRollback]_vars
<1>1. \A s \in Server : snapshot[s].index = 0
  BY DEF NoSnapshot
<1>2. UNCHANGED snapshot
  <2>1. CASE UNCHANGED vars
    BY <2>1 DEF vars, rsmVars
  <2>2. CASE \E s \in Server :
               \/ \E voters \in SUBSET (Server \ {s}) : BecomeLeader(s, voters)
               \/ UpdateTermAndBecomeFollower(s)
               \/ Commit(s) \/ Restart(s)
               \/ \E t \in Server : AppendEntries(s, t)
    BY <2>2 DEF BecomeLeader, UpdateTermAndBecomeFollower, Commit, Restart, AppendEntries,
                rsmVars
  <2>3. ASSUME NEW s \in Server, Reader(s) PROVE UNCHANGED snapshot
    BY <2>3 DEF Reader
  <2>4. ASSUME NEW s \in Server, NEW t \in Server, InstallSnapshot(s, t)
        PROVE  UNCHANGED snapshot
    BY <1>1, <2>4 DEF InstallSnapshot
  <2>5. CASE \E id \in CallId : Submit(id) \/ TimeAfter(id) \/ Finish(id) \/ GiveUp(id)
    BY <2>5 DEF Submit, TimeAfter, Finish, GiveUp, rsmVars
  <2>6. CASE \E c \in Client :
               \/ \E r \in Requests[c] : Begin(c, r.kind, r.version)
               \/ CallFails(c) \/ WrongLeader(c) \/ Return(c)
    BY <2>6 DEF Begin, CallFails, WrongLeader, Return, rsmVars
  <2> QED BY <2>1, <2>2, <2>3, <2>4, <2>5, <2>6 DEF Next
<1>3. NoRollback
  BY <1>2 DEF NoRollback
<1> QED BY <1>2, <1>3 DEF NoSnapshot

\* A service that never takes a snapshot (maxraftstate -1: rsm.go compares it
\* with 0 before it calls Snapshot) needs no condition on its schedules: whatever
\* is lost, repeated or late, and whoever restarts, its replicas agree and its
\* clerks see the register of KvSpec.
THEOREM WithoutSnapshots ==
  ASSUME MaxRaftState = 0
  PROVE  Spec => []ReplicasAgree /\ Linearizable
<1>1. Init => NoSnapshot
  BY DEF Init, NoSnapshot
<1>2. NoSnapshot /\ [Next]_vars => NoSnapshot' /\ [Next /\ NoRollback]_vars
  BY NoSnapshotStep
<1>3. Spec => InOrderSpec
  BY <1>1, <1>2, PTL DEF Spec, InOrderSpec
<1> QED BY <1>3, ReplicasAgreeTheorem, LinearizableTheorem, PTL
=============================================================================
