----------------------------- MODULE LockProofs -----------------------------
(***************************************************************************)
(* Mutual exclusion of the lock, and that its log.Fatalf calls are         *)
(* unreachable, for any set of clients and any number of rounds.           *)
(*                                                                         *)
(* The argument: a Put can only change the table while its version is the  *)
(* table's.  Such a Put belongs to an operation that has not returned, and *)
(* it is either an acquiring one, and then the lock is free, or the        *)
(* releasing one of the holder.  So nothing in the network can take the    *)
(* lock from a client between Acquire's return and its next Release.       *)
(***************************************************************************)
EXTENDS Lock, TLAPS

\* The Put of a client that the table still awaits takes a free lock or
\* gives up the client's own.
PutState(c) ==
  \/ pc[c] = "acqPut" /\ putArgs[c].value = c /\ table.value = None
  \/ pc[c] = "relPut" /\ putArgs[c].value = None /\ table.value = c

Phases ==
  \A c \in Client :
    /\ op[c] = "get" <=> pc[c] \in {"acqGet", "relGet"}
    /\ op[c] = "put" <=> pc[c] \in {"acqPut", "relPut"}

TableInv == table.version = 0 => table.value = None

\* Calls in the network: never ahead of the table, and those that could still
\* succeed belong to a Put that has not returned.
RequestInv ==
  \A m \in putRequests :
    /\ m.id <= puts[m.client]
    /\ m.version <= table.version
    /\ m.version = table.version => Current(m)
    /\ Current(m) => /\ m.value = putArgs[m.client].value
                     /\ m.version = putArgs[m.client].version
                     /\ m.resend => resend[m.client]

PutInv ==
  \A c \in Client : op[c] = "put" =>
    /\ putArgs[c].version <= table.version
    /\ putArgs[c].version = table.version => PutState(c)

GetInv ==
  \A c \in Client : GetAnswered(c) =>
    /\ got[c].version <= table.version
    /\ got[c].version = table.version => got[c].value = table.value
    /\ got[c].value = c => table.value = c /\ got[c].version = table.version

\* The reply answers the client's current Put.
Answers(r) == op[r.client] = "put" /\ r.id = puts[r.client]

ReplyInv ==
  \A r \in putReplies :
    /\ r.id <= puts[r.client]
    /\ r.err # "ErrNoKey"
    /\ Answers(r) =>
         /\ putArgs[r.client].version < table.version
         /\ pc[r.client] = "acqPut" /\ r.err = "OK" => table.value = r.client
         /\ pc[r.client] = "relPut" /\ ~resend[r.client] => r.err = "OK"

\* While the first call of a release is on its way, the table waits for it.
ReleaseInv ==
  \A m \in putRequests :
    (Current(m) /\ pc[m.client] = "relPut" /\ ~resend[m.client]) =>
      m.version = table.version

LockInv ==
  /\ LockTypeOK /\ Phases /\ TableInv /\ RequestInv /\ PutInv /\ GetInv
  /\ ReplyInv /\ ReleaseInv /\ HolderIsRecorded /\ NoFatal

-----------------------------------------------------------------------------
\* The lock starts free, and nothing is in the network.
LEMMA InvInit == LockInit => LockInv
BY ClientAssumption
   DEF LockInit, KvInit, LockInv, LockTypeOK, KvTypeOK, Phases, TableInv,
       RequestInv, PutInv, GetInv, GetAnswered, ReplyInv, ReleaseInv,
       HolderIsRecorded, NoFatal, States, NoArgs, NoReply, Errs, PutRequest

\* The server answers a Get with what the table says at that moment.
LEMMA ServerGetInv ==
  ASSUME LockInv, NEW c \in Client, ServerGet(c), UNCHANGED <<pc, rounds>>
  PROVE  LockInv'
<1> USE DEF LockInv, ServerGet
<1>1. LockTypeOK'
  BY DEF LockTypeOK, KvTypeOK, GetReply, Errs
<1>2. (Phases /\ TableInv /\ RequestInv /\ PutInv)'
  BY DEF Phases, TableInv, RequestInv, PutInv, PutState, Current
<1>3. GetInv'
  BY ValueAssumption, ClientAssumption
     DEF GetInv, GetAnswered, GetReply, TableInv, LockTypeOK, KvTypeOK
<1>4. (ReplyInv /\ ReleaseInv /\ HolderIsRecorded /\ NoFatal)'
  BY DEF ReplyInv, Answers, ReleaseInv, Current, HolderIsRecorded, NoFatal
<1> QED BY <1>1, <1>2, <1>3, <1>4

\* A call of a Get that failed is repeated.
LEMMA RetryGetInv ==
  ASSUME LockInv, NEW c \in Client, RetryGet(c), UNCHANGED <<pc, rounds>>
  PROVE  LockInv'
<1> USE DEF LockInv, RetryGet
<1>1. LockTypeOK'
  BY DEF LockTypeOK, KvTypeOK, NoReply
<1>2. (Phases /\ TableInv /\ RequestInv /\ PutInv)'
  BY DEF Phases, TableInv, RequestInv, PutInv, PutState, Current
<1>3. GetInv'
  BY DEF GetInv, GetAnswered, LockTypeOK, KvTypeOK
<1>4. (ReplyInv /\ ReleaseInv /\ HolderIsRecorded /\ NoFatal)'
  BY DEF ReplyInv, Answers, ReleaseInv, Current, HolderIsRecorded, NoFatal
<1> QED BY <1>1, <1>2, <1>3, <1>4

\* The first call of a Put failed: the same arguments go out again.
LEMMA RetryPutInv ==
  ASSUME LockInv, NEW c \in Client, RetryPut(c), UNCHANGED <<pc, rounds>>
  PROVE  LockInv'
<1> USE DEF LockInv, RetryPut
<1>0. PutCall(c, puts[c], TRUE, putArgs[c]) \in PutRequest
  BY DEF PutCall, PutRequest, LockTypeOK, KvTypeOK
<1>1. LockTypeOK'
  BY <1>0 DEF LockTypeOK, KvTypeOK
<1>2. (Phases /\ TableInv /\ PutInv)'
  BY DEF Phases, TableInv, PutInv, PutState
<1>3. RequestInv'
  BY DEF RequestInv, Current, PutCall, PutInv, LockTypeOK, KvTypeOK
<1>4. (GetInv /\ HolderIsRecorded /\ NoFatal)'
  BY DEF GetInv, GetAnswered, HolderIsRecorded, NoFatal
<1>5. ReplyInv'
  BY DEF ReplyInv, Answers, LockTypeOK, KvTypeOK
<1>6. ReleaseInv'
  BY DEF ReleaseInv, Current, PutCall, LockTypeOK, KvTypeOK
<1> QED BY <1>1, <1>2, <1>3, <1>4, <1>5, <1>6

\* A client that is not in a Put begins a Get: its old calls are no longer
\* its own.  pc moves to a state of Get, or stays there.
LEMMA SendGetInv ==
  ASSUME LockInv, NEW c \in Client, NEW s \in {"acqGet", "relGet"},
         SendGet(c), op[c] # "put", GoTo(c, s), rounds' \in [Client -> Nat],
         UNCHANGED <<putArgs, resend, putReplies, results>>
  PROVE  LockInv'
<1> USE DEF LockInv, SendGet, GoTo
<1>1. LockTypeOK'
  BY DEF LockTypeOK, KvTypeOK, NoReply, States
<1>2. (Phases /\ TableInv)'
  BY DEF Phases, TableInv, LockTypeOK, KvTypeOK
<1>3. RequestInv'
  BY DEF RequestInv, Current, LockTypeOK, KvTypeOK, PutRequest
<1>4. PutInv'
  BY DEF PutInv, PutState, Phases, LockTypeOK, KvTypeOK
<1>5. GetInv'
  BY DEF GetInv, GetAnswered, LockTypeOK, KvTypeOK
<1>6. ReplyInv'
  BY DEF ReplyInv, Answers, LockTypeOK, KvTypeOK
<1>7. ReleaseInv'
  BY DEF ReleaseInv, Current, LockTypeOK, KvTypeOK, PutRequest
<1>8. (HolderIsRecorded /\ NoFatal)'
  BY DEF HolderIsRecorded, NoFatal, LockTypeOK
<1> QED BY <1>1, <1>2, <1>3, <1>4, <1>5, <1>6, <1>7, <1>8

\* A client whose Get was answered leaves Acquire or Release.
LEMMA LeaveInv ==
  ASSUME LockInv, NEW c \in Client, NEW s \in {"idle", "held"},
         Leave(c), op[c] # "put", GoTo(c, s),
         s = "held" => table.value = c,
         UNCHANGED <<putArgs, resend, putReplies, results, rounds>>
  PROVE  LockInv'
<1> USE DEF LockInv, Leave, GoTo
<1>1. LockTypeOK'
  BY DEF LockTypeOK, KvTypeOK, NoReply, States
<1>2. (Phases /\ TableInv)'
  BY DEF Phases, TableInv, LockTypeOK, KvTypeOK
<1>3. RequestInv'
  BY DEF RequestInv, Current, LockTypeOK, KvTypeOK, PutRequest
<1>4. PutInv'
  BY DEF PutInv, PutState, Phases, LockTypeOK, KvTypeOK
<1>5. GetInv'
  BY DEF GetInv, GetAnswered, LockTypeOK, KvTypeOK
<1>6. ReplyInv'
  BY DEF ReplyInv, Answers, LockTypeOK, KvTypeOK
<1>7. ReleaseInv'
  BY DEF ReleaseInv, Current, LockTypeOK, KvTypeOK, PutRequest
<1>8. (HolderIsRecorded /\ NoFatal)'
  BY DEF HolderIsRecorded, NoFatal, LockTypeOK
<1> QED BY <1>1, <1>2, <1>3, <1>4, <1>5, <1>6, <1>7, <1>8

\* The Put of a client begins after a Get that is answered.  Either the Get
\* is stale, and the Put will fail, or the table is as the Get saw it.
LEMMA SendPutInv ==
  ASSUME LockInv, NEW c \in Client, NEW s \in {"acqPut", "relPut"},
         NEW value \in Client \cup {None},
         GetAnswered(c), GoTo(c, s), SendPut(c, value, got[c].version),
         s = "acqPut" => value = c /\ got[c].value = None,
         s = "relPut" => value = None /\ got[c].value = c,
         UNCHANGED <<results, rounds>>
  PROVE  LockInv'
<1> USE DEF LockInv, SendPut, GoTo, GetAnswered
<1>0. PICK call \in PutRequest :
        /\ putRequests' = putRequests \cup {call}
        /\ call.client = c /\ call.id = puts[c] + 1 /\ call.resend = FALSE
        /\ call.value = value /\ call.version = got[c].version
  <2> DEFINE m == PutCall(c, puts[c] + 1, FALSE,
                          [value |-> value, version |-> got[c].version])
  <2>1. /\ m \in PutRequest
        /\ m.client = c /\ m.id = puts[c] + 1 /\ m.resend = FALSE
        /\ m.value = value /\ m.version = got[c].version
    BY ClientAssumption DEF PutCall, PutRequest, LockTypeOK, KvTypeOK
  <2>2. putRequests' = putRequests \cup {m}
    OBVIOUS
  <2> QED BY ONLY <2>1, <2>2
<1>1. LockTypeOK'
  BY <1>0, ClientAssumption
     DEF LockTypeOK, KvTypeOK, NoReply, States, PutRequest
<1>2. (Phases /\ TableInv)'
  BY DEF Phases, TableInv, LockTypeOK, KvTypeOK
<1>b. \A m \in putRequests : Current(m)' => Current(m) /\ m.client # c
  BY DEF RequestInv, Current, LockTypeOK, KvTypeOK, PutRequest
<1>c. \A m \in putRequests : Current(m) => Current(m)' /\ m.client # c
  BY DEF Current, LockTypeOK, KvTypeOK, PutRequest
<1>3. RequestInv'
  <2>1. ASSUME NEW m \in putRequests
        PROVE  /\ m.id <= puts'[m.client]
               /\ m.version <= table'.version
               /\ m.version = table'.version => Current(m)'
               /\ Current(m)' => /\ m.value = putArgs'[m.client].value
                                 /\ m.version = putArgs'[m.client].version
                                 /\ m.resend => resend'[m.client]
    BY <1>b, <1>c DEF RequestInv, LockTypeOK, KvTypeOK, PutRequest
  <2>2. /\ call.id <= puts'[c]
        /\ call.version <= table'.version
        /\ Current(call)'
        /\ call.value = putArgs'[c].value
        /\ call.version = putArgs'[c].version
    BY <1>0 DEF Current, GetInv, LockTypeOK, KvTypeOK
  <2> QED BY <1>0, <2>1, <2>2 DEF RequestInv
<1>4. PutInv'
  <2>1. (putArgs[c].version <= table.version)'
    BY DEF GetInv, LockTypeOK, KvTypeOK
  <2>2. (putArgs[c].version = table.version => PutState(c))'
    BY DEF GetInv, PutState, LockTypeOK, KvTypeOK
  <2>3. ASSUME NEW d \in Client, d # c, op'[d] = "put"
        PROVE  /\ putArgs'[d].version <= table'.version
               /\ putArgs'[d].version = table'.version => PutState(d)'
    BY <2>3 DEF PutInv, PutState, LockTypeOK, KvTypeOK
  <2> QED BY <2>1, <2>2, <2>3 DEF PutInv
<1>5. GetInv'
  BY DEF GetInv, LockTypeOK, KvTypeOK
<1>6. ReplyInv'
  BY DEF ReplyInv, Answers, LockTypeOK, KvTypeOK
<1>7. ReleaseInv'
  <2>1. ASSUME s = "relPut" PROVE call.version = table'.version
    BY <1>0, <2>1 DEF GetInv, LockTypeOK, KvTypeOK
  <2>2. ASSUME NEW m \in putRequests, Current(m)', pc'[m.client] = "relPut",
               ~resend'[m.client]
        PROVE  m.version = table'.version
    BY <1>b, <2>2 DEF ReleaseInv, LockTypeOK, KvTypeOK, PutRequest
  <2>3. pc'[c] = s
    BY DEF LockTypeOK
  <2> QED BY <1>0, <2>1, <2>2, <2>3 DEF ReleaseInv
<1>8. (HolderIsRecorded /\ NoFatal)'
  BY DEF HolderIsRecorded, NoFatal, LockTypeOK
<1> QED BY <1>1, <1>2, <1>3, <1>4, <1>5, <1>6, <1>7, <1>8

\* The Put of a client returns.  Its version is behind the table's, so none
\* of its calls that are still in the network can succeed any more.
LEMMA PutReturnsInv ==
  ASSUME LockInv, NEW c \in Client, NEW r \in putReplies, PutReturns(c, r)
  PROVE  LockInv'
<1> DEFINE err == PutResult(r)
           next == IF pc[c] = "acqPut" THEN AcquireOutcome(err)
                   ELSE ReleaseOutcome(err)
<1> USE DEF LockInv
<1>1. /\ pc[c] \in {"acqPut", "relPut"} /\ op[c] = "put" /\ Answers(r)
      /\ r.client = c /\ r.resend = resend[c]
  BY DEF PutReturns, PutAnswered, Answers
<1>2. /\ putArgs[c].version < table.version
      /\ r.err \in {"OK", "ErrVersion"}
      /\ pc[c] = "acqPut" /\ r.err = "OK" => table.value = c
      /\ pc[c] = "relPut" /\ ~resend[c] => r.err = "OK"
  BY <1>1 DEF ReplyInv, LockTypeOK, KvTypeOK, Errs
<1>3. /\ next \in {"held", "acqGet", "relGet", "idle"}
      /\ next = "held" => table.value = c
  BY <1>1, <1>2 DEF PutResult, AcquireOutcome, ReleaseOutcome
<1>4. PICK s \in {"held", "acqGet", "relGet", "idle"} :
        /\ s = "held" => table.value = c
        /\ pc' = [pc EXCEPT ![c] = s]
        /\ op' = [op EXCEPT ![c] = IF s \in {"acqGet", "relGet"}
                                   THEN "get" ELSE "none"]
  BY <1>3 DEF PutReturns, GoTo, SendGet, Leave
<1>5. /\ got' = [got EXCEPT ![c] = NoReply]
      /\ putReplies' = {x \in putReplies : x.client # c}
      /\ putArgs' = [putArgs EXCEPT ![c] = NoArgs]
      /\ resend' = [resend EXCEPT ![c] = FALSE]
      /\ UNCHANGED <<table, puts, putRequests, performed, results, rounds>>
  BY DEF PutReturns, SendGet, Leave, ReturnPut
<1>6. LockTypeOK'
  BY <1>4, <1>5 DEF LockTypeOK, KvTypeOK, NoReply, NoArgs, States
<1>7. (Phases /\ TableInv)'
  BY <1>4, <1>5 DEF Phases, TableInv, LockTypeOK, KvTypeOK
<1>8. \A m \in putRequests : Current(m)' => Current(m) /\ m.client # c
  BY <1>4, <1>5 DEF Current, LockTypeOK, KvTypeOK, PutRequest
<1>9. \A m \in putRequests : m.version = table.version =>
        Current(m)' /\ m.client # c
  BY <1>1, <1>2, <1>4, <1>5
     DEF RequestInv, Current, LockTypeOK, KvTypeOK, PutRequest
<1>10. RequestInv'
  BY <1>5, <1>8, <1>9 DEF RequestInv, LockTypeOK, KvTypeOK, PutRequest
<1>11. PutInv'
  BY <1>4, <1>5 DEF PutInv, PutState, LockTypeOK, KvTypeOK
<1>12. GetInv'
  BY <1>4, <1>5 DEF GetInv, GetAnswered, LockTypeOK, KvTypeOK
<1>13. ReplyInv'
  BY <1>4, <1>5 DEF ReplyInv, Answers, LockTypeOK, KvTypeOK
<1>14. ReleaseInv'
  BY <1>4, <1>5, <1>8 DEF ReleaseInv, LockTypeOK, KvTypeOK, PutRequest
<1>15. (HolderIsRecorded /\ NoFatal)'
  BY <1>4, <1>5 DEF HolderIsRecorded, NoFatal, LockTypeOK
<1> QED BY <1>6, <1>7, <1>10, <1>11, <1>12, <1>13, <1>14, <1>15

\* The server executes a call that is too old: only a reply comes of it.
LEMMA ServerPutFails ==
  ASSUME LockInv, NEW m \in putRequests, m.version # table.version,
         ServerPut(m), UNCHANGED <<pc, rounds>>
  PROVE  LockInv'
<1> USE DEF LockInv
<1>1. m \in PutRequest
  BY DEF LockTypeOK, KvTypeOK
<1>2. m.version < table.version /\ PutErr(m.version) = "ErrVersion"
  <2>1. m.version \in Nat /\ table.version \in Nat /\ m.version <= table.version
    BY <1>1 DEF RequestInv, LockTypeOK, KvTypeOK, PutRequest
  <2>2. m.version < table.version /\ table.version # 0
    BY <2>1
  <2> QED BY <2>2 DEF PutErr
<1> DEFINE reply == [client |-> m.client, id |-> m.id, resend |-> m.resend,
                     err |-> "ErrVersion"]
<1>3. /\ UNCHANGED <<table, op, got, putArgs, resend, puts, performed, results,
                     pc, rounds>>
      /\ putRequests' \subseteq putRequests
      /\ putReplies' \subseteq putReplies \cup (IF Current(m) THEN {reply} ELSE {})
  <2>1. putReplies' = IF Current(m) THEN putReplies \cup {reply}
                      ELSE putReplies
    BY <1>2 DEF ServerPut
  <2>2. putRequests' \subseteq putRequests
    BY DEF ServerPut
  <2>3. UNCHANGED <<table, op, got, putArgs, resend, puts, performed, results,
                    pc, rounds>>
    BY <1>2 DEF ServerPut
  <2> QED BY <2>1, <2>2, <2>3
<1>4. reply \in [client : Client, id : Nat, resend : BOOLEAN, err : Errs]
  BY <1>1 DEF PutRequest, Errs
<1>5. LockTypeOK'
  BY <1>3, <1>4 DEF LockTypeOK, KvTypeOK
<1>6. (Phases /\ TableInv /\ PutInv /\ GetInv /\ HolderIsRecorded /\ NoFatal)'
  BY <1>3 DEF Phases, TableInv, PutInv, PutState, GetInv, GetAnswered,
              HolderIsRecorded, NoFatal
<1>7. (RequestInv /\ ReleaseInv)'
  BY <1>3 DEF RequestInv, ReleaseInv, Current
<1>8. ReplyInv'
  <2>1. ASSUME Current(m)
        PROVE  /\ m.id <= puts[m.client]
               /\ putArgs[m.client].version < table.version
               /\ ~(pc[m.client] = "relPut" /\ ~resend[m.client])
    BY <1>1, <1>2, <2>1 DEF RequestInv, ReleaseInv, LockTypeOK, KvTypeOK,
                            PutRequest
  <2> QED BY <1>3, <2>1 DEF ReplyInv, Answers, Current
<1> QED BY <1>5, <1>6, <1>7, <1>8

\* The server executes a call with the table's version.  It belongs to a Put
\* that has not returned, so it takes a free lock or releases the caller's
\* own, and everybody else's knowledge of the table is out of date.
LEMMA ServerPutSucceeds ==
  ASSUME LockInv, NEW m \in putRequests, m.version = table.version,
         ServerPut(m), UNCHANGED <<pc, rounds>>
  PROVE  LockInv'
<1> USE DEF LockInv
<1>1. m \in PutRequest /\ m.client \in Client
  BY DEF LockTypeOK, KvTypeOK, PutRequest
<1> DEFINE c == m.client
<1>2. PutErr(m.version) = "OK"
  BY DEF PutErr
<1>3. /\ Current(m) /\ op[c] = "put" /\ m.id = puts[c]
      /\ m.value = putArgs[c].value /\ m.version = putArgs[c].version
      /\ PutState(c)
  BY <1>1 DEF RequestInv, PutInv, Current
<1> DEFINE reply == [client |-> c, id |-> m.id, resend |-> m.resend,
                     err |-> "OK"]
<1>4. /\ table' = [value |-> m.value, version |-> table.version + 1]
      /\ performed' = performed \cup {<<c, m.id>>}
      /\ putRequests' = IF m.resend THEN putRequests ELSE putRequests \ {m}
      /\ putReplies' = putReplies \cup {reply}
      /\ UNCHANGED <<op, got, putArgs, resend, puts, results, pc, rounds>>
  BY <1>2, <1>3 DEF ServerPut
<1>5. /\ table'.version = table.version + 1 /\ table'.value = m.value
      /\ table.version \in Nat /\ putRequests' \subseteq putRequests
  BY <1>4 DEF LockTypeOK, KvTypeOK
<1>6. \/ /\ pc[c] = "acqPut" /\ table.value = None /\ table'.value = c
      \/ /\ pc[c] = "relPut" /\ table.value = c /\ table'.value = None
  BY <1>3, <1>5 DEF PutState
<1>7. LockTypeOK'
  <2>1. reply \in [client : Client, id : Nat, resend : BOOLEAN, err : Errs]
    BY <1>1 DEF PutRequest, Errs
  <2>2. table' \in [value : Value \cup {None}, version : Nat]
    BY <1>1, <1>4 DEF PutRequest, LockTypeOK, KvTypeOK
  <2>3. <<c, m.id>> \in Client \X Nat
    BY <1>1 DEF PutRequest
  <2> HIDE DEF reply
  <2> QED BY <1>4, <1>5, <2>1, <2>2, <2>3 DEF LockTypeOK, KvTypeOK
<1>8. (Phases /\ TableInv /\ NoFatal)'
  BY <1>4, <1>5 DEF Phases, TableInv, NoFatal
<1>9. RequestInv'
  <2> SUFFICES ASSUME NEW x \in putRequests
               PROVE  /\ x.id <= puts[x.client]
                      /\ x.version <= table'.version
                      /\ x.version # table'.version
                      /\ Current(x) =>
                           /\ x.value = putArgs[x.client].value
                           /\ x.version = putArgs[x.client].version
                           /\ x.resend => resend[x.client]
    BY <1>4, <1>5 DEF RequestInv, Current
  <2> QED BY <1>5 DEF RequestInv, LockTypeOK, KvTypeOK, PutRequest
<1>10. PutInv'
  BY <1>4, <1>5 DEF PutInv, LockTypeOK, KvTypeOK
<1>11. GetInv'
  <2> SUFFICES ASSUME NEW d \in Client, GetAnswered(d)
               PROVE  /\ got[d].version <= table'.version
                      /\ got[d].version # table'.version
                      /\ got[d].value # d
    BY <1>4 DEF GetInv, GetAnswered
  <2>1. d # c
    BY <1>3 DEF GetAnswered
  <2> QED BY <1>5, <1>6, <2>1, ValueAssumption, ClientAssumption
          DEF GetInv, LockTypeOK, KvTypeOK
<1>12. ReplyInv'
  <2>1. ASSUME NEW x \in putReplies
        PROVE  /\ x.id <= puts[x.client]
               /\ x.err # "ErrNoKey"
               /\ Answers(x) =>
                    /\ putArgs[x.client].version < table'.version
                    /\ pc[x.client] = "acqPut" /\ x.err = "OK" =>
                         table'.value = x.client
                    /\ pc[x.client] = "relPut" /\ ~resend[x.client] =>
                         x.err = "OK"
    <3>1. x.client \in Client
      BY DEF LockTypeOK, KvTypeOK
    <3>2. Answers(x) => x.client # c
      BY <1>3, <1>5 DEF ReplyInv, LockTypeOK, KvTypeOK
    <3> QED BY <1>5, <1>6, <3>1, <3>2, ValueAssumption, ClientAssumption
            DEF ReplyInv, LockTypeOK, KvTypeOK
  <2>2. /\ reply.client = c /\ reply.id = puts[c] /\ reply.err = "OK"
        /\ putArgs[c].version < table'.version
        /\ pc[c] = "acqPut" => table'.value = c
    <3>1. reply.client = c /\ reply.id = puts[c] /\ reply.err = "OK"
      BY <1>3
    <3>2. putArgs[c].version = table.version
      BY <1>3
    <3>3. putArgs[c].version < table'.version
      BY <1>5, <3>2
    <3>4. pc[c] = "acqPut" => table'.value = c
      BY <1>6
    <3> QED BY <3>1, <3>3, <3>4
  <2>3. reply.id <= puts[reply.client]
    BY <1>1, <2>2 DEF LockTypeOK, KvTypeOK
  <2> HIDE DEF reply
  <2> QED BY <1>4, <2>1, <2>2, <2>3 DEF ReplyInv, Answers
<1>13. ReleaseInv'
  <2> SUFFICES ASSUME NEW x \in putRequests', Current(x),
                      pc[x.client] = "relPut", ~resend[x.client]
               PROVE  FALSE
    BY <1>4 DEF ReleaseInv, Current
  <2>1. x \in PutRequest /\ x \in putRequests
    BY <1>5 DEF LockTypeOK, KvTypeOK
  <2>2. x.version = table.version /\ PutState(x.client)
    BY <2>1 DEF ReleaseInv, RequestInv, PutInv, Current, PutRequest
  <2>3. x.client = c
    BY <1>6, <2>1, <2>2, ValueAssumption, ClientAssumption
       DEF PutState, PutRequest
  <2>4. x.id = m.id /\ x.value = m.value /\ x.version = m.version
    BY <1>3, <2>1, <2>3 DEF Current, RequestInv
  <2>5. x.resend = FALSE /\ m.resend = FALSE
    BY <1>1, <1>3, <2>1, <2>3 DEF RequestInv, PutRequest, LockTypeOK, KvTypeOK
  <2>6. x = m
    BY <1>1, <2>1, <2>3, <2>4, <2>5 DEF PutRequest
  <2> QED BY <1>4, <2>5, <2>6
<1>14. HolderIsRecorded'
  BY <1>1, <1>4, <1>6, ValueAssumption, ClientAssumption
     DEF HolderIsRecorded, LockTypeOK
<1> QED BY <1>7, <1>8, <1>9, <1>10, <1>11, <1>12, <1>13, <1>14

\* The inductive step.
LEMMA InvNext == LockInv /\ [LockNext]_lockVars => LockInv'
<1> SUFFICES ASSUME LockInv, [LockNext]_lockVars PROVE LockInv'
  OBVIOUS
<1>1. ASSUME NEW c \in Client, ServerGet(c), UNCHANGED <<pc, rounds>>
      PROVE  LockInv'
  BY <1>1, ServerGetInv
<1>2. ASSUME NEW c \in Client, RetryGet(c), UNCHANGED <<pc, rounds>>
      PROVE  LockInv'
  BY <1>2, RetryGetInv
<1>3. ASSUME NEW c \in Client, RetryPut(c), UNCHANGED <<pc, rounds>>
      PROVE  LockInv'
  BY <1>3, RetryPutInv
<1>4. ASSUME NEW m \in putRequests, ServerPut(m), UNCHANGED <<pc, rounds>>
      PROVE  LockInv'
  BY <1>4, ServerPutFails, ServerPutSucceeds
<1>5. ASSUME NEW c \in Client, Acquire(c) PROVE LockInv'
  <2>1. op[c] # "put" /\ rounds' \in [Client -> Nat]
    BY <1>5 DEF Acquire, LockInv, Phases, LockTypeOK
  <2> QED BY <1>5, <2>1, SendGetInv DEF Acquire
<1>6. ASSUME NEW c \in Client, AcquireFree(c) PROVE LockInv'
  BY <1>6, SendPutInv DEF AcquireFree
<1>7. ASSUME NEW c \in Client, AcquireOwn(c) PROVE LockInv'
  <2>1. op[c] # "put" /\ table.value = c
    BY <1>7 DEF AcquireOwn, GetAnswered, LockInv, GetInv
  <2> QED BY <1>7, <2>1, LeaveInv DEF AcquireOwn
<1>8. ASSUME NEW c \in Client, AcquireBusy(c) PROVE LockInv'
  <2>1. op[c] # "put" /\ rounds' \in [Client -> Nat] /\ GoTo(c, "acqGet")
    BY <1>8 DEF AcquireBusy, GetAnswered, GoTo, LockInv, LockTypeOK
  <2> QED BY <1>8, <2>1, SendGetInv DEF AcquireBusy
<1>9. ASSUME NEW c \in Client, Release(c) PROVE LockInv'
  <2>1. op[c] # "put" /\ rounds' \in [Client -> Nat]
    BY <1>9 DEF Release, LockInv, Phases, LockTypeOK
  <2> QED BY <1>9, <2>1, SendGetInv DEF Release
<1>10. ASSUME NEW c \in Client, ReleaseNotOwn(c) PROVE LockInv'
  <2>1. op[c] # "put"
    BY <1>10 DEF ReleaseNotOwn, GetAnswered
  <2> QED BY <1>10, <2>1, LeaveInv DEF ReleaseNotOwn
<1>11. ASSUME NEW c \in Client, ReleaseOwn(c) PROVE LockInv'
  BY <1>11, SendPutInv DEF ReleaseOwn
<1>12. ASSUME NEW c \in Client, NEW r \in putReplies, PutReturns(c, r)
       PROVE  LockInv'
  BY <1>12, PutReturnsInv
<1>13. CASE UNCHANGED lockVars
  BY <1>13
     DEF lockVars, kvVars, LockInv, LockTypeOK, KvTypeOK, Phases, TableInv,
         RequestInv, PutInv, PutState, GetInv, GetAnswered, ReplyInv, Answers,
         ReleaseInv, Current, HolderIsRecorded, NoFatal
<1> QED
  BY <1>1, <1>2, <1>3, <1>4, <1>5, <1>6, <1>7, <1>8, <1>9, <1>10, <1>11,
     <1>12, <1>13
     DEF LockNext, Network

\* The invariant holds in every reachable state.
THEOREM LockInvariant == LockSpec => []LockInv
<1> QED BY InvInit, InvNext, PTL DEF LockSpec

\* The table, the clerks and the calls of the lock keep their types: above
\* all every Get that is answered carries an Err (kvsrv1/server.go Get).
THEOREM LockTypeCorrect == LockSpec => []LockTypeOK
<1>1. LockInv => LockTypeOK
  BY DEF LockInv
<1> QED BY <1>1, LockInvariant, PTL

\* Acquire (kvsrv1/lock/lock.go) returns to one client at a time, for any
\* number of clients and any loss, delay and repetition of calls.
THEOREM LockIsExclusive == LockSpec => []MutualExclusion
<1>1. LockInv => MutualExclusion
  BY DEF LockInv, HolderIsRecorded, MutualExclusion
<1> QED BY <1>1, LockInvariant, PTL

\* The log.Fatalf calls of Acquire and Release are unreachable.
THEOREM LockNeverFatal == LockSpec => []NoFatal
<1>1. LockInv => NoFatal
  BY DEF LockInv
<1> QED BY <1>1, LockInvariant, PTL
=============================================================================
