----------------------------- MODULE ClerkProofs ----------------------------
(***************************************************************************)
(* What Clerk.Put promises, and that no Put is performed twice, for any    *)
(* set of clients and any number of Puts, on a network that loses replies, *)
(* delays calls for ever and executes resent calls again.                  *)
(*                                                                         *)
(* The argument: all calls of one Put name the same version, and the table *)
(* is past it once one of them has succeeded.  The clerk reports           *)
(* ErrVersion only when it has made one call; the network executes that    *)
(* call once, and so it has nothing left that could still succeed.         *)
(***************************************************************************)
EXTENDS KvClerk, FiniteSetTheorems, TLAPS

\* The call m, and the reply r, are of the n-th Put of client c.
IsOf(x, c, n) == x.client = c /\ x.id = n

\* The Put that client c is in, if it is in one, is its n-th.
InPut(c, n) == op[c] = "put" /\ puts[c] = n

\* Calls in the network.
RequestInv ==
  \A m \in putRequests :
    /\ m.id <= puts[m.client]
    /\ <<m.client, m.id>> \in performed => m.version < table.version
    /\ InPut(m.client, m.id) =>
         /\ m.version = putArgs[m.client].version
         /\ m.value = putArgs[m.client].value
         /\ m.resend => resend[m.client]

\* All calls of a Put name the same version, also when the Put has returned.
SameVersion ==
  \A m, q \in putRequests : IsOf(q, m.client, m.id) => q.version = m.version

\* Puts that were performed.
PerformedInv ==
  /\ \A c \in Client, n \in Nat : <<c, n>> \in performed =>
       /\ n <= puts[c]
       /\ InPut(c, n) => putArgs[c].version < table.version
  /\ IsFiniteSet(performed)

\* A Put whose first call has not failed: the call is in the network, and
\* then it was not performed and not answered, or it has been executed, and
\* then the reply says whether the Put was performed.
FirstCallInv ==
  \A c \in Client : (op[c] = "put" /\ ~resend[c]) =>
    /\ \A m \in putRequests : IsOf(m, c, puts[c]) =>
         /\ <<c, puts[c]>> \notin performed
         /\ \A r \in putReplies : ~IsOf(r, c, puts[c])
    /\ \A r \in putReplies : IsOf(r, c, puts[c]) =>
         (r.err = "OK" <=> <<c, puts[c]>> \in performed)

ReplyInv ==
  \A r \in putReplies :
    /\ r.id <= puts[r.client]
    /\ r.err = "OK" => <<r.client, r.id>> \in performed

\* A Put that returned ErrVersion is over: nothing of it is left anywhere.
ResultInv ==
  \A x \in results :
    /\ x[2] <= puts[x[1]]
    /\ x[3] = "OK" => <<x[1], x[2]>> \in performed
    /\ x[3] = "ErrVersion" =>
         /\ <<x[1], x[2]>> \notin performed
         /\ \A m \in putRequests : ~IsOf(m, x[1], x[2])
         /\ ~InPut(x[1], x[2])

ClerkInv ==
  /\ KvTypeOK /\ RequestInv /\ SameVersion /\ PerformedInv /\ FirstCallInv
  /\ ReplyInv /\ ResultInv /\ PerformedOnce

-----------------------------------------------------------------------------
\* Nothing has been called.
LEMMA ClerkInit == KvInit => ClerkInv
<1> SUFFICES ASSUME KvInit PROVE ClerkInv
  OBVIOUS
<1>1. KvTypeOK
  BY DEF KvInit, KvTypeOK, NoArgs, NoReply, Errs
<1>2. RequestInv /\ SameVersion /\ FirstCallInv /\ ReplyInv /\ ResultInv
  BY DEF KvInit, RequestInv, SameVersion, FirstCallInv, ReplyInv, ResultInv
<1>3. PerformedInv /\ PerformedOnce
  BY FS_EmptySet DEF KvInit, PerformedInv, PerformedOnce
<1> QED BY <1>1, <1>2, <1>3 DEF ClerkInv

\* Steps of a Get: no Put begins, ends, or is executed.
LEMMA GetSteps ==
  ASSUME ClerkInv, NEW c \in Client,
         ServerGet(c) \/ RetryGet(c) \/ Get(c) \/ EndGet(c)
  PROVE  ClerkInv'
<1>1. UNCHANGED <<table, putArgs, resend, puts, putRequests, putReplies, performed,
                  results>>
  BY DEF ServerGet, RetryGet, Get, EndGet, SendGet, Leave
<1>2. KvTypeOK'
  <2>1. op' \in [Client -> {"none", "get", "put"}]
    BY DEF ClerkInv, KvTypeOK, ServerGet, RetryGet, Get, EndGet, SendGet, Leave
  <2>2. NoReply \in [err : Errs \cup {"none"}, value : Value \cup {None}, version : Nat]
    BY DEF NoReply
  <2>3. GetReply \in [err : Errs \cup {"none"}, value : Value \cup {None}, version : Nat]
    BY DEF ClerkInv, KvTypeOK, GetReply, Errs
  <2>4. got' = [got EXCEPT ![c] = NoReply] \/ got' = [got EXCEPT ![c] = GetReply]
    BY DEF ServerGet, RetryGet, Get, EndGet, SendGet, Leave
  <2>5. got' \in [Client -> [err : Errs \cup {"none"}, value : Value \cup {None},
                             version : Nat]]
    BY <2>2, <2>3, <2>4 DEF ClerkInv, KvTypeOK
  <2> QED BY <1>1, <2>1, <2>5 DEF ClerkInv, KvTypeOK
<1>3. \A d \in Client : op'[d] = "put" <=> op[d] = "put"
  BY DEF ClerkInv, KvTypeOK, ServerGet, RetryGet, Get, EndGet, SendGet, Leave,
         GetAnswered
<1>4. RequestInv'
  BY <1>1, <1>3 DEF ClerkInv, KvTypeOK, PutRequest, RequestInv, InPut
<1>5. PerformedInv' /\ PerformedOnce'
  BY <1>1, <1>3 DEF ClerkInv, PerformedInv, PerformedOnce, InPut
<1>6. FirstCallInv' /\ ReplyInv' /\ SameVersion'
  BY <1>1, <1>3 DEF ClerkInv, FirstCallInv, ReplyInv, SameVersion, IsOf
<1>7. ResultInv'
  BY <1>1, <1>3 DEF ClerkInv, KvTypeOK, ResultInv, InPut, IsOf
<1> QED BY <1>2, <1>4, <1>5, <1>6, <1>7 DEF ClerkInv

\* A Put begins, with a number of its own.
LEMMA PutBegins ==
  ASSUME ClerkInv, NEW c \in Client, NEW value \in Value, NEW version \in Nat,
         Put(c, value, version)
  PROVE  ClerkInv'
<1> DEFINE n == puts[c] + 1
           call == PutCall(c, n, FALSE, [value |-> value, version |-> version])
<1>1. /\ op' = [op EXCEPT ![c] = "put"]
      /\ putArgs' = [putArgs EXCEPT ![c] = [value |-> value, version |-> version]]
      /\ resend' = [resend EXCEPT ![c] = FALSE]
      /\ puts' = [puts EXCEPT ![c] = n]
      /\ putRequests' = putRequests \cup {call}
      /\ got' = [got EXCEPT ![c] = NoReply]
      /\ UNCHANGED <<table, putReplies, performed, results>>
  BY DEF Put, SendPut
<1>2. /\ call \in PutRequest /\ call.client = c /\ call.id = n
      /\ call.resend = FALSE /\ call.value = value /\ call.version = version
  BY DEF ClerkInv, KvTypeOK, PutCall, PutRequest
<1> HIDE DEF call
<1>3. KvTypeOK'
  BY <1>1, <1>2 DEF ClerkInv, KvTypeOK, NoReply, Errs
<1>4. /\ <<c, n>> \notin performed
      /\ \A m \in putRequests : ~IsOf(m, c, n)
      /\ \A r \in putReplies : ~IsOf(r, c, n)
      /\ \A x \in results : ~(x[1] = c /\ x[2] = n)
  BY DEF ClerkInv, KvTypeOK, PutRequest, PerformedInv, RequestInv, ReplyInv, ResultInv,
         IsOf
<1>5. \A d \in Client : /\ puts[d] \in Nat /\ puts'[d] \in Nat /\ puts[d] <= puts'[d]
                        /\ d # c => puts'[d] = puts[d]
                        /\ d = c => puts'[d] = n
  BY <1>1 DEF ClerkInv, KvTypeOK
<1>6. \A d \in Client, k \in Nat : InPut(d, k)' <=> IF d = c THEN k = n ELSE InPut(d, k)
  BY <1>1 DEF ClerkInv, KvTypeOK, InPut
<1>7. RequestInv'
  <2> SUFFICES ASSUME NEW m \in putRequests' PROVE RequestInv!(m)'
    BY DEF RequestInv
  <2>1. CASE m = call
    <3>1. /\ m.client = c /\ m.id = n /\ m.resend = FALSE /\ m.value = value
          /\ m.version = version
      BY <1>2, <2>1
    <3>2. /\ putArgs'[c].version = version /\ putArgs'[c].value = value
          /\ performed' = performed /\ puts'[c] = n
      BY <1>1 DEF ClerkInv, KvTypeOK
    <3>3. n <= n
      BY <1>5
    <3> QED BY <1>4, <3>1, <3>2, <3>3
  <2>2. CASE m \in putRequests
    <3>1. m.client \in Client /\ m.id \in Nat /\ ~IsOf(m, c, n)
      BY <1>4, <2>2 DEF ClerkInv, KvTypeOK, PutRequest
    <3>2. RequestInv!(m)
      BY <2>2 DEF ClerkInv, RequestInv
    <3> QED BY <1>1, <1>5, <1>6, <3>1, <3>2 DEF ClerkInv, KvTypeOK, IsOf
  <2> QED BY <1>1, <2>1, <2>2
<1>8. PerformedInv' /\ PerformedOnce'
  BY <1>1, <1>4, <1>5, <1>6 DEF ClerkInv, KvTypeOK, PerformedInv, PerformedOnce
<1>9. FirstCallInv'
  <2> SUFFICES ASSUME NEW d \in Client PROVE FirstCallInv!(d)'
    BY DEF FirstCallInv
  <2>1. CASE d = c
    BY <1>1, <1>4, <1>5, <2>1 DEF IsOf
  <2>2. CASE d # c
    <3>1. op'[d] = op[d] /\ resend'[d] = resend[d] /\ puts'[d] = puts[d]
      BY <1>1, <2>2 DEF ClerkInv, KvTypeOK
    <3>2. FirstCallInv!(d)
      BY DEF ClerkInv, FirstCallInv
    <3>3. \A m \in putRequests' : IsOf(m, d, puts[d]) => m \in putRequests
      BY <1>1, <1>2, <2>2 DEF IsOf
    <3>4. putReplies' = putReplies /\ performed' = performed
      BY <1>1
    <3> QED BY <3>1, <3>2, <3>3, <3>4
  <2> QED BY <2>1, <2>2
<1>10. ReplyInv'
  <2> SUFFICES ASSUME NEW r \in putReplies PROVE ReplyInv!(r)'
    BY <1>1 DEF ReplyInv
  <2>1. r.client \in Client /\ r.id \in Nat /\ ReplyInv!(r)
    BY DEF ClerkInv, KvTypeOK, ReplyInv
  <2>2. r.id <= puts'[r.client]
    BY <1>5, <2>1
  <2> QED BY <1>1, <2>1, <2>2
<1>11. ResultInv'
  <2> SUFFICES ASSUME NEW x \in results PROVE ResultInv!(x)'
    BY <1>1 DEF ResultInv
  <2>1. x[1] \in Client /\ x[2] \in Nat /\ ~(x[1] = c /\ x[2] = n)
    BY <1>4 DEF ClerkInv, KvTypeOK
  <2>2. ResultInv!(x)
    BY DEF ClerkInv, ResultInv
  <2>3. ~IsOf(call, x[1], x[2])
    BY <1>2, <2>1 DEF IsOf
  <2>4. InPut(x[1], x[2])' <=> InPut(x[1], x[2]) /\ x[1] # c
    BY <1>6, <2>1
  <2>5. x[2] <= puts'[x[1]]
    BY <1>5, <2>1, <2>2
  <2> QED BY <1>1, <2>2, <2>3, <2>4, <2>5
<1>12. SameVersion'
  BY <1>1, <1>2, <1>4 DEF ClerkInv, SameVersion, IsOf
<1> QED BY <1>3, <1>7, <1>8, <1>9, <1>10, <1>11, <1>12 DEF ClerkInv

\* The first call failed: the same Put goes out again, any number of times.
LEMMA PutResent ==
  ASSUME ClerkInv, NEW c \in Client, RetryPut(c)
  PROVE  ClerkInv'
<1> DEFINE n == puts[c]
           call == PutCall(c, n, TRUE, putArgs[c])
<1>1. /\ op[c] = "put" /\ resend' = [resend EXCEPT ![c] = TRUE]
      /\ putRequests' = putRequests \cup {call}
      /\ UNCHANGED <<table, op, got, putArgs, puts, putReplies, performed, results>>
  BY DEF RetryPut
<1>2. /\ call \in PutRequest /\ call.client = c /\ call.id = n
      /\ call.value = putArgs[c].value /\ call.version = putArgs[c].version
  BY DEF ClerkInv, KvTypeOK, PutCall, PutRequest
<1> HIDE DEF call
<1>3. KvTypeOK'
  BY <1>1, <1>2 DEF ClerkInv, KvTypeOK
<1>4. n \in Nat /\ n <= n
  BY DEF ClerkInv, KvTypeOK
<1>5. \A d, k : InPut(d, k)' <=> InPut(d, k)
  BY <1>1 DEF InPut
<1>6. resend'[c] /\ \A d \in Client : resend[d] => resend'[d]
  BY <1>1 DEF ClerkInv, KvTypeOK
<1>7. RequestInv'
  <2> SUFFICES ASSUME NEW m \in putRequests' PROVE RequestInv!(m)'
    BY DEF RequestInv
  <2>1. CASE m = call
    <3>1. <<c, n>> \in performed => putArgs[c].version < table.version
      BY <1>1, <1>4 DEF ClerkInv, PerformedInv, InPut
    <3> QED BY <1>1, <1>2, <1>4, <1>6, <2>1, <3>1
  <2>2. CASE m \in putRequests
    <3>1. m.client \in Client
      BY <2>2 DEF ClerkInv, KvTypeOK, PutRequest
    <3>2. RequestInv!(m)
      BY <2>2 DEF ClerkInv, RequestInv
    <3> QED BY <1>1, <1>5, <1>6, <3>1, <3>2
  <2> QED BY <1>1, <2>1, <2>2
<1>8. PerformedInv' /\ PerformedOnce'
  BY <1>1, <1>5 DEF ClerkInv, PerformedInv, PerformedOnce
<1>9. FirstCallInv'
  <2> SUFFICES ASSUME NEW d \in Client PROVE FirstCallInv!(d)'
    BY DEF FirstCallInv
  <2>1. CASE d = c
    BY <1>6, <2>1
  <2>2. CASE d # c
    <3>1. FirstCallInv!(d) /\ (resend'[d] <=> resend[d])
      BY <1>1, <2>2 DEF ClerkInv, KvTypeOK, FirstCallInv
    <3>2. \A m \in putRequests' : IsOf(m, d, puts[d]) => m \in putRequests
      BY <1>1, <1>2, <2>2 DEF IsOf
    <3> QED BY <1>1, <3>1, <3>2
  <2> QED BY <2>1, <2>2
<1>10. ReplyInv'
  BY <1>1 DEF ClerkInv, ReplyInv
<1>11. ResultInv'
  <2> SUFFICES ASSUME NEW x \in results PROVE ResultInv!(x)'
    BY <1>1 DEF ResultInv
  <2>1. ResultInv!(x)
    BY DEF ClerkInv, ResultInv
  <2>2. x[3] = "ErrVersion" => ~IsOf(call, x[1], x[2])
    BY <1>1, <1>2, <2>1 DEF IsOf, InPut
  <2> QED BY <1>1, <1>5, <2>1, <2>2
<1>12. SameVersion'
  <2>1. \A q \in putRequests : IsOf(q, c, n) => q.version = putArgs[c].version
    BY <1>1 DEF ClerkInv, RequestInv, InPut, IsOf
  <2> QED BY <1>1, <1>2, <2>1 DEF ClerkInv, SameVersion, IsOf
<1> QED BY <1>3, <1>7, <1>8, <1>9, <1>10, <1>11, <1>12 DEF ClerkInv

\* A Put returns.
LEMMA PutReturns ==
  ASSUME ClerkInv, NEW c \in Client, NEW r \in putReplies, EndPut(c, r)
  PROVE  ClerkInv'
<1> DEFINE n == puts[c]
           res == <<c, n, PutResult(r)>>
<1>1. /\ op[c] = "put" /\ IsOf(r, c, n) /\ r.resend = resend[c]
      /\ op' = [op EXCEPT ![c] = "none"]
      /\ got' = [got EXCEPT ![c] = NoReply]
      /\ putReplies' = {s \in putReplies : s.client # c}
      /\ putArgs' = [putArgs EXCEPT ![c] = NoArgs]
      /\ resend' = [resend EXCEPT ![c] = FALSE]
      /\ results' = results \cup {res}
      /\ UNCHANGED <<table, puts, putRequests, performed>>
  BY DEF EndPut, PutAnswered, Leave, ReturnPut, IsOf
<1>2. n \in Nat /\ n <= n
  BY DEF ClerkInv, KvTypeOK
<1>3. r.err \in Errs /\ PutResult(r) \in Errs \cup {"ErrMaybe"}
  BY DEF ClerkInv, KvTypeOK, PutResult, Errs
<1>4. /\ res[1] = c /\ res[2] = n /\ res[3] = PutResult(r)
      /\ res \in Client \X Nat \X (Errs \cup {"ErrMaybe"})
  BY <1>2, <1>3
<1>5. PutResult(r) = "OK" => <<c, n>> \in performed
  BY <1>1 DEF ClerkInv, ReplyInv, PutResult, IsOf
<1>6. PutResult(r) = "ErrVersion" =>
        /\ <<c, n>> \notin performed
        /\ \A m \in putRequests : ~IsOf(m, c, n)
  <2>1. PutResult(r) = "ErrVersion" => r.err = "ErrVersion" /\ ~resend[c]
    BY <1>1 DEF PutResult
  <2>2. (op[c] = "put" /\ ~resend[c]) =>
          /\ \A m \in putRequests : IsOf(m, c, n) => \A q \in putReplies : ~IsOf(q, c, n)
          /\ \A q \in putReplies : IsOf(q, c, n) => (q.err = "OK" <=> <<c, n>> \in performed)
    BY DEF ClerkInv, FirstCallInv
  <2> QED BY <1>1, <2>1, <2>2
<1> HIDE DEF res
<1>7. KvTypeOK'
  BY <1>1, <1>4 DEF ClerkInv, KvTypeOK, NoReply, NoArgs, Errs
<1>8. \A d \in Client : \A k : InPut(d, k)' => d # c /\ InPut(d, k)
  BY <1>1 DEF ClerkInv, KvTypeOK, InPut
<1>9. \A d \in Client : d # c =>
        putArgs'[d] = putArgs[d] /\ (resend'[d] <=> resend[d]) /\ op'[d] = op[d]
  BY <1>1 DEF ClerkInv, KvTypeOK
<1>10. RequestInv'
  <2> SUFFICES ASSUME NEW m \in putRequests PROVE RequestInv!(m)'
    BY <1>1 DEF RequestInv
  <2>1. m.client \in Client /\ RequestInv!(m)
    BY DEF ClerkInv, KvTypeOK, PutRequest, RequestInv
  <2> QED BY <1>1, <1>8, <1>9, <2>1
<1>11. PerformedInv' /\ PerformedOnce'
  BY <1>1, <1>8, <1>9 DEF ClerkInv, PerformedInv, PerformedOnce
<1>12. FirstCallInv'
  <2> SUFFICES ASSUME NEW d \in Client, op'[d] = "put" PROVE FirstCallInv!(d)'
    BY DEF FirstCallInv
  <2>1. d # c
    BY <1>1 DEF ClerkInv, KvTypeOK
  <2>2. FirstCallInv!(d)
    BY DEF ClerkInv, FirstCallInv
  <2>3. putReplies' \subseteq putReplies
    BY <1>1
  <2> QED BY <1>1, <1>9, <2>1, <2>2, <2>3
<1>13. ReplyInv' /\ SameVersion'
  BY <1>1 DEF ClerkInv, ReplyInv, SameVersion
<1>14. ResultInv'
  <2> SUFFICES ASSUME NEW x \in results' PROVE ResultInv!(x)'
    BY DEF ResultInv
  <2>1. CASE x = res
    BY <1>1, <1>2, <1>4, <1>5, <1>6, <1>8, <2>1
  <2>2. CASE x \in results
    <3>1. x[1] \in Client /\ ResultInv!(x)
      BY <2>2 DEF ClerkInv, KvTypeOK, ResultInv
    <3> QED BY <1>1, <1>8, <3>1
  <2> QED BY <1>1, <2>1, <2>2
<1> QED BY <1>7, <1>10, <1>11, <1>12, <1>13, <1>14 DEF ClerkInv

\* The server executes a call.
LEMMA PutExecuted ==
  ASSUME ClerkInv, NEW m \in putRequests, ServerPut(m)
  PROVE  ClerkInv'
<1> DEFINE c == m.client
           n == m.id
           err == PutErr(m.version)
           reply == [client |-> c, id |-> n, resend |-> m.resend, err |-> err]
<1>1. /\ c \in Client /\ n \in Nat /\ m.version \in Nat /\ m.resend \in BOOLEAN
      /\ m.value \in Value \cup {None} /\ RequestInv!(m)
  BY DEF ClerkInv, KvTypeOK, PutRequest, RequestInv
<1>2. err \in Errs /\ (err = "OK" <=> table.version = m.version)
  BY DEF PutErr, Errs
<1>3. /\ reply \in [client : Client, id : Nat, resend : BOOLEAN, err : Errs]
      /\ reply.client = c /\ reply.id = n /\ reply.err = err
  BY <1>1, <1>2
<1>4. /\ table' = IF err = "OK" THEN [value |-> m.value, version |-> m.version + 1]
                  ELSE table
      /\ performed' = IF err = "OK" THEN performed \cup {<<c, n>>} ELSE performed
      /\ putRequests' = IF m.resend THEN putRequests ELSE putRequests \ {m}
      /\ putReplies' = IF Current(m) THEN putReplies \cup {reply} ELSE putReplies
      /\ UNCHANGED <<op, got, putArgs, resend, puts, results>>
  BY DEF ServerPut
<1> HIDE DEF reply, err
<1>5. KvTypeOK'
  BY <1>1, <1>2, <1>3, <1>4 DEF ClerkInv, KvTypeOK
<1>6. err = "OK" => <<c, n>> \notin performed
  BY <1>1, <1>2 DEF ClerkInv, KvTypeOK
<1>7. /\ table.version <= table'.version
      /\ err = "OK" => table'.version = table.version + 1 /\ m.version < table'.version
  BY <1>1, <1>2, <1>4 DEF ClerkInv, KvTypeOK
<1>8. PerformedOnce' /\ IsFiniteSet(performed)'
  <2>1. CASE err = "OK"
    <3>1. performed' = performed \cup {<<c, n>>} /\ <<c, n>> \notin performed
      BY <1>4, <1>6, <2>1
    <3>2. IsFiniteSet(performed) /\ Cardinality(performed) = table.version
      BY DEF ClerkInv, PerformedInv, PerformedOnce
    <3>3. IsFiniteSet(performed') /\ Cardinality(performed') = Cardinality(performed) + 1
      BY <3>1, <3>2, FS_AddElement
    <3> QED BY <1>7, <2>1, <3>2, <3>3 DEF PerformedOnce
  <2>2. CASE err # "OK"
    BY <1>4, <2>2 DEF ClerkInv, PerformedInv, PerformedOnce
  <2> QED BY <2>1, <2>2
<1>9. putRequests' \subseteq putRequests
  BY <1>4
<1>10. /\ \A d, k : <<d, k>> \in performed' <=>
             (<<d, k>> \in performed \/ (err = "OK" /\ d = c /\ k = n))
       /\ performed \subseteq performed'
  BY <1>4
<1>11. \A d, k : InPut(d, k)' <=> InPut(d, k)
  BY <1>4 DEF InPut
<1>12. table.version \in Nat /\ table'.version \in Nat
  BY <1>5 DEF ClerkInv, KvTypeOK
<1>13. RequestInv' /\ SameVersion'
  <2>1. SameVersion'
    BY <1>9 DEF ClerkInv, SameVersion
  <2> SUFFICES ASSUME NEW q \in putRequests PROVE RequestInv!(q)'
    BY <1>9, <2>1 DEF RequestInv
  <2>2. RequestInv!(q) /\ q.version \in Nat
    BY DEF ClerkInv, RequestInv, KvTypeOK, PutRequest
  <2>3. ASSUME <<q.client, q.id>> \in performed' PROVE q.version < table'.version
    <3>1. CASE <<q.client, q.id>> \in performed
      BY <1>7, <1>12, <2>2, <3>1
    <3>2. CASE err = "OK" /\ q.client = c /\ q.id = n
      <4>1. q.version = m.version
        BY <3>2 DEF ClerkInv, SameVersion, IsOf
      <4> QED BY <1>7, <3>2, <4>1
    <3> QED BY <1>10, <2>3, <3>1, <3>2
  <2> QED BY <1>4, <1>11, <2>2, <2>3
<1>14. PerformedInv'
  <2> SUFFICES ASSUME NEW d \in Client, NEW k \in Nat, <<d, k>> \in performed'
               PROVE  k <= puts[d] /\ (InPut(d, k) => putArgs[d].version < table'.version)
    BY <1>4, <1>8, <1>11 DEF PerformedInv
  <2>1. CASE <<d, k>> \in performed
    BY <1>7, <1>12, <2>1 DEF ClerkInv, KvTypeOK, PerformedInv
  <2>2. CASE err = "OK" /\ d = c /\ k = n
    BY <1>1, <1>7, <2>2
  <2> QED BY <1>10, <2>1, <2>2
<1>15. FirstCallInv'
  <2> SUFFICES ASSUME NEW d \in Client, op[d] = "put", ~resend[d]
               PROVE  /\ \A q \in putRequests' : IsOf(q, d, puts[d]) =>
                           /\ <<d, puts[d]>> \notin performed'
                           /\ \A r \in putReplies' : ~IsOf(r, d, puts[d])
                      /\ \A r \in putReplies' : IsOf(r, d, puts[d]) =>
                           (r.err = "OK" <=> <<d, puts[d]>> \in performed')
    BY <1>4 DEF FirstCallInv
  <2>1. /\ \A q \in putRequests : IsOf(q, d, puts[d]) =>
             /\ <<d, puts[d]>> \notin performed
             /\ \A r \in putReplies : ~IsOf(r, d, puts[d])
        /\ \A r \in putReplies : IsOf(r, d, puts[d]) =>
             (r.err = "OK" <=> <<d, puts[d]>> \in performed)
    BY DEF ClerkInv, FirstCallInv
  <2>2. CASE IsOf(m, d, puts[d])
    <3>1. d = c /\ n = puts[d] /\ InPut(c, n) /\ Current(m)
      BY <2>2 DEF IsOf, InPut, Current
    <3>2. ~m.resend
      BY <1>1, <3>1
    <3>3. ASSUME NEW q \in putRequests, IsOf(q, d, puts[d]) PROVE q = m
      <4>1. /\ q \in PutRequest /\ m \in PutRequest
        BY DEF ClerkInv, KvTypeOK
      <4>2. RequestInv!(q)
        BY DEF ClerkInv, RequestInv
      <4>3. /\ q.client = m.client /\ q.id = m.id /\ q.version = m.version
            /\ q.value = m.value /\ ~q.resend
        BY <1>1, <3>1, <3>3, <4>2 DEF IsOf
      <4>4. q.resend = FALSE /\ m.resend = FALSE
        BY <3>2, <4>1, <4>3 DEF PutRequest
      <4> QED BY <4>1, <4>3, <4>4 DEF PutRequest
    <3>4. putRequests' = putRequests \ {m} /\ putReplies' = putReplies \cup {reply}
      BY <1>4, <3>1, <3>2
    <3>5. \A q \in putRequests' : ~IsOf(q, d, puts[d])
      BY <3>3, <3>4
    <3>6. \A r \in putReplies' : IsOf(r, d, puts[d]) => r = reply
      BY <2>1, <2>2, <3>4
    <3>7. reply.err = "OK" <=> <<d, puts[d]>> \in performed'
      BY <1>3, <1>10, <2>1, <2>2, <3>1
    <3> QED BY <3>5, <3>6, <3>7
  <2>3. CASE ~IsOf(m, d, puts[d])
    <3>1. ~(d = c /\ puts[d] = n) /\ ~IsOf(reply, d, puts[d])
      BY <1>3, <2>3 DEF IsOf
    <3>2. \A r \in putReplies' : IsOf(r, d, puts[d]) => r \in putReplies
      BY <1>4, <3>1
    <3>3. <<d, puts[d]>> \in performed' <=> <<d, puts[d]>> \in performed
      BY <1>10, <3>1
    <3> QED BY <1>9, <2>1, <3>2, <3>3
  <2> QED BY <2>2, <2>3
<1>16. ReplyInv'
  <2> SUFFICES ASSUME NEW r \in putReplies'
               PROVE  r.id <= puts[r.client] /\ (r.err = "OK" => <<r.client, r.id>> \in performed')
    BY <1>4 DEF ReplyInv
  <2>1. CASE r = reply
    BY <1>1, <1>3, <1>10, <2>1
  <2>2. CASE r \in putReplies
    BY <1>10, <2>2 DEF ClerkInv, ReplyInv
  <2> QED BY <1>4, <2>1, <2>2
<1>17. ResultInv'
  <2> SUFFICES ASSUME NEW x \in results PROVE ResultInv!(x)'
    BY <1>4 DEF ResultInv
  <2>1. ResultInv!(x)
    BY DEF ClerkInv, ResultInv
  <2>2. x[3] = "ErrVersion" => ~(x[1] = c /\ x[2] = n)
    BY <2>1 DEF IsOf
  <2> QED BY <1>4, <1>9, <1>10, <1>11, <2>1, <2>2
<1> QED BY <1>5, <1>8, <1>13, <1>14, <1>15, <1>16, <1>17 DEF ClerkInv

\* ClerkInv is inductive.
LEMMA ClerkStep == ClerkInv /\ [KvNext]_kvVars => ClerkInv'
<1> SUFFICES ASSUME ClerkInv, [KvNext]_kvVars PROVE ClerkInv'
  OBVIOUS
<1>1. CASE Network
  BY <1>1, GetSteps, PutResent, PutExecuted DEF Network
<1>2. ASSUME NEW c \in Client, Get(c) \/ EndGet(c) PROVE ClerkInv'
  BY <1>2, GetSteps
<1>3. ASSUME NEW c \in Client, NEW value \in Value,
             NEW version \in 0 .. table.version + 1, Put(c, value, version)
      PROVE  ClerkInv'
  <2>1. version \in Nat
    BY DEF ClerkInv, KvTypeOK
  <2> QED BY <1>3, <2>1, PutBegins
<1>4. ASSUME NEW c \in Client, NEW r \in putReplies, EndPut(c, r) PROVE ClerkInv'
  BY <1>4, PutReturns
<1>5. CASE UNCHANGED kvVars
  BY <1>5
     DEF kvVars, ClerkInv, KvTypeOK, RequestInv, SameVersion, PerformedInv, FirstCallInv,
         ReplyInv, ResultInv, PerformedOnce, InPut, IsOf
<1> QED BY <1>1, <1>2, <1>3, <1>4, <1>5 DEF KvNext

\* kvsrv1/client.go, Put: OK means that the Put was performed, and ErrVersion
\* that it never was and never will be, on a network that executes calls late
\* and more than once.
THEOREM PutKeepsItsContract == KvSpec => []PutContract
<1>1. ClerkInv => PutContract
  BY DEF ClerkInv, ResultInv, PutContract
<1> QED BY <1>1, ClerkInit, ClerkStep, PTL DEF KvSpec

\* kvsrv1/server.go, Put: the version counts the Puts that were performed, so
\* none was performed twice.
THEOREM VersionCountsPuts == KvSpec => []PerformedOnce
<1>1. ClerkInv => PerformedOnce
  BY DEF ClerkInv
<1> QED BY <1>1, ClerkInit, ClerkStep, PTL DEF KvSpec
=============================================================================
