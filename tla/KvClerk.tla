------------------------------ MODULE KvClerk ------------------------------
(***************************************************************************)
(* The single key/value server of kvsrv1/server.go and the clerk of        *)
(* kvsrv1/client.go, for one key (the server treats keys independently).   *)
(*                                                                         *)
(* A Put is a compare-and-swap on the key's version.  The clerk repeats a  *)
(* call that failed; the network may execute a call whose reply is lost,   *)
(* and may execute it long after the clerk has moved on.  Each client      *)
(* thread has at most one operation outstanding.                           *)
(***************************************************************************)
EXTENDS Integers, FiniteSets

CONSTANTS
  Client,   \* the threads that own a clerk
  Value,    \* what they write
  None,     \* the empty string, which is also what a missing key reads as
  MaxPuts   \* bound: Puts per client in Spec

ASSUME ValueAssumption == None \notin Value
ASSUME MaxPutsAssumption == MaxPuts \in [Client -> Nat]

VARIABLES
  table,        \* value and version of the key; version 0: no such key
  op,           \* what a client's clerk is doing: "none", "get" or "put"
  got,          \* the reply to the clerk's Get, or NoReply
  putArgs,      \* value and version of the clerk's current Put
  resend,       \* the first call of the current Put has failed
  puts,         \* Puts the clerk has made; the number of the current one
  putRequests,  \* calls the network may still execute
  putReplies,   \* replies the network may still deliver
  performed,    \* history: <<client, number>> of Puts that changed the table
  results       \* history, in KvSpec: <<client, number, err>> of Puts that
                \* returned

kvVars == <<table, op, got, putArgs, resend, puts, putRequests, putReplies,
            performed, results>>

Errs == {"OK", "ErrNoKey", "ErrVersion"}

NoArgs == [value |-> None, version |-> 0]

NoReply == [err |-> "none", value |-> None, version |-> 0]

-----------------------------------------------------------------------------
(* The server.                                                             *)

\* Seeded fault: the Err of a missing key is not set.
GetReplyNoErr ==
  IF table.version = 0
  THEN [err |-> "", value |-> None, version |-> 0]
  ELSE [err |-> "OK", value |-> table.value, version |-> table.version]

GetReply ==
  IF table.version = 0
  THEN [err |-> "ErrNoKey", value |-> None, version |-> 0]
  ELSE [err |-> "OK", value |-> table.value, version |-> table.version]

\* Seeded fault: a Put with the version before the current one is accepted.
PutErrOneOff(version) ==
  IF version \in {table.version, table.version - 1} THEN "OK"
  ELSE "ErrVersion"

\* An existing key has a version of at least 1, so version 0 creates the key
\* or fails, and the new version is the old one plus one in both cases.
PutErr(version) ==
  IF table.version = version THEN "OK"
  ELSE IF table.version = 0 THEN "ErrNoKey" ELSE "ErrVersion"

ServerGet(c) ==
  /\ op[c] = "get" /\ got[c] = NoReply
  /\ got' = [got EXCEPT ![c] = GetReply]
  /\ UNCHANGED <<table, op, putArgs, resend, puts, putRequests, putReplies,
                 performed, results>>

\* The call belongs to a Put that has not returned.
Current(m) == op[m.client] = "put" /\ m.id = puts[m.client]

\* The server executes the call m.  The first call is executed at most once;
\* a resent one any number of times, since the clerk may send it again.
ServerPut(m) ==
  LET err == PutErr(m.version)
      reply == [client |-> m.client, id |-> m.id, resend |-> m.resend,
                err |-> err]
  IN  /\ table' = IF err = "OK"
                  THEN [value |-> m.value, version |-> m.version + 1]
                  ELSE table
      /\ performed' = IF err = "OK"
                      THEN performed \cup {<<m.client, m.id>>} ELSE performed
      /\ putRequests' = IF m.resend THEN putRequests ELSE putRequests \ {m}
      /\ putReplies' = IF Current(m) THEN putReplies \cup {reply}
                       ELSE putReplies
      /\ UNCHANGED <<op, got, putArgs, resend, puts, results>>

-----------------------------------------------------------------------------
(* The clerk.  SendGet and SendPut begin an operation; the caller's step   *)
(* adds what it was doing before.                                          *)

SendGet(c) ==
  /\ op' = [op EXCEPT ![c] = "get"]
  /\ got' = [got EXCEPT ![c] = NoReply]
  /\ UNCHANGED <<table, puts, putRequests, performed>>

PutCall(c, id, again, args) ==
  [client |-> c, id |-> id, resend |-> again,
   value |-> args.value, version |-> args.version]

SendPut(c, value, version) ==
  LET args == [value |-> value, version |-> version]
  IN  /\ op' = [op EXCEPT ![c] = "put"]
      /\ putArgs' = [putArgs EXCEPT ![c] = args]
      /\ resend' = [resend EXCEPT ![c] = FALSE]
      /\ puts' = [puts EXCEPT ![c] = @ + 1]
      /\ putRequests' = putRequests \cup {PutCall(c, puts[c] + 1, FALSE, args)}
      /\ got' = [got EXCEPT ![c] = NoReply]
      /\ UNCHANGED <<table, putReplies, performed>>

\* The Call of a Get failed: its reply, if there was one, is lost.
RetryGet(c) ==
  /\ op[c] = "get" /\ got[c] # NoReply
  /\ got' = [got EXCEPT ![c] = NoReply]
  /\ UNCHANGED <<table, op, putArgs, resend, puts, putRequests, putReplies,
                 performed, results>>

\* The first Call of a Put failed, and the clerk enters the loop of resends.
RetryPut(c) ==
  /\ op[c] = "put" /\ ~resend[c]
  /\ resend' = [resend EXCEPT ![c] = TRUE]
  /\ putRequests' = putRequests \cup {PutCall(c, puts[c], TRUE, putArgs[c])}
  /\ UNCHANGED <<table, op, got, putArgs, puts, putReplies, performed, results>>

GetAnswered(c) == op[c] = "get" /\ got[c] # NoReply

\* Seeded fault: a version error is reported as it is, also on a resend.
PutResultPlain(r) == r.err

\* ErrVersion on a resend may be the echo of the clerk's own success.
PutResult(r) ==
  IF r.resend /\ r.err = "ErrVersion" THEN "ErrMaybe" ELSE r.err

\* Clerk c gets the reply r to its outstanding call.
PutAnswered(c, r) ==
  /\ op[c] = "put"
  /\ r.client = c /\ r.id = puts[c] /\ r.resend = resend[c]

\* The Put of c returns; other replies to it are of no use any more.
ReturnPut(c) ==
  /\ putReplies' = {s \in putReplies : s.client # c}
  /\ putArgs' = [putArgs EXCEPT ![c] = NoArgs]
  /\ resend' = [resend EXCEPT ![c] = FALSE]

\* The clerk has nothing more to do.
Leave(c) ==
  /\ op' = [op EXCEPT ![c] = "none"]
  /\ got' = [got EXCEPT ![c] = NoReply]
  /\ UNCHANGED <<table, puts, putRequests, performed>>

Network ==
  \/ \E c \in Client : ServerGet(c) \/ RetryGet(c) \/ RetryPut(c)
  \/ \E m \in putRequests : ServerPut(m)

-----------------------------------------------------------------------------
(* The clerk on its own: clients call Get and Put as they like, with any   *)
(* version up to the one after the newest.                                 *)

Get(c) ==
  /\ op[c] = "none"
  /\ SendGet(c)
  /\ UNCHANGED <<putArgs, resend, putReplies, results>>

EndGet(c) ==
  /\ GetAnswered(c)
  /\ Leave(c)
  /\ UNCHANGED <<putArgs, resend, putReplies, results>>

Put(c, value, version) ==
  /\ op[c] = "none" /\ puts[c] < MaxPuts[c]
  /\ SendPut(c, value, version)
  /\ UNCHANGED results

EndPut(c, r) ==
  /\ PutAnswered(c, r)
  /\ Leave(c)
  /\ ReturnPut(c)
  /\ results' = results \cup {<<c, puts[c], PutResult(r)>>}

KvInit ==
  /\ table = [value |-> None, version |-> 0]
  /\ op = [c \in Client |-> "none"]
  /\ got = [c \in Client |-> NoReply]
  /\ putArgs = [c \in Client |-> NoArgs]
  /\ resend = [c \in Client |-> FALSE]
  /\ puts = [c \in Client |-> 0]
  /\ putRequests = {} /\ putReplies = {}
  /\ performed = {} /\ results = {}

KvNext ==
  \/ Network
  \/ \E c \in Client :
       \/ Get(c) \/ EndGet(c)
       \/ \E value \in Value, version \in 0 .. table.version + 1 :
            Put(c, value, version)
       \/ \E r \in putReplies : EndPut(c, r)

KvSpec == KvInit /\ [][KvNext]_kvVars

-----------------------------------------------------------------------------
PutRequest == [client : Client, id : Nat, resend : BOOLEAN,
               value : Value \cup {None}, version : Nat]

\* Type correctness of the server's table, of the clerks and of the calls.
KvTypeOK ==
  /\ table \in [value : Value \cup {None}, version : Nat]
  /\ op \in [Client -> {"none", "get", "put"}]
  /\ got \in [Client -> [err : Errs \cup {"none"}, value : Value \cup {None},
                         version : Nat]]
  /\ putArgs \in [Client -> [value : Value \cup {None}, version : Nat]]
  /\ resend \in [Client -> BOOLEAN]
  /\ puts \in [Client -> Nat]
  /\ putRequests \subseteq PutRequest
  /\ putReplies \subseteq [client : Client, id : Nat, resend : BOOLEAN,
                           err : Errs]
  /\ performed \subseteq Client \X Nat
  /\ results \subseteq Client \X Nat \X (Errs \cup {"ErrMaybe"})

\* What the comment of Clerk.Put promises, for all time: a Put that returned
\* OK was performed, and one that returned ErrVersion never is, however late
\* the network executes what is left of it.
PutContract ==
  \A x \in results :
    /\ x[3] = "OK" => <<x[1], x[2]>> \in performed
    /\ x[3] = "ErrVersion" => <<x[1], x[2]>> \notin performed

\* Every version is the work of one Put: no Put, resent or delayed, is
\* performed twice.
PerformedOnce == Cardinality(performed) = table.version
=============================================================================
