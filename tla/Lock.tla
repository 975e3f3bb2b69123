-------------------------------- MODULE Lock --------------------------------
(***************************************************************************)
(* The lock of kvsrv1/lock/lock.go, built on the clerk of KvClerk: the     *)
(* value of the key is the client that holds the lock, or the empty string.*)
(* Acquire and Release are loops of Get and Put; the result of a Put is    *)
(* never trusted when it is ErrMaybe, the next Get decides.                *)
(***************************************************************************)
EXTENDS KvClerk

CONSTANT MaxRounds   \* bound: calls of Acquire per client

ASSUME ClientAssumption == Value = Client
ASSUME RoundsAssumption == MaxRounds \in [Client -> Nat]

VARIABLES
  pc,      \* where a client is: see States
  rounds   \* how often the client has called Acquire

lockVars == <<kvVars, pc, rounds>>

\* idle: not in Acquire or Release and not the holder; fatal: log.Fatalf.
States == {"idle", "acqGet", "acqPut", "held", "relGet", "relPut", "fatal"}

GoTo(c, s) == pc' = [pc EXCEPT ![c] = s]

-----------------------------------------------------------------------------
Acquire(c) ==
  /\ pc[c] = "idle" /\ rounds[c] < MaxRounds[c]
  /\ rounds' = [rounds EXCEPT ![c] = @ + 1]
  /\ GoTo(c, "acqGet")
  /\ SendGet(c)
  /\ UNCHANGED <<putArgs, resend, putReplies, results>>

\* Get said that nobody holds the lock: no key (then the version is 0), or
\* the empty string.
AcquireFree(c) ==
  /\ pc[c] = "acqGet" /\ GetAnswered(c)
  /\ got[c].value = None
  /\ GoTo(c, "acqPut")
  /\ SendPut(c, c, got[c].version)
  /\ UNCHANGED <<results, rounds>>

\* Seeded fault: the client does not recognise its own name.
AcquireOwnMissed(c) ==
  /\ pc[c] = "acqGet" /\ GetAnswered(c)
  /\ got[c].value = c
  /\ SendGet(c)
  /\ UNCHANGED <<putArgs, resend, putReplies, results, pc, rounds>>

\* Get said that this client holds it: an earlier Put did succeed.
AcquireOwn(c) ==
  /\ pc[c] = "acqGet" /\ GetAnswered(c)
  /\ got[c].value = c
  /\ GoTo(c, "held")
  /\ Leave(c)
  /\ UNCHANGED <<putArgs, resend, putReplies, results, rounds>>

\* Somebody else holds it: try again.
AcquireBusy(c) ==
  /\ pc[c] = "acqGet" /\ GetAnswered(c)
  /\ got[c].value \notin {None, c}
  /\ SendGet(c)
  /\ UNCHANGED <<putArgs, resend, putReplies, results, pc, rounds>>

\* Seeded fault: Acquire takes ErrMaybe for success.
AcquireOutcomeHopeful(err) ==
  CASE err \in {"OK", "ErrMaybe"} -> "held"
    [] err = "ErrVersion"         -> "acqGet"
    [] OTHER                      -> "fatal"

\* What Acquire does with the result of its Put.
AcquireOutcome(err) ==
  CASE err = "OK"                         -> "held"
    [] err \in {"ErrVersion", "ErrMaybe"} -> "acqGet"
    [] OTHER                              -> "fatal"

\* What Release does with the result of its Put: a first call that gets
\* ErrVersion is fatal, since the holder is the only one to write.
ReleaseOutcome(err) ==
  CASE err = "OK"       -> "idle"
    [] err = "ErrMaybe" -> "relGet"
    [] OTHER            -> "fatal"

\* The Put of Acquire or Release returned with reply r.
PutReturns(c, r) ==
  LET err == PutResult(r)
      next == IF pc[c] = "acqPut" THEN AcquireOutcome(err)
              ELSE ReleaseOutcome(err)
  IN  /\ pc[c] \in {"acqPut", "relPut"} /\ PutAnswered(c, r)
      /\ GoTo(c, next)
      /\ IF next \in {"acqGet", "relGet"} THEN SendGet(c) ELSE Leave(c)
      /\ ReturnPut(c)
      /\ UNCHANGED <<results, rounds>>

-----------------------------------------------------------------------------
\* Release may be called by a client that does not hold the lock, too.
Release(c) ==
  /\ pc[c] \in {"held", "idle"}
  /\ GoTo(c, "relGet")
  /\ SendGet(c)
  /\ UNCHANGED <<putArgs, resend, putReplies, results, rounds>>

\* No key, or somebody else's: nothing to release.
ReleaseNotOwn(c) ==
  /\ pc[c] = "relGet" /\ GetAnswered(c)
  /\ got[c].value # c
  /\ GoTo(c, "idle")
  /\ Leave(c)
  /\ UNCHANGED <<putArgs, resend, putReplies, results, rounds>>

ReleaseOwn(c) ==
  /\ pc[c] = "relGet" /\ GetAnswered(c)
  /\ got[c].value = c
  /\ GoTo(c, "relPut")
  /\ SendPut(c, None, got[c].version)
  /\ UNCHANGED <<results, rounds>>

-----------------------------------------------------------------------------
LockInit ==
  /\ KvInit
  /\ pc = [c \in Client |-> "idle"]
  /\ rounds = [c \in Client |-> 0]

LockNext ==
  \/ Network /\ UNCHANGED <<pc, rounds>>
  \/ \E c \in Client :
       \/ Acquire(c) \/ AcquireFree(c) \/ AcquireOwn(c) \/ AcquireBusy(c)
       \/ Release(c) \/ ReleaseNotOwn(c) \/ ReleaseOwn(c)
       \/ \E r \in putReplies : PutReturns(c, r)

LockSpec == LockInit /\ [][LockNext]_lockVars

-----------------------------------------------------------------------------
(* Correctness.                                                            *)

LockTypeOK ==
  /\ KvTypeOK
  /\ pc \in [Client -> States]
  /\ rounds \in [Client -> Nat]

\* The lock is a lock: Acquire returns to one client at a time, although
\* Puts are resent, replies are lost and old Puts are executed late.
MutualExclusion ==
  \A c, d \in Client : pc[c] = "held" /\ pc[d] = "held" => c = d

\* The log.Fatalf calls of Acquire and Release are unreachable; above all a
\* releasing holder never meets ErrVersion on its first call.
NoFatal == \A c \in Client : pc[c] # "fatal"

\* From Acquire's return to the call of Release the server names the client
\* as the holder: no Put that is still in the network can take it away.
HolderIsRecorded ==
  \A c \in Client : pc[c] = "held" => table.value = c

\* When somebody wants the lock, somebody gets it.
LockProgress ==
  (\E c \in Client : pc[c] \in {"acqGet", "acqPut"})
    ~> (\E c \in Client : pc[c] = "held")

\* Calls are executed and answered in the end, whatever is lost on the way,
\* and a holder releases the lock.
LockFairness ==
  \A c \in Client :
    /\ WF_lockVars(ServerGet(c) /\ UNCHANGED <<pc, rounds>>)
    /\ SF_lockVars(AcquireFree(c) \/ AcquireOwn(c) \/ AcquireBusy(c))
    /\ SF_lockVars(ReleaseNotOwn(c) \/ ReleaseOwn(c))
    /\ WF_lockVars(\E m \in putRequests :
                     /\ m.client = c /\ Current(m) /\ m.resend = resend[c]
                     /\ ServerPut(m)
                     /\ UNCHANGED <<pc, rounds>>)
    /\ WF_lockVars(\E r \in putReplies : PutReturns(c, r))
    /\ WF_lockVars(pc[c] = "held" /\ Release(c))

FairLockSpec == LockSpec /\ LockFairness
=============================================================================
