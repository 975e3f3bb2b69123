------------------------------- MODULE MCLock -------------------------------
(***************************************************************************)
(* Instances of Lock, and of the clerk alone, for TLC.                     *)
(***************************************************************************)
EXTENDS Lock

CONSTANTS c1, c2

Clients == {c1, c2}

\* Bounds on the Puts and on the rounds of the two clients.
OneEach == [c \in Clients |-> 1]
TwoOne  == [c \in Clients |-> IF c = c1 THEN 2 ELSE 1]

\* The clerk alone, without a lock, is told by the rounds, which nobody can
\* have made; it does not use the lock's variables.
ClerkAlone == \A c \in Client : rounds[c] > MaxRounds[c]

ClerkInit ==
  /\ KvInit
  /\ pc = [c \in Client |-> "idle"]
  /\ rounds = [c \in Client |-> MaxRounds[c] + 1]

ClerkNext == ClerkAlone /\ KvNext /\ UNCHANGED <<pc, rounds>>

\* Clients use the clerk as they like, or only by way of the lock.
ClerkAndLockSpec ==
  /\ LockInit \/ ClerkInit
  /\ [][ClerkNext \/ (~ClerkAlone /\ LockNext)]_lockVars
  /\ LockFairness
=============================================================================
