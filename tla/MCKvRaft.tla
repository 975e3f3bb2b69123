------------------------------ MODULE MCKvRaft ------------------------------
(***************************************************************************)
(* Instances of KvRaft for TLC.                                            *)
(***************************************************************************)
EXTENDS KvRaft

CONSTANTS c1, c2

Clients == {c1, c2}

\* Bounds on the operations and calls of the two clients.
OneEach == [c \in Clients |-> 1]
TwoOne  == [c \in Clients |-> IF c = c1 THEN 2 ELSE 1]

AGet == [kind |-> "get", version |-> 0]
APut(v) == [kind |-> "put", version |-> v]
GetsAndPuts ==
  [c \in Clients |-> IF c = c1 THEN {AGet, APut(1)} ELSE {APut(0)}]

\* The servers lead in turn.
Alternating == <<{0}, {1}>>
=============================================================================
