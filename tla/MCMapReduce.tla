---------------------------- MODULE MCMapReduce -----------------------------
(***************************************************************************)
(* Instance of MapReduce for TLC: two files, whose second leaves a bucket  *)
(* empty, and two reduce tasks.                                            *)
(***************************************************************************)
EXTENDS MapReduce

CONSTANTS w1, w2, w3, a, b

Hash == [k \in {a, b} |-> IF k = a THEN 0 ELSE 1]

\* A word count: the first file has the word a twice.
Words == [i \in 0 .. 1 |-> IF i = 0 THEN {<<a, "1", 1>>, <<b, "1", 2>>, <<a, "1", 3>>}
                          ELSE {<<a, "1", 4>>}]
=============================================================================
