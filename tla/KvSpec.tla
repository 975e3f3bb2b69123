------------------------------- MODULE KvSpec -------------------------------
(***************************************************************************)
(* What a key/value service promises its callers about one key, whatever   *)
(* runs behind the clerk: the key is a linearizable register of versioned  *)
(* writes.  A write takes effect at one moment, at most once, and only on  *)
(* the version it names; what a Get returns was the key's state at some    *)
(* moment between its call and its return.                                 *)
(***************************************************************************)
EXTENDS Naturals, Sequences, Functions

CONSTANT Client

VARIABLES
  hist,  \* the writes that took effect, in order, as <<client, number>>:
         \* the key's version is Len(hist), its value the last write's
  ops,   \* per client, the operations it called; low: the version then
  ret    \* per client, their results, in the same order

vars == <<hist, ops, ret>>

Idle(c) == Len(ops[c]) = Len(ret[c])

Init ==
  /\ hist = << >>
  /\ ops = [c \in Client |-> << >>]
  /\ ret = [c \in Client |-> << >>]

Call(c) ==
  LET n == Len(ops[c]) + 1
      op == ops'[c][n]
  IN  /\ Idle(c)
      /\ Len(ops'[c]) = n
      /\ op.kind \in {"get", "put"} /\ op.version \in Nat
      /\ op.low = Len(hist)
      /\ ops' = [ops EXCEPT ![c] = Append(@, op)]
      /\ UNCHANGED <<hist, ret>>

\* The n-th operation of c, a Put, takes effect.  If it has returned, its
\* caller was not told OK.
Perform(c, n) ==
  /\ ops[c][n].kind = "put" /\ ops[c][n].version = Len(hist)
  /\ <<c, n>> \notin Range(hist)
  /\ n <= Len(ret[c]) => ret[c][n].err # "OK"
  /\ hist' = Append(hist, <<c, n>>)
  /\ UNCHANGED <<ops, ret>>

GetMayReturn(op, r) ==
  \/ r.err = "ErrNoKey" /\ op.low = 0
  \/ /\ r.err = "OK"
     /\ r.version \in 1 .. Len(hist) /\ op.low <= r.version
     /\ r.value = hist[r.version]

\* OK: the write took effect.  Otherwise some moment of the call had another
\* version than the one it named; for ErrNoKey, no key at all.
PutMayReturn(c, n, op, r) ==
  \/ r.err = "OK" /\ <<c, n>> \in Range(hist)
  \/ r.err = "ErrNoKey" /\ op.low = 0 /\ op.version # 0
  \/ /\ r.err \in {"ErrVersion", "ErrMaybe"}
     /\ hist # << >>
     /\ op.low # op.version \/ Len(hist) # op.version

Return(c) ==
  LET n == Len(ops[c])
      r == ret'[c][n]
  IN  /\ ~Idle(c)
      /\ Len(ret'[c]) = n
      /\ ret' = [ret EXCEPT ![c] = Append(@, r)]
      /\ IF ops[c][n].kind = "get" THEN GetMayReturn(ops[c][n], r)
         ELSE PutMayReturn(c, n, ops[c][n], r)
      /\ UNCHANGED <<hist, ops>>

Next ==
  \E c \in Client :
    \/ Call(c)
    \/ \E n \in 1 .. Len(ops[c]) : Perform(c, n)
    \/ Return(c)

Spec == Init /\ [][Next]_vars
=============================================================================
