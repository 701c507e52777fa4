---------------------------- MODULE MCAsyncChannel ----------------------------
(***************************************************************************)
(* An instance of AsyncChannel with two casts of actors: who takes part    *)
(* is chosen at the start.                                                 *)
(***************************************************************************)
EXTENDS AsyncChannel
CONSTANTS p1, r1, r2, s1, s2

\* A permit holder that may be cancelled, a thread that tries, one that blocks.
Permit == {p1, s1, s2, r1}
\* Two receiving tasks, parked on one list.
Receiving == {r1, r2, s1, s2}
Casts == {Permit, Receiving}

BenchInit == \E cast \in Casts : InitWith(cast)
BenchSpec == BenchInit /\ [][Next]_vars /\ Fairness
=============================================================================
