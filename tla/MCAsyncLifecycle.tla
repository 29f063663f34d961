-------------------------- MODULE MCAsyncLifecycle --------------------------
(* Small instances of AsyncLifecycle for TLC. *)
EXTENDS AsyncLifecycle, TLC

CONSTANTS c1, c2, c3, w1, w2, f1, f2, r1, r2, s1, s2

TwoClients   == {c1, c2}
ThreeClients == {c1, c2, c3}
OneSeal  == {s1}
TwoSeals == {s1, s2}

\* The deadlines leave room for two leases of the run, or for one.
Deadlines == [s \in Seals |-> IF s = s1 THEN MaxTime - 1 ELSE 1]

Symmetry == Permutations(Clients) \cup Permutations(Fences)
=============================================================================
