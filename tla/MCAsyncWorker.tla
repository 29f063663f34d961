---------------------------- MODULE MCAsyncWorker ----------------------------
(* Small instances of AsyncWorker for TLC. *)
EXTENDS AsyncWorker, TLC

CONSTANTS w1, w2, w3, f1, f2, c1, c2

Request(v, f) == [version |-> v, fence |-> f]

\* What the control plane derives for the first claim and the reclaim.
Redrives == {Request(0, f1), Request(1, f2)}

\* A stale result goes the way of a failed one.
NotStale ==
  \A w \in Workers : bytes[w] = Absent \/ bytes[w].status # "stale"

Symmetry == Permutations({w1, w2, w3})
=============================================================================
