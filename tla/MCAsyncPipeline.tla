--------------------------- MODULE MCAsyncPipeline ---------------------------
(* Small instances of AsyncPipeline for TLC. *)
EXTENDS AsyncPipeline, TLC

CONSTANTS w1, w2, w3, f0, f1, p1, p2, c1, c2

TwoFences == 0 :> f0 @@ 1 :> f1

Redrives == {[version |-> v, fence |-> TwoFences[v]] : v \in {0, 1}}

\* Deliveries of one request.
OneFence == 0 :> f0
Deliveries == {[version |-> 0, fence |-> f0]}

\* A lease that is too short and one that is long enough; the latter only.
ShortAndLong == {1, 2}
Long == {2}

\* Somebody has to serve version 0; let it be w1.  A stale result goes the way
\* of a failed one.  What else is in a result matters to the admission of a
\* verified one only.  Let w2, which may serve version 0 as well, be the worker
\* that comes to anything but the ordinary result; w1 may come to the same.
Distinct ==
  /\ request[w1].version = 0
  /\ \A w \in Workers : bytes[w] # Absent =>
       \/ bytes[w] = [status |-> "verified", content |-> c1]
       \/ bytes[w] = bytes[w2] /\ bytes[w] \in
            {[status |-> "verified", content |-> c2],
             [status |-> "failed", content |-> c1]}

\* Control planes and foreground processes share no file that either writes:
\* projections take the same steps before the admissions as during or after them.
Apart ==
  projection.step = "idle" \/ \A p \in Foregrounds : at[p] = "idle"

Symmetry == Permutations({p1, p2})
=============================================================================
