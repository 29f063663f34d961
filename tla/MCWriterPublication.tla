------------------------ MODULE MCWriterPublication ------------------------
(* Small instances of WriterPublication for TLC.  The symmetry set is used  *)
(* by the runs without liveness properties only.                             *)
EXTENDS WriterPublication, TLC

CONSTANTS p1, p2, p3, n1, n2, c1, c2

TwoProcs   == {p1, p2}
ThreeProcs == {p1, p2, p3}
OneName    == {n1}
TwoNames   == {n1, n2}
TwoCandidates == {c1, c2}

Requests(ops, names, cands) == [op : ops, name : names, candidate : cands]

PublishCalls == Requests({"publish"}, {n1}, {c1, c2})
MixedCalls   == Requests({"publish"}, {n1}, {c1, c2})
                  \cup Requests({"remove", "read"}, {n1}, {c1})
NamesCalls   == MixedCalls \cup Requests({"publish"}, {n2}, {c1})

Symmetry == Permutations(Procs)
=============================================================================
