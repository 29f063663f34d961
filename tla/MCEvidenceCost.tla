--------------------------- MODULE MCEvidenceCost ---------------------------
(* Small instances of EvidenceCost for TLC. *)
EXTENDS EvidenceCost, TLC

CONSTANTS c1, c2, c3, k1, h1, h2

Stage(id, sources, o) ==
  [stage_id |-> id, source_input_ids |-> sources, cost_observation |-> o]
Source(id, content) == [input_id |-> id, content |-> content]
Combination(id, stages) == [combination_id |-> id, stages |-> stages]
File(id, sources, combinations) ==
  [request_id |-> id, plan |-> "plan", source_inputs |-> sources,
   combinations |-> combinations]

Costs == "o1" :> 3 @@ "o2" :> 5 @@ "o3" :> 5

Fast == Stage(1, {1}, "o1")
Slow == Stage(2, {1, 2}, "o2")

\* A stage in two combinations, and the same request in another order.
Base ==
  File(1, <<Source(1, "x"), Source(2, "y")>>,
       <<Combination(1, <<Fast>>), Combination(2, <<Fast, Slow>>)>>)
Reordered ==
  File(1, <<Source(2, "y"), Source(1, "x")>>,
       <<Combination(2, <<Slow, Fast>>), Combination(1, <<Fast>>)>>)

\* The same id, and other content behind one of the sources.
Changed ==
  File(1, <<Source(1, "x"), Source(2, "z")>>, <<Combination(1, <<Fast, Slow>>)>>)

\* Another id, and a stage whose observation does not fit.
Unfit ==
  File(2, <<Source(1, "x")>>,
       <<Combination(1, <<Fast, Stage(3, {1}, "none")>>)>>)

\* A source that no stage uses.
Unbound ==
  File(3, <<Source(1, "x"), Source(2, "y")>>, <<Combination(1, <<Fast>>)>>)

\* The base request after another measurement of one of its stages.
Remeasured ==
  File(4, <<Source(1, "x"), Source(2, "y")>>,
       <<Combination(1, <<Fast, Stage(2, {1, 2}, "o3")>>)>>)

Files == {Base, Reordered, Changed, Unfit, Unbound}
Measurements == {Base, Remeasured}

BaseRequest == Canonical(Base)

\* Projections and collectors share one write-once file, the canonical request:
\* a collector at work sees projections that are over or not begun.
Apart ==
  \/ \A k \in Collectors : collector[k].step = "idle"
  \/ \A c \in Callers : caller[c].step \in {"idle", "done"}

Symmetry == Permutations(Callers)
=============================================================================
