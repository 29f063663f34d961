----------------------------- MODULE MCDelivery -----------------------------
(***************************************************************************)
(* Two stages of code quality that share a phase, one after them, and the    *)
(* tests.  Of each target two handoffs, of different commits; two of the     *)
(* four are begun, without a loop or after one that was sealed.              *)
(***************************************************************************)
EXTENDS Delivery, TLC

Phases == "lint" :> 1 @@ "format" :> 1 @@ "types" :> 2 @@ "tests" :> 3

TwoOfEach ==
  "p1" :> [target |-> "pr", head |-> 1] @@ "p2" :> [target |-> "pr", head |-> 2] @@
  "m1" :> [target |-> "main", head |-> 1] @@ "m2" :> [target |-> "main", head |-> 2]

Begun == {p \in Handoffs : handoff[p] # NewHandoff}
LoopUntouched == loop = NewLoop /\ lease

Bounds ==
  /\ Cardinality(Begun) <= 2
  /\ \/ Begun = {} \/ start = "sealed"
     \/ LoopUntouched /\ request = [run |-> "packet", digits |-> 40]
=============================================================================
