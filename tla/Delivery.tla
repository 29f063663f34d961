------------------------------ MODULE Delivery ------------------------------
(***************************************************************************)
(* One workspace: the small loop that a task ends with, the start of the run *)
(* that its receipt allows, and the handoffs of the result, while others     *)
(* move HEAD.                                                                *)
(***************************************************************************)
EXTENDS SmallLoop, GitHandoff

DeliveryInit ==
  head \in Heads /\ LoopInit /\ HandoffInit

DeliveryNext ==
  \/ (RunSmallLoop \/ LeaseExpires \/ StartReadsHead \/ StartSeals)
       /\ UNCHANGED <<head, handoffVars>>
  \/ (OriginMoves \/ \E p \in Handoffs : ExecuteHandoff(p) \/ GitFails(p))
       /\ UNCHANGED <<head, loopVars>>
  \/ HeadMoves /\ UNCHANGED <<loopVars, handoffVars>>

DeliverySpec ==
  DeliveryInit /\ [][DeliveryNext]_<<head, loopVars, handoffVars>>
=============================================================================
