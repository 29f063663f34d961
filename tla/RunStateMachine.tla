-------------------------- MODULE RunStateMachine --------------------------
(***************************************************************************)
(* The state machine of a production run that async-lifecycle.md draws:    *)
(* awaiting, claimed under a lease, reclaimed once the lease is over, and   *)
(* ended once by the holder of the current fence or by a cancellation.     *)
(***************************************************************************)
EXTENDS Naturals

CONSTANTS Fences, None

VARIABLES
  status,    \* "unsealed", the published status of the run
  version,   \* number of transitions since the seal
  fence,     \* fencing token of the last claim, or None
  lease,     \* end of the last claim's lease
  deadline   \* the sealed deadline

rvars == <<status, version, fence, lease, deadline>>

Init ==
  /\ status = "unsealed"
  /\ version = 0
  /\ fence = None
  /\ lease = 0
  /\ deadline = 0

Seal ==
  /\ status = "unsealed"
  /\ status' = "awaiting-production"
  /\ deadline' \in Nat
  /\ UNCHANGED <<version, fence, lease>>

\* A first claim, or a claim made when the lease of the last one is over.
Claim ==
  /\ status \in {"awaiting-production", "running-production"}
  /\ status' = "running-production"
  /\ fence' \in Fences
  /\ \E now \in 0 .. deadline :
       /\ status = "running-production" => lease <= now
       /\ now < lease'
  /\ lease' <= deadline
  /\ version' = version + 1
  /\ UNCHANGED deadline

\* The holder ends the run.
Finish ==
  /\ status = "running-production"
  /\ status' \in {"verified", "failed", "stale"}
  /\ version' = version + 1
  /\ UNCHANGED <<fence, lease, deadline>>

Cancel ==
  /\ status \in {"awaiting-production", "running-production"}
  /\ status' = "cancelled"
  /\ version' = version + 1
  /\ UNCHANGED <<fence, lease, deadline>>

Next == Seal \/ Claim \/ Finish \/ Cancel

Spec == Init /\ [][Next]_rvars
=============================================================================
