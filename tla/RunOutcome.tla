----------------------------- MODULE RunOutcome -----------------------------
(***************************************************************************)
(* What a sealed run promises to those who look at its files, however many  *)
(* workers, control planes and foreground processes are at work on it: a    *)
(* superseded worker never ends it; it ends once; only the result it ended  *)
(* with becomes public, and stays; only a public, verified and admissible   *)
(* result is admitted, and one process at most is told so.                  *)
(***************************************************************************)
CONSTANTS Workers, Results, Foregrounds, Blocking, Absent

VARIABLES
  status,    \* the published status of the run
  waiting,   \* workers that may still claim it
  holders,   \* workers that made its last claim: deliveries of one request
  draft,     \* draft[w]: what worker w would end it with, or Absent
  outcome,   \* the result it ended with, or Absent
  public,    \* the public result, or Absent
  admitted,  \* the admitted result, or Absent
  told       \* who was told that the result is eligible

ovars == <<status, waiting, holders, draft, outcome, public, admitted, told>>

Init ==
  /\ status = "awaiting-production"
  /\ waiting \subseteq Workers
  /\ holders = {}
  /\ draft = [w \in Workers |-> Absent]
  /\ outcome = Absent /\ public = Absent /\ admitted = Absent
  /\ told = {}

Open == status \in {"awaiting-production", "running-production"}

\* A claim supersedes the holders, and all who have waited for its version.
Claim ==
  /\ Open
  /\ status' = "running-production"
  /\ holders' \subseteq waiting /\ holders' # {}
  /\ waiting' \subseteq waiting \ holders'
  /\ UNCHANGED <<draft, outcome, public, admitted, told>>

\* A worker comes to a result.  Two of them may come to the same.
Draft ==
  /\ \E w \in Workers, r \in Results : draft' = [draft EXCEPT ![w] = r]
  /\ UNCHANGED <<status, waiting, holders, outcome, public, admitted, told>>

\* A holder ends the run with its own result.
Commit ==
  /\ status = "running-production"
  /\ \E w \in holders : outcome' = draft[w]
  /\ outcome' \in Results
  /\ status' = outcome'.status
  /\ holders' = {} /\ waiting' = {}
  /\ UNCHANGED <<draft, public, admitted, told>>

Cancel ==
  /\ Open
  /\ status' = "cancelled"
  /\ holders' = {} /\ waiting' = {}
  /\ UNCHANGED <<draft, outcome, public, admitted, told>>

Publish ==
  /\ outcome # Absent /\ public = Absent
  /\ public' = outcome
  /\ UNCHANGED <<status, waiting, holders, draft, outcome, admitted, told>>

Admit ==
  /\ public # Absent /\ admitted = Absent
  /\ status = "verified" /\ public.content \notin Blocking
  /\ admitted' = public
  /\ UNCHANGED <<status, waiting, holders, draft, outcome, public, told>>

Tell ==
  /\ admitted # Absent /\ told = {}
  /\ \E p \in Foregrounds : told' = {p}
  /\ UNCHANGED <<status, waiting, holders, draft, outcome, public, admitted>>

Next == Claim \/ Draft \/ Commit \/ Cancel \/ Publish \/ Admit \/ Tell

Spec == Init /\ [][Next]_ovars
=============================================================================
