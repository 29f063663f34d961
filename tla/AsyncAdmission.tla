---------------------------- MODULE AsyncAdmission ----------------------------
(***************************************************************************)
(* admit (async-admission-facade.ts): foreground processes admit a run whose *)
(* result is verified, if the repository still is what was sealed.  Each     *)
(* looks at the run, at HEAD, at the candidate files and at the result, one  *)
(* after the other, and then publishes one record.  HEAD and the files may   *)
(* change at any time and any number of times: whatever a process reads of   *)
(* them is possible, and nothing holds of them when the record is written.   *)
(***************************************************************************)
EXTENDS AsyncControlPlane

CONSTANTS
  Foregrounds,  \* foreground processes
  Blocking      \* contents with a blocker among the reviewer's findings, or
                \* a degraded isolation: verified, but not admissible

ASSUME BlockingAssumption == Blocking \subseteq Contents

VARIABLES
  admission,   \* the result named by admissions/<run>.json
  at           \* at[p]: the step of foreground process p

admissionVars == <<admission, at>>

AdmissionTypeOK ==
  /\ admission \in Result \cup {Absent}
  /\ at \in [Foregrounds ->
       {"idle", "publish", "published", "eligible", "ended"}]

AdmissionInit ==
  /\ admission = Absent
  /\ at = [p \in Foregrounds |-> "idle"]

-----------------------------------------------------------------------------
\* Variant: the reviewer's findings are not looked at.
AssertWorkerResult_AnyFindings(r) == r.status = "verified"

\* assertWorkerResult.
AssertWorkerResult(r) == r.status = "verified" /\ r.content \notin Blocking

\* The run is verified, its public result has the hash in the terminal event
\* and is admissible.  A process that is refused, for one of these reasons or
\* because HEAD or a file differs, leaves nothing behind and may ask again.
AdmitChecks(p) ==
  /\ at[p] = "idle"
  /\ Status = "verified"
  /\ result = Latest.result /\ AssertWorkerResult(result)
  /\ at' = [at EXCEPT ![p] = "publish"]
  /\ UNCHANGED admission

\* Variant: whoever finds the record says that it was admitted.
AdmitPublish_MatchIsMine(p) ==
  /\ at[p] = "publish"
  /\ admission' = Latest.result
  /\ at' = [at EXCEPT ![p] = "published"]

\* The record holds nothing that differs from one attempt to the next: a later
\* one finds its own bytes and is told "already-admitted".
AdmitPublish(p) ==
  /\ at[p] = "publish"
  /\ admission' = Latest.result
  /\ at' = [at EXCEPT ![p] = IF admission = Absent THEN "published" ELSE "ended"]

\* admission_eligible is true only for the process that created the record.
AdmitAnswer(p) ==
  /\ at[p] = "published"
  /\ at' = [at EXCEPT ![p] = "eligible"]
  /\ UNCHANGED admission

\* The process dies, or the publication or the readback fails.
AdmitFails(p) ==
  /\ at[p] \in {"publish", "published"}
  /\ at' = [at EXCEPT ![p] = "ended"]
  /\ UNCHANGED admission

Admit(p) == AdmitChecks(p) \/ AdmitPublish(p) \/ AdmitAnswer(p) \/ AdmitFails(p)
=============================================================================
