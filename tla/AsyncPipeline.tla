---------------------------- MODULE AsyncPipeline ----------------------------
(***************************************************************************)
(* A sealed production run until its admission: control planes             *)
(* (AsyncControlPlane) put requests into the queue, workers (AsyncWorker     *)
(* with its records, AsyncProgress) execute them, and foreground processes   *)
(* (AsyncAdmission) admit the result.  They share the files of the state     *)
(* root and nothing else, and take steps in any order.                       *)
(***************************************************************************)
EXTENDS AsyncAdmission

CONSTANT MaxFaults  \* bound on the failures and deaths of workers

ASSUME MaxFaultsAssumption == MaxFaults \in Nat

VARIABLE faults     \* how many there were

pipelineVars == <<vars, progressVars, controlVars, admissionVars, faults>>

PipelineTypeOK ==
  /\ TypeOK /\ ProgressTypeOK /\ ControlTypeOK /\ AdmissionTypeOK
  /\ faults \in 0 .. MaxFaults

PipelineInit ==
  Init /\ ProgressInit /\ ControlInit /\ AdmissionInit /\ faults = 0

\* A worker starts with a request that is in the queue.
Worker(w) ==
  /\ pc[w] = "idle" => Queued(w)
  /\ Work(w) \/ Emit(w)
  /\ UNCHANGED <<controlVars, admissionVars, faults>>

WorkerFails(w) ==
  /\ pc[w] # "idle" /\ faults < MaxFaults
  /\ faults' = faults + 1
  /\ WorkFails(w) \/ EmitFails(w)
  /\ UNCHANGED <<controlVars, admissionVars>>

ControlPlane ==
  /\ Project \/ ProjectionFails
  /\ UNCHANGED <<vars, progressVars, admissionVars, faults>>

Foreground(p) ==
  Admit(p) /\ UNCHANGED <<vars, progressVars, controlVars, faults>>

\* cancelAsyncProductionRun through the facade, and the passing of a lease.
RunDisturbed ==
  /\ Cancel \/ LeaseLapses
  /\ UNCHANGED <<progressVars, controlVars, admissionVars, faults>>

PipelineNext ==
  \/ \E w \in Workers : Worker(w) \/ WorkerFails(w)
  \/ ControlPlane
  \/ \E p \in Foregrounds : Foreground(p)
  \/ RunDisturbed

PipelineSpec == PipelineInit /\ [][PipelineNext]_pipelineVars

\* Control planes are started again and again; a dispatcher executes the
\* recoveries in the queue, and a started worker goes on.
Ready(w) == ~Ended(w) /\ (pc[w] = "idle" => QueuedRecovery(w))

\* Weak fairness of ControlPlane, which always has a step, and those steps and
\* no others change projection; and of Ready(w) /\ Worker(w), which is enabled
\* whenever Ready(w) holds.
PipelineFairness ==
  /\ []<><<projection' # projection>>_pipelineVars
  /\ \A w \in Workers :
       []<>~Ready(w) \/ []<><<Worker(w)>>_pipelineVars

FairPipelineSpec == PipelineSpec /\ PipelineFairness
-----------------------------------------------------------------------------
(* Properties. *)

\* The worker whose claim succeeded lost the record that says so.
ClaimRecordLost ==
  \E f \in Fences : progress[f][4] = Absent /\ progress[f][7] # Absent

\* progressProjection throws for a run only if the record of a successful
\* claim could not be written, however the records of deliveries, reclaims,
\* cancellations, failures and recoveries are interleaved with the projection:
\* "a worker that skipped optional intermediate stages still projects"
\* (openwiki/terminal-operator/async-lifecycle.md:309-310).
ProgressProjectable ==
  projection.step = "load" => Projectable(Seen) \/ ClaimRecordLost

\* The public result and the transaction are looked for one after the other,
\* while a worker publishes the one and removes the other.  A finished run that
\* is called "repair-or-close" is not lost, its result became public meanwhile,
\* unless the finish of a process with that result threw: then it may be.
RepairOnlyIfPublic ==
  RepairOrClose => log[Seen].result \in {result} \cup disowned

\* A recovery in the queue passes recoverCommittedResult's binding check, now
\* and for good: its version and fence are those of the process that committed.
RecoveryBindingHolds ==
  \A q \in queue : q.kind = "recover" =>
    /\ Committed
    /\ Len(log) = q.request.version + 2
    /\ Latest.fence = q.request.fence

\* A transaction that is reported as an orphan of a finished run is not "the
\* only copy of a result whose terminal event may still be recoverable"
\* (openwiki/terminal-operator/async-lifecycle.md:325), although workers commit,
\* recover and clean up during the sweep: the result is public, or has another
\* copy, or is one whose finish threw.
OrphansExpendable ==
  projection.step = "sweep" /\ SeenStatus \in Finished =>
    \A f \in Orphans : transaction[f] = log[Seen].result =>
      \/ log[Seen].result \in {result} \cup disowned
      \/ \E g \in Fences \ Orphans : transaction[g] = log[Seen].result

\* At most one process is ever told that its admission is eligible.
OneEligible ==
  \A p, q \in Foregrounds :
    at[p] = "eligible" /\ at[q] = "eligible" => p = q

\* An admission names the public result that the terminal event committed to,
\* verified, by a reviewer whose findings and isolation are admissible.
AdmissionBindsCommitted ==
  admission # Absent =>
    /\ Status = "verified"
    /\ admission = result /\ result = Latest.result
    /\ admission.content \notin Blocking

\* "The window between [the terminal event and the public result] is exactly
\* what recovery exists for" (openwiki/terminal-operator/async-lifecycle.md:175):
\* a worker that may serve the recovery of a committed run gets the request from
\* a projection and makes the result public, unless it dies, or the finish of a
\* process with that result threw and discarded it.
CommittedBecomesPublic ==
  \A w \in Workers :
    (Committed /\ pc[w] = "idle"
       /\ request[w] = [version |-> Len(log) - 2, fence |-> Latest.fence])
    ~> result # Absent \/ pc[w] = "crashed" \/ EndedWith \in disowned
-----------------------------------------------------------------------------
(* What the run is to those who look at its files. *)

Eligible == {p \in Foregrounds : at[p] = "eligible"}

Promised == INSTANCE RunOutcome WITH
  Results <- Result, status <- Status, waiting <- Waiting, holders <- Holders,
  draft <- bytes, outcome <- EndedWith, public <- result, admitted <- admission,
  told <- Eligible

\* However workers, control planes and foreground processes interleave, fail
\* and die, the run keeps the promises of RunOutcome: only a worker with the
\* last claim ends it, and what it ends with is what is published and admitted.
ImplementsRunOutcome == Promised!Spec
=============================================================================
