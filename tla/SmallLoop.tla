------------------------------ MODULE SmallLoop ------------------------------
(***************************************************************************)
(* runSmallLoop (small-loop-runner.ts) on one terminal packet, and the start *)
(* of an asynchronous run (async-admission-facade.ts) that its receipt       *)
(* allows.  The loop awaits git and the gates, and in between HEAD moves and *)
(* the write lease expires.                                                  *)
(***************************************************************************)
EXTENDS Repository, TaskQuality

VARIABLES
  lease,    \* the packet's write lease has not expired
  loop,     \* the progress of runSmallLoop
  request,  \* the start's request: the run it names, the digits of its HEAD
  start     \* the progress of the facade's start

loopVars == <<quality, lease, loop, request, start>>

\* initial, actual: HEAD as read at the two ends (0: not read).  The gates are
\* "blocked" until they have run.  named: every changed path has a name.
NewLoop ==
  [step |-> "initial", initial |-> 0, actual |-> 0, preflight |-> FALSE,
   codeQuality |-> "blocked", productionUse |-> "blocked", failures |-> {},
   named |-> TRUE, status |-> "none"]

\* The run is the packet's or another, and object ids are SHA-1 or SHA-256.
Requests == [run : {"packet", "other"}, digits : {40, 64}]

LoopInit ==
  /\ QualityInit /\ lease = TRUE /\ loop = NewLoop
  /\ request \in Requests /\ start = "idle"

Failed(kind) == loop.failures \cup {kind}
Frozen == UNCHANGED <<quality, lease, request, start>>

-----------------------------------------------------------------------------
ReadInitialHead ==
  /\ loop.step = "initial"
  /\ loop' = [loop EXCEPT !.step = "preflight", !.initial = head]
  /\ Frozen

\* runPreflightChecks: HEAD and the lease are looked at; the packet, the paths,
\* the claims and the TDD receipts are in order or not.
PreflightVerdicts == {FALSE} \cup {lease /\ head = ExpectedHead}

Preflight ==
  \E passed \in PreflightVerdicts :
    /\ loop.step = "preflight"
    /\ loop' = [loop EXCEPT !.step = IF passed THEN "quality" ELSE "actual",
                            !.preflight = passed,
                            !.failures = IF passed THEN @ ELSE Failed("policy")]
    /\ Frozen

\* runGate: the command ends cleanly and the gate accepts its receipt.
CodeQuality ==
  /\ loop.step = "quality"
  /\ QualityOver /\ QualityPassed /\ TaskQualityReceiptErrors = {}
  /\ loop' = [loop EXCEPT !.step = "admission", !.codeQuality = "passed"]
  /\ Frozen

\* It is killed by its timeout, with stages at work, it fails or leaves something
\* behind, or its receipt is not accepted.
CodeQualityFails ==
  /\ loop.step = "quality"
  /\ \E kind \in {"transient", "deterministic", "policy"} :
       loop' = [loop EXCEPT !.step = "actual", !.codeQuality = "failed",
                            !.failures = Failed(kind)]
  /\ Frozen

\* Production is admitted by a second preflight.
ProductionAdmission ==
  \E passed \in PreflightVerdicts :
    /\ loop.step = "admission"
    /\ loop' = [loop EXCEPT !.step = IF passed THEN "production" ELSE "actual",
                            !.failures = IF passed THEN @ ELSE Failed("policy")]
    /\ Frozen

ProductionUse ==
  \E kind \in {"none", "transient", "deterministic", "policy"} :
    /\ loop.step = "production"
    /\ loop' = [loop EXCEPT
         !.step = "actual",
         !.productionUse = IF kind = "none" THEN "passed" ELSE "failed",
         !.failures = IF kind = "none" THEN @ ELSE Failed(kind)]
    /\ Frozen

ReadActualHead ==
  /\ loop.step = "actual"
  /\ loop' = [loop EXCEPT
       !.step = "receipt", !.actual = head,
       !.failures = IF loop.initial # ExpectedHead \/ head # ExpectedHead
                    THEN Failed("stale") ELSE @]
  /\ Frozen

ReceiptStatus ==
  IF loop.actual # ExpectedHead THEN "stale"
  ELSE IF loop.failures = {} THEN "passed" ELSE "failed"

\* changedPaths, then buildReceipt.  The first path loses its first letter if its
\* change is not staged, so that a name of one letter is lost.
BuildReceipt ==
  \E named \in BOOLEAN :
    /\ loop.step = "receipt"
    /\ loop' = [loop EXCEPT !.step = "done", !.named = named,
                            !.status = ReceiptStatus]
    /\ Frozen

\* git fails, or a gate's profile is not the packet's: there is no receipt.
LoopThrows ==
  /\ loop.step \in {"initial", "quality", "production", "actual", "receipt"}
  /\ loop.step = "quality" => In("waiting") = Stages
  /\ loop' = [loop EXCEPT !.step = "done"]
  /\ Frozen

\* The code-quality command at work.
QualityCommand ==
  /\ loop.step = "quality"
  /\ ExecuteTaskQuality
  /\ UNCHANGED <<lease, loop, request, start>>

RunSmallLoop ==
  \/ ReadInitialHead \/ Preflight \/ CodeQuality \/ CodeQualityFails
  \/ ProductionAdmission \/ ProductionUse \/ ReadActualHead \/ BuildReceipt
  \/ LoopThrows \/ QualityCommand

LeaseExpires == lease /\ lease' = FALSE /\ UNCHANGED <<quality, loop, request, start>>

-----------------------------------------------------------------------------
\* assertPassingSmallLoopReceipt: what the consumer of a receipt looks at.  The
\* stages and the next action are those of the gates and of the status.
AcceptedReceipt ==
  /\ request.run = "packet" /\ request.digits = 40 /\ loop.named
  /\ loop.status = "passed"
  /\ loop.actual = ExpectedHead
  /\ loop.codeQuality = "passed" /\ loop.productionUse = "passed"
  /\ loop.failures = {}

\* start: HEAD, then the candidates, the receipt and the seal.
StartReadsHead ==
  /\ start = "idle" /\ loop.step = "done" /\ head = ExpectedHead
  /\ start' = "seal"
  /\ UNCHANGED <<quality, lease, loop, request>>

StartSeals ==
  /\ start = "seal"
  /\ start' = IF AcceptedReceipt THEN "sealed" ELSE "refused"
  /\ UNCHANGED <<quality, lease, loop, request>>

-----------------------------------------------------------------------------
(* Properties. *)

\* A sealed run was earned: it is the one of the loop, the stages of code quality
\* all passed, the tests among them with a test, preflight and production use
\* passed, and HEAD was the packet's at both ends.  And the consumer refuses a
\* receipt that the loop calls passed for three reasons only, which the producer
\* does not look at: it is another run's, its HEAD is a SHA-256, which the facade
\* accepts (async-admission-facade.ts:49), or a changed path has lost its name.
SealMeansEarned ==
  /\ start = "sealed" =>
       /\ request.run = "packet"
       /\ loop.preflight
       /\ \A s \in Stages : quality[s] = "passed"
       /\ loop.productionUse = "passed"
       /\ loop.initial = ExpectedHead /\ loop.actual = ExpectedHead
  /\ start = "refused" /\ loop.status = "passed" =>
       request.run = "other" \/ request.digits = 64 \/ ~loop.named

\* "blocked means an earlier phase failed, never this stage failed"
\* (openwiki/terminal-operator/overview.md:132), a phase "does not abandon its
\* siblings when one stage fails" (126-127): whatever the order in which stages
\* settle, what runs has only passed stages before it, and what is blocked comes
\* after a failure and when nothing is at work any more.
PhasesInOrder ==
  LET Earlier(s) == {t \in Stages : PhaseOf[t] < PhaseOf[s]}
  IN \A s \in Stages :
       /\ quality[s] \in {"running"} \cup Outcomes =>
            \A t \in Earlier(s) : Passed(t)
       /\ quality[s] = "blocked" =>
            /\ \E t \in Earlier(s) : quality[t] \in {"failed", "rejected"}
            /\ In("running") = {}
=============================================================================
