----------------------------- MODULE TaskQuality -----------------------------
(***************************************************************************)
(* task-quality-runner.ts and task-quality-contract.ts.  The stages of one   *)
(* phase run concurrently and settle in any order; the next phase begins     *)
(* when all have settled, and is blocked if one of them did not pass.        *)
(***************************************************************************)
EXTENDS Naturals, FiniteSets

CONSTANTS
  Stages,    \* TASK_QUALITY_STAGE_DEFINITIONS
  PhaseOf,   \* the phase of a stage
  Tests      \* the stages whose command is bun test

ASSUME StagesAssumption ==
  IsFiniteSet(Stages) /\ PhaseOf \in [Stages -> Nat] /\ Tests \subseteq Stages

VARIABLE quality   \* quality[s]: what is known of stage s

\* "empty": the command succeeded and printed "0 pass".
Outcomes == {"passed", "empty", "failed", "rejected"}

QualityInit == quality = [s \in Stages |-> "waiting"]

\* runStage: a clean run passes; one of tests only if it printed a count.
OutcomesOf(s) ==
  IF s \in Tests THEN Outcomes ELSE Outcomes \ {"empty"}

Passed(s) == quality[s] \in {"passed", "empty"}

In(status) == {s \in Stages : quality[s] = status}

NextPhase(p) ==
  /\ \E s \in In("waiting") : PhaseOf[s] = p
  /\ \A s \in In("waiting") : PhaseOf[s] >= p

\* Variant: a failure ends the phase, as Promise.all would have it.
RunPhase_FirstFailure ==
  \E p \in {PhaseOf[s] : s \in Stages} :
    /\ NextPhase(p)
    /\ In("running") = {} \/ \E s \in Stages : quality[s] \in {"failed", "rejected"}
    /\ quality' = [s \in Stages |->
         IF PhaseOf[s] # p THEN quality[s]
         ELSE IF \A t \in Stages : PhaseOf[t] < p => Passed(t) THEN "running"
         ELSE "blocked"]

\* The next phase, if no stage of an earlier one is at work.
RunPhase ==
  \E p \in {PhaseOf[s] : s \in Stages} :
    /\ NextPhase(p) /\ In("running") = {}
    /\ quality' = [s \in Stages |->
         IF PhaseOf[s] # p THEN quality[s]
         ELSE IF \A t \in Stages : PhaseOf[t] < p => Passed(t) THEN "running"
         ELSE "blocked"]

SettleStage ==
  \E s \in In("running") : \E outcome \in OutcomesOf(s) :
    quality' = [quality EXCEPT ![s] = outcome]

QualityOver == In("waiting") = {} /\ In("running") = {}

\* The status of the aggregate receipt, with which the command exits.
QualityPassed == \A s \in Stages : Passed(s)

\* Variant: the number of tests is not looked at.
TaskQualityReceiptErrors_AnyCount == {s \in Stages : ~Passed(s)}

\* taskQualityReceiptErrors, as the gate applies it to that receipt: a stage of
\* tests must have run one.
TaskQualityReceiptErrors == {s \in Stages : quality[s] # "passed"}

ExecuteTaskQuality == RunPhase \/ SettleStage
=============================================================================
