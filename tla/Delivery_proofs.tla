--------------------------- MODULE Delivery_proofs ---------------------------
(* Proofs about Delivery for any stages in any phases, any commits and any   *)
(* number of handoffs and of failures of git.                                *)
EXTENDS Delivery, TLAPS

USE HeadsAssumption, StagesAssumption, HandoffAssumption

-----------------------------------------------------------------------------
(* Task quality: the phases. *)

Statuses == {"waiting", "running", "blocked"} \cup Outcomes

\* The phases are begun in their order: what waits comes after what does not.
Begun(s) == quality[s] # "waiting"

QualityInv ==
  /\ quality \in [Stages -> Statuses]
  /\ \A s, t \in Stages : Begun(s) /\ ~Begun(t) => PhaseOf[s] < PhaseOf[t]
  /\ PhasesInOrder

LEMMA Init_QualityInv == QualityInit => QualityInv
BY DEF QualityInit, QualityInv, Statuses, Begun, PhasesInOrder, Outcomes

\* A phase begins when all before it have settled: all of its stages wait, and
\* they run only if all before them passed.
LEMMA RunPhaseOrder == ASSUME QualityInv, RunPhase PROVE QualityInv'
<1>1. PICK p \in {PhaseOf[s] : s \in Stages} :
        /\ NextPhase(p) /\ In("running") = {}
        /\ quality' = [s \in Stages |->
             IF PhaseOf[s] # p THEN quality[s]
             ELSE IF \A t \in Stages : PhaseOf[t] < p => Passed(t) THEN "running"
             ELSE "blocked"]
  BY DEF RunPhase
<1> DEFINE EarlierPassed == \A t \in Stages : PhaseOf[t] < p => Passed(t)
<1>2. p \in Nat /\ \A s \in Stages : PhaseOf[s] \in Nat
  BY <1>1
<1>3. \A s \in Stages : (PhaseOf[s] = p => ~Begun(s)) /\ (PhaseOf[s] < p => Begun(s))
  BY <1>1, <1>2 DEF NextPhase, In, QualityInv, Begun
<1>4. \A s \in Stages : Begun(s) => PhaseOf[s] < p
  BY <1>1, <1>2 DEF NextPhase, In, QualityInv, Begun
<1>5. \A s \in Stages :
        quality'[s] = IF PhaseOf[s] # p THEN quality[s]
                      ELSE IF EarlierPassed THEN "running" ELSE "blocked"
  BY <1>1
<1>6. quality' \in [Stages -> Statuses]
  BY <1>1 DEF QualityInv, Statuses
<1>7. \A s \in Stages : quality'[s] # "waiting" <=> Begun(s) \/ PhaseOf[s] = p
  BY <1>5 DEF Begun
<1>8. \A s, t \in Stages :
        quality'[s] # "waiting" /\ quality'[t] = "waiting" => PhaseOf[s] < PhaseOf[t]
  <2> SUFFICES ASSUME NEW s \in Stages, NEW t \in Stages,
                      quality'[s] # "waiting", quality'[t] = "waiting"
               PROVE  PhaseOf[s] < PhaseOf[t]
    OBVIOUS
  <2>1. PhaseOf[s] <= p
    BY <1>2, <1>4, <1>7
  <2>2. PhaseOf[t] > p
    <3>1. ~Begun(t) /\ PhaseOf[t] # p
      BY <1>7
    <3> QED BY <1>2, <1>3, <3>1
  <2> QED BY <1>2, <2>1, <2>2
<1>9. PhasesInOrder'
  <2> SUFFICES ASSUME NEW s \in Stages
               PROVE  /\ quality'[s] \in {"running"} \cup Outcomes =>
                           \A t \in Stages : PhaseOf[t] < PhaseOf[s] => Passed(t)'
                      /\ quality'[s] = "blocked" =>
                           /\ \E t \in Stages : /\ PhaseOf[t] < PhaseOf[s]
                                                /\ quality'[t] \in {"failed", "rejected"}
                           /\ \A t \in Stages : quality'[t] # "running"
    BY DEF PhasesInOrder, In
  <2>1. \A t \in Stages : Passed(t) => Passed(t)'
    <3>1. \A t \in Stages : Passed(t) => PhaseOf[t] # p
      BY <1>3 DEF Passed, Begun
    <3> QED BY <1>5, <3>1 DEF Passed
  <2>2. CASE PhaseOf[s] # p
    <3>1. quality'[s] = quality[s]
      BY <1>5, <2>2
    <3>2. quality[s] \in {"running"} \cup Outcomes =>
            \A t \in Stages : PhaseOf[t] < PhaseOf[s] => Passed(t)
      BY DEF QualityInv, PhasesInOrder
    <3>3. ASSUME quality[s] = "blocked"
          PROVE  /\ \E t \in Stages : /\ PhaseOf[t] < PhaseOf[s]
                                      /\ quality'[t] \in {"failed", "rejected"}
                 /\ \A t \in Stages : quality'[t] # "running"
      <4>1. PICK t \in Stages : /\ PhaseOf[t] < PhaseOf[s]
                                /\ quality[t] \in {"failed", "rejected"}
        BY <3>3 DEF QualityInv, PhasesInOrder
      <4>2. PhaseOf[t] < p /\ ~Passed(t)
        BY <1>4, <4>1 DEF Begun, Passed
      <4>3. quality'[t] = quality[t]
        BY <1>2, <1>5, <4>2
      <4>4. \A u \in Stages : quality'[u] # "running"
        BY <1>1, <1>5, <4>2 DEF In
      <4> QED BY <4>1, <4>3, <4>4
    <3> QED BY <2>1, <3>1, <3>2, <3>3
  <2>3. CASE PhaseOf[s] = p /\ EarlierPassed
    <3>1. quality'[s] = "running"
      BY <1>5, <2>3
    <3> QED BY <2>1, <2>3, <3>1
  <2>4. CASE PhaseOf[s] = p /\ ~EarlierPassed
    <3>1. quality'[s] = "blocked" /\ \A t \in Stages : quality'[t] # "running"
      BY <1>1, <1>5, <2>4 DEF In
    <3>2. PICK t \in Stages : PhaseOf[t] < p /\ ~Passed(t)
      BY <2>4
    <3>3. quality[t] \in {"failed", "rejected", "blocked"}
      BY <1>1, <1>3, <3>2 DEF QualityInv, Statuses, Outcomes, Begun, In, Passed
    <3>4. PICK u \in Stages : PhaseOf[u] < p /\ quality[u] \in {"failed", "rejected"}
      <4>1. CASE quality[t] = "blocked"
        <5>1. PICK u \in Stages : /\ PhaseOf[u] < PhaseOf[t]
                                  /\ quality[u] \in {"failed", "rejected"}
          BY <4>1 DEF QualityInv, PhasesInOrder
        <5> QED BY <1>2, <3>2, <5>1
      <4> QED BY <3>2, <3>3, <4>1
    <3>5. quality'[u] = quality[u]
      BY <1>2, <1>5, <3>4
    <3> QED BY <2>4, <3>1, <3>4, <3>5 DEF Outcomes
  <2> QED BY <2>2, <2>3, <2>4
<1> QED BY <1>6, <1>8, <1>9 DEF QualityInv, Begun

\* A stage that settles was at work, so that nothing is blocked yet.
LEMMA SettleStageOrder == ASSUME QualityInv, SettleStage PROVE QualityInv'
<1>1. PICK s \in Stages, outcome \in Outcomes :
        /\ quality[s] = "running"
        /\ quality' = [quality EXCEPT ![s] = outcome]
  BY DEF SettleStage, In, OutcomesOf
<1>2. \A t \in Stages : quality'[t] = IF t = s THEN outcome ELSE quality[t]
  BY <1>1 DEF QualityInv
<1>3. \A t \in Stages : quality[t] # "blocked"
  BY <1>1 DEF QualityInv, PhasesInOrder, In
<1>4. \A t \in Stages : Passed(t) => Passed(t)'
  BY <1>1, <1>2 DEF Passed
<1>5. quality' \in [Stages -> Statuses]
  BY <1>1 DEF QualityInv, Statuses
<1>6. \A t \in Stages : Begun(t)' <=> Begun(t)
  BY <1>1, <1>2 DEF Begun, Outcomes
<1>7. \A t \in Stages : quality'[t] # "blocked"
  BY <1>2, <1>3 DEF Outcomes
<1>8. \A t \in Stages :
        quality'[t] \in {"running"} \cup Outcomes => quality[t] \in {"running"} \cup Outcomes
  BY <1>1, <1>2
<1>9. PhasesInOrder'
  BY <1>4, <1>7, <1>8 DEF QualityInv, PhasesInOrder
<1> QED BY <1>5, <1>6, <1>9 DEF QualityInv

LEMMA QualityStep ==
  ASSUME QualityInv, ExecuteTaskQuality \/ UNCHANGED quality PROVE QualityInv'
<1>1. CASE UNCHANGED quality
  BY <1>1 DEF QualityInv, PhasesInOrder, Begun, Passed, In
<1> QED BY <1>1, RunPhaseOrder, SettleStageOrder DEF ExecuteTaskQuality

-----------------------------------------------------------------------------
(* The loop, and the start that its receipt allows. *)

Failures == {"policy", "transient", "deterministic", "stale"}
GateStatuses == {"blocked", "passed", "failed"}

LoopTypeOK ==
  /\ loop \in [step : {"initial", "preflight", "quality", "admission",
                       "production", "actual", "receipt", "done"},
               initial : Nat, actual : Nat, preflight : BOOLEAN,
               codeQuality : GateStatuses, productionUse : GateStatuses,
               failures : SUBSET Failures,
               named : BOOLEAN, status : {"none", "passed", "failed", "stale"}]
  /\ request \in Requests
  /\ start \in {"idle", "seal", "sealed", "refused"}
  /\ lease \in BOOLEAN
  /\ head \in Heads

\* What the loop has behind it at each step, as long as it has noted no failure;
\* and the code-quality gate once it has passed stays earned, the stages being
\* left alone after it.
LoopProgress ==
  /\ loop.step \in {"quality", "admission", "production"} => loop.preflight
  /\ loop.step \in {"admission", "production"} => loop.codeQuality = "passed"
  /\ loop.codeQuality = "passed" =>
       /\ loop.step \notin {"initial", "preflight", "quality"}
       /\ \A s \in Stages : quality[s] = "passed"
  /\ loop.step \in {"actual", "receipt"} /\ loop.failures = {} =>
       /\ loop.preflight
       /\ loop.codeQuality = "passed" /\ loop.productionUse = "passed"
  /\ loop.step = "receipt" /\ loop.failures = {} =>
       loop.initial = ExpectedHead /\ loop.actual = ExpectedHead

\* A receipt that says passed has all of it.
Earned ==
  /\ loop.preflight /\ loop.failures = {}
  /\ loop.codeQuality = "passed" /\ loop.productionUse = "passed"
  /\ loop.initial = ExpectedHead /\ loop.actual = ExpectedHead

ReceiptInv ==
  /\ loop.status # "none" => loop.step = "done"
  /\ loop.status = "passed" => Earned
  /\ start # "idle" => loop.step = "done"
  /\ start = "sealed" => request.run = "packet" /\ loop.status = "passed"
  /\ start = "refused" /\ loop.status = "passed" =>
       request.run = "other" \/ request.digits = 64 \/ ~loop.named

LoopInv == LoopTypeOK /\ LoopProgress /\ ReceiptInv

LEMMA LoopInvIsEnough == LoopInv => SealMeansEarned
BY DEF LoopInv, LoopProgress, ReceiptInv, Earned, SealMeansEarned

LEMMA Init_LoopInv == head \in Heads /\ LoopInit => LoopInv
BY DEF LoopInit, NewLoop, LoopInv, LoopTypeOK, LoopProgress, ReceiptInv, Earned,
       GateStatuses, Failures

\* A step of the loop that leaves the stages alone and is not the last.
LEMMA LoopStep ==
  ASSUME LoopInv, RunSmallLoop, head' = head PROVE LoopInv'
<1> USE DEF LoopInv, LoopTypeOK, LoopProgress, ReceiptInv, Earned, GateStatuses,
            Failures, Frozen, Failed, Requests
<1>0. start = "idle" \/ loop.step = "done"
  OBVIOUS
<1>1. CASE ReadInitialHead
  BY <1>1 DEF ReadInitialHead
<1>2. CASE Preflight
  <2>1. PICK passed \in BOOLEAN :
          loop' = [loop EXCEPT !.step = IF passed THEN "quality" ELSE "actual",
                               !.preflight = passed,
                               !.failures = IF passed THEN @ ELSE Failed("policy")]
    BY <1>2 DEF Preflight, PreflightVerdicts
  <2>2. loop.step = "preflight" /\ Frozen
    BY <1>2 DEF Preflight
  <2>3. CASE passed = TRUE
    BY <2>1, <2>2, <2>3
  <2>4. CASE passed = FALSE
    BY <2>1, <2>2, <2>4
  <2> QED BY <2>3, <2>4
<1>3. CASE CodeQuality
  <2>1. \A s \in Stages : quality[s] = "passed"
    BY <1>3 DEF CodeQuality, TaskQualityReceiptErrors
  <2> QED BY <1>3, <2>1 DEF CodeQuality
<1>4. CASE CodeQualityFails
  <2>1. PICK kind \in {"transient", "deterministic", "policy"} :
          loop' = [loop EXCEPT !.step = "actual", !.codeQuality = "failed",
                               !.failures = Failed(kind)]
    BY <1>4 DEF CodeQualityFails
  <2>2. loop.step = "quality" /\ Frozen
    BY <1>4 DEF CodeQualityFails
  <2> QED BY <2>1, <2>2
<1>5. CASE ProductionAdmission
  <2>1. PICK passed \in BOOLEAN :
          loop' = [loop EXCEPT
                     !.step = IF passed THEN "production" ELSE "actual",
                     !.failures = IF passed THEN @ ELSE Failed("policy")]
    BY <1>5 DEF ProductionAdmission, PreflightVerdicts
  <2>2. loop.step = "admission" /\ Frozen
    BY <1>5 DEF ProductionAdmission
  <2>3. CASE passed = TRUE
    BY <2>1, <2>2, <2>3
  <2>4. CASE passed = FALSE
    BY <2>1, <2>2, <2>4
  <2> QED BY <2>3, <2>4
<1>6. CASE ProductionUse
  <2>1. PICK kind \in {"none", "transient", "deterministic", "policy"} :
          loop' = [loop EXCEPT
            !.step = "actual",
            !.productionUse = IF kind = "none" THEN "passed" ELSE "failed",
            !.failures = IF kind = "none" THEN @ ELSE Failed(kind)]
    BY <1>6 DEF ProductionUse
  <2>2. loop.step = "production" /\ Frozen
    BY <1>6 DEF ProductionUse
  <2>3. CASE kind = "none"
    BY <2>1, <2>2, <2>3
  <2>4. CASE kind # "none"
    BY <2>1, <2>2, <2>4
  <2> QED BY <2>3, <2>4
<1>7. CASE ReadActualHead
  <2>1. CASE loop.initial # ExpectedHead \/ head # ExpectedHead
    BY <1>7, <2>1 DEF ReadActualHead
  <2>2. CASE loop.initial = ExpectedHead /\ head = ExpectedHead
    BY <1>7, <2>2 DEF ReadActualHead
  <2> QED BY <2>1, <2>2
<1>8. CASE BuildReceipt
  <2>1. PICK named \in BOOLEAN :
          loop' = [loop EXCEPT !.step = "done", !.named = named,
                               !.status = ReceiptStatus]
    BY <1>8 DEF BuildReceipt
  <2>2. loop.step = "receipt" /\ Frozen
    BY <1>8 DEF BuildReceipt
  <2> QED BY <2>1, <2>2 DEF ReceiptStatus
<1>9. CASE LoopThrows
  BY <1>9 DEF LoopThrows
<1>10. CASE QualityCommand
  BY <1>10 DEF QualityCommand
<1> QED BY <1>1, <1>2, <1>3, <1>4, <1>5, <1>6, <1>7, <1>8, <1>9, <1>10
        DEF RunSmallLoop

\* The start looks at a receipt that no step changes any more.
LEMMA StartStep ==
  ASSUME LoopInv, StartReadsHead \/ StartSeals, head' = head PROVE LoopInv'
<1> USE DEF LoopInv, LoopTypeOK, LoopProgress, ReceiptInv, Earned
<1>1. CASE StartReadsHead
  BY <1>1 DEF StartReadsHead
<1>2. CASE StartSeals
  <2>1. start = "seal" /\ UNCHANGED <<quality, lease, loop, request, head>>
    BY <1>2 DEF StartSeals
  <2>2. CASE AcceptedReceipt
    <3>1. start' = "sealed"
      BY <1>2, <2>2 DEF StartSeals
    <3> QED BY <2>1, <2>2, <3>1 DEF AcceptedReceipt
  <2>3. CASE ~AcceptedReceipt
    <3>1. start' = "refused"
      BY <1>2, <2>3 DEF StartSeals
    <3>2. loop.status = "passed" =>
            request.run # "packet" \/ request.digits # 40 \/ ~loop.named
      BY <2>1, <2>3 DEF AcceptedReceipt
    <3>3. request.run \in {"packet", "other"} /\ request.digits \in {40, 64}
      BY DEF Requests
    <3> QED BY <2>1, <3>1, <3>2, <3>3
  <2> QED BY <2>2, <2>3
<1> QED BY <1>1, <1>2

LEMMA LoopStill ==
  ASSUME LoopInv, head' \in Heads, UNCHANGED <<quality, loop, request, start>>,
         lease' \in BOOLEAN
  PROVE  LoopInv'
BY DEF LoopInv, LoopTypeOK, LoopProgress, ReceiptInv, Earned

LEMMA Next_LoopInv ==
  LoopInv /\ QualityInv /\ [DeliveryNext]_<<head, loopVars, handoffVars>>
    => LoopInv' /\ QualityInv'
<1> SUFFICES ASSUME LoopInv, QualityInv,
                    [DeliveryNext]_<<head, loopVars, handoffVars>>
             PROVE  LoopInv' /\ QualityInv'
  OBVIOUS
<1>1. CASE RunSmallLoop /\ UNCHANGED head
  <2>1. ExecuteTaskQuality \/ UNCHANGED quality
    BY <1>1 DEF RunSmallLoop, ReadInitialHead, Preflight, CodeQuality,
                CodeQualityFails, ProductionAdmission, ProductionUse,
                ReadActualHead, BuildReceipt, LoopThrows, QualityCommand, Frozen
  <2> QED BY <1>1, <2>1, LoopStep, QualityStep
<1>2. CASE (StartReadsHead \/ StartSeals) /\ UNCHANGED head
  BY <1>2, StartStep, QualityStep DEF StartReadsHead, StartSeals
<1>3. CASE /\ UNCHANGED <<quality, loop, request, start>>
           /\ lease' \in BOOLEAN /\ head' \in Heads
  BY <1>3, LoopStill, QualityStep
<1>4. \/ RunSmallLoop /\ UNCHANGED head
      \/ (StartReadsHead \/ StartSeals) /\ UNCHANGED head
      \/ /\ UNCHANGED <<quality, loop, request, start>>
         /\ lease' \in BOOLEAN /\ head' \in Heads
  BY DEF DeliveryNext, LeaseExpires, HeadMoves, loopVars, LoopInv, LoopTypeOK
<1> QED BY <1>1, <1>2, <1>3, <1>4

LEMMA LoopInvariance == DeliverySpec => [](LoopInv /\ QualityInv)
<1>1. DeliveryInit => LoopInv /\ QualityInv
  BY Init_LoopInv, Init_QualityInv DEF DeliveryInit, LoopInit
<1> QED BY <1>1, Next_LoopInv, PTL DEF DeliverySpec

\* Whatever the order in which the stages of a phase settle, no phase begins
\* before the ones below it have settled, it runs only over passed stages, and
\* it is blocked only over a failed one.
THEOREM PhasesAreInOrder == DeliverySpec => []PhasesInOrder
<1>1. QualityInv => PhasesInOrder BY DEF QualityInv
<1> QED BY <1>1, LoopInvariance, PTL

\* A run is sealed only after a loop whose gates all passed over the packet's
\* HEAD, and a receipt that says passed is refused for nothing but the run it
\* names, a SHA-256 HEAD or a path without a name, though HEAD moves and the lease
\* expires between any two steps.
THEOREM SealIsEarned == DeliverySpec => []SealMeansEarned
BY LoopInvIsEnough, LoopInvariance, PTL

-----------------------------------------------------------------------------
(* The handoffs. *)

Early == {"head-before", "remote-list", "forgejo-before", "remote-add"}
ReadBack == {"head-after", "origin-after", "passed"}
HandoffSteps ==
  Early \cup ReadBack \cup {"head-before-push", "target-read-before", "push",
                           "remote-readback", "rollback", "failed"}

Progress == [step : HandoffSteps, added : BOOLEAN, origin : {0, 1, 2},
             residue : BOOLEAN]

HandoffTypeOK ==
  /\ refs \in [{"main", "pr"} -> Heads \cup {Absent}]
  /\ handoff \in [Handoffs -> Progress]
  /\ origin \in {1, 2}

\* The ref of a handoff that has read it back is there to stay.
HandedOff(p) ==
  /\ refs[Target(p)] # Absent
  /\ Target(p) = "pr" => refs["pr"] = Expected(p)
  /\ Target(p) = "main" => refs["main"] >= Expected(p)

ReadBackInv ==
  \A p \in Handoffs :
    handoff[p].step \in ReadBack => HandedOff(p)

\* Only who added the remote ever removes it, and a handoff without a residue
\* leaves it as it was, or has still to remove it.
RemoteInv ==
  /\ \A p \in Handoffs :
       /\ handoff[p].residue => At(p, "failed")
       /\ handoff[p].step \in Early => ~handoff[p].added
       /\ At(p, "rollback") => handoff[p].added
  /\ \/ \E p \in Handoffs : handoff[p].residue
     \/ /\ configured # Absent => /\ remote = configured
                                  /\ \A p \in Handoffs : ~handoff[p].added
        /\ configured = Absent =>
             \/ remote = Absent
             \/ /\ remote = "ours"
                /\ \E p \in Handoffs : handoff[p].added /\ ~At(p, "failed")

HandoffInv == HandoffTypeOK /\ ReadBackInv /\ RemoteInv

LEMMA Init_HandoffInv == HandoffInit => HandoffInv
<1> SUFFICES ASSUME HandoffInit PROVE HandoffInv
  OBVIOUS
<1>1. /\ NewHandoff \in Progress /\ NewHandoff.step = "head-before"
      /\ ~NewHandoff.added /\ ~NewHandoff.residue
  BY DEF NewHandoff, Progress, HandoffSteps, Early
<1>2. \A p \in Handoffs : handoff[p] = NewHandoff
  BY DEF HandoffInit
<1> QED BY <1>1, <1>2 DEF HandoffInit, HandoffInv, HandoffTypeOK, ReadBackInv,
                          ReadBack, RemoteInv, At

\* What is pushed never goes back behind what was handed off.
LEMMA PushKeeps ==
  ASSUME HandoffTypeOK, NEW p \in Handoffs, HandedOff(p),
         NEW q \in Handoffs, Pushable(q),
         refs' = [refs EXCEPT ![Target(q)] = Expected(q)]
  PROVE  HandedOff(p)'
<1>1. /\ Target(p) \in {"main", "pr"} /\ Target(q) \in {"main", "pr"}
      /\ Expected(p) \in Nat /\ Expected(q) \in Heads /\ Expected(q) \in Nat
  BY DEF Target, Expected
<1>2. \A t \in {"main", "pr"} :
        refs'[t] = IF t = Target(q) THEN Expected(q) ELSE refs[t]
  BY <1>1 DEF HandoffTypeOK
<1>3. CASE Target(p) # Target(q)
  BY <1>1, <1>2, <1>3 DEF HandedOff, Target, Expected
<1>4. CASE Target(p) = Target(q)
  <2> SUFFICES ASSUME refs[Target(q)] # Expected(q) PROVE HandedOff(p)'
    BY <1>1, <1>2, <1>4 DEF HandedOff, Target, Expected
  <2>1. Target(q) = "main" /\ refs["main"] <= Expected(q)
    BY <1>1, <1>4 DEF Pushable, HandedOff
  <2>2. refs["main"] \in Nat /\ refs["main"] >= Expected(p)
    BY <1>4, <2>1 DEF HandoffTypeOK, HandedOff
  <2>3. refs'["main"] = Expected(q) /\ Expected(q) # Absent
    BY <1>1, <1>2, <2>1
  <2>4. Expected(q) >= Expected(p)
    BY <1>1, <2>1, <2>2
  <2> QED BY <1>4, <2>1, <2>3, <2>4 DEF HandedOff, Target, Expected
<1> QED BY <1>3, <1>4

\* A step of git that changes neither remote nor ref, and only the progress of
\* its handoff: it fails only where nothing was added, rolls back only where
\* something was, and passes the readback only on what it read.
Moves(p, s, o) ==
  /\ ~At(p, "passed") /\ ~At(p, "failed")
  /\ handoff' = [handoff EXCEPT ![p] = [@ EXCEPT !.origin = o, !.step = s]]
  /\ s \in HandoffSteps /\ o \in {0, 1, 2}
  /\ s \in Early => handoff[p].step \in Early
  /\ s = "rollback" => handoff[p].added
  /\ s = "failed" => ~handoff[p].added
  /\ s \in ReadBack => HandedOff(p)
  /\ UNCHANGED <<configured, remote, origin, refs>>

LEMMA ReadStep ==
  ASSUME HandoffInv, NEW p \in Handoffs, NEW s, NEW o, Moves(p, s, o)
  PROVE  HandoffInv'
<1> USE DEF HandoffInv, Moves
<1>1. /\ handoff \in [Handoffs -> Progress]
      /\ \A q \in Handoffs : q # p => handoff'[q] = handoff[q]
      /\ handoff'[p] = [handoff[p] EXCEPT !.origin = o, !.step = s]
      /\ handoff[p] \in Progress
  BY DEF HandoffTypeOK
<1>2. /\ handoff'[p] \in Progress
      /\ handoff'[p].step = s /\ handoff'[p].added = handoff[p].added
      /\ handoff'[p].residue = handoff[p].residue
      /\ handoff[p].added \in BOOLEAN /\ handoff[p].residue \in BOOLEAN
  BY <1>1 DEF Progress
<1>3. handoff' \in [Handoffs -> Progress]
  BY <1>1, <1>2
<1>4. ~handoff[p].residue
  BY DEF RemoteInv
<1>5. \A q \in Handoffs : HandedOff(q)' <=> HandedOff(q)
  BY DEF HandedOff, Target, Expected
<1>6. ReadBackInv'
  BY <1>1, <1>2, <1>5 DEF ReadBackInv
<1>7. RemoteInv'
  <2>1. \A q \in Handoffs :
          /\ handoff'[q].residue <=> handoff[q].residue
          /\ handoff'[q].added <=> handoff[q].added
          /\ handoff'[q].added /\ ~At(q, "failed") => ~At(q, "failed")'
    BY <1>1, <1>2 DEF At
  <2>2. \A q \in Handoffs :
          /\ handoff'[q].residue => At(q, "failed")'
          /\ handoff'[q].step \in Early => ~handoff'[q].added
          /\ At(q, "rollback")' => handoff'[q].added
    BY <1>1, <1>2, <1>4 DEF RemoteInv, At
  <2> QED BY <2>1, <2>2 DEF RemoteInv
<1> QED BY <1>3, <1>6, <1>7 DEF HandoffTypeOK

\* The steps that only read.
LEMMA ReadingSteps ==
  ASSUME HandoffInv, NEW p \in Handoffs,
         \/ HeadBefore(p) \/ RemoteList(p) \/ ForgejoBefore(p)
         \/ HeadBeforePush(p) \/ TargetReadBefore(p) \/ RemoteReadback(p)
         \/ HeadAfter(p) \/ OriginAfter(p)
  PROVE  HandoffInv'
<1> DEFINE o == handoff[p].origin
<1>1. handoff[p] \in Progress /\ o \in {0, 1, 2} /\ origin \in {1, 2}
  BY DEF HandoffInv, HandoffTypeOK, Progress
<1>2. ASSUME NEW s, Goto(p, s)
      PROVE  handoff' = [handoff EXCEPT ![p] = [@ EXCEPT !.origin = o, !.step = s]]
  <2>1. [handoff[p] EXCEPT !.step = s] = [handoff[p] EXCEPT !.origin = o, !.step = s]
    BY <1>1 DEF Progress
  <2> QED BY <1>2, <2>1 DEF Goto, HandoffInv, HandoffTypeOK
<1>3. handoff[p].step \in Early => ~handoff[p].added
  BY DEF HandoffInv, RemoteInv
<1>4. /\ (Rollback(p) = "rollback" => handoff[p].added)
      /\ (Rollback(p) = "failed" => ~handoff[p].added)
      /\ Rollback(p) \in {"rollback", "failed"}
  BY DEF Rollback
<1>5. ASSUME NEW s, Goto(p, s), Reading, s \in HandoffSteps,
             ~At(p, "passed"), ~At(p, "failed"),
             s \in Early => handoff[p].step \in Early,
             s = "failed" => ~handoff[p].added,
             s = "rollback" => handoff[p].added,
             s \in ReadBack => HandedOff(p)
      PROVE  HandoffInv'
  <2>1. Moves(p, s, o)
    BY <1>1, <1>2, <1>5 DEF Moves, Reading
  <2> QED BY <2>1, ReadStep
<1>6. ASSUME NEW from \in HandoffSteps \ {"passed", "failed"}, At(p, from), Reading,
             from \in Early, Goto(p, "failed")
      PROVE  HandoffInv'
  BY <1>3, <1>5, <1>6 DEF At, HandoffSteps, Early, ReadBack
<1>7. ASSUME NEW from \in HandoffSteps \ {"passed", "failed"}, At(p, from), Reading,
             Goto(p, Rollback(p))
      PROVE  HandoffInv'
  BY <1>4, <1>5, <1>7 DEF At, HandoffSteps, Early, ReadBack
<1>8. ASSUME NEW from \in HandoffSteps \ {"passed", "failed"}, At(p, from), Reading,
             NEW to \in HandoffSteps \ {"rollback", "failed"}, Goto(p, to),
             to \in Early => from \in Early, to \in ReadBack => HandedOff(p)
      PROVE  HandoffInv'
  BY <1>5, <1>8 DEF At
<1> USE DEF HandoffSteps, Early, ReadBack
<1>9. CASE HeadBefore(p)
  BY <1>6, <1>8, <1>9 DEF HeadBefore, Check
<1>10. CASE RemoteList(p)
  <2>1. \E s \in {"remote-add", "forgejo-before"} : Moves(p, s, origin)
    BY <1>1, <1>10 DEF RemoteList, Moves, At, Reading, HandoffInv, HandoffTypeOK
  <2> QED BY <2>1, ReadStep
<1>11. CASE ForgejoBefore(p)
  BY <1>6, <1>8, <1>11 DEF ForgejoBefore, Check
<1>12. CASE HeadBeforePush(p)
  BY <1>7, <1>8, <1>12 DEF HeadBeforePush, Check
<1>13. CASE TargetReadBefore(p)
  BY <1>7, <1>8, <1>13 DEF TargetReadBefore, Check
<1>14. CASE RemoteReadback(p)
  <2>1. Target(p) \in {"main", "pr"} /\ Expected(p) \in Heads /\ Expected(p) \in Nat
    BY DEF Target, Expected
  <2>2. refs[Target(p)] = Expected(p) => HandedOff(p)
    BY <2>1 DEF HandedOff
  <2> QED BY <1>7, <1>8, <1>14, <2>2 DEF RemoteReadback, Check
<1>15. CASE HeadAfter(p)
  <2>1. HandedOff(p)
    BY <1>15 DEF HeadAfter, Check, At, HandoffInv, ReadBackInv
  <2> QED BY <1>7, <1>8, <1>15, <2>1 DEF HeadAfter, Check
<1>16. CASE OriginAfter(p)
  <2>1. HandedOff(p)
    BY <1>16 DEF OriginAfter, Check, At, HandoffInv, ReadBackInv
  <2> QED BY <1>7, <1>8, <1>16, <2>1 DEF OriginAfter, Check
<1> QED BY <1>9, <1>10, <1>11, <1>12, <1>13, <1>14, <1>15, <1>16

\* Whoever adds the remote found none, and removes it again or keeps it.
LEMMA RemoteAddStep ==
  ASSUME HandoffInv, NEW p \in Handoffs, RemoteAdd(p) PROVE HandoffInv'
<1> USE DEF HandoffInv
<1>1. handoff[p] \in Progress /\ handoff[p].step = "remote-add"
  BY DEF RemoteAdd, At, HandoffTypeOK
<1>2. ~handoff[p].added /\ ~handoff[p].residue
  BY <1>1 DEF RemoteInv, At, Early
<1>3. ASSUME NEW s \in {"head-before-push", "failed"}, NEW a \in BOOLEAN,
             handoff' = [handoff EXCEPT ![p] = [@ EXCEPT !.step = s, !.added = a]],
             s = "failed" <=> ~a,
             UNCHANGED <<configured, origin, refs>>,
             IF a THEN remote = Absent /\ remote' = "ours" ELSE remote' = remote
      PROVE  HandoffInv'
  <2>1. /\ \A q \in Handoffs : q # p => handoff'[q] = handoff[q]
        /\ handoff'[p] = [handoff[p] EXCEPT !.step = s, !.added = a]
    BY <1>3 DEF HandoffTypeOK
  <2>2. /\ handoff'[p] \in Progress /\ handoff'[p].step = s
        /\ handoff'[p].added = a /\ ~handoff'[p].residue
    BY <1>1, <1>2, <2>1 DEF Progress, HandoffSteps
  <2>3. handoff' \in [Handoffs -> Progress]
    BY <1>3, <2>1, <2>2 DEF HandoffTypeOK
  <2>4. \A q \in Handoffs : HandedOff(q)' <=> HandedOff(q)
    BY <1>3 DEF HandedOff, Target, Expected
  <2>5. ReadBackInv'
    BY <2>1, <2>2, <2>4 DEF ReadBackInv, ReadBack
  <2>6. \A q \in Handoffs :
          /\ handoff'[q].residue => At(q, "failed")'
          /\ handoff'[q].step \in Early => ~handoff'[q].added
          /\ At(q, "rollback")' => handoff'[q].added
    BY <1>2, <2>1, <2>2 DEF RemoteInv, At, Early
  <2>7. \/ \E q \in Handoffs : handoff'[q].residue
        \/ /\ configured # Absent => /\ remote' = configured
                                     /\ \A q \in Handoffs : ~handoff'[q].added
           /\ configured = Absent =>
                \/ remote' = Absent
                \/ /\ remote' = "ours"
                   /\ \E q \in Handoffs : handoff'[q].added /\ ~At(q, "failed")'
    <3>1. CASE \E q \in Handoffs : handoff[q].residue
      <4>1. PICK q \in Handoffs : handoff[q].residue
        BY <3>1
      <4> QED BY <1>2, <2>1, <4>1
    <3>2. CASE a /\ ~\E q \in Handoffs : handoff[q].residue
      <4>1. configured = Absent
        BY <1>3, <3>2 DEF RemoteInv
      <4>2. handoff'[p].added /\ ~At(p, "failed")'
        BY <1>3, <2>2, <3>2 DEF At
      <4> QED BY <1>3, <3>2, <4>1, <4>2
    <3>3. CASE ~a /\ ~\E q \in Handoffs : handoff[q].residue
      <4>1. \A q \in Handoffs : handoff'[q].added => handoff[q].added
        BY <2>1, <2>2, <3>3
      <4>2. \A q \in Handoffs : handoff[q].added /\ ~At(q, "failed") =>
                                  handoff'[q].added /\ ~At(q, "failed")'
        BY <1>2, <2>1 DEF At
      <4> QED BY <1>3, <3>3, <4>1, <4>2 DEF RemoteInv
    <3> QED BY <1>3, <3>1, <3>2, <3>3
  <2>8. RemoteInv'
    BY <1>3, <2>6, <2>7 DEF RemoteInv
  <2> QED BY <1>3, <2>3, <2>5, <2>8 DEF HandoffTypeOK
<1>4. CASE remote = Absent
  <2>1. /\ remote' = "ours" /\ UNCHANGED <<configured, origin, refs>>
        /\ handoff' = [handoff EXCEPT ![p].step = "head-before-push", ![p].added = TRUE]
    BY <1>4 DEF RemoteAdd
  <2>2. handoff' = [handoff EXCEPT ![p] = [@ EXCEPT !.step = "head-before-push",
                                                    !.added = TRUE]]
    BY <2>1 DEF HandoffTypeOK
  <2> QED BY <1>3, <1>4, <2>1, <2>2
<1>5. CASE remote # Absent
  <2>1. /\ UNCHANGED <<configured, remote, origin, refs>>
        /\ handoff' = [handoff EXCEPT ![p].step = "failed"]
    BY <1>5 DEF RemoteAdd, Goto
  <2>2. handoff' = [handoff EXCEPT ![p] = [@ EXCEPT !.step = "failed",
                                                    !.added = FALSE]]
    <3>1. [handoff[p] EXCEPT !.step = "failed"]
            = [handoff[p] EXCEPT !.step = "failed", !.added = FALSE]
      BY <1>1, <1>2 DEF Progress
    <3> QED BY <2>1, <3>1 DEF HandoffTypeOK
  <2> QED BY <1>3, <2>1, <2>2
<1> QED BY <1>4, <1>5

\* A handoff's refs are still there when another one pushes.
LEMMA PushStep ==
  ASSUME HandoffInv, NEW p \in Handoffs, Pushable(p),
         refs' = [refs EXCEPT ![Target(p)] = Expected(p)],
         NEW s \in {"remote-readback", "rollback", "failed"},
         handoff' = [handoff EXCEPT ![p] = [@ EXCEPT !.step = s, !.residue = FALSE]],
         ~At(p, "passed"), ~At(p, "failed"),
         s = "rollback" => handoff[p].added,
         s = "failed" => ~handoff[p].added,
         UNCHANGED <<configured, remote, origin>>
  PROVE  HandoffInv'
<1> USE DEF HandoffInv
<1>1. /\ \A q \in Handoffs : q # p => handoff'[q] = handoff[q]
      /\ handoff'[p] = [handoff[p] EXCEPT !.step = s, !.residue = FALSE]
      /\ handoff[p] \in Progress /\ ~handoff[p].residue
  BY DEF HandoffTypeOK, RemoteInv
<1>2. /\ handoff'[p] \in Progress /\ handoff'[p].step = s
      /\ handoff'[p].added = handoff[p].added /\ ~handoff'[p].residue
  <2>1. /\ handoff'[p].step = s /\ handoff'[p].residue = FALSE
        /\ handoff'[p].added = handoff[p].added
        /\ handoff'[p].origin = handoff[p].origin
        /\ handoff'[p] = [step |-> handoff'[p].step, added |-> handoff'[p].added,
                          origin |-> handoff'[p].origin,
                          residue |-> handoff'[p].residue]
    BY <1>1 DEF Progress
  <2>2. handoff[p].added \in BOOLEAN /\ handoff[p].origin \in {0, 1, 2}
    BY <1>1 DEF Progress
  <2>3. handoff'[p] \in Progress
    BY <2>1, <2>2 DEF Progress, HandoffSteps
  <2> QED BY <2>1, <2>3
<1>3. handoff' \in [Handoffs -> Progress]
  BY <1>1, <1>2 DEF HandoffTypeOK
<1>4. refs' \in [{"main", "pr"} -> Heads \cup {Absent}]
  BY DEF HandoffTypeOK, Target, Expected
<1>5. ReadBackInv'
  BY <1>1, <1>2, PushKeeps DEF ReadBackInv, ReadBack
<1>6. RemoteInv'
  <2>1. \A q \in Handoffs :
          /\ handoff'[q].residue <=> handoff[q].residue
          /\ handoff'[q].added <=> handoff[q].added
          /\ handoff'[q].added /\ ~At(q, "failed") => ~At(q, "failed")'
    BY <1>1, <1>2 DEF At
  <2>2. \A q \in Handoffs :
          /\ handoff'[q].residue => At(q, "failed")'
          /\ handoff'[q].step \in Early => ~handoff'[q].added
          /\ At(q, "rollback")' => handoff'[q].added
    BY <1>1, <1>2 DEF RemoteInv, At, Early
  <2> QED BY <2>1, <2>2 DEF RemoteInv
<1> QED BY <1>3, <1>4, <1>5, <1>6 DEF HandoffTypeOK

\* Once git may have left something behind, nothing is claimed of the remote.
LEMMA ResidueStep ==
  ASSUME HandoffInv, NEW p \in Handoffs, UNCHANGED <<configured, origin, refs>>,
         handoff' = [handoff EXCEPT ![p] = [@ EXCEPT !.step = "failed",
                                                     !.residue = TRUE]]
  PROVE  HandoffInv'
<1> USE DEF HandoffInv
<1>1. /\ \A q \in Handoffs : q # p => handoff'[q] = handoff[q]
      /\ handoff'[p] = [handoff[p] EXCEPT !.step = "failed", !.residue = TRUE]
      /\ handoff[p] \in Progress
  BY DEF HandoffTypeOK
<1>2. /\ handoff'[p] \in Progress /\ handoff'[p].step = "failed"
      /\ handoff'[p].residue
  <2>1. ASSUME NEW s \in HandoffSteps, NEW r \in BOOLEAN, NEW h \in Progress,
               NEW g, g = [h EXCEPT !.step = s, !.residue = r]
        PROVE  g \in Progress /\ g.step = s /\ g.residue = r
    <3>1. /\ g.step = s /\ g.residue = r /\ g.added = h.added
          /\ g.origin = h.origin
          /\ g = [step |-> g.step, added |-> g.added, origin |-> g.origin,
                  residue |-> g.residue]
      BY <2>1 DEF Progress
    <3>2. h.added \in BOOLEAN /\ h.origin \in {0, 1, 2}
      BY <2>1 DEF Progress
    <3>3. g.step \in HandoffSteps /\ g.residue \in BOOLEAN
      BY <2>1, <3>1
    <3>4. g.added \in BOOLEAN /\ g.origin \in {0, 1, 2}
      BY <3>1, <3>2
    <3>5. g \in Progress
      BY <3>1, <3>3, <3>4, Zenon DEF Progress
    <3> QED BY <3>1, <3>5
  <2>2. "failed" \in HandoffSteps /\ TRUE \in BOOLEAN
    BY DEF HandoffSteps
  <2>3. /\ handoff'[p] \in Progress /\ handoff'[p].step = "failed"
        /\ handoff'[p].residue = TRUE
    <3> HIDE DEF Progress, HandoffSteps
    <3>1. handoff[p] \in Progress
      BY <1>1
    <3>2. handoff'[p] = [handoff[p] EXCEPT !.step = "failed", !.residue = TRUE]
      BY <1>1
    <3> QED BY <2>1, <2>2, <3>1, <3>2, Zenon
  <2> QED BY <2>3
<1>3. handoff' \in [Handoffs -> Progress]
  BY <1>1, <1>2 DEF HandoffTypeOK
<1>4. \A q \in Handoffs : HandedOff(q)' <=> HandedOff(q)
  BY DEF HandedOff, Target, Expected
<1>5. ReadBackInv'
  BY <1>1, <1>2, <1>4 DEF ReadBackInv, ReadBack
<1>6. ASSUME NEW q \in Handoffs
      PROVE  /\ handoff'[q].residue => At(q, "failed")'
             /\ handoff'[q].step \in Early => ~handoff'[q].added
             /\ At(q, "rollback")' => handoff'[q].added
  <2>1. CASE q = p
    BY <1>2, <2>1 DEF At, Early
  <2>2. CASE q # p
    BY <1>1, <2>2 DEF RemoteInv, At
  <2> QED BY <2>1, <2>2
<1>7. RemoteInv'
  BY <1>2, <1>6 DEF RemoteInv
<1> QED BY <1>3, <1>5, <1>7 DEF HandoffTypeOK

\* The rollback takes away what its handoff added, where nothing was before.
LEMMA RemoteRemoveStep ==
  ASSUME HandoffInv, NEW p \in Handoffs, RemoteRemove(p) PROVE HandoffInv'
<1> USE DEF HandoffInv
<1>1. /\ handoff[p].step = "rollback" /\ handoff[p].added
      /\ ~handoff[p].residue /\ handoff[p] \in Progress
  BY DEF RemoteRemove, At, HandoffTypeOK, RemoteInv
<1>2. /\ \A q \in Handoffs : q # p => handoff'[q] = handoff[q]
      /\ handoff'[p] = [handoff[p] EXCEPT !.step = "failed"]
      /\ handoff' \in [Handoffs -> Progress]
      /\ UNCHANGED <<configured, origin, refs>> /\ remote' = Absent
  BY <1>1 DEF RemoteRemove, Goto, HandoffTypeOK, Progress, HandoffSteps
<1>3. /\ handoff'[p].step = "failed" /\ handoff'[p].added = handoff[p].added
      /\ handoff'[p].residue = handoff[p].residue
  BY <1>1, <1>2 DEF Progress
<1>4. \A q \in Handoffs : HandedOff(q)' <=> HandedOff(q)
  BY <1>2 DEF HandedOff, Target, Expected
<1>5. ReadBackInv'
  BY <1>2, <1>3, <1>4 DEF ReadBackInv, ReadBack
<1>6. RemoteInv'
  <2>1. \A q \in Handoffs :
          /\ handoff'[q].residue => At(q, "failed")'
          /\ handoff'[q].step \in Early => ~handoff'[q].added
          /\ At(q, "rollback")' => handoff'[q].added
    <3> SUFFICES ASSUME NEW q \in Handoffs
                 PROVE  /\ handoff'[q].residue => At(q, "failed")'
                        /\ handoff'[q].step \in Early => ~handoff'[q].added
                        /\ At(q, "rollback")' => handoff'[q].added
      OBVIOUS
    <3>1. CASE q = p
      BY <1>1, <1>3, <3>1 DEF At, Early
    <3>2. CASE q # p
      BY <1>2, <3>2 DEF RemoteInv, At
    <3> QED BY <3>1, <3>2
  <2>2. CASE \E q \in Handoffs : handoff[q].residue
    <3>1. \E q \in Handoffs : handoff'[q].residue
      BY <1>2, <1>3, <2>2
    <3> QED BY <2>1, <3>1 DEF RemoteInv
  <2>3. CASE ~\E q \in Handoffs : handoff[q].residue
    <3>1. configured = Absent
      BY <1>1, <2>3 DEF RemoteInv
    <3> QED BY <1>2, <2>1, <3>1 DEF RemoteInv
  <2> QED BY <2>2, <2>3
<1> QED BY <1>2, <1>5, <1>6 DEF HandoffTypeOK

LEMMA GitFailsStep ==
  ASSUME HandoffInv, NEW p \in Handoffs, GitFails(p) PROVE HandoffInv'
<1> DEFINE step == handoff[p].step
           settled == {"remote-add", "rollback"}
           looking == {"head-before", "remote-list", "forgejo-before"}
           o == handoff[p].origin
<1>1. /\ handoff[p] \in Progress /\ ~handoff[p].residue
      /\ step \in HandoffSteps \ {"passed", "failed"} /\ o \in {0, 1, 2}
      /\ step \in looking => ~handoff[p].added
      /\ handoff \in [Handoffs -> Progress]
  BY DEF GitFails, HandoffInv, HandoffTypeOK, RemoteInv, At, Progress, Early
<1>2. /\ handoff' = [handoff EXCEPT
             ![p].step = IF step \in looking \cup settled THEN "failed" ELSE Rollback(p),
             ![p].residue = step \in settled]
      /\ UNCHANGED <<configured, origin>>
      /\ step \notin settled => remote' = remote
      /\ \/ refs' = refs
         \/ /\ step = "push" /\ Pushable(p)
            /\ refs' = [refs EXCEPT ![Target(p)] = Expected(p)]
  BY DEF GitFails
<1>3. /\ Rollback(p) = "rollback" => handoff[p].added
      /\ Rollback(p) = "failed" => ~handoff[p].added
      /\ Rollback(p) \in {"rollback", "failed"}
  BY DEF Rollback
<1>4. CASE step \in settled
  <2>1. handoff' = [handoff EXCEPT ![p] = [@ EXCEPT !.step = "failed",
                                                    !.residue = TRUE]]
    BY <1>1, <1>2, <1>4
  <2>2. refs' = refs
    BY <1>2, <1>4
  <2> QED BY <1>2, <2>1, <2>2, ResidueStep
<1>5. ASSUME step \notin settled
      PROVE  \E s \in {"rollback", "failed"} :
               /\ handoff' = [handoff EXCEPT ![p] = [@ EXCEPT !.step = s,
                                                              !.residue = FALSE]]
               /\ s = "rollback" => handoff[p].added
               /\ s = "failed" => ~handoff[p].added
  <2> DEFINE t == IF step \in looking \cup settled THEN "failed" ELSE Rollback(p)
             r == step \in settled
  <2>1. PICK s \in {"rollback", "failed"} :
          /\ handoff' = [handoff EXCEPT ![p].step = s, ![p].residue = FALSE]
          /\ s = "rollback" => handoff[p].added
          /\ s = "failed" => ~handoff[p].added
    <3>1. handoff' = [handoff EXCEPT ![p].step = t, ![p].residue = r]
      BY <1>2
    <3>2. r = FALSE
      BY <1>5
    <3>3. /\ t \in {"rollback", "failed"}
          /\ t = "rollback" => handoff[p].added
          /\ t = "failed" => ~handoff[p].added
      BY <1>1, <1>3, <1>5
    <3> HIDE DEF t, r
    <3> QED BY <3>1, <3>2, <3>3
  <2>2. handoff' = [handoff EXCEPT ![p] = [@ EXCEPT !.step = s,
                                                    !.residue = FALSE]]
    BY <1>1, <2>1
  <2> QED BY <2>1, <2>2
<1>6. CASE step \notin settled /\ refs' = refs
  <2>1. PICK s \in {"rollback", "failed"} :
          /\ handoff' = [handoff EXCEPT ![p] = [@ EXCEPT !.step = s,
                                                         !.residue = FALSE]]
          /\ s = "rollback" => handoff[p].added
          /\ s = "failed" => ~handoff[p].added
    BY <1>5, <1>6
  <2>2. [handoff[p] EXCEPT !.step = s, !.residue = FALSE]
          = [handoff[p] EXCEPT !.origin = o, !.step = s]
    BY <1>1 DEF Progress
  <2>3. handoff' = [handoff EXCEPT ![p] = [@ EXCEPT !.origin = o, !.step = s]]
    BY <1>1, <2>1, <2>2
  <2>4. Moves(p, s, o)
    BY <1>1, <1>2, <1>6, <2>1, <2>3 DEF Moves, At, HandoffSteps, Early, ReadBack
  <2> QED BY <2>4, ReadStep
<1>7. CASE step \notin settled /\ refs' # refs
  <2>1. PICK s \in {"rollback", "failed"} :
          /\ handoff' = [handoff EXCEPT ![p] = [@ EXCEPT !.step = s,
                                                         !.residue = FALSE]]
          /\ s = "rollback" => handoff[p].added
          /\ s = "failed" => ~handoff[p].added
    BY <1>5, <1>7
  <2> QED BY <1>1, <1>2, <1>7, <2>1, PushStep DEF At
<1> QED BY <1>4, <1>6, <1>7

LEMMA Next_HandoffInv ==
  HandoffInv /\ [DeliveryNext]_<<head, loopVars, handoffVars>> => HandoffInv'
<1> SUFFICES ASSUME HandoffInv, [DeliveryNext]_<<head, loopVars, handoffVars>>
             PROVE  HandoffInv'
  OBVIOUS
<1>1. ASSUME NEW p \in Handoffs, Push(p) PROVE HandoffInv'
  <2> DEFINE s == IF Pushable(p) THEN "remote-readback" ELSE Rollback(p)
             o == handoff[p].origin
  <2>1. /\ handoff[p] \in Progress /\ handoff[p].step = "push"
        /\ handoff' = [handoff EXCEPT ![p].step = s]
        /\ o \in {0, 1, 2} /\ ~handoff[p].residue
        /\ handoff \in [Handoffs -> Progress]
        /\ UNCHANGED <<configured, remote, origin>>
    BY <1>1 DEF Push, Check, At, Goto, HandoffInv, HandoffTypeOK, Progress,
                RemoteInv
  <2>2. CASE Pushable(p)
    <3>1. [handoff[p] EXCEPT !.step = s]
            = [handoff[p] EXCEPT !.step = s, !.residue = FALSE]
      BY <2>1 DEF Progress
    <3>2. handoff' = [handoff EXCEPT ![p] = [@ EXCEPT !.step = "remote-readback",
                                                      !.residue = FALSE]]
      BY <2>1, <2>2, <3>1
    <3>3. refs' = [refs EXCEPT ![Target(p)] = Expected(p)]
      BY <1>1, <2>2 DEF Push
    <3> QED BY <2>1, <2>2, <3>2, <3>3, PushStep DEF At
  <2>3. CASE ~Pushable(p)
    <3>1. [handoff[p] EXCEPT !.step = s]
            = [handoff[p] EXCEPT !.origin = o, !.step = s]
      BY <2>1 DEF Progress
    <3>2. handoff' = [handoff EXCEPT ![p] = [@ EXCEPT !.origin = o, !.step = s]]
      BY <2>1, <3>1
    <3>3. refs' = refs
      BY <1>1, <2>3 DEF Push
    <3>4. Moves(p, s, o)
      BY <2>1, <2>3, <3>2, <3>3
         DEF Moves, At, HandoffSteps, Early, ReadBack, Rollback
    <3> QED BY <3>4, ReadStep
  <2> QED BY <2>2, <2>3
<1>2. CASE \E p \in Handoffs : ExecuteHandoff(p) \/ GitFails(p)
  BY <1>1, <1>2, ReadingSteps, RemoteAddStep, RemoteRemoveStep, GitFailsStep
     DEF ExecuteHandoff
<1>3. CASE UNCHANGED handoffVars \/ OriginMoves
  <2>1. UNCHANGED <<configured, remote, refs, handoff>> /\ origin' \in {1, 2}
    BY <1>3 DEF handoffVars, OriginMoves, HandoffInv, HandoffTypeOK
  <2> QED BY <2>1 DEF HandoffInv, HandoffTypeOK, ReadBackInv, HandedOff, Target,
                      Expected, RemoteInv, At
<1> QED BY <1>2, <1>3 DEF DeliveryNext, handoffVars

LEMMA HandoffInvariance == DeliverySpec => []HandoffInv
BY Init_HandoffInv, Next_HandoffInv, PTL DEF DeliverySpec, DeliveryInit

\* What a receipt says was handed off stays handed off, however many handoffs
\* push to the same ref and wherever git fails.
THEOREM HandoffHolds == DeliverySpec => []PassedHandoffHolds
<1>1. HandoffInv => PassedHandoffHolds
  BY DEF HandoffInv, ReadBackInv, ReadBack, HandedOff, PassedHandoffHolds, At
<1> QED BY <1>1, HandoffInvariance, PTL

\* A remote that was there is left alone, and one that was added is taken back
\* by whoever added it and failed, unless git itself left a residue.
THEOREM RemoteIsRestored == DeliverySpec => []RemoteRestored
<1>1. HandoffInv => RemoteRestored
  BY DEF HandoffInv, RemoteInv, RemoteRestored, At
<1> QED BY <1>1, HandoffInvariance, PTL
=============================================================================
