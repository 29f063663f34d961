------------------------- MODULE EvidenceCost_proofs -------------------------
(* Proofs about EvidenceCost for any processes, request files, costs and     *)
(* number of failures.                                                       *)
EXTENDS EvidenceCost, FiniteSetTheorems, FunctionTheorems, SequenceTheorems, TLAPS

-----------------------------------------------------------------------------
(* The collectors: what is known of one at each step. *)

Starting == {"idle", "head", "identity", "run"}
Judged   == {"execution", "observation", "completion"}
CollectorSteps ==
  Starting \cup {"rehead", "settle"} \cup Judged \cup {"failing", "exited", "killed"}

Verdicts == {"passed", "timeout", "cancelled", "command-failed",
             "repository-head-drift", "cleanup-failed"}

CollectorType ==
  [step : CollectorSteps, armed : BOOLEAN, aborted : BOOLEAN,
   before : Heads \cup {Absent}, after : Heads \cup {Absent},
   result : {Absent} \cup CommandResult \cup Verdicts,
   execution : Verdicts \cup {Absent}, observation : BOOLEAN,
   completion : {Absent, "measured", "failed"}, failure : BOOLEAN,
   code : {Absent, 0, 2}]

\* The handlers are there until the verdict, so that a process that has judged a
\* command as passed was not told to stop, and nothing it publishes then can be
\* of a cancelled one.
CollectorInv(c) ==
  /\ c.step \in Starting \cup {"rehead", "settle"} => c.armed
  /\ c.armed => ~c.observation /\ c.completion = Absent
  /\ c.observation \/ c.completion = "measured" => ~c.aborted
  /\ c.step \in Starting => c.result = Absent
  /\ c.step \in {"identity", "run", "rehead", "settle"} \cup Judged =>
       c.before = ExpectedHead
  /\ c.step \in Judged => ~c.armed /\ c.result \in Verdicts
  /\ c.step \in {"rehead", "settle"} => c.result \in CommandResult
  /\ c.step = "observation" => c.result = "passed"
  /\ c.step \in Judged /\ c.result = "passed" =>
       ~c.aborted /\ c.after = ExpectedHead
  /\ c.step \in {"observation", "completion"} /\ c.result = "passed" =>
       c.execution = "passed"
  /\ c.step = "completion" /\ c.result = "passed" => c.observation
  /\ c.code # Absent => c.step = "exited"

\* How the end of a process is told, after f failures, with a request that can
\* be read or not.
Told(c, f, r) ==
  /\ c.code = 0 =>
       /\ c.completion = "measured" /\ c.execution = "passed" /\ c.observation
       /\ c.before = ExpectedHead /\ c.after = ExpectedHead
  /\ c.code = 2 =>
       \/ c.completion = "failed"
       \/ c.failure
       \/ f + (IF r THEN 0 ELSE 1) >= IF c.result = Absent THEN 1 ELSE 2

\* A process on its way to a failure receipt after its command has seen a step
\* fail.
Excused(c, f) == c.step = "failing" /\ c.result # Absent => f >= 1

GoodCollector(c, f, r) ==
  c \in CollectorType /\ CollectorInv(c) /\ Told(c, f, r) /\ Excused(c, f)

CollectorsInv ==
  /\ DOMAIN collector = Collectors
  /\ head \in Heads /\ readable \in BOOLEAN /\ faults \in Nat
  /\ \A k \in Collectors : GoodCollector(collector[k], faults, readable)

USE AbsentAssumption, ExpectedHeadAssumption, MaxFaultsAssumption

LEMMA Init_CollectorsInv == CollectorInit /\ faults = 0 => CollectorsInv
<1> SUFFICES ASSUME CollectorInit, faults = 0 PROVE CollectorsInv
  OBVIOUS
<1>1. NewCollector \in CollectorType
  BY DEF NewCollector, CollectorType, CollectorSteps, Starting
<1>2. CollectorInv(NewCollector) /\ Told(NewCollector, 0, readable)
      /\ Excused(NewCollector, 0)
  BY DEF NewCollector, CollectorInv, Told, Excused, Starting, Judged
<1> QED BY <1>1, <1>2 DEF CollectorInit, CollectorsInv, GoodCollector

\* More failures excuse more, and so does a request that cannot be read.
LEMMA MoreFaults ==
  ASSUME NEW c, NEW f \in Nat, NEW g \in Nat, f <= g,
         NEW r \in BOOLEAN, NEW q \in BOOLEAN, q => r, GoodCollector(c, f, r)
  PROVE  GoodCollector(c, g, q)
BY DEF GoodCollector, Told, Excused

\* One process moves on.
LEMMA CollectorMoves ==
  ASSUME CollectorsInv, NEW k \in Collectors, NEW c,
         collector' = [collector EXCEPT ![k] = c], UNCHANGED <<head, readable>>,
         faults' \in Nat, faults <= faults',
         GoodCollector(c, faults', readable')
  PROVE  CollectorsInv'
<1>1. \A j \in Collectors : GoodCollector(collector[j], faults', readable')
  BY MoreFaults DEF CollectorsInv
<1>2. /\ DOMAIN collector' = Collectors
      /\ \A j \in Collectors : collector'[j] = IF j = k THEN c ELSE collector[j]
  BY DEF CollectorsInv
<1> QED BY <1>1, <1>2 DEF CollectorsInv

\* An exception: before the command, or when a step has failed.
LEMMA ThrownStep ==
  ASSUME CollectorsInv, NEW k \in Collectors, NEW from, Thrown(k, from),
         from \in Starting \/ (from \in {"rehead"} \cup Judged /\ faults' >= 1),
         UNCHANGED <<head, readable>>, faults' \in Nat, faults <= faults'
  PROVE  CollectorsInv'
<1> DEFINE c == collector[k]
           d == [c EXCEPT !.step = "failing"]
<1>1. /\ c.step = from /\ collector' = [collector EXCEPT ![k] = d]
      /\ c \in CollectorType /\ CollectorInv(c) /\ Told(c, faults', readable')
  BY MoreFaults DEF Thrown, Step, CollectorsInv, GoodCollector
<1>2. d \in CollectorType
  BY <1>1 DEF CollectorType, CollectorSteps
<1>3. /\ d.step = "failing" /\ d.armed = c.armed /\ d.aborted = c.aborted
      /\ d.before = c.before /\ d.after = c.after /\ d.result = c.result
      /\ d.execution = c.execution /\ d.observation = c.observation
      /\ d.completion = c.completion /\ d.failure = c.failure /\ d.code = c.code
  BY <1>1 DEF CollectorType
<1>4. c.step # "exited" /\ c.code = Absent
  BY <1>1 DEF CollectorInv, Starting, Judged
<1> HIDE DEF c, d
<1>5. CollectorInv(d)
  BY <1>1, <1>3, <1>4 DEF CollectorInv, Starting, Judged
<1>6. Told(d, faults', readable') /\ Excused(d, faults')
  BY <1>1, <1>3, <1>4 DEF Told, Excused, CollectorInv
<1> QED BY <1>1, <1>2, <1>5, <1>6, CollectorMoves DEF GoodCollector

\* Steps before the verdict that only move on, having read HEAD or not.
LEMMA StartingStep ==
  ASSUME CollectorsInv, NEW k \in Collectors,
         UNCHANGED <<head, readable, faults>>,
         ReadRequest(k) \/ ReadHead(k) \/ Identify(k)
  PROVE  CollectorsInv'
<1>1. ASSUME NEW from \in Starting, Thrown(k, from) PROVE CollectorsInv'
  BY <1>1, ThrownStep DEF CollectorsInv
<1>2. ASSUME NEW to \in {"head", "identity", "run"}, NEW b \in Heads \cup {Absent},
             collector[k].step \in {"idle", "head", "identity"},
             collector' = [collector EXCEPT ![k] = [@ EXCEPT !.step = to, !.before = b]],
             to # "head" => b = ExpectedHead
      PROVE  CollectorsInv'
  <2> DEFINE c == collector[k]
             d == [c EXCEPT !.step = to, !.before = b]
  <2>1. /\ collector' = [collector EXCEPT ![k] = d]
        /\ c \in CollectorType /\ CollectorInv(c) /\ Told(c, faults, readable)
    BY <1>2 DEF CollectorsInv, GoodCollector
  <2>2. d \in CollectorType
    BY <1>2, <2>1 DEF CollectorType, CollectorSteps, Starting
  <2>3. /\ d.step = to /\ d.armed = c.armed /\ d.aborted = c.aborted
        /\ d.before = b /\ d.after = c.after /\ d.result = c.result
        /\ d.execution = c.execution /\ d.observation = c.observation
        /\ d.completion = c.completion /\ d.failure = c.failure /\ d.code = c.code
    BY <2>1 DEF CollectorType
  <2> HIDE DEF d
  <2>4. CollectorInv(d)
    BY <1>2, <2>1, <2>3 DEF CollectorInv, Starting, Judged
  <2>5. Told(d, faults, readable) /\ Excused(d, faults)
    BY <1>2, <2>1, <2>3 DEF Told, Excused, CollectorInv, Starting
  <2>6. GoodCollector(d, faults', readable')
    BY <2>2, <2>4, <2>5 DEF GoodCollector
  <2> QED BY <2>1, <2>6, CollectorMoves DEF CollectorsInv
<1> DEFINE c == collector[k]
<1>3. c \in CollectorType /\ CollectorInv(c)
  BY DEF CollectorsInv, GoodCollector
<1>4. CASE ReadRequest(k)
  <2>1. CASE Step(k, "idle", "head")
    <3>1. c.before \in Heads \cup {Absent} /\ c.step = "idle"
      BY <1>3, <2>1 DEF CollectorType, Step
    <3>2. [c EXCEPT !.step = "head"] = [c EXCEPT !.step = "head", !.before = c.before]
      BY <1>3, <3>1 DEF CollectorType
    <3>3. collector' = [collector EXCEPT ![k] = [@ EXCEPT !.step = "head",
                                                          !.before = c.before]]
      BY <2>1, <3>2 DEF Step, CollectorsInv
    <3> QED BY <1>2, <3>1, <3>3
  <2> QED BY <1>1, <1>4, <2>1 DEF ReadRequest, Starting
<1>5. CASE ReadHead(k)
  <2>1. CASE c.step = "head" /\ head = ExpectedHead
               /\ collector' = [collector EXCEPT ![k].step = "identity",
                                                 ![k].before = head]
    <3>1. collector' = [collector EXCEPT ![k] = [@ EXCEPT !.step = "identity",
                                                          !.before = ExpectedHead]]
      BY <2>1 DEF CollectorsInv
    <3> QED BY <1>2, <2>1, <3>1
  <2> QED BY <1>1, <1>5, <2>1 DEF ReadHead, Starting
<1>6. CASE Identify(k)
  <2>1. CASE Step(k, "identity", "run")
    <3>1. c.step = "identity" /\ c.before = ExpectedHead
      BY <1>3, <2>1 DEF Step, CollectorInv
    <3>2. [c EXCEPT !.step = "run"] = [c EXCEPT !.step = "run", !.before = ExpectedHead]
      BY <1>3, <3>1 DEF CollectorType
    <3>3. collector' = [collector EXCEPT ![k] = [@ EXCEPT !.step = "run",
                                                          !.before = ExpectedHead]]
      BY <2>1, <3>2 DEF Step, CollectorsInv
    <3> QED BY <1>2, <3>1, <3>3
  <2> QED BY <1>1, <1>6, <2>1 DEF Identify, Starting
<1> QED BY <1>4, <1>5, <1>6

\* What is left to prove of a step that only changes k's record.
LEMMA RecordStep ==
  ASSUME CollectorsInv, NEW k \in Collectors, NEW d, UNCHANGED <<head, readable>>,
         collector' = [collector EXCEPT ![k] = d],
         faults' \in Nat, faults <= faults',
         d \in CollectorType, CollectorInv(d), Told(d, faults', readable'), Excused(d, faults')
  PROVE  CollectorsInv'
BY CollectorMoves DEF GoodCollector

LEMMA RunCommandStep ==
  ASSUME CollectorsInv, NEW k \in Collectors, RunCommand(k),
         UNCHANGED <<head, readable, faults>>
  PROVE  CollectorsInv'
<1> DEFINE c == collector[k]
<1>1. PICK r \in CommandResult :
        collector' = [collector EXCEPT ![k].step = "rehead", ![k].result = r]
  BY DEF RunCommand
<1> DEFINE d == [c EXCEPT !.step = "rehead", !.result = r]
<1>2. /\ c.step = "run" /\ c \in CollectorType /\ CollectorInv(c)
      /\ Told(c, faults, readable) /\ faults \in Nat /\ DOMAIN collector = Collectors
  BY DEF RunCommand, CollectorsInv, GoodCollector
<1>3. collector' = [collector EXCEPT ![k] = d]
  BY <1>1, <1>2
<1>4. d \in CollectorType
  BY <1>2 DEF CollectorType, CollectorSteps
<1>5. /\ d.step = "rehead" /\ d.armed = c.armed /\ d.aborted = c.aborted
      /\ d.before = c.before /\ d.after = c.after /\ d.result = r
      /\ d.execution = c.execution /\ d.observation = c.observation
      /\ d.completion = c.completion /\ d.failure = c.failure /\ d.code = c.code
  BY <1>2 DEF CollectorType
<1> HIDE DEF d
<1>6. CollectorInv(d)
  BY <1>2, <1>5 DEF CollectorInv, Starting, Judged
<1>7. Told(d, faults', readable') /\ Excused(d, faults')
  BY <1>2, <1>5 DEF Told, Excused, CollectorInv, Starting
<1>8. faults' \in Nat /\ faults <= faults' /\ UNCHANGED <<head, readable>>
  BY <1>2
<1> QED BY <1>3, <1>4, <1>6, <1>7, <1>8, RecordStep, Zenon

LEMMA ReadHeadAgainStep ==
  ASSUME CollectorsInv, NEW k \in Collectors, ReadHeadAgain(k),
         UNCHANGED <<head, readable, faults>>
  PROVE  CollectorsInv'
<1> DEFINE c == collector[k]
           d == [c EXCEPT !.step = "settle", !.after = head]
<1>1. /\ c.step = "rehead" /\ c \in CollectorType /\ CollectorInv(c)
      /\ Told(c, faults, readable) /\ faults \in Nat /\ DOMAIN collector = Collectors
      /\ head \in Heads
  BY DEF ReadHeadAgain, CollectorsInv, GoodCollector
<1>2. collector' = [collector EXCEPT ![k] = d]
  BY <1>1 DEF ReadHeadAgain
<1>3. d \in CollectorType
  BY <1>1 DEF CollectorType, CollectorSteps
<1>4. /\ d.step = "settle" /\ d.armed = c.armed /\ d.aborted = c.aborted
      /\ d.before = c.before /\ d.after = head /\ d.result = c.result
      /\ d.execution = c.execution /\ d.observation = c.observation
      /\ d.completion = c.completion /\ d.failure = c.failure /\ d.code = c.code
  BY <1>1 DEF CollectorType
<1> HIDE DEF d
<1>5. CollectorInv(d)
  BY <1>1, <1>4 DEF CollectorInv, Starting, Judged
<1>6. Told(d, faults', readable') /\ Excused(d, faults')
  BY <1>1, <1>4 DEF Told, Excused, CollectorInv
<1>7. faults' \in Nat /\ faults <= faults' /\ UNCHANGED <<head, readable>>
  BY <1>1
<1> QED BY <1>2, <1>3, <1>5, <1>6, <1>7, RecordStep, Zenon

\* The verdict: passed only if nobody has called the process off, and if HEAD is
\* still the one of the request.
LEMMA VerdictIs ==
  ASSUME NEW k \in Collectors, NEW cancelled \in BOOLEAN
  PROVE  /\ Verdict(k, cancelled) \in Verdicts
         /\ Verdict(k, cancelled) = "passed" =>
              ~cancelled /\ collector[k].after = collector[k].before
<1> DEFINE r == collector[k].result
           stable == collector[k].after = collector[k].before
<1>1. FailureKind(r, cancelled, stable) \in Verdicts \ {"passed"}
  BY DEF FailureKind, Verdicts
<1>2. Verdict(k, cancelled) =
        IF /\ r.exitCode = 0 /\ ~r.timedOut /\ ~cancelled /\ r.clean /\ stable
        THEN "passed" ELSE FailureKind(r, cancelled, stable)
  BY DEF Verdict
<1> QED BY <1>1, <1>2 DEF Verdicts

LEMMA SettleStep ==
  ASSUME CollectorsInv, NEW k \in Collectors, Settle(k), UNCHANGED <<head, readable, faults>>
  PROVE  CollectorsInv'
<1> DEFINE c == collector[k]
           cancelled == c.result.cancelled \/ c.aborted
           v == Verdict(k, cancelled)
           d == [c EXCEPT !.step = "execution", !.armed = FALSE, !.result = v]
<1>1. /\ c.step = "settle" /\ c \in CollectorType /\ CollectorInv(c)
      /\ Told(c, faults, readable) /\ faults \in Nat /\ DOMAIN collector = Collectors
  BY DEF Settle, CollectorsInv, GoodCollector
<1>2. v \in Verdicts /\ (v = "passed" => ~c.aborted /\ c.after = c.before)
  <2>1. cancelled \in BOOLEAN
    OBVIOUS
  <2> QED BY <2>1, VerdictIs
<1> HIDE DEF v
<1>3. collector' = [collector EXCEPT ![k] = d]
  <2>1. collector' = [collector EXCEPT ![k].step = "execution", ![k].armed = FALSE,
                                       ![k].result = v]
    BY DEF Settle, Settled, v
  <2> QED BY <1>1, <2>1
<1>4. d \in CollectorType
  BY <1>1, <1>2 DEF CollectorType, CollectorSteps, Judged
<1>5. /\ d.step = "execution" /\ ~d.armed /\ d.aborted = c.aborted
      /\ d.before = c.before /\ d.after = c.after /\ d.result = v
      /\ d.execution = c.execution /\ d.observation = c.observation
      /\ d.completion = c.completion /\ d.failure = c.failure /\ d.code = c.code
  BY <1>1 DEF CollectorType
<1> HIDE DEF d
<1>6. CollectorInv(d)
  BY <1>1, <1>2, <1>5 DEF CollectorInv, Starting, Judged
<1>7. Told(d, faults', readable') /\ Excused(d, faults')
  BY <1>1, <1>5 DEF Told, Excused, CollectorInv
<1>8. faults' \in Nat /\ faults <= faults' /\ UNCHANGED <<head, readable>>
  BY <1>1
<1> QED BY <1>3, <1>4, <1>6, <1>7, <1>8, RecordStep, Zenon

\* The execution, then the observation of a passed one.
LEMMA PutExecutionStep ==
  ASSUME CollectorsInv, NEW k \in Collectors, PutExecution(k),
         UNCHANGED <<head, readable, faults>>
  PROVE  CollectorsInv'
<1> DEFINE c == collector[k]
           s == IF c.result = "passed" THEN "observation" ELSE "completion"
           d == [c EXCEPT !.execution = c.result, !.step = s]
<1>1. /\ c.step = "execution" /\ c \in CollectorType /\ CollectorInv(c)
      /\ Told(c, faults, readable) /\ faults \in Nat /\ DOMAIN collector = Collectors
  BY DEF PutExecution, CollectorsInv, GoodCollector
<1>2. collector' = [collector EXCEPT ![k] = d]
  BY <1>1 DEF PutExecution
<1>3. c.result \in Verdicts /\ s \in {"observation", "completion"}
  BY <1>1 DEF CollectorInv, Judged
<1>4. d \in CollectorType
  BY <1>1, <1>3 DEF CollectorType, CollectorSteps, Judged
<1>5. /\ d.step = s /\ d.armed = c.armed /\ d.aborted = c.aborted
      /\ d.before = c.before /\ d.after = c.after /\ d.result = c.result
      /\ d.execution = c.result /\ d.observation = c.observation
      /\ d.completion = c.completion /\ d.failure = c.failure /\ d.code = c.code
  BY <1>1 DEF CollectorType
<1> HIDE DEF d
<1>6. CollectorInv(d)
  BY <1>1, <1>3, <1>5 DEF CollectorInv, Starting, Judged
<1>7. Told(d, faults', readable') /\ Excused(d, faults')
  BY <1>1, <1>3, <1>5 DEF Told, Excused, CollectorInv
<1>8. faults' \in Nat /\ faults <= faults' /\ UNCHANGED <<head, readable>>
  BY <1>1
<1> QED BY <1>2, <1>4, <1>6, <1>7, <1>8, RecordStep, Zenon

LEMMA PutObservationStep ==
  ASSUME CollectorsInv, NEW k \in Collectors, PutObservation(k),
         UNCHANGED <<head, readable, faults>>
  PROVE  CollectorsInv'
<1> DEFINE c == collector[k]
           d == [c EXCEPT !.step = "completion", !.observation = TRUE]
<1>1. /\ c.step = "observation" /\ c \in CollectorType /\ CollectorInv(c)
      /\ Told(c, faults, readable) /\ faults \in Nat /\ DOMAIN collector = Collectors
  BY DEF PutObservation, CollectorsInv, GoodCollector
<1>2. collector' = [collector EXCEPT ![k] = d]
  BY <1>1 DEF PutObservation
<1>3. d \in CollectorType
  BY <1>1 DEF CollectorType, CollectorSteps, Judged
<1>4. /\ d.step = "completion" /\ d.armed = c.armed /\ d.aborted = c.aborted
      /\ d.before = c.before /\ d.after = c.after /\ d.result = c.result
      /\ d.execution = c.execution /\ d.observation
      /\ d.completion = c.completion /\ d.failure = c.failure /\ d.code = c.code
  BY <1>1 DEF CollectorType
<1> HIDE DEF d
<1>5. CollectorInv(d)
  BY <1>1, <1>4 DEF CollectorInv, Starting, Judged
<1>6. Told(d, faults', readable') /\ Excused(d, faults')
  BY <1>1, <1>4 DEF Told, Excused, CollectorInv
<1>7. faults' \in Nat /\ faults <= faults' /\ UNCHANGED <<head, readable>>
  BY <1>1
<1> QED BY <1>2, <1>3, <1>5, <1>6, <1>7, RecordStep, Zenon

LEMMA PutCompletionStep ==
  ASSUME CollectorsInv, NEW k \in Collectors, PutCompletion(k),
         UNCHANGED <<head, readable, faults>>
  PROVE  CollectorsInv'
<1> DEFINE c == collector[k]
           measured == c.result = "passed"
           told == IF measured THEN "measured" ELSE "failed"
           code == IF measured THEN 0 ELSE 2
           d == [c EXCEPT !.step = "exited", !.completion = told, !.code = code]
<1>1. /\ c.step = "completion" /\ c \in CollectorType /\ CollectorInv(c)
      /\ Told(c, faults, readable) /\ faults \in Nat /\ DOMAIN collector = Collectors
  BY DEF PutCompletion, CollectorsInv, GoodCollector
<1>2. collector' = [collector EXCEPT ![k] = d]
  BY <1>1 DEF PutCompletion
<1>3. /\ told \in {"measured", "failed"} /\ code \in {0, 2}
      /\ told = "measured" \/ code = 0 => measured /\ told = "measured"
      /\ code = 2 => told = "failed"
  OBVIOUS
<1> HIDE DEF told, code
<1>4. d \in CollectorType
  BY <1>1, <1>3 DEF CollectorType, CollectorSteps
<1>5. /\ d.step = "exited" /\ d.armed = c.armed /\ d.aborted = c.aborted
      /\ d.before = c.before /\ d.after = c.after /\ d.result = c.result
      /\ d.execution = c.execution /\ d.observation = c.observation
      /\ d.completion = told /\ d.failure = c.failure /\ d.code = code
  BY <1>1 DEF CollectorType
<1> HIDE DEF d
<1>6. CollectorInv(d)
  BY <1>1, <1>3, <1>5 DEF CollectorInv, Starting, Judged
<1>7. Told(d, faults', readable') /\ Excused(d, faults')
  BY <1>1, <1>3, <1>5 DEF Told, Excused, CollectorInv, Judged
<1>8. faults' \in Nat /\ faults <= faults' /\ UNCHANGED <<head, readable>>
  BY <1>1
<1> QED BY <1>2, <1>4, <1>6, <1>7, <1>8, RecordStep, Zenon

\* The end of a process that failed, with a receipt of it or after the failure
\* to publish one.
LEMMA FailureStep ==
  ASSUME CollectorsInv, NEW k \in Collectors, UNCHANGED <<head, readable>>,
         collector[k].step = "failing", NEW b \in BOOLEAN,
         collector' = [collector EXCEPT ![k] =
           [@ EXCEPT !.step = "exited", !.armed = FALSE, !.failure = b, !.code = 2]],
         faults' \in {faults, faults + 1},
         b \/ ~readable \/ faults' = faults + 1
  PROVE  CollectorsInv'
<1> DEFINE c == collector[k]
           d == [c EXCEPT !.step = "exited", !.armed = FALSE, !.failure = b,
                          !.code = 2]
<1>1. /\ c.step = "failing" /\ c \in CollectorType /\ CollectorInv(c)
      /\ Excused(c, faults) /\ faults \in Nat
      /\ collector' = [collector EXCEPT ![k] = d]
  BY DEF CollectorsInv, GoodCollector
<1>2. d \in CollectorType
  BY <1>1 DEF CollectorType, CollectorSteps
<1>3. /\ d.step = "exited" /\ ~d.armed /\ d.aborted = c.aborted
      /\ d.before = c.before /\ d.after = c.after /\ d.result = c.result
      /\ d.execution = c.execution /\ d.observation = c.observation
      /\ d.completion = c.completion /\ d.failure = b /\ d.code = 2
  BY <1>1 DEF CollectorType
<1> HIDE DEF d
<1>4. CollectorInv(d)
  BY <1>1, <1>3 DEF CollectorInv, Starting, Judged
<1>5. faults' \in Nat /\ faults <= faults' /\ UNCHANGED <<head, readable>>
  BY <1>1
<1>6. b \/ ~readable \/ faults' >= 1 + faults
  BY <1>1
<1>7. Told(d, faults', readable') /\ Excused(d, faults')
  BY <1>1, <1>3, <1>5, <1>6 DEF Told, Excused
<1> QED BY <1>1, <1>2, <1>4, <1>5, <1>7, RecordStep, Zenon

LEMMA FailingSteps ==
  ASSUME CollectorsInv, NEW k \in Collectors, UNCHANGED <<head, readable>>,
         \/ PutFailure(k) /\ UNCHANGED faults
         \/ CollectFails(k) /\ Fault
  PROVE  CollectorsInv'
<1> DEFINE c == collector[k]
<1>1. c \in CollectorType /\ DOMAIN collector = Collectors /\ faults \in Nat
  BY DEF CollectorsInv, GoodCollector
<1>2. CASE PutFailure(k) /\ UNCHANGED faults
  <2>1. c.step = "failing" /\ readable \in BOOLEAN /\ c.failure \in BOOLEAN
    BY <1>1, <1>2 DEF PutFailure, CollectorsInv, CollectorType
  <2> DEFINE b == IF readable THEN TRUE ELSE c.failure
  <2>2. b \in BOOLEAN /\ (b \/ ~readable)
    BY <2>1
  <2>3. collector' = [collector EXCEPT ![k] =
          [@ EXCEPT !.step = "exited", !.armed = FALSE, !.failure = b, !.code = 2]]
    BY <1>1, <1>2 DEF PutFailure
  <2> HIDE DEF b
  <2> QED BY <1>1, <1>2, <2>1, <2>2, <2>3, FailureStep
<1>3. ASSUME NEW from \in {"rehead", "execution", "observation", "completion"},
             Thrown(k, from), Fault
      PROVE  CollectorsInv'
  BY <1>1, <1>3, ThrownStep DEF Fault, Judged
<1>4. CASE /\ Fault /\ c.step = "failing"
           /\ collector' = [collector EXCEPT ![k].step = "exited",
                                             ![k].armed = FALSE, ![k].code = 2]
  <2>1. CollectorInv(c) /\ c.failure \in BOOLEAN
    BY <1>1 DEF CollectorsInv, GoodCollector, CollectorType
  <2>2. CASE c.failure
    <3> DEFINE d == [c EXCEPT !.step = "exited", !.armed = FALSE, !.code = 2]
    <3>1. collector' = [collector EXCEPT ![k] = d]
      BY <1>1, <1>4
    <3>2. d \in CollectorType
      BY <1>1 DEF CollectorType, CollectorSteps
    <3>3. /\ d.step = "exited" /\ ~d.armed /\ d.aborted = c.aborted
          /\ d.observation = c.observation /\ d.completion = c.completion
          /\ d.failure = c.failure /\ d.code = 2
      BY <1>1 DEF CollectorType
    <3> HIDE DEF d
    <3>4. CollectorInv(d)
      BY <2>1, <3>3 DEF CollectorInv, Starting, Judged
    <3>5. Told(d, faults', readable') /\ Excused(d, faults')
      BY <2>2, <3>3 DEF Told, Excused
    <3>6. faults' \in Nat /\ faults <= faults' /\ UNCHANGED <<head, readable>>
      BY <1>1, <1>4 DEF Fault
    <3> QED BY <3>1, <3>2, <3>4, <3>5, <3>6, RecordStep, Zenon
  <2>3. CASE ~c.failure
    <3>1. [c EXCEPT !.step = "exited", !.armed = FALSE, !.code = 2]
            = [c EXCEPT !.step = "exited", !.armed = FALSE, !.failure = FALSE,
                        !.code = 2]
      BY <1>1, <2>3 DEF CollectorType
    <3>2. collector' = [collector EXCEPT ![k] =
            [@ EXCEPT !.step = "exited", !.armed = FALSE, !.failure = FALSE,
                      !.code = 2]]
      BY <1>1, <1>4, <3>1
    <3> QED BY <1>1, <1>4, <3>2, FailureStep DEF Fault
  <2> QED BY <2>2, <2>3
<1> QED BY <1>2, <1>3, <1>4 DEF CollectFails

\* A signal that is acknowledged finds the handlers, that is no verdict yet.
LEMMA SignalStep ==
  ASSUME CollectorsInv, NEW k \in Collectors, Signal(k), UNCHANGED <<head, readable, faults>>
  PROVE  CollectorsInv'
<1> DEFINE c == collector[k]
<1>1. /\ c.step \notin {"idle", "exited", "killed"}
      /\ c \in CollectorType /\ CollectorInv(c) /\ Excused(c, faults)
      /\ Told(c, faults, readable) /\ faults \in Nat /\ DOMAIN collector = Collectors
  BY DEF Signal, Living, CollectorsInv, GoodCollector
<1>2. faults' \in Nat /\ faults <= faults' /\ UNCHANGED <<head, readable>>
  BY <1>1
<1>3. CASE c.armed /\ collector' = [collector EXCEPT ![k].aborted = TRUE]
  <2> DEFINE d == [c EXCEPT !.aborted = TRUE]
  <2>1. collector' = [collector EXCEPT ![k] = d]
    BY <1>1, <1>3
  <2>2. d \in CollectorType
    BY <1>1 DEF CollectorType
  <2>3. /\ d.step = c.step /\ d.armed = c.armed /\ d.aborted
        /\ d.before = c.before /\ d.after = c.after /\ d.result = c.result
        /\ d.execution = c.execution /\ d.observation = c.observation
        /\ d.completion = c.completion /\ d.failure = c.failure /\ d.code = c.code
    BY <1>1 DEF CollectorType
  <2> HIDE DEF d
  <2>4. CollectorInv(d)
    BY <1>1, <1>3, <2>3 DEF CollectorInv
  <2>5. Told(d, faults', readable') /\ Excused(d, faults')
    BY <1>1, <2>3 DEF Told, Excused
  <2> QED BY <1>2, <2>1, <2>2, <2>4, <2>5, RecordStep, Zenon
<1>4. CASE collector' = [collector EXCEPT ![k].step = "killed"]
  <2> DEFINE d == [c EXCEPT !.step = "killed"]
  <2>1. collector' = [collector EXCEPT ![k] = d]
    BY <1>1, <1>4
  <2>2. d \in CollectorType
    BY <1>1 DEF CollectorType, CollectorSteps
  <2>3. /\ d.step = "killed" /\ d.armed = c.armed /\ d.aborted = c.aborted
        /\ d.before = c.before /\ d.after = c.after /\ d.result = c.result
        /\ d.execution = c.execution /\ d.observation = c.observation
        /\ d.completion = c.completion /\ d.failure = c.failure /\ d.code = c.code
    BY <1>1 DEF CollectorType
  <2> HIDE DEF d
  <2>4. CollectorInv(d)
    BY <1>1, <2>3 DEF CollectorInv, Starting, Judged
  <2>5. Told(d, faults', readable') /\ Excused(d, faults')
    BY <1>1, <2>3 DEF Told, Excused
  <2> QED BY <1>2, <2>1, <2>2, <2>4, <2>5, RecordStep, Zenon
<1> QED BY <1>3, <1>4 DEF Signal

LEMMA Next_CollectorsInv == CollectorsInv /\ [EvidenceNext]_evidenceVars => CollectorsInv'
<1> SUFFICES ASSUME CollectorsInv, [EvidenceNext]_evidenceVars PROVE CollectorsInv'
  OBVIOUS
<1>1. CASE /\ UNCHANGED collector /\ head' \in Heads
           /\ readable' \in BOOLEAN /\ (readable' => readable)
           /\ faults' \in Nat /\ faults <= faults'
  BY <1>1, MoreFaults DEF CollectorsInv
<1>2. CASE CacheNext /\ UNCHANGED collectorVars
  <2>1. faults' \in Nat /\ faults <= faults'
    BY <1>2 DEF CacheNext, CollectorsInv
  <2> QED BY <1>1, <1>2, <2>1 DEF collectorVars, CollectorsInv
<1>3. CASE \/ UNCHANGED evidenceVars
           \/ (HeadMoves \/ RequestSpoils) /\ UNCHANGED faults
  <2>1. head \in Heads /\ readable \in BOOLEAN /\ faults \in Nat
    BY DEF CollectorsInv
  <2>2. CASE UNCHANGED evidenceVars
    BY <1>1, <2>1, <2>2 DEF evidenceVars, cacheVars, collectorVars
  <2>3. CASE HeadMoves /\ UNCHANGED faults
    BY <1>1, <2>1, <2>3 DEF HeadMoves
  <2>4. CASE RequestSpoils /\ UNCHANGED faults
    <3>1. faults' \in Nat /\ faults <= faults'
      BY <2>1, <2>4
    <3>2. /\ UNCHANGED collector /\ head' \in Heads
          /\ readable' \in BOOLEAN /\ (readable' => readable)
      BY <2>1, <2>4 DEF RequestSpoils
    <3> QED BY <1>1, <3>1, <3>2, Zenon
  <2> QED BY <1>3, <2>2, <2>3, <2>4
<1>4. ASSUME NEW k \in Collectors, Collect(k), UNCHANGED <<head, readable, faults>>
      PROVE  CollectorsInv'
  BY <1>4, StartingStep, RunCommandStep, ReadHeadAgainStep, SettleStep,
     PutExecutionStep, PutObservationStep, PutCompletionStep, FailingSteps
     DEF Collect
<1>5. ASSUME NEW k \in Collectors, CollectFails(k), Fault, UNCHANGED <<head, readable>>
      PROVE  CollectorsInv'
  BY <1>5, FailingSteps
<1>6. ASSUME NEW k \in Collectors, Signal(k), UNCHANGED <<head, readable, faults>>
      PROVE  CollectorsInv'
  BY <1>6, SignalStep
<1> QED BY <1>2, <1>3, <1>4, <1>5, <1>6 DEF EvidenceNext

LEMMA CollectorsInvariance == EvidenceSpec => []CollectorsInv
BY Init_CollectorsInv, Next_CollectorsInv, PTL
   DEF EvidenceSpec, EvidenceInit, CacheInit

\* Whenever the signal comes, a process that has acknowledged it publishes
\* neither an observation nor a measured completion.
THEOREM CancellationIsKept == EvidenceSpec => []CancellationNotLost
<1>1. CollectorsInv => CancellationNotLost
  BY DEF CollectorsInv, GoodCollector, CollectorInv, CancellationNotLost
<1> QED BY <1>1, CollectorsInvariance, PTL

\* The exit code of a process says what it published.  What ends without word of
\* how it ended has met a failure or a request that cannot be read, and two
\* such mishaps once its command has run.
THEOREM EndsAreTold == EvidenceSpec => []EveryEndIsTold
<1>1. CollectorsInv => EveryEndIsTold
  BY DEF CollectorsInv, GoodCollector, Told, EveryEndIsTold, Mishaps
<1> QED BY <1>1, CollectorsInvariance, PTL

-----------------------------------------------------------------------------
(* The canonical requests and their uses of stages. *)

Canonicals == {Canonical(file) : file \in {f \in RequestFiles : Accepted(f)}}

LEMMA ListsAreFinite ==
  ASSUME NEW list, IsList(list) PROVE IsFiniteSet(Range(list))
<1>1. list \in [1 .. Len(list) -> Range(list)] /\ Len(list) \in Nat
  BY DEF IsList
<1>2. list \in Surjection(1 .. Len(list), Range(list))
  BY <1>1, Fun_RangeProperties
<1>3. IsFiniteSet(1 .. Len(list))
  BY <1>1, FS_Interval
<1> QED BY <1>2, <1>3, FS_Surjection

LEMMA ImagesAreFinite ==
  ASSUME NEW S, IsFiniteSet(S), NEW F, DOMAIN F = S
  PROVE  IsFiniteSet({F[x] : x \in S})
<1> DEFINE T == {F[x] : x \in S}
           g == [x \in S |-> F[x]]
<1>1. g \in [S -> T] /\ \A y \in T : \E x \in S : g[x] = y
  OBVIOUS
<1>2. g \in Surjection(S, T)
  BY <1>1, Fun_IsSurj
<1> QED BY <1>2, FS_Surjection

\* A canonical request has the id of its file and, in each combination, the
\* stages of a list that is not empty.
LEMMA CanonicalShape ==
  ASSUME NEW file \in RequestFiles, Accepted(file)
  PROVE  /\ Canonical(file).request_id = file.request_id
         /\ IsFiniteSet(Canonical(file).combinations)
         /\ Canonical(file).combinations # {}
         /\ \A d \in Canonical(file).combinations :
              IsFiniteSet(d.stages) /\ d.stages # {}
<1> DEFINE F(c) == [c EXCEPT !.stages = Range(@)]
           C == Range(file.combinations)
<1>1. /\ file = [request_id |-> file.request_id, plan |-> file.plan,
                 source_inputs |-> file.source_inputs,
                 combinations |-> file.combinations]
      /\ IsList(file.combinations)
      /\ \A c \in C : /\ c = [combination_id |-> c.combination_id, stages |-> c.stages]
                      /\ IsList(c.stages)
  BY RequestFilesAssumption
<1>2. /\ Canonical(file).combinations = {F(c) : c \in C}
      /\ Canonical(file).request_id = file.request_id
  BY <1>1 DEF Canonical
<1>3. IsFiniteSet({F(c) : c \in C})
  <2> DEFINE G == [c \in C |-> F(c)]
  <2>1. IsFiniteSet({G[c] : c \in C})
    <3> HIDE DEF G
    <3>1. IsFiniteSet(C)
      BY <1>1, ListsAreFinite
    <3>2. DOMAIN G = C
      BY DEF G
    <3> QED BY <3>1, <3>2, ImagesAreFinite
  <2>2. {G[c] : c \in C} = {F(c) : c \in C}
    OBVIOUS
  <2> QED BY <2>1, <2>2
<1>4. ASSUME NEW list, IsList(list), list # <<>> PROVE Range(list) # {}
  <2>1. Len(list) # 0 /\ Len(list) \in Nat /\ DOMAIN list = 1 .. Len(list)
    BY <1>4 DEF IsList
  <2>2. 1 \in DOMAIN list
    BY <2>1
  <2> QED BY <2>2 DEF Range
<1>5. file.combinations # <<>> /\ \A c \in C : c.stages # <<>>
  BY DEF Accepted
<1>6. {F(c) : c \in C} # {}
  BY <1>1, <1>4, <1>5
<1>7. ASSUME NEW c \in C PROVE IsFiniteSet(F(c).stages) /\ F(c).stages # {}
  <2>1. F(c).stages = Range(c.stages)
    BY <1>1
  <2> QED BY <1>1, <1>4, <1>5, <2>1, ListsAreFinite
<1> HIDE DEF F
<1> QED BY <1>2, <1>3, <1>6, <1>7

\* The uses of a canonical request are a list that is not empty.
LEMMA UsesAreListed ==
  ASSUME NEW r \in Canonicals
  PROVE  /\ Len(Uses(r)) \in Nat \ {0}
         /\ DOMAIN Uses(r) = 1 .. Len(Uses(r))
<1>1. PICK file \in RequestFiles : Accepted(file) /\ r = Canonical(file)
  BY DEF Canonicals
<1> DEFINE uses == UNION {UsesOf(d) : d \in r.combinations}
<1>2. IsFiniteSet(r.combinations) /\ r.combinations # {}
      /\ \A d \in r.combinations : IsFiniteSet(d.stages) /\ d.stages # {}
  BY <1>1, CanonicalShape
<1>3. ASSUME NEW d \in r.combinations PROVE IsFiniteSet(UsesOf(d)) /\ UsesOf(d) # {}
  <2> DEFINE G == [s \in d.stages |-> [in |-> d.combination_id, stage |-> s]]
  <2>1. UsesOf(d) = {G[s] : s \in d.stages} /\ DOMAIN G = d.stages
    BY DEF UsesOf
  <2> HIDE DEF G
  <2>2. IsFiniteSet(UsesOf(d))
    BY <1>2, <2>1, ImagesAreFinite
  <2> QED BY <1>2, <2>1, <2>2
<1>4. IsFiniteSet({UsesOf(d) : d \in r.combinations})
  <2> DEFINE G == [d \in r.combinations |-> UsesOf(d)]
  <2>1. DOMAIN G = r.combinations /\ \A d \in r.combinations : G[d] = UsesOf(d)
    OBVIOUS
  <2> HIDE DEF G
  <2>2. {UsesOf(d) : d \in r.combinations} = {G[d] : d \in r.combinations}
    BY <2>1
  <2>3. IsFiniteSet({G[d] : d \in r.combinations})
    BY <1>2, <2>1, ImagesAreFinite
  <2> QED BY <2>2, <2>3
<1>5. IsFiniteSet(uses) /\ uses # {}
  <2>1. IsFiniteSet(uses)
    BY <1>3, <1>4, FS_UNION
  <2> QED BY <1>2, <1>3, <2>1
<1>6. Cardinality(uses) \in Nat \ {0}
  BY <1>5, FS_CardinalityType, FS_EmptySet
<1> DEFINE Before(u, v) ==
             \/ u.in < v.in
             \/ u.in = v.in /\ u.stage.stage_id < v.stage.stage_id
           E(n) == CHOOSE u \in uses : Cardinality({v \in uses : Before(v, u)}) = n - 1
           N == Cardinality(uses)
<1>7. Uses(r) = [n \in 1 .. N |-> E(n)]
  BY Zenon DEF Uses
<1> HIDE DEF E, N
<1>8. Uses(r) \in [1 .. N -> {E(n) : n \in 1 .. N}]
  BY <1>7
<1>9. Uses(r) \in Seq({E(n) : n \in 1 .. N})
  <2>1. N \in Nat
    BY <1>6 DEF N
  <2> QED BY <1>8, <2>1, SeqDef, Zenon
<1>10. DOMAIN Uses(r) = 1 .. N /\ N \in Nat \ {0}
  BY <1>6, <1>8 DEF N
<1> QED BY <1>9, <1>10

-----------------------------------------------------------------------------
(* What the cache is to a list of counted statuses.  The cache only grows, an  *)
(* identity has one entry for ever, and so a count stays right.                *)

Identity(r, n) == CacheIdentity(r, Uses(r)[n].stage)
Earlier(r, n) == {Identity(r, m) : m \in 1 .. n - 1}

Statuses == {"cross-combination-hit", "miss", "persistent-hit"}

Has(C, identity) == \E e \in C : e.identity = identity
Find(C, identity) == CHOOSE e \in C : e.identity = identity
Single(C) == \A d, e \in C : d.identity = e.identity => d = e
MadeBy(C, Q) ==
  \A e \in C : \E r \in Q : \E n \in 1 .. Len(Uses(r)) :
    e = EntryOf(Identity(r, n), r)

\* The status of the n-th use of a request, by the cache alone.
StatusIn(r, n, C) ==
  CASE Identity(r, n) \in Earlier(r, n) -> "cross-combination-hit"
    [] Identity(r, n) \notin Earlier(r, n)
       /\ Find(C, Identity(r, n)).created_by = r -> "miss"
    [] OTHER -> "persistent-hit"

\* What request r has counted so far: every use has its entry and its status,
\* and a use of an entry that r made is that of a miss or comes after one.
Counted(r, statuses, C, Q) ==
  /\ r \in Q
  /\ statuses \in Seq(Statuses)
  /\ Len(statuses) <= Len(Uses(r))
  /\ \A n \in 1 .. Len(statuses) :
       /\ Has(C, Identity(r, n))
       /\ statuses[n] = StatusIn(r, n, C)
       /\ Find(C, Identity(r, n)).created_by = r =>
            \E m \in 1 .. n :
              statuses[m] = "miss" /\ Identity(r, m) = Identity(r, n)

LEMMA FoundOnce ==
  ASSUME NEW C, Single(C), NEW e \in C PROVE Find(C, e.identity) = e /\ Has(C, e.identity)
BY DEF Find, Single, Has

LEMMA FoundFirst ==
  ASSUME NEW C, NEW i, Has(C, i)
  PROVE  Find(C, i) \in C /\ Find(C, i).identity = i
BY DEF Has, Find

LEMMA FoundStill ==
  ASSUME NEW C, NEW D, C \subseteq D, Single(D), NEW i, Has(C, i)
  PROVE  Has(D, i) /\ Find(D, i) = Find(C, i)
<1>1. Find(C, i) \in D /\ Find(C, i).identity = i
  BY FoundFirst
<1> QED BY <1>1, FoundOnce

LEMMA CountedStill ==
  ASSUME NEW C, NEW D, C \subseteq D, Single(D), NEW Q, NEW P, Q \subseteq P,
         NEW r, NEW statuses, Counted(r, statuses, C, Q)
  PROVE  Counted(r, statuses, D, P)
<1>1. r \in P /\ statuses \in Seq(Statuses) /\ Len(statuses) <= Len(Uses(r))
  BY DEF Counted
<1>2. ASSUME NEW n \in 1 .. Len(statuses)
      PROVE  /\ Has(D, Identity(r, n))
             /\ statuses[n] = StatusIn(r, n, D)
             /\ Find(D, Identity(r, n)).created_by = r =>
                  \E m \in 1 .. n :
                    statuses[m] = "miss" /\ Identity(r, m) = Identity(r, n)
  <2>1. /\ Has(C, Identity(r, n))
        /\ statuses[n] = StatusIn(r, n, C)
        /\ Find(C, Identity(r, n)).created_by = r =>
             \E m \in 1 .. n :
               statuses[m] = "miss" /\ Identity(r, m) = Identity(r, n)
    BY <1>2 DEF Counted
  <2>2. Has(D, Identity(r, n)) /\ Find(D, Identity(r, n)) = Find(C, Identity(r, n))
    BY <2>1, FoundStill
  <2>3. StatusIn(r, n, D) = StatusIn(r, n, C)
    BY <2>2 DEF StatusIn
  <2> QED BY <2>1, <2>2, <2>3
<1> QED BY <1>1, <1>2 DEF Counted

\* One more use is counted.
LEMMA CountedOneMore ==
  ASSUME NEW r, NEW statuses, NEW C, NEW Q, Counted(r, statuses, C, Q),
         Len(Uses(r)) \in Nat, Len(statuses) < Len(Uses(r)),
         Has(C, Identity(r, Len(statuses) + 1))
  PROVE  /\ StatusIn(r, Len(statuses) + 1, C) \in Statuses
         /\ Counted(r, Append(statuses, StatusIn(r, Len(statuses) + 1, C)), C, Q)
<1> DEFINE k == Len(statuses) + 1
           status == StatusIn(r, k, C)
           more == Append(statuses, status)
<1>1. status \in Statuses
  BY DEF StatusIn, Statuses
<1>2. r \in Q /\ statuses \in Seq(Statuses) /\ Len(statuses) \in Nat
  BY DEF Counted
<1> HIDE DEF status
<1>3. /\ more \in Seq(Statuses) /\ Len(more) = k
      /\ more[k] = status /\ \A n \in 1 .. Len(statuses) : more[n] = statuses[n]
  BY <1>1, <1>2, AppendProperties
<1> HIDE DEF more
<1>4. ASSUME NEW n \in 1 .. Len(statuses)
      PROVE  /\ Has(C, Identity(r, n))
             /\ more[n] = StatusIn(r, n, C)
             /\ Find(C, Identity(r, n)).created_by = r =>
                  \E m \in 1 .. n : more[m] = "miss" /\ Identity(r, m) = Identity(r, n)
  <2>1. /\ Has(C, Identity(r, n))
        /\ statuses[n] = StatusIn(r, n, C)
        /\ Find(C, Identity(r, n)).created_by = r =>
             \E m \in 1 .. n : statuses[m] = "miss" /\ Identity(r, m) = Identity(r, n)
    BY <1>4 DEF Counted
  <2>2. \A m \in 1 .. n : more[m] = statuses[m]
    BY <1>2, <1>3
  <2> QED BY <1>3, <2>1, <2>2
<1>5. ASSUME Find(C, Identity(r, k)).created_by = r
      PROVE  \E m \in 1 .. k : more[m] = "miss" /\ Identity(r, m) = Identity(r, k)
  <2>1. CASE Identity(r, k) \in Earlier(r, k)
    <3>1. PICK n \in 1 .. Len(statuses) : Identity(r, n) = Identity(r, k)
      BY <1>2, <2>1 DEF Earlier
    <3>2. PICK m \in 1 .. n : more[m] = "miss" /\ Identity(r, m) = Identity(r, n)
      BY <1>4, <1>5, <3>1
    <3>3. m \in 1 .. k
      BY <1>2
    <3> QED BY <3>1, <3>2, <3>3
  <2>2. CASE Identity(r, k) \notin Earlier(r, k)
    <3>1. status = "miss"
      BY <1>5, <2>2 DEF StatusIn, status
    <3>2. k \in 1 .. k
      BY <1>2
    <3> QED BY <1>3, <3>1, <3>2
  <2> QED BY <2>1, <2>2
<1>6. \A n \in 1 .. Len(more) : n = k \/ n \in 1 .. Len(statuses)
  BY <1>2, <1>3
<1>7. Len(more) <= Len(Uses(r))
  BY <1>2, <1>3
<1>8. more[k] = StatusIn(r, k, C)
  BY <1>3 DEF status
<1>9. ASSUME NEW n \in 1 .. Len(more)
      PROVE  /\ Has(C, Identity(r, n))
             /\ more[n] = StatusIn(r, n, C)
             /\ Find(C, Identity(r, n)).created_by = r =>
                  \E m \in 1 .. n : more[m] = "miss" /\ Identity(r, m) = Identity(r, n)
  <2>1. CASE n = k
    BY <1>5, <1>8, <2>1
  <2>2. CASE n \in 1 .. Len(statuses)
    BY <1>4, <2>2
  <2> QED BY <1>6, <2>1, <2>2
<1>10. Counted(r, more, C, Q)
  BY <1>2, <1>3, <1>7, <1>9 DEF Counted
<1> QED BY <1>1, <1>10 DEF more, status

\* A request has one list of statuses of a length.
LEMMA CountedAlike ==
  ASSUME NEW r, NEW C, NEW Q, NEW s, NEW t, Counted(r, s, C, Q),
         Counted(r, t, C, Q), Len(s) = Len(t)
  PROVE  s = t
<1>1. s \in Seq(Statuses) /\ t \in Seq(Statuses)
  BY DEF Counted
<1>2. \A n \in 1 .. Len(s) : s[n] = t[n]
  BY DEF Counted
<1> QED BY <1>1, <1>2, SeqEqual

-----------------------------------------------------------------------------
(* The projections. *)

RequestIds == {file.request_id : file \in RequestFiles}
LedgerFor(r, statuses) ==
  [request |-> r, statuses |-> statuses, avoided_wall_ms |-> Observed(r) - Unique(r)]

CallerType ==
  [step : {"idle", "look", "put", "ledger", "done"},
   request : Canonicals \cup {Absent}, statuses : Seq(Statuses),
   reply : {"none", "projected", "conflict", "error"}]

\* A process that is told of a conflict has seen the ledger of another request.
GoodCaller(c, C, Q, L) ==
  /\ c \in CallerType
  /\ c.step = "idle" => c.statuses = <<>>
  /\ c.step \in {"look", "put", "ledger"} \/ c.statuses # <<>> =>
       Counted(c.request, c.statuses, C, Q)
  /\ c.step \in {"look", "put"} => Len(c.statuses) < Len(Uses(c.request))
  /\ c.step = "put" =>
       Identity(c.request, Len(c.statuses) + 1)
         \notin Earlier(c.request, Len(c.statuses) + 1)
  /\ c.step = "ledger" => Len(c.statuses) = Len(Uses(c.request))
  /\ c.step # "done" => c.reply = "none"
  /\ c.reply = "conflict" =>
       /\ c.request.request_id \in DOMAIN L
       /\ L[c.request.request_id] # Absent
       /\ L[c.request.request_id].request # c.request

GoodLedger(ledger, C, Q) ==
  ledger # Absent =>
    /\ ledger = LedgerFor(ledger.request, ledger.statuses)
    /\ Counted(ledger.request, ledger.statuses, C, Q)
    /\ Len(ledger.statuses) = Len(Uses(ledger.request))

CacheInv ==
  /\ requests \subseteq Canonicals
  /\ Single(cache) /\ MadeBy(cache, requests)
  /\ DOMAIN ledgers = RequestIds
  /\ \A id \in RequestIds : GoodLedger(ledgers[id], cache, requests)
  /\ DOMAIN caller = Callers
  /\ \A c \in Callers : GoodCaller(caller[c], cache, requests, ledgers)

LEMMA Init_CacheInv == CacheInit => CacheInv
<1> SUFFICES ASSUME CacheInit PROVE CacheInv
  OBVIOUS
<1>1. /\ requests = {} /\ cache = {}
      /\ ledgers = [id \in RequestIds |-> Absent]
      /\ caller = [c \in Callers |-> Idle]
  BY DEF CacheInit, RequestIds
<1>2. Single(cache) /\ MadeBy(cache, requests) /\ requests \subseteq Canonicals
  BY <1>1 DEF Single, MadeBy
<1>3. Idle \in CallerType
  BY DEF Idle, CallerType
<1>4. GoodCaller(Idle, cache, requests, ledgers)
  BY <1>3 DEF GoodCaller, Idle
<1> QED BY <1>1, <1>2, <1>4 DEF CacheInv, GoodLedger

\* What the other processes and the ledgers rest on stays.
Grown(C, D, Q, P, L, M) ==
  /\ C \subseteq D /\ Single(D) /\ Q \subseteq P
  /\ DOMAIN M = DOMAIN L
  /\ \A id \in DOMAIN L : L[id] # Absent => M[id] = L[id]

LEMMA CallerStill ==
  ASSUME NEW C, NEW D, NEW Q, NEW P, NEW L, NEW M, Grown(C, D, Q, P, L, M),
         NEW c, GoodCaller(c, C, Q, L)
  PROVE  GoodCaller(c, D, P, M)
<1>1. Counted(c.request, c.statuses, C, Q) => Counted(c.request, c.statuses, D, P)
  BY CountedStill DEF Grown
<1>2. c.reply = "conflict" =>
       /\ c.request.request_id \in DOMAIN M
       /\ M[c.request.request_id] # Absent
       /\ M[c.request.request_id].request # c.request
  BY DEF Grown, GoodCaller
<1> QED BY <1>1, <1>2 DEF GoodCaller

LEMMA LedgerStill ==
  ASSUME NEW C, NEW D, NEW Q, NEW P, NEW L, NEW M, Grown(C, D, Q, P, L, M),
         NEW ledger, GoodLedger(ledger, C, Q)
  PROVE  GoodLedger(ledger, D, P)
BY CountedStill DEF Grown, GoodLedger

\* A step of one process, to d.
LEMMA ProjectStep ==
  ASSUME CacheInv, NEW c \in Callers, NEW d,
         caller' = [caller EXCEPT ![c] = d],
         GoodCaller(d, cache', requests', ledgers'),
         Grown(cache, cache', requests, requests', ledgers, ledgers'),
         MadeBy(cache', requests'), requests' \subseteq Canonicals,
         \A id \in RequestIds : ledgers'[id] = ledgers[id]
                                \/ GoodLedger(ledgers'[id], cache', requests')
  PROVE  CacheInv'
<1>1. Single(cache') /\ DOMAIN ledgers' = RequestIds
  BY DEF Grown, CacheInv
<1>2. ASSUME NEW id \in RequestIds PROVE GoodLedger(ledgers'[id], cache', requests')
  BY LedgerStill DEF CacheInv
<1>3. DOMAIN caller' = Callers /\ caller'[c] = d
      /\ \A o \in Callers \ {c} : caller'[o] = caller[o]
  BY DEF CacheInv
<1>4. ASSUME NEW o \in Callers
      PROVE  GoodCaller(caller'[o], cache', requests', ledgers')
  <2>1. CASE o = c
    BY <1>3, <2>1
  <2>2. CASE o # c
    <3>1. caller'[o] = caller[o] /\ GoodCaller(caller[o], cache, requests, ledgers)
      BY <1>3, <2>2 DEF CacheInv
    <3> QED BY <3>1, CallerStill
  <2> QED BY <2>1, <2>2
<1> QED BY <1>1, <1>2, <1>3, <1>4 DEF CacheInv

\* What is published under its own name changes nothing of the others.
LEMMA NothingGrows ==
  ASSUME CacheInv, UNCHANGED <<requests, cache, ledgers>>
  PROVE  /\ Grown(cache, cache', requests, requests', ledgers, ledgers')
         /\ MadeBy(cache', requests') /\ requests' \subseteq Canonicals
BY DEF CacheInv, Grown

LEMMA AnswerStep ==
  ASSUME CacheInv, NEW c \in Callers, caller[c].step \notin {"idle", "done"},
         NEW reply \in {"projected", "error"}, Answer(c, reply),
         Grown(cache, cache', requests, requests', ledgers, ledgers'),
         MadeBy(cache', requests'), requests' \subseteq Canonicals,
         \A id \in RequestIds : ledgers'[id] = ledgers[id]
                                \/ GoodLedger(ledgers'[id], cache', requests')
  PROVE  CacheInv'
<1> DEFINE d == [caller[c] EXCEPT !.step = "done", !.reply = reply]
<1>1. GoodCaller(caller[c], cache, requests, ledgers)
      /\ DOMAIN caller = Callers
  BY DEF CacheInv
<1>2. GoodCaller(caller[c], cache', requests', ledgers')
  BY <1>1, CallerStill
<1>3. caller' = [caller EXCEPT ![c] = d]
  BY <1>1 DEF Answer
<1>4. d \in CallerType
  BY <1>1 DEF GoodCaller, CallerType
<1>5. d.step = "done" /\ d.reply = reply /\ d.statuses = caller[c].statuses
      /\ d.request = caller[c].request
  BY <1>1 DEF GoodCaller, CallerType
<1> HIDE DEF d
<1>6. GoodCaller(d, cache', requests', ledgers')
  BY <1>2, <1>4, <1>5 DEF GoodCaller
<1> QED BY <1>3, <1>6, ProjectStep

LEMMA RefuseStep ==
  ASSUME CacheInv, NEW c \in Callers, caller[c].step # "done", Refuse(c)
  PROVE  CacheInv'
<1> DEFINE d == [caller[c] EXCEPT !.step = "done", !.reply = "error"]
<1>1. GoodCaller(caller[c], cache, requests, ledgers)
      /\ DOMAIN caller = Callers
  BY DEF CacheInv
<1>2. UNCHANGED <<requests, cache, ledgers>>
  BY DEF Refuse
<1>3. caller' = [caller EXCEPT ![c] = d]
  BY <1>1 DEF Answer, Refuse
<1>4. d \in CallerType
  BY <1>1 DEF GoodCaller, CallerType
<1>5. d.step = "done" /\ d.reply = "error" /\ d.statuses = caller[c].statuses
      /\ d.request = caller[c].request
  BY <1>1 DEF GoodCaller, CallerType
<1> HIDE DEF d
<1>6. GoodCaller(d, cache', requests', ledgers')
  BY <1>1, <1>2, <1>4, <1>5 DEF GoodCaller
<1>7. Grown(cache, cache', requests, requests', ledgers, ledgers')
      /\ MadeBy(cache', requests') /\ requests' \subseteq Canonicals
  BY <1>2, NothingGrows
<1> QED BY <1>2, <1>3, <1>6, <1>7, ProjectStep

LEMMA OpenStep ==
  ASSUME CacheInv, NEW c \in Callers, Open(c)
  PROVE  CacheInv'
<1>1. PICK file \in RequestFiles :
        /\ caller[c].step = "idle"
        /\ IF ~Accepted(file)
           THEN Refuse(c)
           ELSE /\ requests' = requests \cup {Canonical(file)}
                /\ caller' = [caller EXCEPT ![c].step = "look",
                                            ![c].request = Canonical(file)]
                /\ UNCHANGED <<cache, ledgers>>
  BY DEF Open
<1>2. CASE ~Accepted(file)
  BY <1>1, <1>2, RefuseStep
<1>3. CASE Accepted(file)
  <2> DEFINE r == Canonical(file)
             d == [caller[c] EXCEPT !.step = "look", !.request = r]
  <2>1. /\ requests' = requests \cup {r}
        /\ caller' = [caller EXCEPT ![c].step = "look", ![c].request = r]
        /\ UNCHANGED <<cache, ledgers>> /\ caller[c].step = "idle"
    BY <1>1, <1>3
  <2>2. r \in Canonicals
    BY <1>3 DEF Canonicals
  <2> HIDE DEF r
  <2>3. GoodCaller(caller[c], cache, requests, ledgers) /\ DOMAIN caller = Callers
        /\ requests \subseteq Canonicals /\ Single(cache) /\ MadeBy(cache, requests)
    BY DEF CacheInv
  <2>4. caller' = [caller EXCEPT ![c] = d]
    BY <2>1, <2>3
  <2>5. d \in CallerType
    BY <2>2, <2>3 DEF GoodCaller, CallerType
  <2>6. d.step = "look" /\ d.request = r /\ d.statuses = <<>> /\ d.reply = "none"
    BY <2>1, <2>3 DEF GoodCaller, CallerType
  <2> HIDE DEF d
  <2>7. Len(Uses(r)) \in Nat \ {0}
    BY <2>2, UsesAreListed
  <2>8. Counted(r, <<>>, cache', requests')
    BY <2>1, <2>7 DEF Counted
  <2>9. GoodCaller(d, cache', requests', ledgers')
    BY <2>5, <2>6, <2>7, <2>8 DEF GoodCaller
  <2>10. Grown(cache, cache', requests, requests', ledgers, ledgers')
    BY <2>1, <2>3 DEF Grown
  <2>11. MadeBy(cache', requests') /\ requests' \subseteq Canonicals
    BY <2>1, <2>2, <2>3 DEF MadeBy
  <2> QED BY <2>1, <2>4, <2>9, <2>10, <2>11, ProjectStep
<1> QED BY <1>2, <1>3

\* The words of the model are those of the counts.
LEMMA AtTheNext ==
  ASSUME CacheInv, NEW c \in Callers, caller[c].step \in {"look", "put"}
  PROVE  LET r == caller[c].request
             k == Len(caller[c].statuses) + 1
         IN /\ IdentityAt(c) = Identity(r, k)
            /\ Passed(c) = Earlier(r, k)
            /\ r \in requests /\ r \in Canonicals
            /\ k \in 1 .. Len(Uses(r)) /\ Len(Uses(r)) \in Nat
<1> DEFINE r == caller[c].request
           k == Len(caller[c].statuses) + 1
<1>1. /\ Counted(r, caller[c].statuses, cache, requests)
      /\ Len(caller[c].statuses) < Len(Uses(r))
      /\ requests \subseteq Canonicals
  BY DEF CacheInv, GoodCaller
<1>2. /\ r \in requests /\ r \in Canonicals
      /\ caller[c].statuses \in Seq(Statuses)
  BY <1>1 DEF Counted
<1>3. Len(Uses(r)) \in Nat
  BY <1>2, UsesAreListed
<1>4. Len(caller[c].statuses) \in Nat
      /\ DOMAIN caller[c].statuses = 1 .. Len(caller[c].statuses)
  BY <1>2
<1>5. k \in 1 .. Len(Uses(r)) /\ k - 1 = Len(caller[c].statuses)
  BY <1>1, <1>3, <1>4
<1>6. IdentityAt(c) = Identity(r, k)
  BY DEF IdentityAt, Identity, At
<1>7. Passed(c) = Earlier(r, k)
  BY <1>4, <1>5 DEF Passed, Earlier, Identity
<1> QED BY <1>2, <1>3, <1>5, <1>6, <1>7

\* A use is counted by what the cache says after the step.
LEMMA CountStep ==
  ASSUME CacheInv, NEW c \in Callers, caller[c].step \in {"look", "put"},
         Count(c, StatusIn(caller[c].request, Len(caller[c].statuses) + 1, cache')),
         Has(cache', IdentityAt(c)), UNCHANGED <<requests, ledgers>>,
         cache \subseteq cache', Single(cache'), MadeBy(cache', requests')
  PROVE  CacheInv'
<1> DEFINE r == caller[c].request
           k == Len(caller[c].statuses) + 1
           more == Append(caller[c].statuses, StatusIn(r, k, cache'))
           next == IF k = Len(Uses(r)) THEN "ledger" ELSE "look"
           d == [caller[c] EXCEPT !.statuses = more, !.step = next]
<1>1. Grown(cache, cache', requests, requests', ledgers, ledgers')
      /\ requests' \subseteq Canonicals
  BY DEF Grown, CacheInv
<1>2. GoodCaller(caller[c], cache', requests', ledgers') /\ DOMAIN caller = Callers
  BY <1>1, CallerStill DEF CacheInv
<1>3. /\ IdentityAt(c) = Identity(r, k) /\ Len(Uses(r)) \in Nat
      /\ k \in 1 .. Len(Uses(r)) /\ r \in Canonicals
  BY AtTheNext
<1>4. Counted(r, caller[c].statuses, cache', requests')
      /\ Len(caller[c].statuses) < Len(Uses(r))
  BY <1>2 DEF GoodCaller
<1>5. Counted(r, more, cache', requests')
  BY <1>3, <1>4, CountedOneMore
<1>6. more \in Seq(Statuses) /\ Len(more) = k
  <2>1. caller[c].statuses \in Seq(Statuses)
    BY <1>4 DEF Counted
  <2>2. StatusIn(r, k, cache') \in Statuses
    BY <1>3, <1>4, CountedOneMore
  <2> QED BY <2>1, <2>2, AppendProperties
<1> HIDE DEF more
<1>7. caller' = [caller EXCEPT ![c] = d]
  BY <1>2 DEF Count, more
<1>8. next \in {"look", "ledger"} /\ (next = "look" => k # Len(Uses(r)))
      /\ (next = "ledger" => k = Len(Uses(r)))
  OBVIOUS
<1> HIDE DEF next
<1>9. caller[c] \in CallerType /\ caller[c].reply = "none"
  BY <1>2 DEF GoodCaller
<1>10. d \in CallerType
  BY <1>6, <1>8, <1>9 DEF CallerType
<1>11. d.step = next /\ d.request = r /\ d.statuses = more /\ d.reply = "none"
  BY <1>9 DEF CallerType
<1> HIDE DEF d
<1>12. next = "look" => Len(more) < Len(Uses(r))
  BY <1>3, <1>6, <1>8
<1>13. GoodCaller(d, cache', requests', ledgers')
  BY <1>5, <1>6, <1>8, <1>10, <1>11, <1>12 DEF GoodCaller
<1> QED BY <1>1, <1>7, <1>13, ProjectStep

LEMMA LookStep ==
  ASSUME CacheInv, NEW c \in Callers, Look(c)
  PROVE  CacheInv'
<1> DEFINE r == caller[c].request
           k == Len(caller[c].statuses) + 1
           i == IdentityAt(c)
<1>1. caller[c].step = "look"
  BY DEF Look
<1>2. CASE ~Materializable(At(c))
  BY <1>1, <1>2, RefuseStep DEF Look
<1>3. CASE Materializable(At(c))
  <2>1. /\ i = Identity(r, k) /\ Passed(c) = Earlier(r, k)
        /\ UNCHANGED <<requests, cache, ledgers>>
    BY <1>1, <1>3, AtTheNext DEF Look
  <2>2. Single(cache') /\ MadeBy(cache', requests') /\ cache \subseteq cache'
    BY <2>1 DEF CacheInv
  <2>3. ASSUME Count(c, StatusIn(r, k, cache')), Has(cache', i) PROVE CacheInv'
    BY <1>1, <2>1, <2>2, <2>3, CountStep
  <2>4. CASE i \in Passed(c) /\ Count(c, "cross-combination-hit")
    <3>1. StatusIn(r, k, cache') = "cross-combination-hit"
      BY <2>1, <2>4 DEF StatusIn
    <3>2. PICK m \in 1 .. k - 1 : Identity(r, m) = i
      BY <2>1, <2>4 DEF Earlier
    <3>3. Counted(r, caller[c].statuses, cache, requests)
          /\ Len(caller[c].statuses) \in Nat
      BY <1>1 DEF CacheInv, GoodCaller, Counted
    <3>4. Has(cache', i)
      BY <2>1, <3>2, <3>3 DEF Counted
    <3> QED BY <2>3, <2>4, <3>1, <3>4
  <2>5. CASE /\ i \notin Passed(c) /\ Cached(i)
             /\ Count(c, StatusOf(c, Entry(i)))
    <3>1. Has(cache', i) /\ Entry(i) = Find(cache', i)
      BY <2>1, <2>5 DEF Cached, Has, Entry, Find
    <3>2. StatusOf(c, Entry(i)) = StatusIn(r, k, cache')
      BY <2>1, <2>5, <3>1 DEF StatusIn, StatusOf
    <3> QED BY <2>3, <2>5, <3>1, <3>2
  <2>6. CASE i \notin Passed(c) /\ caller' = [caller EXCEPT ![c].step = "put"]
    <3> DEFINE d == [caller[c] EXCEPT !.step = "put"]
    <3>1. GoodCaller(caller[c], cache', requests', ledgers') /\ DOMAIN caller = Callers
      BY <2>1 DEF CacheInv
    <3>2. caller' = [caller EXCEPT ![c] = d]
      BY <2>6, <3>1
    <3>3. d \in CallerType /\ caller[c].reply = "none"
      BY <1>1, <3>1 DEF GoodCaller, CallerType
    <3>4. d.step = "put" /\ d.request = r /\ d.statuses = caller[c].statuses
          /\ d.reply = "none"
      BY <3>1, <3>3 DEF GoodCaller, CallerType
    <3> HIDE DEF d
    <3>5. i \notin Earlier(r, k)
      BY <2>1, <2>6
    <3>6. GoodCaller(d, cache', requests', ledgers')
      BY <1>1, <2>1, <3>1, <3>3, <3>4, <3>5 DEF GoodCaller
    <3>7. Grown(cache, cache', requests, requests', ledgers, ledgers')
          /\ MadeBy(cache', requests') /\ requests' \subseteq Canonicals
      BY <2>1, NothingGrows
    <3> QED BY <2>1, <3>2, <3>6, <3>7, ProjectStep
  <2> QED BY <1>3, <2>4, <2>5, <2>6 DEF Look
<1> QED BY <1>2, <1>3

\* A new entry is that of a use of its request, and the only one of its identity.
LEMMA PutStep ==
  ASSUME CacheInv, NEW c \in Callers, Put(c)
  PROVE  CacheInv'
<1> DEFINE r == caller[c].request
           k == Len(caller[c].statuses) + 1
           i == IdentityAt(c)
           mine == EntryOf(i, r)
<1>1. caller[c].step = "put" /\ UNCHANGED <<requests, ledgers>>
  BY DEF Put
<1>2. /\ i = Identity(r, k) /\ r \in requests /\ k \in 1 .. Len(Uses(r))
      /\ i \notin Earlier(r, k)
  BY <1>1, AtTheNext DEF CacheInv, GoodCaller
<1>3. CASE Cached(i) /\ UNCHANGED cache /\ Count(c, StatusOf(c, Entry(i)))
  <2>1. Has(cache', i) /\ Entry(i) = Find(cache', i)
    BY <1>3 DEF Cached, Has, Entry, Find
  <2>2. StatusOf(c, Entry(i)) = StatusIn(r, k, cache')
    BY <1>2, <2>1 DEF StatusIn, StatusOf
  <2>3. Single(cache') /\ MadeBy(cache', requests') /\ cache \subseteq cache'
    BY <1>1, <1>3 DEF CacheInv
  <2> QED BY <1>1, <1>3, <2>1, <2>2, <2>3, CountStep
<1>4. CASE ~Cached(i) /\ cache' = cache \cup {mine} /\ Count(c, StatusOf(c, mine))
  <2>1. mine.identity = i /\ mine.created_by = r
    BY DEF EntryOf
  <2> HIDE DEF mine
  <2>2. Single(cache')
    BY <1>4, <2>1 DEF CacheInv, Single, Cached
  <2>3. mine \in cache' /\ cache \subseteq cache'
    BY <1>4
  <2>4. Has(cache', i) /\ Find(cache', i) = mine
    BY <2>1, <2>2, <2>3, FoundOnce
  <2>5. StatusOf(c, mine) = StatusIn(r, k, cache')
    BY <1>2, <2>1, <2>4 DEF StatusIn, StatusOf
  <2>6. MadeBy(cache', requests')
    BY <1>1, <1>2, <1>4 DEF CacheInv, MadeBy, mine
  <2> QED BY <1>1, <1>4, <2>2, <2>3, <2>4, <2>5, <2>6, CountStep
<1> QED BY <1>3, <1>4 DEF Put

\* A ledger that is in the way is that of another request: that of the same one
\* would have the same statuses.
LEMMA PutLedgerStep ==
  ASSUME CacheInv, NEW c \in Callers, PutLedger(c)
  PROVE  CacheInv'
<1> DEFINE r == caller[c].request
           id == r.request_id
           statuses == caller[c].statuses
<1>1. caller[c].step = "ledger" /\ UNCHANGED <<requests, cache>>
  BY DEF PutLedger
<1>2. GoodCaller(caller[c], cache, requests, ledgers) /\ DOMAIN caller = Callers
      /\ DOMAIN ledgers = RequestIds /\ requests \subseteq Canonicals
      /\ Single(cache) /\ MadeBy(cache, requests)
  BY DEF CacheInv
<1>3. Counted(r, statuses, cache, requests) /\ Len(statuses) = Len(Uses(r))
  BY <1>1, <1>2 DEF GoodCaller
<1>4. id \in RequestIds
  <2>1. r \in Canonicals
    BY <1>2, <1>3 DEF Counted
  <2>2. PICK file \in RequestFiles : Accepted(file) /\ r = Canonical(file)
    BY <2>1 DEF Canonicals
  <2> QED BY <2>2, CanonicalShape DEF RequestIds
<1>5. LedgerOf(c) = LedgerFor(r, statuses)
  BY DEF LedgerOf, LedgerFor
<1>6. GoodLedger(LedgerOf(c), cache', requests')
  <2>1. LedgerFor(r, statuses).request = r /\ LedgerFor(r, statuses).statuses = statuses
    BY DEF LedgerFor
  <2> QED BY <1>1, <1>3, <1>5, <2>1 DEF GoodLedger
<1>7. CASE /\ ledgers[id] \in {Absent, LedgerOf(c)}
           /\ ledgers' = [ledgers EXCEPT ![id] = LedgerOf(c)]
           /\ Answer(c, "projected")
  <2>1. Grown(cache, cache', requests, requests', ledgers, ledgers')
    BY <1>1, <1>2, <1>7 DEF Grown
  <2>2. MadeBy(cache', requests') /\ requests' \subseteq Canonicals
    BY <1>1, <1>2
  <2>3. \A o \in RequestIds : ledgers'[o] = ledgers[o]
                              \/ GoodLedger(ledgers'[o], cache', requests')
    BY <1>2, <1>6, <1>7
  <2> QED BY <1>1, <1>7, <2>1, <2>2, <2>3, AnswerStep
<1>8. CASE /\ ledgers[id] \notin {Absent, LedgerOf(c)}
           /\ Answer(c, "conflict") /\ UNCHANGED ledgers
  <2> DEFINE d == [caller[c] EXCEPT !.step = "done", !.reply = "conflict"]
  <2>1. ledgers[id].request # r
    <3> SUFFICES ASSUME ledgers[id].request = r PROVE FALSE
      OBVIOUS
    <3>1. GoodLedger(ledgers[id], cache, requests)
      BY <1>4 DEF CacheInv
    <3>2. /\ ledgers[id] = LedgerFor(r, ledgers[id].statuses)
          /\ Counted(r, ledgers[id].statuses, cache, requests)
          /\ Len(ledgers[id].statuses) = Len(Uses(r))
      BY <1>8, <3>1 DEF GoodLedger
    <3>3. ledgers[id].statuses = statuses
      BY <1>3, <3>2, CountedAlike
    <3> QED BY <1>5, <1>8, <3>2, <3>3
  <2>2. caller' = [caller EXCEPT ![c] = d]
    BY <1>2, <1>8 DEF Answer
  <2>3. d \in CallerType
    BY <1>2 DEF GoodCaller, CallerType
  <2>4. d.step = "done" /\ d.request = r /\ d.statuses = statuses
        /\ d.reply = "conflict"
    BY <1>2 DEF GoodCaller, CallerType
  <2> HIDE DEF d
  <2>5. GoodCaller(d, cache', requests', ledgers')
    BY <1>1, <1>2, <1>3, <1>4, <1>8, <2>1, <2>3, <2>4 DEF GoodCaller
  <2>6. Grown(cache, cache', requests, requests', ledgers, ledgers')
        /\ MadeBy(cache', requests') /\ requests' \subseteq Canonicals
    BY <1>1, <1>8, NothingGrows
  <2> QED BY <1>8, <2>2, <2>5, <2>6, ProjectStep
<1> QED BY <1>7, <1>8 DEF PutLedger

LEMMA Next_CacheInv == CacheInv /\ [EvidenceNext]_evidenceVars => CacheInv'
<1> SUFFICES ASSUME CacheInv, [EvidenceNext]_evidenceVars PROVE CacheInv'
  OBVIOUS
<1>1. CASE UNCHANGED <<requests, cache, ledgers, caller>>
  BY <1>1 DEF CacheInv
<1>2. ASSUME NEW c \in Callers, Project(c) PROVE CacheInv'
  BY <1>2, OpenStep, LookStep, PutStep, PutLedgerStep DEF Project
<1>3. ASSUME NEW c \in Callers, ProjectFails(c) PROVE CacheInv'
  BY <1>3, RefuseStep DEF ProjectFails
<1>4. CASE UNCHANGED evidenceVars
  BY <1>1, <1>4 DEF evidenceVars, cacheVars
<1> QED BY <1>1, <1>2, <1>3, <1>4 DEF EvidenceNext, CacheNext

LEMMA CacheInvariance == EvidenceSpec => []CacheInv
BY Init_CacheInv, Next_CacheInv, PTL DEF EvidenceSpec, EvidenceInit

\* An entry that a projection reuses is for the same stage, plan and sources,
\* and the request that made it is on the disk.
THEOREM ReusesAreSound == EvidenceSpec => []ReuseIsSound
<1>1. CacheInv => ReuseIsSound
  <2> SUFFICES ASSUME CacheInv, NEW c \in Callers, NEW n \in DOMAIN caller[c].statuses
               PROVE  LET r == caller[c].request
                          s == Uses(r)[n].stage
                          Trace(q) == {i \in q.source_inputs : i.input_id \in s.source_input_ids}
                          maker == Entry(CacheIdentity(r, s)).created_by
                      IN /\ \E u \in Range(Uses(maker)) : u.stage = s
                         /\ maker.plan = r.plan /\ Trace(maker) = Trace(r)
                         /\ maker \in requests
    BY DEF ReuseIsSound
  <2> DEFINE r == caller[c].request
             s == Uses(r)[n].stage
             Trace(q) == {i \in q.source_inputs : i.input_id \in s.source_input_ids}
             e == Entry(CacheIdentity(r, s))
  <2>1. caller[c].statuses # <<>> /\ n \in 1 .. Len(caller[c].statuses)
    BY DEF CacheInv, GoodCaller, CallerType
  <2>2. Has(cache, Identity(r, n)) /\ requests \subseteq Canonicals
    BY <2>1 DEF CacheInv, GoodCaller, Counted
  <2>3. e \in cache /\ e.identity = CacheIdentity(r, s)
    BY <2>2, FoundFirst DEF Entry, Find, Identity
  <2>4. PICK q \in requests : \E m \in 1 .. Len(Uses(q)) : e = EntryOf(Identity(q, m), q)
    BY <2>3 DEF CacheInv, MadeBy
  <2>5. PICK m \in 1 .. Len(Uses(q)) : e = EntryOf(Identity(q, m), q)
    BY <2>4
  <2>6. e.created_by = q /\ CacheIdentity(q, Uses(q)[m].stage) = CacheIdentity(r, s)
    BY <2>3, <2>5 DEF EntryOf, Identity
  <2>7. Uses(q)[m].stage = s /\ q.plan = r.plan /\ Trace(q) = Trace(r)
    BY <2>6 DEF CacheIdentity
  <2>8. \E u \in Range(Uses(q)) : u.stage = s
    <3>1. DOMAIN Uses(q) = 1 .. Len(Uses(q))
      BY <2>2, UsesAreListed
    <3>2. Uses(q)[m] \in Range(Uses(q))
      BY <3>1 DEF Range
    <3> QED BY <2>7, <3>2
  <2> HIDE DEF s, e
  <2> QED BY <2>6, <2>7, <2>8 DEF s, e
<1> QED BY <1>1, CacheInvariance, PTL

\* The misses of a ledger are the entries of its request, each of them once.
THEOREM LedgersMatchStore == EvidenceSpec => []LedgerMatchesStore
<1>1. CacheInv => LedgerMatchesStore
  <2> SUFFICES ASSUME CacheInv, NEW id \in DOMAIN ledgers, ledgers[id] # Absent
               PROVE  LET r == ledgers[id].request
                          Of(status) == {n \in DOMAIN Uses(r) : ledgers[id].statuses[n] = status}
                          Made(n) == CacheIdentity(r, Uses(r)[n].stage)
                      IN /\ Len(ledgers[id].statuses) = Len(Uses(r))
                         /\ Cardinality(Of("miss")) = Cardinality({Made(n) : n \in Of("miss")})
                         /\ {Made(n) : n \in Of("miss")}
                              = {e.identity : e \in {f \in cache : f.created_by = r}}
    BY DEF LedgerMatchesStore
  <2> DEFINE r == ledgers[id].request
             statuses == ledgers[id].statuses
             Misses == {n \in DOMAIN Uses(r) : statuses[n] = "miss"}
             Ids == {Identity(r, n) : n \in Misses}
  <2>1. Counted(r, statuses, cache, requests) /\ Len(statuses) = Len(Uses(r))
    BY DEF CacheInv, GoodLedger
  <2>2. r \in requests /\ r \in Canonicals
    BY <2>1 DEF Counted, CacheInv
  <2>3. DOMAIN Uses(r) = 1 .. Len(statuses) /\ Len(statuses) \in Nat
    BY <2>1, <2>2, UsesAreListed
  <2> HIDE DEF r, statuses
  <2>4. ASSUME NEW n \in Misses
        PROVE  /\ Identity(r, n) \notin Earlier(r, n)
               /\ Find(cache, Identity(r, n)).created_by = r
               /\ Has(cache, Identity(r, n)) /\ n \in 1 .. Len(statuses)
    <3>1. n \in 1 .. Len(statuses) /\ statuses[n] = "miss"
      BY <2>3
    <3>2. StatusIn(r, n, cache) = "miss" /\ Has(cache, Identity(r, n))
      BY <2>1, <3>1 DEF Counted
    <3> QED BY <3>1, <3>2 DEF StatusIn
  <2>5. ASSUME NEW n \in Misses, NEW m \in Misses, Identity(r, n) = Identity(r, m)
        PROVE  n = m
    <3>1. n \in Nat /\ m \in Nat /\ n >= 1 /\ m >= 1
      BY <2>3, <2>4
    <3>2. ~(m < n)
      <4> SUFFICES ASSUME m < n PROVE FALSE
        OBVIOUS
      <4>1. m \in 1 .. n - 1
        BY <3>1
      <4> QED BY <2>4, <2>5, <4>1 DEF Earlier
    <3>3. ~(n < m)
      <4> SUFFICES ASSUME n < m PROVE FALSE
        OBVIOUS
      <4>1. n \in 1 .. m - 1
        BY <3>1
      <4> QED BY <2>4, <2>5, <4>1 DEF Earlier
    <3> QED BY <3>1, <3>2, <3>3
  <2>6. Cardinality(Misses) = Cardinality(Ids)
    <3> DEFINE f == [n \in Misses |-> Identity(r, n)]
    <3>1. f \in [Misses -> Ids] /\ \A n \in Misses : f[n] = Identity(r, n)
      OBVIOUS
    <3> HIDE DEF f
    <3>2. \A a, b \in Misses : f[a] = f[b] => a = b
      BY <2>5, <3>1
    <3>3. \A t \in Ids : \E n \in Misses : f[n] = t
      BY <3>1
    <3>4. f \in Bijection(Misses, Ids)
      <4> HIDE DEF Misses, Ids
      <4> QED BY <3>1, <3>2, <3>3, Fun_IsBij
    <3>5. IsFiniteSet(Misses)
      <4>1. IsFiniteSet(1 .. Len(statuses))
        BY <2>3, FS_Interval
      <4> QED BY <2>3, <4>1, FS_Subset
    <3> HIDE DEF Misses, Ids
    <3>6. ExistsBijection(Misses, Ids)
      BY <3>4 DEF ExistsBijection
    <3> QED BY <3>4, <3>5, <3>6, FS_Bijection
  <2>7. Ids = {e.identity : e \in {f \in cache : f.created_by = r}}
    <3>1. ASSUME NEW n \in Misses
          PROVE  \E e \in cache : e.created_by = r /\ e.identity = Identity(r, n)
      BY <2>4, FoundFirst
    <3>2. ASSUME NEW e \in cache, e.created_by = r PROVE e.identity \in Ids
      <4>1. PICK q \in requests : \E n \in 1 .. Len(Uses(q)) : e = EntryOf(Identity(q, n), q)
        BY DEF CacheInv, MadeBy
      <4>2. PICK n \in 1 .. Len(Uses(q)) : e = EntryOf(Identity(q, n), q)
        BY <4>1
      <4>3. q = r /\ e.identity = Identity(r, n)
        BY <3>2, <4>2 DEF EntryOf
      <4>4. n \in 1 .. Len(statuses)
        BY <2>1, <4>2, <4>3 DEF r, statuses
      <4>5. Find(cache, Identity(r, n)).created_by = r
        BY <3>2, <4>3, FoundOnce DEF CacheInv
      <4>6. PICK m \in 1 .. n : statuses[m] = "miss" /\ Identity(r, m) = Identity(r, n)
        BY <2>1, <4>4, <4>5 DEF Counted
      <4>7. m \in Misses
        BY <2>3, <4>4, <4>6
      <4> QED BY <4>3, <4>6, <4>7
    <3> HIDE DEF Misses
    <3> QED BY <3>1, <3>2
  <2>8. /\ {n \in DOMAIN Uses(ledgers[id].request) : ledgers[id].statuses[n] = "miss"} = Misses
        /\ {CacheIdentity(r, Uses(r)[n].stage) : n \in Misses} = Ids
    BY DEF r, statuses, Identity
  <2> HIDE DEF Misses, Ids
  <2> QED BY <2>1, <2>6, <2>7, <2>8 DEF r, statuses
<1> QED BY <1>1, CacheInvariance, PTL

\* A ledger that is not one's own is that of another request.
THEOREM LedgersAreDetermined == EvidenceSpec => []LedgerIsDetermined
<1>1. CacheInv => LedgerIsDetermined
  BY DEF CacheInv, GoodCaller, LedgerIsDetermined
<1> QED BY <1>1, CacheInvariance, PTL
=============================================================================
