---------------------------- MODULE AsyncProgress ----------------------------
(***************************************************************************)
(* The progress records of a worker (progress() in async-worker-carrier.ts  *)
(* and async-progress-store.ts).  On its way through AsyncWorker a process  *)
(* writes up to eight records, two for each of materialize, claim, review   *)
(* and finish, as progress/<run>/<fence>.<sequence>.json.  A record is a    *)
(* write-once file: processes with the same fence share it, and a record    *)
(* that cannot be written is an exception in the worker, wherever it was.   *)
(***************************************************************************)
EXTENDS AsyncWorker

VARIABLES
  stage,     \* stage[w]: the last record on the way of w; 8: none is due
  progress   \* progress[f][n]: the record <f>.<n>.json

progressVars == <<stage, progress>>

Sequence == 1 .. 8
Outcome  == {"started", "passed", "failed", "stale", "cancelled"}
Record   == [version : Nat, outcome : Outcome]

ASSUME NoRecordAssumption == Absent \notin Record /\ Absent \notin Fences

ProgressTypeOK ==
  /\ stage \in [Workers -> 0 .. 8]
  /\ progress \in [Fences -> [Sequence -> Record \cup {Absent}]]

ProgressInit ==
  /\ stage = [w \in Workers |-> 0]
  /\ progress = [f \in Fences |-> [n \in Sequence |-> Absent]]

\* The watcher, or the inspection after the review, finds that the claim of w
\* is not the last event: it never will be again.
Superseded(w) == Len(log) # version(w) + 1

\* Record n is the next step of w.  A recovery reports its finish only.
Due(w, n) ==
  \/ pc[w] = "claim" /\ n \in 1 .. 3 /\ n = stage[w] + 1
  \/ pc[w] = "review" /\ n \in 4 .. 5 /\ n = stage[w] + 1
  \/ pc[w] = "review" /\ n = 6 /\ stage[w] = 5 /\ Superseded(w)
  \/ pc[w] = "prepare" /\ n \in 6 .. 7 /\ n = stage[w] + 1
  \/ /\ pc[w] = "done" /\ reply[w] \in Terminal
     /\ n \in 7 .. 8 /\ n = (IF stage[w] = 0 THEN 7 ELSE stage[w] + 1)

Quiet(w) == ~ \E n \in Sequence : Due(w, n)

Ended(w) == pc[w] = "crashed" \/ (pc[w] = "done" /\ Quiet(w))

\* Variant: the status of the result is written as it is.
OutcomeOf_AsIs(status) == status

OutcomeOf(status) == IF status = "verified" THEN "passed" ELSE status

\* Odd records say that a stage started, even ones how it finished.
RecordOf(w, n) ==
  [version |-> version(w),
   outcome |-> CASE n \in {1, 3, 5, 7} -> "started"
                 [] n \in {2, 4} -> "passed"
                 [] n = 6 -> IF pc[w] = "review" THEN "cancelled"
                             ELSE OutcomeOf(bytes[w].status)
                 [] n = 8 -> OutcomeOf(reply[w])]

\* persistAsyncWorkerProgress: the write succeeds, also on equal bytes.
Free(w, n) == progress[fence(w)][n] \in {Absent, RecordOf(w, n)}
Recorded(w, n) == [progress EXCEPT ![fence(w)][n] = RecordOf(w, n)]

-----------------------------------------------------------------------------
\* An exception.  The last record of a cancelled finish sends the process into
\* its error path, once; after a commit nothing but the answer is left to lose.
ProgressThrows(w) ==
  /\ CASE pc[w] # "done" -> Escape(w)
       [] pc[w] = "done" /\ reply[w] = "cancelled" /\ attempt[w] = 1 ->
            /\ pc' = [pc EXCEPT ![w] = "catch"]
            /\ reply' = [reply EXCEPT ![w] = "none"]
            /\ UNCHANGED disowned
       [] OTHER -> Answer(w, "error")
  /\ UNCHANGED <<stage, request, attempt, bytes, files>>

Emit(w) ==
  \E n \in Sequence :
    /\ Due(w, n)
    /\ IF Free(w, n)
       THEN /\ progress' = Recorded(w, n)
            /\ stage' = [stage EXCEPT ![w] = n]
            /\ UNCHANGED vars
       ELSE ProgressThrows(w) /\ UNCHANGED progress

\* The write fails, with or without effect.
EmitFails(w) ==
  \E n \in Sequence :
    /\ Due(w, n) /\ Free(w, n)
    /\ \/ "before" \in Failures /\ UNCHANGED progress
       \/ "after" \in Failures /\ progress' = Recorded(w, n)
    /\ ProgressThrows(w)

\* A step of AsyncWorker, when the record before it is written.  A process
\* that stands down after its review or in its error path reports no finish;
\* the error path goes on with record 7.
Work(w) ==
  /\ Quiet(w)
  /\ Execute(w)
  /\ stage' = CASE pc[w] = "review" /\ pc'[w] = "done" ->
                     [stage EXCEPT ![w] = 8]
                [] pc[w] = "catch" ->
                     [stage EXCEPT ![w] = IF pc'[w] = "prepare" THEN 6 ELSE 8]
                [] OTHER -> stage
  /\ UNCHANGED progress

WorkFails(w) ==
  (FailBefore(w) \/ FailAfter(w) \/ Crash(w)) /\ UNCHANGED progressVars

-----------------------------------------------------------------------------
(* progressProjection (async-control-plane.ts): what the control plane makes *)
(* of the records, for the run as it was when its log had n events.          *)

StatusAt(n) == IF n = 0 THEN "awaiting-production" ELSE log[n].status
FenceAt(n)  == IF n = 0 THEN Absent ELSE log[n].fence

\* Variant: a run is taken to have been running when it was cancelled.
ExpectedVersions_CancelledRunning(n) ==
  CASE StatusAt(n) = "running-production" -> <<n - 1>>
    [] StatusAt(n) \in Finished \cup {"cancelled"} -> <<n - 2>>
    [] OTHER -> <<n>>

\* The versions whose records belong to the view, the first one preferred.
ExpectedVersions(n) ==
  CASE StatusAt(n) = "running-production" -> <<n - 1>>
    [] StatusAt(n) \in Finished -> <<n - 2>>
    [] StatusAt(n) = "cancelled" -> <<n - 2, n - 1>>
    [] OTHER -> <<n>>

\* The records of the view's fence; of every fence if it has none.
Bound(n) ==
  {fs \in Fences \X Sequence :
     /\ progress[fs[1]][fs[2]] # Absent
     /\ FenceAt(n) \in {Absent, fs[1]}}

VersionOf(fs) == progress[fs[1]][fs[2]].version

AllowedTransitions ==
  {<<1, 2>>, <<2, 3>>, <<3, 4>>, <<4, 5>>, <<4, 7>>, <<5, 6>>, <<5, 7>>,
   <<6, 7>>, <<7, 8>>}

\* The sequence numbers are those of one fence and of one legal history.
LegalHistory(n, records) ==
  LET numbers == {fs[2] : fs \in records}
      first == CHOOSE a \in numbers : \A b \in numbers : a <= b
      Next2(a, b) == a < b /\ ~ \E c \in numbers : a < c /\ c < b
  IN /\ \A fs, gs \in records : fs[1] = gs[1]
     /\ first = 1 \/ (first = 7 /\ StatusAt(n) \in Finished)
     /\ \A a, b \in numbers : Next2(a, b) => <<a, b>> \in AllowedTransitions

\* No record is bound, or the expected ones form a legal history.
Projectable(n) ==
  LET Of(v) == {fs \in Bound(n) : VersionOf(fs) = v}
      expected == ExpectedVersions(n)
      found == {i \in DOMAIN expected : Of(expected[i]) # {}}
      chosen == CHOOSE i \in found : \A j \in found : i <= j
  IN \/ Bound(n) = {}
     \/ found # {} /\ LegalHistory(n, Of(expected[chosen]))
=============================================================================
