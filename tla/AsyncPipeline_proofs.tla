------------------------- MODULE AsyncPipeline_proofs -------------------------
(* Proofs about the pipeline for any set of workers, control planes and      *)
(* foreground processes, and any number of deliveries, claims and failures.  *)
EXTENDS AsyncPipeline, AsyncWorker_proofs

USE AbsentAssumption, RequestsAssumption, NoRecordAssumption

\* Version v could be claimed or finished, and f is the token derived for it.
OpenAt(v) ==
  /\ v \in 0 .. Len(log)
  /\ StatusAt(v) \in {"awaiting-production", "running-production"}
Bind(v, f) == v \in DOMAIN FenceOf /\ f = FenceOf[v] /\ OpenAt(v)

\* The records of a claim are there, up to the start of the claim itself.
Claimed(f) == \A n \in 1 .. 3 : progress[f][n] # Absent

\* Wherever a fence turns up, it is the one of its version: in the log, ...
Token(i) ==
  /\ log[i].status = "running-production" =>
       Bind(i - 1, log[i].fence) /\ Claimed(log[i].fence)
  /\ log[i].status \in Finished =>
       /\ i >= 2 /\ log[i - 1].status = "running-production"
       /\ log[i].fence = log[i - 1].fence
  /\ log[i].status = "cancelled" => log[i].fence = Absent
LogTokens == \A i \in 1 .. Len(log) : Token(i)

\* ... in the request of a process that has started, ...
WorkerTokens ==
  \A w \in Workers : pc[w] # "idle" => Bind(version(w), fence(w))

\* ... in the queue and in the progress records.
QueueTokens == \A q \in queue : Bind(q.request.version, q.request.fence)
RecordTokens ==
  \A f \in Fences, n \in Sequence :
    progress[f][n] # Absent => Bind(progress[f][n].version, f)

\* Only the record of a successful claim can be missing between two others.
Histories ==
  \A f \in Fences :
    /\ \A n \in {2, 3, 4, 5, 6, 8} :
         progress[f][n] # Absent => progress[f][n - 1] # Absent
    /\ progress[f][7] # Absent => progress[f][3] # Absent

CommitSteps == {"prepare", "finish", "finishPut", "undoInspect", "undo",
                "undoCancelled", "publish", "discard", "catch"}

\* What a process has written when it is at a step.
Wrote(w) ==
  /\ pc[w] \in {"idle"} \cup RecoverySteps => stage[w] = 0
  /\ pc[w] = "claim" => stage[w] \in 0 .. 3
  /\ pc[w] = "claimPut" => stage[w] = 3
  /\ pc[w] = "review" => stage[w] \in 3 .. 6
  /\ pc[w] = "prepare" => stage[w] \in 5 .. 7
  /\ pc[w] = "prepare" /\ stage[w] = 5 =>
       \A n \in 1 .. 5 : progress[fence(w)][n] # Absent
  /\ pc[w] \in CommitSteps \ {"prepare", "catch"} => stage[w] = 7
  /\ reply[w] \in Terminal => stage[w] \in {0, 7, 8}
  /\ reply[w] \in Terminal /\ stage[w] = 0 =>
       Committed /\ Latest.fence = fence(w)
  /\ reply[w] = "cancelled" => stage[w] # 0 /\ Claimed(fence(w))
  /\ pc[w] \in {"claim", "claimPut", "review"} =>
       \A n \in 1 .. stage[w] : progress[fence(w)][n] # Absent
  /\ pc[w] \in CommitSteps => Claimed(fence(w))
  /\ stage[w] = 7 => progress[fence(w)][7] # Absent

RecordsInv == Histories /\ \A w \in Workers : Wrote(w)

\* What a control plane has seen stays true while it goes on: when it lists
\* orphans, the result is public, or it spares the transaction, or the finish of
\* a process with that result threw.
ProjectionInv ==
  /\ Seen \in 0 .. Len(log)
  /\ projection.step \in {"result", "transaction"} => SeenStatus \in Finished
  /\ projection.step = "sweep" /\ SeenStatus \in Finished =>
       \/ log[Seen].result \in {result} \cup disowned
       \/ log[Seen].fence \in projection.spared

\* What an admission was checked for stays true until it is published.
Admissible ==
  /\ Status = "verified"
  /\ result = Latest.result /\ AssertWorkerResult(result)
Told(p) == at[p] \in {"published", "eligible"}
AdmissionInv ==
  /\ \A p \in Foregrounds : at[p] = "publish" => Admissible
  /\ admission # Absent => Admissible /\ admission = Latest.result
  /\ \A p \in Foregrounds : Told(p) => admission # Absent
  /\ \A p, q \in Foregrounds : Told(p) /\ Told(q) => p = q

PipeInv ==
  /\ PipelineTypeOK /\ SafeInv
  /\ LogTokens /\ WorkerTokens /\ QueueTokens /\ RecordTokens /\ RecordsInv
  /\ ProjectionInv /\ RecoveryBindingHolds /\ AdmissionInv

-----------------------------------------------------------------------------
(* What the steps change. *)

\* A worker puts an event.
PutsEvent(w) ==
  \/ pc[w] = "claimPut" /\ AppendClaim(w)
  \/ pc[w] = "finishPut" /\ AppendFinish(w)

\* The changes that one step can make to the run and its records.
Changes ==
  /\ request' = request /\ disowned \subseteq disowned'
  /\ \/ log' = log
     \/ \E w \in Workers : PutsEvent(w) /\ bytes' = bytes
     \/ Cancel
  /\ result' = result \/ (MakePublic /\ bytes' = bytes)
  /\ bytes' = bytes \/ Carried!Draft
  /\ \/ progress' = progress
     \/ \E w \in Workers, n \in Sequence :
          Due(w, n) /\ Free(w, n) /\ progress' = Recorded(w, n)

LEMMA StepChanges == ASSUME SafeInv, PipelineNext PROVE Changes
<1>1. ASSUME NEW w \in Workers, Step(w), progress' = progress
      PROVE  Changes
  <2>1. request' = request /\ disowned \subseteq disowned'
    BY <1>1, StepKinds DEF SafeInv, IInv
  <2>2. CASE bytes' # bytes
    <3>1. UNCHANGED files /\ \E r \in Result : bytes' = [bytes EXCEPT ![w] = r]
      BY <1>1, <2>2, BytesKinds DEF SafeInv
    <3>2. log' = log /\ result' = result
      BY <3>1 DEF files
    <3>3. Carried!Draft
      BY <2>1, <3>1, <3>2, SameRun DEF Carried!Draft
    <3> QED BY <1>1, <2>1, <3>2, <3>3 DEF Changes
  <2>3. CASE bytes' = bytes /\ UNCHANGED files
    BY <1>1, <2>1, <2>3 DEF Changes, files
  <2>4. CASE bytes' = bytes /\ PutsEvent(w)
    BY <1>1, <2>1, <2>4 DEF Changes, PutsEvent, AppendClaim, AppendFinish
  <2>5. CASE bytes' = bytes /\ (PutTransaction(w) \/ RemoveTransaction(w))
    BY <1>1, <2>1, <2>5 DEF Changes, PutTransaction, RemoveTransaction
  <2>6. CASE /\ bytes' = bytes
             /\ pc[w] \in {"publish", "recoverPublish"} /\ PutResult(w)
    BY <1>1, <2>1, <2>6, ResultWrite DEF Changes, PutResult, SafeInv
  <2>7. Write(w) => \/ PutsEvent(w)
                    \/ PutTransaction(w) \/ RemoveTransaction(w)
                    \/ pc[w] \in {"publish", "recoverPublish"} /\ PutResult(w)
    BY DEF Write, PutsEvent
  <2> QED BY <1>1, <2>2, <2>3, <2>4, <2>5, <2>6, <2>7, StepKinds
          DEF SafeInv, IInv
<1>2. ASSUME NEW w \in Workers, Emit(w) \/ EmitFails(w) PROVE Changes
  <2>1. ASSUME ProgressThrows(w)
        PROVE  /\ UNCHANGED <<request, bytes, log, result>>
               /\ disowned \subseteq disowned'
    BY <2>1 DEF ProgressThrows, Escape, Goto, Answer, files
  <2>2. \/ UNCHANGED vars
        \/ ProgressThrows(w)
    BY <1>2 DEF Emit, EmitFails
  <2>3. /\ UNCHANGED <<request, bytes, log, result>>
        /\ disowned \subseteq disowned'
    BY <2>1, <2>2 DEF vars, files
  <2>4. \/ progress' = progress
        \/ \E n \in Sequence :
             Due(w, n) /\ Free(w, n) /\ progress' = Recorded(w, n)
    BY <1>2 DEF Emit, EmitFails
  <2> QED BY <2>3, <2>4 DEF Changes
<1>3. CASE ControlPlane \/ \E p \in Foregrounds : Foreground(p)
  BY <1>3 DEF ControlPlane, Foreground, Changes, vars, files, progressVars
<1>4. CASE RunDisturbed
  BY <1>4 DEF RunDisturbed, Cancel, LeaseLapses, Changes, progressVars
<1> QED BY <1>1, <1>2, <1>3, <1>4
        DEF PipelineNext, Worker, WorkerFails, Work, WorkFails, Step, progressVars

\* An event that is put goes behind the others, into a run that is open.
LEMMA Puts ==
  ASSUME IInv, Changes
  PROVE  log' = log \/ \E e : Extend(e)
BY CancelExtends, ClaimWrite, FinishWrite DEF Changes, PutsEvent

\* What was seen of the log stays so; a run that ended stays as it is.
LEMMA LogGrows ==
  ASSUME IInv, Changes
  PROVE  /\ Len(log) \in Nat /\ Len(log') \in Nat /\ Len(log) <= Len(log')
         /\ \A i \in 1 .. Len(log) : log'[i] = log[i]
         /\ \A v \in 0 .. Len(log) : StatusAt(v)' = StatusAt(v)
         /\ Status \in Terminal =>
              log' = log /\ Latest' = Latest /\ Status' = Status
         /\ \A v, f : Bind(v, f) => Bind(v, f)'
         /\ \A w : version(w)' = version(w) /\ fence(w)' = fence(w)
<1>1. /\ Len(log) \in Nat /\ Len(log') \in Nat /\ Len(log) <= Len(log')
      /\ \A i \in 1 .. Len(log) : log'[i] = log[i]
  BY Puts, ExtendFacts DEF IInv, TypeOK
<1>2. \A v \in 0 .. Len(log) : StatusAt(v)' = StatusAt(v)
  BY <1>1 DEF StatusAt
<1>3. Status \in Terminal => log' = log /\ Latest' = Latest /\ Status' = Status
  BY Puts DEF Extend, Latest, Status
<1>4. \A v, f : Bind(v, f) => Bind(v, f)'
  BY <1>1, <1>2 DEF Bind, OpenAt
<1>5. request' = request
  BY DEF Changes
<1> QED BY <1>1, <1>2, <1>3, <1>4, <1>5 DEF version, fence

\* A record that is there keeps its bytes.
LEMMA RecordsStay ==
  ASSUME PipelineTypeOK, SafeInv, Changes
  PROVE  /\ \A f \in Fences, n \in Sequence :
              progress[f][n] # Absent => progress'[f][n] = progress[f][n]
         /\ \A f \in Fences : Claimed(f) => Claimed(f)'
<1> USE DEF PipelineTypeOK, ProgressTypeOK
<1>1. ASSUME NEW w \in Workers, NEW k \in Sequence, Free(w, k),
             progress' = Recorded(w, k), NEW f \in Fences, NEW n \in Sequence,
             progress[f][n] # Absent
      PROVE  progress'[f][n] = progress[f][n]
  <2>1. fence(w) \in Fences
    BY DEF TypeOK, fence
  <2>2. progress' = [progress EXCEPT ![fence(w)][k] = RecordOf(w, k)]
    BY <1>1 DEF Recorded
  <2>3. CASE f = fence(w) /\ n = k
    BY <1>1, <2>1, <2>2, <2>3 DEF Free
  <2>4. CASE ~(f = fence(w) /\ n = k)
    BY <2>1, <2>2, <2>4
  <2> QED BY <2>3, <2>4
<1>2. ASSUME NEW f \in Fences, NEW n \in Sequence, progress[f][n] # Absent
      PROVE  progress'[f][n] = progress[f][n]
  BY <1>1, <1>2 DEF Changes
<1>3. ASSUME NEW f \in Fences, Claimed(f) PROVE Claimed(f)'
  BY <1>2, <1>3 DEF Claimed, Sequence
<1> QED BY <1>2, <1>3

LEMMA LogTokensStep == ASSUME PipeInv, Changes PROVE LogTokens'
<1> USE DEF PipeInv, SafeInv, IInv
<1>0. /\ Len(log) \in Nat /\ \A i \in 1 .. Len(log) : log'[i] = log[i]
      /\ \A i \in 1 .. Len(log) : log[i] \in Event
      /\ \A v, f : Bind(v, f) => Bind(v, f)'
      /\ \A w : fence(w)' = fence(w)
      /\ \A f \in Fences : Claimed(f) => Claimed(f)'
  BY LogGrows, RecordsStay, CommittedEvent
<1>1. ASSUME NEW i \in 1 .. Len(log) PROVE Token(i)'
  <2>1. log'[i] = log[i] /\ Token(i)
    BY <1>0 DEF LogTokens
  <2>2. log[i].status = "running-production" => log[i].fence \in Fences
    BY <2>1, FenceOfAssumption DEF Token, Bind
  <2>3. i >= 2 => log'[i - 1] = log[i - 1]
    BY <1>0
  <2> QED BY <1>0, <2>1, <2>2, <2>3 DEF Token
<1>2. CASE log' = log
  BY <1>1, <1>2 DEF LogTokens
<1>3. ASSUME NEW n, n = Len(log) + 1, Len(log') = n, Token(n)'
      PROVE  LogTokens'
  <2>1. \A i \in 1 .. n : i \in 1 .. Len(log) \/ i = n
    BY <1>0, <1>3
  <2> QED BY <1>1, <1>3, <2>1 DEF LogTokens
<1>4. ASSUME NEW n, n = Len(log) + 1, Cancel PROVE LogTokens'
  <2> DEFINE e == [status |-> "cancelled", fence |-> Absent, result |-> Absent]
  <2>0. e \in Event
    BY DEF Event, Terminal
  <2>1. Len(log') = n /\ log'[n].status = "cancelled" /\ log'[n].result = Absent
        /\ log'[n].fence = Absent
    BY <1>4, <2>0 DEF Cancel, TypeOK
  <2> QED BY <1>3, <1>4, <2>1 DEF Token, Finished
<1>5. ASSUME NEW n, n = Len(log) + 1, NEW w \in Workers,
             pc[w] = "claimPut", AppendClaim(w)
      PROVE  LogTokens'
  <2>1. Extend(ClaimEvent(w))
    BY <1>5, ClaimWrite
  <2>2. Len(log) = version(w) /\ pc[w] = "claimPut"
    BY <1>5 DEF AppendClaim
  <2>3. Bind(version(w), fence(w)) /\ fence(w) \in Fences
    BY <2>2 DEF WorkerTokens, TypeOK, fence
  <2>4. Claimed(fence(w))
    BY <2>2 DEF RecordsInv, Wrote, Claimed
  <2>5. log'[n] = ClaimEvent(w) /\ Len(log') = n
    BY <1>5, <2>1, ExtendFacts
  <2>6. n - 1 = version(w)
    BY <1>0, <1>5, <2>2
  <2>7. Bind(n - 1, fence(w))' /\ Claimed(fence(w))'
    BY <1>0, <2>3, <2>4, <2>6
  <2> QED BY <1>0, <1>3, <1>5, <2>5, <2>7 DEF Token, ClaimEvent, Finished
<1>6. ASSUME NEW n, n = Len(log) + 1, NEW w \in Workers,
             pc[w] = "finishPut", AppendFinish(w)
      PROVE  LogTokens'
  <2>1. Extend(FinishEvent(w)) /\ FinishEvent(w).status \in Finished
    BY <1>6, FinishWrite
  <2>2. Len(log) = version(w) + 1 /\ pc[w] = "finishPut" /\ version(w) \in Nat
    BY <1>6 DEF AppendFinish, TypeOK, version
  <2>3. log[Len(log)].status = "running-production"
    BY <1>0, <2>1, <2>2, CommittedEvent, ExtendFacts DEF Event
  <2>4. log[Len(log)].fence = fence(w)
    <3>1. Bind(Len(log) - 1, log[Len(log)].fence) /\ Bind(version(w), fence(w))
      BY <2>2, <2>3, <1>0 DEF LogTokens, Token, WorkerTokens
    <3> QED BY <2>2, <3>1 DEF Bind
  <2>5. /\ log'[n] = FinishEvent(w) /\ FinishEvent(w).fence = fence(w)
        /\ Len(log') = n
    BY <1>6, <2>1, ExtendFacts DEF FinishEvent
  <2>6. log'[n - 1] = log[Len(log)] /\ n >= 2
    BY <1>0, <1>6, <2>2
  <2>7. Token(n)'
    BY <1>0, <2>1, <2>3, <2>4, <2>5, <2>6 DEF Token, Finished
  <2> QED BY <1>3, <1>6, <2>5, <2>7
<1> QED BY <1>2, <1>4, <1>5, <1>6 DEF Changes, PutsEvent

\* Where a record can be due, the process has started.
LEMMA RecordTokensStep ==
  ASSUME PipeInv, Changes PROVE RecordTokens'
<1> USE DEF PipeInv, PipelineTypeOK, ProgressTypeOK
<1>1. \A v, f : Bind(v, f) => Bind(v, f)'
  BY LogGrows DEF SafeInv
<1>2. CASE progress' = progress
  BY <1>1, <1>2 DEF RecordTokens
<1>3. ASSUME NEW w \in Workers, NEW k \in Sequence, Due(w, k),
             progress' = Recorded(w, k), NEW f \in Fences, NEW n \in Sequence,
             progress'[f][n] # Absent
      PROVE  Bind(progress[f][n].version, f)'
  <2>1. fence(w) \in Fences /\ Bind(version(w), fence(w))
    BY <1>3 DEF WorkerTokens, Due, TypeOK, fence
  <2>2. progress' = [progress EXCEPT ![fence(w)][k] = RecordOf(w, k)]
    BY <1>3 DEF Recorded
  <2>3. CASE f = fence(w) /\ n = k
    <3>1. progress'[f][n] = RecordOf(w, k)
      BY <2>1, <2>2, <2>3
    <3> QED BY <1>1, <2>1, <2>3, <3>1 DEF RecordOf
  <2>4. CASE ~(f = fence(w) /\ n = k)
    <3>1. progress'[f][n] = progress[f][n]
      BY <2>1, <2>2, <2>4
    <3> QED BY <1>1, <1>3, <3>1 DEF RecordTokens
  <2> QED BY <2>3, <2>4
<1> QED BY <1>2, <1>3 DEF Changes, RecordTokens

\* The record of a step on the way is written behind those it follows.
LEMMA HistoriesStep ==
  ASSUME PipeInv, Changes PROVE Histories'
<1> USE DEF PipeInv, PipelineTypeOK, ProgressTypeOK, RecordsInv
<1>1. CASE progress' = progress
  BY <1>1 DEF Histories
<1>2. ASSUME NEW w \in Workers, NEW k \in Sequence, Due(w, k),
             progress' = Recorded(w, k)
      PROVE  Histories'
  <2> DEFINE f == fence(w)
  <2>1. f \in Fences /\ Wrote(w) /\ stage[w] \in 0 .. 8
    BY DEF TypeOK, fence
  <2>2. progress' = [progress EXCEPT ![f][k] = RecordOf(w, k)]
    BY <1>2 DEF Recorded
  <2>3. \A g \in Fences, n \in Sequence :
          ~(g = f /\ n = k) => progress'[g][n] = progress[g][n]
    BY <2>1, <2>2
  <2>4. \A n \in Sequence :
          progress[f][n] # Absent => progress'[f][n] # Absent
    BY RecordsStay, <2>1
  <2>5. k \in {2, 3, 4, 5, 6, 8} => progress[f][k - 1] # Absent
    BY <1>2, <2>1 DEF Due, Wrote, Sequence
  <2>6. k = 7 => progress[f][3] # Absent
    <3>1. CASE pc[w] = "prepare"
      BY <2>1, <3>1 DEF Wrote, CommitSteps, Claimed
    <3>2. CASE pc[w] = "done" /\ reply[w] \in Terminal /\ stage[w] = 0
      <4>1. Committed /\ Latest.fence = f
        BY <2>1, <3>2 DEF Wrote
      <4>2. Len(log) \in 1 .. Len(log) /\ Latest = log[Len(log)]
            /\ Latest.status \in Finished /\ log # <<>>
        BY <4>1, CommittedEvent DEF SafeInv, IInv, Latest, Committed, Status, Finished
      <4>3. Token(Len(log))
        BY <4>2 DEF LogTokens
      <4>4. Token(Len(log) - 1)
        BY <4>2, <4>3 DEF LogTokens, Token
      <4> QED BY <4>1, <4>2, <4>3, <4>4 DEF Token, Claimed
    <3> QED BY <1>2, <2>1, <3>1, <3>2 DEF Due, Wrote
  <2>7. ASSUME NEW g \in Fences, NEW n \in {2, 3, 4, 5, 6, 8},
               progress'[g][n] # Absent
        PROVE  progress'[g][n - 1] # Absent
    <3>1. n \in Sequence /\ n - 1 \in Sequence
      BY DEF Sequence
    <3> QED BY <2>3, <2>4, <2>5, <2>7, <3>1 DEF Histories
  <2>8. ASSUME NEW g \in Fences, progress'[g][7] # Absent
        PROVE  progress'[g][3] # Absent
    BY <2>3, <2>4, <2>6, <2>8 DEF Histories, Sequence
  <2> QED BY <2>7, <2>8 DEF Histories
<1> QED BY <1>1, <1>2 DEF Changes

-----------------------------------------------------------------------------
(* The worker's own invariant survives an exception from its records.        *)

LEMMA ThrowSafe ==
  ASSUME SafeInv, NEW w \in Workers,
         pc[w] \in {"claim", "review", "prepare", "done"}, ProgressThrows(w)
  PROVE  SafeInv'
<1> USE DEF SafeInv
<1>1. OnlyTime /\ UNCHANGED <<request, attempt, bytes, files>>
  BY DEF ProgressThrows, OnlyTime, files, IInv, TypeOK
<1>2. /\ IInv' /\ pc'[w] \in {"done", "catch"}
      /\ \A v \in Workers \ {w} : pc'[v] = pc[v]
      /\ disowned \subseteq disowned'
  <2>1. CASE pc[w] = "done"
    <3>1. PICK p \in {"done", "catch"}, r \in {"error", "none"} :
            /\ pc' = [pc EXCEPT ![w] = p]
            /\ reply' = [reply EXCEPT ![w] = r]
            /\ r = "error" => p = "done"
            /\ disowned' = disowned
      BY <2>1 DEF ProgressThrows, Answer
    <3>2. /\ pc'[w] = p /\ reply'[w] = r
          /\ bytes' = [bytes EXCEPT ![w] = bytes[w]]
          /\ bytes[w] \in Result \cup {Absent} /\ disowned' \subseteq Result
          /\ attempt' \in [Workers -> 1 .. 2] /\ p \in Steps
      BY <1>1, <3>1 DEF IInv, TypeOK, Steps
    <3>3. Local(w)'
      BY <3>1, <3>2
         DEF Local, PutReady, Owns, NamesCommitted, StandsDown, StoodDown,
             Answered, Completed, RecoverySteps, Finished
    <3>4. IInv'
      BY <1>1, <3>1, <3>2, <3>3, ActorStep
    <3> QED BY <3>1, <3>2, <3>4
  <2>2. CASE pc[w] # "done"
    <3>1. Escape(w)
      BY <2>2 DEF ProgressThrows
    <3>2. /\ pc'[w] \in {"done", "catch"}
          /\ \A v \in Workers \ {w} : pc'[v] = pc[v]
          /\ disowned \subseteq disowned'
      BY <2>2, <3>1 DEF Escape, Goto, Answer, IInv, TypeOK
    <3> QED BY <1>1, <2>2, <3>1, <3>2, EscapeStep
  <2> QED BY <2>1, <2>2
<1>3. CommittedBytesKept'
  BY <1>1, <1>2
     DEF files, CommittedBytesKept, CommittedBytesExist, Committed, Status, Latest
<1>4. ASSUME NEW v \in Workers PROVE Prepared(v)'
  <2>1. CASE v = w
    BY <1>2, <2>1 DEF Prepared
  <2>2. CASE v # w
    <3>1. /\ pc'[v] = pc[v] /\ bytes'[v] = bytes[v] /\ fence(v)' = fence(v)
          /\ transaction' = transaction /\ (Committed' <=> Committed)
      BY <1>1, <1>2, <2>2 DEF files, fence, Committed, Status, Latest
    <3> QED BY <1>2, <3>1 DEF Prepared
  <2> QED BY <2>1, <2>2
<1> QED BY <1>2, <1>3, <1>4

LEMMA SafeStep == ASSUME SafeInv, PipelineNext PROVE SafeInv'
<1>1. ASSUME NEW w \in Workers, Emit(w) \/ EmitFails(w) PROVE SafeInv'
  <2>1. CASE UNCHANGED vars
    BY <2>1, OutsideSafe
  <2>2. CASE ~UNCHANGED vars
    BY <1>1, <2>2, ThrowSafe DEF Emit, EmitFails, Due
  <2> QED BY <2>1, <2>2
<1>2. ASSUME NEW w \in Workers, Worker(w) \/ WorkerFails(w) PROVE SafeInv'
  BY <1>1, <1>2, WorkerSafe DEF Worker, WorkerFails, Work, WorkFails, Step
<1>3. CASE ControlPlane \/ RunDisturbed \/ \E p \in Foregrounds : Foreground(p)
  BY <1>3, OutsideSafe DEF ControlPlane, RunDisturbed, Foreground
<1> QED BY <1>2, <1>3 DEF PipelineNext

-----------------------------------------------------------------------------
(* What a worker has written. *)

\* What a process has written or found stays.
LEMMA Keeps ==
  ASSUME PipeInv, Changes, NEW w \in Workers
  PROVE  /\ fence(w) \in Fences /\ fence(w)' = fence(w)
         /\ \A n \in Sequence :
              progress[fence(w)][n] # Absent => progress'[fence(w)][n] # Absent
         /\ Claimed(fence(w)) => Claimed(fence(w))'
         /\ Committed /\ Latest.fence = fence(w) =>
              (Committed /\ Latest.fence = fence(w))'
<1> USE DEF PipeInv
<1>1. fence(w) \in Fences /\ fence(w)' = fence(w)
  BY LogGrows DEF fence, SafeInv, IInv, TypeOK
<1>2. \A n \in Sequence :
        progress[fence(w)][n] # Absent => progress'[fence(w)][n] # Absent
  BY <1>1, RecordsStay
<1>3. Claimed(fence(w)) => Claimed(fence(w))'
  BY <1>1, RecordsStay
<1>4. Committed => Committed' /\ Latest' = Latest
  BY LogGrows DEF Committed, Terminal, SafeInv
<1> QED BY <1>1, <1>2, <1>3, <1>4

\* A process that takes no step.
LEMMA WroteOthers ==
  ASSUME PipeInv, Changes, NEW v \in Workers, pc'[v] = pc[v],
         reply'[v] = reply[v], stage'[v] = stage[v]
  PROVE  Wrote(v)'
<1>1. Wrote(v) /\ stage[v] \in 0 .. 8
  BY DEF PipeInv, RecordsInv, PipelineTypeOK, ProgressTypeOK
<1>2. /\ \A n \in Sequence :
           progress[fence(v)][n] # Absent => progress'[fence(v)'][n] # Absent
      /\ Claimed(fence(v)) => Claimed(fence(v))'
      /\ fence(v)' = fence(v)
  BY Keeps
<1>3. ASSUME pc[v] \in {"claim", "claimPut", "review"}, NEW n \in 1 .. stage[v]
      PROVE  progress'[fence(v)'][n] # Absent
  <2>1. n \in Sequence
    BY <1>1, <1>3 DEF Wrote, Sequence
  <2> QED BY <1>1, <1>2, <1>3, <2>1 DEF Wrote
<1>4. ASSUME pc[v] = "prepare", stage[v] = 5, NEW n \in 1 .. 5
      PROVE  progress'[fence(v)'][n] # Absent
  BY <1>1, <1>2, <1>4 DEF Wrote, Sequence
<1>5. reply[v] \in Terminal /\ stage[v] = 0 =>
        Committed' /\ (Latest.fence = fence(v))'
  BY <1>1, Keeps DEF Wrote
<1>6. /\ stage[v] = 7 => progress'[fence(v)'][7] # Absent
      /\ reply[v] = "cancelled" => stage[v] # 0 /\ Claimed(fence(v))'
  BY <1>1, <1>2 DEF Wrote, Sequence
<1> QED BY <1>1, <1>2, <1>3, <1>4, <1>5, <1>6 DEF Wrote

\* A process that ends without a completion, or dies.
LEMMA WroteEnd ==
  ASSUME PipeInv, Changes, NEW w \in Workers,
         pc'[w] \in {"done", "crashed"}, reply'[w] \in {"none", "error"},
         stage'[w] \in {stage[w], 8}
  PROVE  Wrote(w)'
<1>1. stage'[w] = 7 => progress'[fence(w)'][7] # Absent
  BY Keeps DEF PipeInv, RecordsInv, Wrote, Sequence
<1> QED BY <1>1 DEF Wrote, CommitSteps, RecoverySteps, Terminal, Finished

\* An exception takes it out of the program or to a handler.
LEMMA WroteEscape ==
  ASSUME PipeInv, Changes, NEW w \in Workers, pc[w] \notin {"done", "crashed"},
         Escape(w), stage'[w] = stage[w]
  PROVE  Wrote(w)'
<1> USE DEF PipeInv, PipelineTypeOK, ProgressTypeOK, TypeOK
<1>0. /\ Wrote(w) /\ reply[w] = "none" /\ pc[w] \in Steps
      /\ stage[w] \in 0 .. 8
  BY Running DEF RecordsInv, SafeInv
<1>1. stage'[w] = 7 => progress'[fence(w)'][7] # Absent
  BY <1>0, Keeps DEF Wrote, Sequence
<1>2. CASE Answer(w, "error")
  BY <1>2, WroteEnd DEF Answer
<1>3. CASE pc[w] \in {"finish", "finishPut"} /\ Goto(w, "undoInspect")
  <2>1. pc'[w] = "undoInspect" /\ reply'[w] = "none" /\ stage[w] = 7
        /\ Claimed(fence(w))'
    BY <1>0, <1>3, Keeps DEF Goto, Wrote, CommitSteps
  <2> QED BY <1>1, <2>1 DEF Wrote, CommitSteps, RecoverySteps, Terminal, Finished
<1>4. CASE pc[w] \in {"review"} \cup CommitSteps /\ Goto(w, "catch")
  <2>1. Claimed(fence(w))
    <3>1. CASE pc[w] = "review"
      <4>1. \A n \in 1 .. 3 : n \in 1 .. stage[w]
        BY <1>0, <3>1 DEF Wrote
      <4> QED BY <1>0, <3>1, <4>1 DEF Wrote, Claimed
    <3>2. CASE pc[w] \in CommitSteps
      BY <1>0, <3>2 DEF Wrote
    <3> QED BY <1>4, <3>1, <3>2
  <2>2. pc'[w] = "catch" /\ reply'[w] = "none" /\ Claimed(fence(w))'
    BY <1>0, <1>4, <2>1, Keeps DEF Goto
  <2> QED BY <1>1, <2>2 DEF Wrote, CommitSteps, RecoverySteps, Terminal, Finished
<1>5. pc[w] \in RecoverySteps \cup {"idle", "claim", "claimPut", "catch"}
      \/ pc[w] \in {"finish", "finishPut"} \/ pc[w] \in {"review"} \cup CommitSteps
  BY <1>0 DEF Steps, CommitSteps
<1>6. CASE pc[w] \in RecoverySteps \cup {"idle", "claim", "claimPut", "catch"}
  BY <1>2, <1>6 DEF Escape, RecoverySteps
<1>7. CASE pc[w] \in {"finish", "finishPut"}
  BY <1>3, <1>7 DEF Escape, RecoverySteps
<1>8. CASE /\ pc[w] \in {"review"} \cup CommitSteps
           /\ pc[w] \notin {"finish", "finishPut", "catch"}
  BY <1>2, <1>4, <1>8 DEF Escape, RecoverySteps, CommitSteps
<1> QED BY <1>5, <1>6, <1>7, <1>8

\* The steps of the worker, each with the records before it written.
LEMMA WroteRecover ==
  ASSUME PipeInv, Changes, NEW w \in Workers, stage' = stage,
         \/ Recover(w) \/ RecoverResult(w) \/ RecoverTransaction(w)
         \/ RecoverPublish(w) \/ RecoverDiscard(w)
  PROVE  Wrote(w)'
<1> USE DEF PipeInv, PipelineTypeOK, ProgressTypeOK, TypeOK
<1>0. /\ Wrote(w) /\ reply[w] = "none" /\ pc[w] \in {"idle"} \cup RecoverySteps
      /\ pc[w] # "done"
  BY Running DEF RecordsInv, SafeInv, RecoverySteps, Recover, RecoverResult,
                 RecoverTransaction, RecoverPublish, RecoverDiscard
<1>1. stage'[w] = 0
  BY <1>0 DEF Wrote
<1>2. ASSUME NEW p \in {"claim"} \cup RecoverySteps, Goto(w, p) PROVE Wrote(w)'
  <2>1. pc'[w] = p /\ reply'[w] = "none"
    BY <1>0, <1>2 DEF Goto
  <2> QED BY <1>1, <1>2, <2>1
          DEF Wrote, CommitSteps, RecoverySteps, Terminal, Finished
<1>3. CASE Answer(w, "error")
  BY <1>3, WroteEnd DEF Answer
<1>4. CASE RecoverDiscard(w)
  <2>1. Committed /\ Latest.fence = fence(w)
    BY <1>4 DEF RecoverDiscard, SafeInv, IInv, Local, NamesCommitted,
                RecoverySteps
  <2>2. (Committed /\ Latest.fence = fence(w))' /\ pc'[w] = "done"
    BY <1>4, <2>1, Keeps DEF RecoverDiscard, Answer
  <2>3. reply'[w] # "cancelled"
    BY <1>4, <2>1, CommittedEvent
       DEF RecoverDiscard, Answer, SafeInv, IInv, Committed, Status, Finished
  <2> QED BY <1>1, <2>2, <2>3 DEF Wrote, CommitSteps, RecoverySteps
<1>5. CASE Recover(w) \/ RecoverTransaction(w) \/ RecoverPublish(w)
  BY <1>2, <1>3, <1>5
     DEF Recover, RecoverTransaction, RecoverPublish, RecoverySteps
<1>6. CASE RecoverResult(w)
  <2> DEFINE Found == result = Latest.result
  <2>1. \/ Answer(w, "error") \/ Goto(w, "recoverTransaction")
        \/ Goto(w, "recoverDiscard")
    <3>1. CASE result = Absent
      <4>1. Latest.result # Absent
        BY <1>6, CommittedEvent DEF RecoverResult, SafeInv, IInv, Local,
                                    NamesCommitted, RecoverySteps
      <4> QED BY <1>6, <3>1, <4>1 DEF RecoverResult
    <3>2. CASE result # Absent /\ Found
      BY <1>6, <3>2 DEF RecoverResult
    <3>3. CASE result # Absent /\ ~Found
      BY <1>6, <3>3 DEF RecoverResult
    <3> QED BY <3>1, <3>2, <3>3
  <2> QED BY <1>2, <1>3, <2>1 DEF RecoverySteps
<1> QED BY <1>4, <1>5, <1>6

LEMMA WroteClaim ==
  ASSUME PipeInv, Changes, NEW w \in Workers, stage' = stage, Quiet(w),
         Claim(w) \/ PutClaim(w) \/ MatchClaim(w)
  PROVE  Wrote(w)'
<1> USE DEF PipeInv, PipelineTypeOK, ProgressTypeOK, TypeOK
<1>0. /\ Wrote(w) /\ reply[w] = "none" /\ pc[w] \in {"claim", "claimPut"}
      /\ pc[w] # "done"
  BY Running DEF RecordsInv, SafeInv, Claim, PutClaim, MatchClaim
<1>1. stage[w] = 3
  BY <1>0 DEF Wrote, Quiet, Due, Sequence
<1>2. \A n \in 1 .. 3 : progress'[fence(w)'][n] # Absent
  BY <1>0, <1>1, Keeps DEF Wrote, Sequence
<1>3. ASSUME NEW p \in {"claimPut", "review"}, Goto(w, p) PROVE Wrote(w)'
  <2>1. pc'[w] = p /\ reply'[w] = "none" /\ stage'[w] = 3
    BY <1>0, <1>1, <1>3 DEF Goto
  <2> QED BY <1>2, <1>3, <2>1
          DEF Wrote, CommitSteps, RecoverySteps, Terminal, Finished
<1>4. CASE Answer(w, "error")
  BY <1>4, WroteEnd DEF Answer
<1> QED BY <1>3, <1>4 DEF Claim, PutClaim, MatchClaim

LEMMA WroteReview ==
  ASSUME PipeInv, Changes, NEW w \in Workers, Quiet(w), Review(w),
         stage' = IF pc'[w] = "done" THEN [stage EXCEPT ![w] = 8] ELSE stage
  PROVE  Wrote(w)'
<1> USE DEF PipeInv, PipelineTypeOK, ProgressTypeOK, TypeOK
<1>0. Wrote(w) /\ reply[w] = "none" /\ pc[w] = "review" /\ pc[w] # "done"
  BY Running DEF RecordsInv, SafeInv, Review
<1>1. stage[w] \in 5 .. 6
  BY <1>0 DEF Wrote, Quiet, Due, Sequence
<1>2. \A n \in 1 .. 5 : progress'[fence(w)'][n] # Absent
  <2>1. \A n \in 1 .. 5 : n \in 1 .. stage[w] /\ n \in Sequence
    BY <1>1 DEF Sequence
  <2> QED BY <1>0, <2>1, Keeps DEF Wrote
<1>3. CASE Goto(w, "prepare")
  <2>1. pc'[w] = "prepare" /\ reply'[w] = "none" /\ stage'[w] = stage[w]
    BY <1>0, <1>3 DEF Goto
  <2>2. Claimed(fence(w))'
    BY <1>2 DEF Claimed
  <2> QED BY <1>1, <1>2, <2>1, <2>2
          DEF Wrote, CommitSteps, RecoverySteps, Terminal, Finished
<1>4. CASE Answer(w, "cancelled")
  <2>1. pc'[w] = "done" /\ reply'[w] = "cancelled" /\ stage'[w] = 8
    BY <1>4 DEF Answer
  <2>2. Claimed(fence(w))'
    BY <1>2 DEF Claimed
  <2> QED BY <2>1, <2>2 DEF Wrote, CommitSteps, RecoverySteps
<1> QED BY <1>3, <1>4 DEF Review

LEMMA WroteCommit ==
  ASSUME PipeInv, Changes, NEW w \in Workers, stage' = stage, Quiet(w),
         \/ Prepare(w) \/ Finish(w) \/ PutFinish(w) \/ MatchFinish(w)
         \/ UndoInspect(w) \/ Undo(w) \/ Publish(w) \/ Discard(w)
  PROVE  Wrote(w)'
<1> USE DEF PipeInv, PipelineTypeOK, ProgressTypeOK, TypeOK
<1>0. /\ Wrote(w) /\ reply[w] = "none" /\ pc[w] \in CommitSteps \ {"catch"}
      /\ pc[w] \notin {"done", "crashed"}
  BY Running DEF RecordsInv, SafeInv, CommitSteps, Prepare, Finish, PutFinish,
                 MatchFinish, UndoInspect, Undo, Publish, Discard
<1>1. stage[w] = 7
  BY <1>0 DEF Wrote, Quiet, Due, Sequence, CommitSteps
<1>2. Claimed(fence(w))' /\ progress'[fence(w)'][7] # Absent
  BY <1>0, <1>1, Keeps DEF Wrote, Sequence
<1>3. ASSUME NEW p \in CommitSteps \ {"prepare", "catch"}, Goto(w, p)
      PROVE  Wrote(w)'
  <2>1. pc'[w] = p /\ reply'[w] = "none" /\ stage'[w] = 7
    BY <1>0, <1>1, <1>3 DEF Goto
  <2> QED BY <1>2, <1>3, <2>1
          DEF Wrote, CommitSteps, RecoverySteps, Terminal, Finished
<1>4. ASSUME NEW r, Answer(w, r) PROVE Wrote(w)'
  <2>1. pc'[w] = "done" /\ stage'[w] = 7
    BY <1>1, <1>4 DEF Answer
  <2> QED BY <1>2, <2>1 DEF Wrote, CommitSteps, RecoverySteps
<1>5. CASE Escape(w)
  BY <1>0, <1>5, WroteEscape
<1> QED BY <1>3, <1>4, <1>5
        DEF Prepare, Finish, PutFinish, MatchFinish, UndoInspect, Undo, Publish,
            Discard, CommitSteps

LEMMA WroteCatch ==
  ASSUME PipeInv, Changes, NEW w \in Workers, Catch(w),
         stage' = [stage EXCEPT ![w] = IF pc'[w] = "prepare" THEN 6 ELSE 8]
  PROVE  Wrote(w)'
<1> USE DEF PipeInv, PipelineTypeOK, ProgressTypeOK, TypeOK
<1>0. Wrote(w) /\ reply[w] = "none" /\ pc[w] = "catch" /\ pc[w] # "done"
  BY Running DEF RecordsInv, SafeInv, Catch
<1>1. Claimed(fence(w))'
  BY <1>0, Keeps DEF Wrote, CommitSteps
<1>2. CASE Goto(w, "prepare")
  <2>1. pc'[w] = "prepare" /\ reply'[w] = "none" /\ stage'[w] = 6
    BY <1>0, <1>2 DEF Goto
  <2> QED BY <1>1, <2>1 DEF Wrote, CommitSteps, RecoverySteps, Terminal, Finished
<1>3. ASSUME NEW r, Answer(w, r) PROVE Wrote(w)'
  <2>1. pc'[w] = "done" /\ stage'[w] = 8
    BY <1>3 DEF Answer
  <2> QED BY <1>1, <2>1 DEF Wrote, CommitSteps, RecoverySteps
<1> QED BY <1>2, <1>3 DEF Catch

\* A record that is due is well formed.
LEMMA RecordTyped ==
  ASSUME PipeInv, NEW w \in Workers, NEW n \in Sequence, Due(w, n)
  PROVE  RecordOf(w, n) \in Record
<1> USE DEF PipeInv, PipelineTypeOK, ProgressTypeOK, TypeOK
<1>1. version(w) \in Nat
  BY DEF version
<1>2. n = 6 /\ pc[w] # "review" => bytes[w].status \in Finished
  BY DEF SafeInv, IInv, Local, Owns, Due, Result
<1>3. n = 8 => reply[w] \in Terminal
  BY DEF Due
<1>4. \A s \in Terminal : OutcomeOf(s) \in Outcome
  BY DEF OutcomeOf, Outcome, Terminal, Finished
<1>5. CASE n \in {1, 3, 5, 7}
  BY <1>1, <1>5 DEF RecordOf, Record, Outcome
<1>6. CASE n \in {2, 4}
  BY <1>1, <1>6 DEF RecordOf, Record, Outcome
<1>7. CASE n = 6
  BY <1>1, <1>2, <1>4, <1>7 DEF RecordOf, Record, Outcome, Terminal
<1>8. CASE n = 8
  BY <1>1, <1>3, <1>4, <1>8 DEF RecordOf, Record, Outcome
<1> QED BY <1>5, <1>6, <1>7, <1>8 DEF Sequence

\* A record is written, or it is an exception.
LEMMA WroteEmit ==
  ASSUME PipeInv, Changes, NEW w \in Workers, NEW n \in Sequence, Due(w, n),
         progress' = Recorded(w, n), stage' = [stage EXCEPT ![w] = n],
         pc' = pc, reply' = reply
  PROVE  Wrote(w)'
<1> USE DEF PipeInv, PipelineTypeOK, ProgressTypeOK, TypeOK
<1>0. Wrote(w) /\ stage[w] \in 0 .. 8 /\ stage'[w] = n /\ pc'[w] = pc[w]
      /\ reply'[w] = reply[w]
  BY DEF RecordsInv
<1>1. progress'[fence(w)'][n] # Absent
  <2>1. progress' = [progress EXCEPT ![fence(w)][n] = RecordOf(w, n)]
    BY DEF Recorded
  <2>2. progress'[fence(w)][n] = RecordOf(w, n)
    BY <2>1, Keeps
  <2>3. RecordOf(w, n) # Absent
    <3>1. RecordOf(w, n) \in Record
      BY RecordTyped
    <3> QED BY <3>1
  <2> QED BY <2>2, <2>3, Keeps
<1>2. /\ \A k \in Sequence :
           progress[fence(w)][k] # Absent => progress'[fence(w)'][k] # Absent
      /\ Claimed(fence(w)) => Claimed(fence(w))'
  BY Keeps
<1>3. ASSUME pc[w] \in {"claim", "review"} PROVE Wrote(w)'
  <2>1. n = stage[w] + 1
    BY <1>3 DEF Due
  <2>2. \A k \in 1 .. n : k = n \/ k \in 1 .. stage[w]
    BY <1>0, <2>1
  <2>3. \A k \in 1 .. n : k \in Sequence
    BY DEF Sequence
  <2>4. \A k \in 1 .. n : progress'[fence(w)'][k] # Absent
    BY <1>0, <1>1, <1>2, <1>3, <2>2, <2>3 DEF Wrote
  <2>5. reply[w] \notin Terminal /\ reply[w] # "cancelled"
    BY <1>3, Running DEF SafeInv, Terminal, Finished
  <2> QED BY <1>0, <1>3, <2>1, <2>4, <2>5
          DEF Wrote, Due, CommitSteps, RecoverySteps, Sequence
<1>4. ASSUME pc[w] = "prepare" PROVE Wrote(w)'
  <2>1. reply[w] \notin Terminal /\ reply[w] # "cancelled"
    BY <1>4, Running DEF SafeInv, Terminal, Finished
  <2>2. Claimed(fence(w))'
    BY <1>0, <1>2, <1>4 DEF Wrote, CommitSteps
  <2> QED BY <1>0, <1>1, <1>4, <2>1, <2>2
          DEF Wrote, Due, CommitSteps, RecoverySteps, Sequence
<1>5. ASSUME pc[w] = "done" PROVE Wrote(w)'
  BY <1>0, <1>1, <1>2, <1>5 DEF Wrote, Due, CommitSteps, RecoverySteps, Sequence
<1> QED BY <1>3, <1>4, <1>5 DEF Due

LEMMA WroteThrow ==
  ASSUME PipeInv, Changes, NEW w \in Workers, NEW n \in Sequence, Due(w, n),
         ProgressThrows(w)
  PROVE  Wrote(w)'
<1> USE DEF PipeInv, PipelineTypeOK, TypeOK
<1>1. stage' = stage
  BY DEF ProgressThrows
<1>2. CASE pc[w] = "done" /\ pc'[w] = "done"
  <2>1. reply'[w] = "error"
    BY <1>2 DEF ProgressThrows, Answer
  <2> QED BY <1>1, <1>2, <2>1, WroteEnd
<1>4. CASE pc[w] = "done" /\ pc'[w] # "done"
  <2>1. reply[w] = "cancelled" /\ pc'[w] = "catch" /\ reply'[w] = "none"
    BY <1>4 DEF ProgressThrows, Answer
  <2>2. Wrote(w) /\ Claimed(fence(w))
    BY <2>1 DEF RecordsInv, Wrote
  <2>3. /\ Claimed(fence(w))'
        /\ stage'[w] = 7 => progress'[fence(w)'][7] # Absent
    BY <1>1, <2>2, Keeps DEF Wrote, Sequence
  <2> QED BY <2>1, <2>3
          DEF Wrote, CommitSteps, RecoverySteps, Terminal, Finished
<1>3. CASE pc[w] # "done"
  <2>1. Escape(w) /\ pc[w] # "crashed"
    BY <1>3 DEF ProgressThrows, Due
  <2> QED BY <1>1, <1>3, <2>1, WroteEscape
<1> QED BY <1>2, <1>3, <1>4

\* One step changes what one process has, and no other.
LEMMA OneActs ==
  ASSUME PipeInv, NEW w \in Workers, Worker(w) \/ WorkerFails(w),
         NEW v \in Workers, v # w
  PROVE  pc'[v] = pc[v] /\ reply'[v] = reply[v] /\ stage'[v] = stage[v]
<1> USE DEF PipeInv, PipelineTypeOK, ProgressTypeOK, TypeOK
<1>1. CASE Emit(w) \/ EmitFails(w)
  BY <1>1 DEF Emit, EmitFails, ProgressThrows, Escape, Goto, Answer, vars
<1>2. CASE Step(w) /\ (Work(w) \/ WorkFails(w))
  <2>1. pc'[v] = pc[v] /\ reply'[v] = reply[v]
    BY <1>2, StepKinds
  <2>2. stage'[v] = stage[v]
    BY <1>2 DEF Work, WorkFails, progressVars
  <2> QED BY <2>1, <2>2
<1> QED BY <1>1, <1>2 DEF Worker, WorkerFails, Work, WorkFails, Step

LEMMA WroteActor ==
  ASSUME PipeInv, Changes, NEW w \in Workers, Worker(w) \/ WorkerFails(w)
  PROVE  Wrote(w)'
<1>0. stage \in [Workers -> 0 .. 8] /\ pc \in [Workers -> Steps]
  BY DEF PipeInv, PipelineTypeOK, ProgressTypeOK, TypeOK
<1>1. CASE Emit(w)
  <2>1. PICK n \in Sequence :
          /\ Due(w, n)
          /\ \/ /\ progress' = Recorded(w, n)
                /\ stage' = [stage EXCEPT ![w] = n] /\ UNCHANGED vars
             \/ ProgressThrows(w)
    BY <1>1 DEF Emit
  <2> QED BY <2>1, WroteEmit, WroteThrow DEF vars
<1>2. CASE EmitFails(w)
  BY <1>2, WroteThrow DEF EmitFails
<1>3. CASE WorkFails(w)
  <2>1. stage' = stage
    BY <1>3 DEF WorkFails, progressVars
  <2>2. CASE FailBefore(w) \/ FailAfter(w)
    <3>1. pc[w] \notin {"done", "crashed"} /\ Escape(w)
      BY <2>2 DEF FailBefore, FailAfter, Write
    <3> QED BY <2>1, <3>1, WroteEscape
  <2>3. CASE Crash(w)
    <3>1. pc'[w] = "crashed" /\ reply'[w] = "none"
      BY <1>0, <2>3, Running DEF Crash, Goto, PipeInv, SafeInv
    <3> QED BY <2>1, <3>1, WroteEnd
  <2> QED BY <1>3, <2>2, <2>3 DEF WorkFails
<1>4. CASE Work(w)
  <2>1. CASE pc[w] \notin {"review", "catch"}
    <3>1. stage' = stage /\ Quiet(w)
      BY <1>4, <2>1 DEF Work
    <3>2. CASE WriteRefused(w)
      <4>1. pc[w] \notin {"done", "crashed"} /\ Escape(w)
        BY <3>2 DEF WriteRefused
      <4> QED BY <3>1, <4>1, WroteEscape
    <3>3. ~Review(w) /\ ~Catch(w)
      BY <2>1 DEF Review, Catch
    <3> QED BY <1>4, <3>1, <3>2, <3>3, WroteRecover, WroteClaim, WroteCommit
            DEF Work, Execute
  <2>2. CASE pc[w] = "review"
    <3>1. Review(w)
      BY <1>4, <2>2
         DEF Work, Execute, Recover, RecoverResult, RecoverTransaction,
             RecoverPublish, RecoverDiscard, Claim, PutClaim, MatchClaim,
             Prepare, Finish, PutFinish, MatchFinish, UndoInspect, Undo,
             Publish, Discard, Catch, WriteRefused
    <3>2. stage' = IF pc'[w] = "done" THEN [stage EXCEPT ![w] = 8] ELSE stage
      BY <1>4, <2>2 DEF Work
    <3> QED BY <1>4, <3>1, <3>2, WroteReview DEF Work
  <2>3. CASE pc[w] = "catch"
    <3>1. Catch(w)
      BY <1>4, <2>3
         DEF Work, Execute, Recover, RecoverResult, RecoverTransaction,
             RecoverPublish, RecoverDiscard, Claim, PutClaim, MatchClaim,
             Review, Prepare, Finish, PutFinish, MatchFinish, UndoInspect, Undo,
             Publish, Discard, WriteRefused
    <3>2. stage' = [stage EXCEPT ![w] = IF pc'[w] = "prepare" THEN 6 ELSE 8]
      BY <1>4, <2>3 DEF Work
    <3> QED BY <3>1, <3>2, WroteCatch
  <2> QED BY <2>1, <2>2, <2>3
<1> QED BY <1>1, <1>2, <1>3, <1>4 DEF Worker, WorkerFails

LEMMA RecordsStep ==
  ASSUME PipeInv, Changes, PipelineNext PROVE RecordsInv'
<1>1. ASSUME NEW w \in Workers, Worker(w) \/ WorkerFails(w),
             NEW v \in Workers
      PROVE  Wrote(v)'
  <2>1. CASE v = w
    BY <1>1, <2>1, WroteActor
  <2>2. CASE v # w
    BY <1>1, <2>2, OneActs, WroteOthers
  <2> QED BY <2>1, <2>2
<1>2. ASSUME ControlPlane \/ RunDisturbed \/ (\E p \in Foregrounds : Foreground(p)),
             NEW v \in Workers
      PROVE  Wrote(v)'
  <2>1. pc' = pc /\ reply' = reply /\ stage' = stage
    BY <1>2 DEF ControlPlane, RunDisturbed, Foreground, Cancel, LeaseLapses,
                vars, progressVars
  <2> QED BY <2>1, WroteOthers
<1> QED BY <1>1, <1>2, HistoriesStep DEF PipelineNext, RecordsInv

\* A process starts with a request from the queue.
LEMMA WorkerTokensStep ==
  ASSUME PipeInv, Changes, PipelineNext PROVE WorkerTokens'
<1> USE DEF PipeInv
<1>1. /\ \A v, f : Bind(v, f) => Bind(v, f)'
      /\ \A w : version(w)' = version(w) /\ fence(w)' = fence(w)
  BY LogGrows DEF SafeInv
<1>2. ASSUME NEW v \in Workers, pc'[v] # "idle", pc[v] # "idle"
      PROVE  Bind(version(v), fence(v))'
  BY <1>1, <1>2 DEF WorkerTokens
<1>3. ASSUME NEW v \in Workers, pc'[v] # "idle", pc[v] = "idle"
      PROVE  Bind(version(v), fence(v))'
  <2>1. Worker(v)
    <3>1. pc'[v] # pc[v]
      BY <1>3
    <3>2. ~ (ControlPlane \/ RunDisturbed \/ \E p \in Foregrounds : Foreground(p))
      BY <3>1 DEF ControlPlane, RunDisturbed, Foreground, Cancel, LeaseLapses,
                  vars
    <3> QED BY <1>3, <3>1, <3>2, OneActs DEF PipelineNext, WorkerFails
  <2>2. Bind(version(v), fence(v))
    BY <1>3, <2>1 DEF Worker, Queued, QueueTokens, version, fence
  <2> QED BY <1>1, <2>2
<1> QED BY <1>2, <1>3 DEF WorkerTokens

-----------------------------------------------------------------------------
(* The control plane. *)

\* A run that was seen finished is as it was seen.
LEMMA SeenFinished ==
  ASSUME PipeInv, SeenStatus \in Finished
  PROVE  /\ Committed /\ Seen = Len(log) /\ log[Seen] = Latest
         /\ Seen \in 1 .. Len(log) /\ log[Seen].result \in Result
         /\ Seen >= 2 /\ log[Seen].fence \in Fences
         /\ Bind(Seen - 2, log[Seen].fence)
<1> USE DEF PipeInv, SafeInv, IInv
<1>1. Seen \in 1 .. Len(log) /\ log[Seen].status \in Finished
  BY DEF ProjectionInv, SeenStatus, StatusAt, Finished
<1>2. Seen = Len(log) /\ log # <<>>
  BY <1>1 DEF LogInv, Terminal, TypeOK
<1>3. Committed /\ log[Seen] = Latest
  BY <1>1, <1>2 DEF Committed, Status, Latest
<1>4. Seen >= 2 /\ log[Seen - 1].status = "running-production"
      /\ log[Seen].fence = log[Seen - 1].fence
  BY <1>1 DEF LogTokens, Token
<1>5. Seen - 1 \in 1 .. Len(log) /\ (Seen - 1) - 1 = Seen - 2
  BY <1>1, <1>4
<1>6. Bind(Seen - 2, log[Seen].fence)
  BY <1>4, <1>5 DEF LogTokens, Token
<1> QED BY <1>1, <1>2, <1>3, <1>4, <1>6, CommittedEvent, FenceOfAssumption
        DEF Bind

\* A request is put for a version that was open, or for the commit.
LEMMA QueueStep ==
  ASSUME PipeInv, Changes, PipelineNext
  PROVE  /\ queue' \subseteq QueueRecord
         /\ QueueTokens'
         /\ RecoveryBindingHolds'
<1> USE DEF PipeInv, PipelineTypeOK, ControlTypeOK
<1>1. \A v, f : Bind(v, f) => Bind(v, f)'
  BY LogGrows DEF SafeInv
<1>2. Committed => log' = log /\ Committed' /\ Latest' = Latest
  BY LogGrows DEF SafeInv, Committed, Terminal
<1>3. CASE queue' = queue
  BY <1>1, <1>2, <1>3 DEF QueueTokens, RecoveryBindingHolds
<1>4. ASSUME NEW r, queue' = queue \cup {r}, r \in QueueRecord,
             Bind(r.request.version, r.request.fence),
             r.kind = "recover" => /\ Committed
                                   /\ Len(log) = r.request.version + 2
                                   /\ Latest.fence = r.request.fence
      PROVE  /\ queue' \subseteq QueueRecord
             /\ QueueTokens'
             /\ RecoveryBindingHolds'
  BY <1>1, <1>2, <1>4 DEF QueueTokens, RecoveryBindingHolds
<1>5. CASE ControlPlane
  <2>1. CASE Load
    <3>1. CASE \/ Throw \/ Goon("result") \/ Goon("sweep")
      BY <1>3, <3>1 DEF Throw, Goon
    <3>2. CASE ProjectDispatch /\ SeenStatus \notin Finished \cup {"cancelled"}
      <4> DEFINE R(lease) ==
            [kind |-> "dispatch", at |-> Seen, lease |-> lease,
             request |-> [version |-> Seen, fence |-> FenceOf[Seen]]]
      <4>1. PICK lease \in Leases :
              /\ queue' = queue \/ queue' = queue \cup {R(lease)}
              /\ queue' # queue => Seen \in DOMAIN FenceOf
        BY <3>2 DEF ProjectDispatch, Enqueue, Throw
      <4>2. CASE queue' # queue
        <5>1. Seen \in Nat /\ FenceOf[Seen] \in Fences
          BY <4>1, <4>2, FenceOfAssumption
        <5>2. OpenAt(Seen)
          BY <3>2, CommittedEvent
             DEF OpenAt, SeenStatus, StatusAt, ProjectionInv, SafeInv, IInv,
                 Event, Terminal
        <5> QED BY <1>4, <4>1, <4>2, <5>1, <5>2 DEF QueueRecord, Bind
      <4> QED BY <1>3, <4>2
    <3>3. \/ Throw \/ Goon("result") \/ Goon("sweep")
          \/ ProjectDispatch /\ SeenStatus \notin Finished \cup {"cancelled"}
      <4>1. CASE ~Projectable(Seen)
        BY <2>1, <4>1 DEF Load
      <4>2. CASE Projectable(Seen) /\ SeenStatus \in Finished
        BY <2>1, <4>2 DEF Load, Finished
      <4>3. CASE Projectable(Seen) /\ SeenStatus = "cancelled"
        BY <2>1, <4>3 DEF Load, Finished
      <4>4. CASE Projectable(Seen) /\ SeenStatus \notin Finished \cup {"cancelled"}
        BY <2>1, <4>4 DEF Load
      <4> QED BY <4>1, <4>2, <4>3, <4>4
    <3> QED BY <3>1, <3>2, <3>3
  <2>2. CASE LookForTransaction
    <3>1. CASE queue' # queue
      <4> DEFINE R(lease) ==
            [kind |-> "recover", at |-> Seen, lease |-> lease,
             request |-> [version |-> Seen - 2, fence |-> log[Seen].fence]]
      <4>1. PICK lease \in Leases : queue' = queue \cup {R(lease)}
        BY <2>2, <3>1
           DEF LookForTransaction, ProjectRecovery, Enqueue, Throw, Goon
      <4>2. SeenStatus \in Finished
        BY <2>2 DEF LookForTransaction, ProjectionInv
      <4>3. /\ Committed /\ Seen = Len(log) /\ log[Seen] = Latest
            /\ Seen >= 2 /\ Seen \in Nat /\ log[Seen].fence \in Fences
            /\ Bind(Seen - 2, log[Seen].fence)
        BY <4>2, SeenFinished
      <4>4. R(lease) \in QueueRecord
        BY <4>1, <4>3 DEF QueueRecord
      <4> QED BY <1>4, <4>1, <4>3, <4>4
    <3> QED BY <1>3, <3>1
  <2>3. CASE Inspect \/ LookForResult \/ Sweep \/ ProjectionFails
    BY <1>3, <2>3
       DEF Inspect, LookForResult, Sweep, ProjectionFails, Throw, Goon
  <2> QED BY <1>5, <2>1, <2>2, <2>3 DEF ControlPlane, Project
<1>6. CASE ~ControlPlane
  <2>1. queue' = queue
    BY <1>6 DEF PipelineNext, Worker, WorkerFails, Foreground, RunDisturbed,
                controlVars
  <2> QED BY <1>3, <2>1
<1> QED BY <1>5, <1>6

LEMMA ProjectionStep ==
  ASSUME PipeInv, Changes, PipelineNext
  PROVE  ProjectionInv' /\ projection' \in Projection
<1> USE DEF PipeInv, PipelineTypeOK, ControlTypeOK
<1>0. projection \in Projection /\ Seen \in 0 .. Len(log)
  BY DEF ProjectionInv
<1>1. /\ Len(log') \in Nat /\ Len(log) <= Len(log') /\ Len(log) \in Nat
      /\ \A i \in 1 .. Len(log) : log'[i] = log[i]
      /\ \A v \in 0 .. Len(log) : StatusAt(v)' = StatusAt(v)
  BY LogGrows DEF SafeInv
\* What stays true although others take steps.
<1>2. ASSUME projection' = projection PROVE ProjectionInv'
  <2>1. Seen' = Seen /\ SeenStatus' = SeenStatus /\ Seen' \in 0 .. Len(log')
    BY <1>0, <1>1, <1>2 DEF Seen, SeenStatus
  <2>2. ASSUME SeenStatus \in Finished, log[Seen].result \in {result} \cup disowned
        PROVE  log'[Seen'].result \in {result'} \cup disowned'
    <3>1. Seen \in 1 .. Len(log) /\ log[Seen] = Latest
      BY <2>2, SeenFinished
    <3>2. log'[Seen'] = Latest
      BY <1>1, <2>1, <3>1
    <3> QED BY <2>2, <3>1, <3>2 DEF Changes, MakePublic
  <2>3. ASSUME SeenStatus \in Finished PROVE log'[Seen'] = log[Seen]
    BY <1>1, <2>1, <2>3, SeenFinished
  <2> QED BY <1>2, <2>1, <2>2, <2>3 DEF ProjectionInv
<1>3. CASE ControlPlane
  <2>0. log' = log /\ result' = result /\ disowned' = disowned
    BY <1>3 DEF ControlPlane, vars, files
  <2>1. ASSUME NEW s \in {"load", "result", "transaction", "sweep"}, Goon(s),
               s \in {"result", "transaction"} => SeenStatus \in Finished,
               s = "sweep" /\ SeenStatus \in Finished =>
                 log[Seen].result \in {result} \cup disowned
        PROVE  ProjectionInv' /\ projection' \in Projection
    <3>1. /\ projection' = [projection EXCEPT !.step = s]
          /\ projection' \in Projection /\ projection'.step = s
          /\ projection'.seen = projection.seen
      BY <1>0, <2>1 DEF Goon, Projection
    <3>2. Seen' = Seen /\ SeenStatus' = SeenStatus
      BY <2>0, <3>1 DEF Seen, SeenStatus, StatusAt
    <3> QED BY <1>0, <2>0, <2>1, <3>1, <3>2 DEF ProjectionInv
  <2>2. ASSUME Throw PROVE ProjectionInv' /\ projection' \in Projection
    <3>1. projection' = [step |-> "idle", seen |-> 0, spared |-> {}]
      BY <2>2 DEF Throw, NoProjection
    <3>2. projection' \in Projection /\ projection'.step = "idle"
          /\ Seen' = 0
      BY <3>1 DEF Projection, Seen
    <3> QED BY <1>1, <3>2 DEF ProjectionInv
  <2>3. ASSUME NEW r, NEW spared \in SUBSET Fences, Enqueue(r, spared),
               SeenStatus \in Finished => log[Seen].fence \in spared
        PROVE  ProjectionInv' /\ projection' \in Projection
    <3>1. CASE projection' = [projection EXCEPT !.step = "sweep",
                                                !.spared = spared]
      <4>1. /\ projection' \in Projection /\ projection'.step = "sweep"
            /\ projection'.seen = projection.seen
            /\ projection'.spared = spared
        BY <1>0, <2>3, <3>1 DEF Projection
      <4>2. Seen' = Seen /\ SeenStatus' = SeenStatus
        BY <2>0, <4>1 DEF Seen, SeenStatus, StatusAt
      <4> QED BY <1>0, <2>0, <2>3, <4>1, <4>2 DEF ProjectionInv
    <3> QED BY <2>2, <2>3, <3>1 DEF Enqueue
  <2>4. CASE Inspect
    <3>1. projection' = [step |-> "load", seen |-> Len(log), spared |-> {}]
      BY <2>4 DEF Inspect, NoProjection
    <3>2. projection' \in Projection /\ projection'.step = "load"
          /\ Seen' = Len(log)
      BY <1>1, <3>1 DEF Projection, Seen
    <3> QED BY <1>1, <2>0, <3>2 DEF ProjectionInv
  <2>5. CASE Load
    <3>1. CASE ~Projectable(Seen)
      BY <2>2, <2>5, <3>1 DEF Load
    <3>2. CASE Projectable(Seen) /\ SeenStatus \in Finished
      BY <2>1, <2>5, <3>2 DEF Load, Finished
    <3>3. CASE Projectable(Seen) /\ SeenStatus = "cancelled"
      BY <2>1, <2>5, <3>3 DEF Load, Finished
    <3>4. CASE Projectable(Seen) /\ SeenStatus \notin Finished \cup {"cancelled"}
      <4>1. Goon("sweep") \/ ProjectDispatch
        BY <2>5, <3>4 DEF Load
      <4>2. CASE ProjectDispatch
        BY <2>2, <2>3, <3>4, <4>2 DEF ProjectDispatch
      <4> QED BY <2>1, <3>4, <4>1, <4>2
    <3> QED BY <3>1, <3>2, <3>3, <3>4
  <2>6. CASE LookForResult
    <3>1. SeenStatus \in Finished
      BY <2>6 DEF LookForResult, ProjectionInv
    <3>2. log[Seen].result \in Result
      BY <3>1, SeenFinished
    <3>3. CASE result = Absent
      <4>1. Goon("transaction")
        BY <2>6, <3>2, <3>3 DEF LookForResult
      <4> QED BY <2>1, <3>1, <4>1
    <3>4. CASE result # Absent /\ result = log[Seen].result
      BY <2>1, <2>6, <3>1, <3>4 DEF LookForResult
    <3>5. CASE result # Absent /\ result # log[Seen].result
      BY <2>2, <2>6, <3>5 DEF LookForResult
    <3> QED BY <3>3, <3>4, <3>5
  <2>7. CASE LookForTransaction
    <3>1. SeenStatus \in Finished
      BY <2>7 DEF LookForTransaction, ProjectionInv
    <3>2. /\ Committed /\ log[Seen] = Latest /\ log[Seen].result \in Result
          /\ log[Seen].fence \in Fences
      BY <3>1, SeenFinished
    <3>3. CASE Pending = Absent
      <4>1. log[Seen].result \in {result} \cup disowned
        BY <3>2, <3>3
           DEF SafeInv, CommittedBytesKept, CommittedBytesExist, Pending
      <4>2. Goon("sweep")
        BY <2>7, <3>2, <3>3 DEF LookForTransaction
      <4> QED BY <2>1, <3>1, <4>1, <4>2
    <3>4. CASE Pending # Absent /\ Pending = log[Seen].result
      <4>1. ProjectRecovery
        BY <2>7, <3>4 DEF LookForTransaction
      <4> QED BY <2>2, <2>3, <3>2, <4>1 DEF ProjectRecovery
    <3>5. CASE Pending # Absent /\ Pending # log[Seen].result
      BY <2>2, <2>7, <3>5 DEF LookForTransaction
    <3> QED BY <3>3, <3>4, <3>5
  <2>8. CASE Sweep \/ ProjectionFails
    BY <2>2, <2>8 DEF Sweep, ProjectionFails
  <2> QED BY <1>3, <2>4, <2>5, <2>6, <2>7, <2>8 DEF ControlPlane, Project
<1>4. CASE ~ControlPlane
  <2>1. projection' = projection
    BY <1>4 DEF PipelineNext, Worker, WorkerFails, Foreground, RunDisturbed,
                controlVars
  <2> QED BY <1>0, <1>2, <2>1
<1> QED BY <1>3, <1>4

-----------------------------------------------------------------------------
(* The admission. *)

LEMMA AdmissionStep ==
  ASSUME PipeInv, Changes, PipelineNext
  PROVE  AdmissionInv' /\ AdmissionTypeOK'
<1> USE DEF PipeInv, PipelineTypeOK
<1>1. Admissible => Admissible' /\ Latest' = Latest
  <2> SUFFICES ASSUME Admissible PROVE Admissible' /\ Latest' = Latest
    OBVIOUS
  <2>1. Status \in Terminal
    BY DEF Admissible, Terminal, Finished
  <2>2. Latest' = Latest /\ Status' = Status
    BY <2>1, LogGrows DEF SafeInv
  <2>3. result' = result
    BY DEF Changes, MakePublic, Admissible
  <2> QED BY <2>2, <2>3 DEF Admissible
<1>2. CASE UNCHANGED admissionVars
  BY <1>1, <1>2 DEF admissionVars, AdmissionInv, AdmissionTypeOK, Told
<1>3. ASSUME NEW p \in Foregrounds, Foreground(p)
      PROVE  AdmissionInv' /\ AdmissionTypeOK'
  <2>0. Admit(p) /\ (Admissible' <=> Admissible) /\ Latest' = Latest
    BY <1>3 DEF Foreground, Admissible, Status, Latest, vars, files
  <2>1. CASE AdmitChecks(p)
    <3>1. Admissible
      BY <2>1 DEF AdmitChecks, Admissible
    <3> QED BY <2>0, <2>1, <3>1
            DEF AdmitChecks, AdmissionInv, AdmissionTypeOK, Told
  <2>2. CASE AdmitPublish(p)
    <3>1. Admissible /\ admission' = Latest.result
      BY <2>2 DEF AdmitPublish, AdmissionInv
    <3>2. Latest.result \in Result
      BY <3>1, CommittedEvent
         DEF Admissible, Committed, Finished, SafeInv, IInv
    <3>3. \A q \in Foregrounds : at'[q] = IF q = p THEN
            (IF admission = Absent THEN "published" ELSE "ended") ELSE at[q]
      BY <2>2 DEF AdmitPublish, AdmissionTypeOK
    <3>4. AdmissionTypeOK'
      BY <2>2, <3>2 DEF AdmitPublish, AdmissionTypeOK
    <3>5. admission' # Absent
      BY <3>1, <3>2
    <3> QED BY <2>0, <3>1, <3>3, <3>4, <3>5 DEF AdmissionInv, Told
  <2>3. CASE AdmitAnswer(p)
    BY <2>0, <2>3 DEF AdmitAnswer, AdmissionInv, AdmissionTypeOK, Told
  <2>4. CASE AdmitFails(p)
    BY <2>0, <2>4 DEF AdmitFails, AdmissionInv, AdmissionTypeOK, Told
  <2> QED BY <2>0, <2>1, <2>2, <2>3, <2>4 DEF Admit
<1> QED BY <1>2, <1>3
        DEF PipelineNext, Worker, WorkerFails, ControlPlane, RunDisturbed

-----------------------------------------------------------------------------
(* The invariant. *)

LEMMA TypesStep ==
  ASSUME PipeInv, Changes, PipelineNext
  PROVE  ProgressTypeOK' /\ (faults \in 0 .. MaxFaults)'
<1> USE DEF PipeInv, PipelineTypeOK, ProgressTypeOK
<1>1. progress' \in [Fences -> [Sequence -> Record \cup {Absent}]]
  <2>1. ASSUME NEW w \in Workers, NEW n \in Sequence, Due(w, n),
               progress' = Recorded(w, n)
        PROVE  progress' \in [Fences -> [Sequence -> Record \cup {Absent}]]
    <3>1. RecordOf(w, n) \in Record /\ fence(w) \in Fences
      BY <2>1, RecordTyped, Keeps
    <3> QED BY <2>1, <3>1 DEF Recorded
  <2> QED BY <2>1 DEF Changes
<1>2. stage' \in [Workers -> 0 .. 8]
  <2>1. ASSUME NEW w \in Workers, Emit(w) \/ EmitFails(w)
        PROVE  stage' \in [Workers -> 0 .. 8]
    BY <2>1 DEF Emit, EmitFails, ProgressThrows, Sequence
  <2>2. ASSUME NEW w \in Workers, Work(w)
        PROVE  stage' \in [Workers -> 0 .. 8]
    <3>1. \/ stage' = stage
          \/ \E n \in 0 .. 8 : stage' = [stage EXCEPT ![w] = n]
      <4>1. CASE pc[w] \notin {"review", "catch"}
        BY <2>2, <4>1 DEF Work
      <4>2. CASE pc[w] = "catch"
        <5> DEFINE n == IF pc'[w] = "prepare" THEN 6 ELSE 8
        <5>1. stage' = [stage EXCEPT ![w] = n] /\ n \in 0 .. 8
          BY <2>2, <4>2 DEF Work
        <5> QED BY <5>1
      <4>3. CASE pc[w] = "review" /\ pc'[w] = "done"
        BY <2>2, <4>3 DEF Work
      <4>4. CASE pc[w] = "review" /\ pc'[w] # "done"
        BY <2>2, <4>4 DEF Work
      <4> QED BY <4>1, <4>2, <4>3, <4>4
    <3> QED BY <3>1
  <2> QED BY <2>1, <2>2
          DEF PipelineNext, Worker, WorkerFails, WorkFails, ControlPlane,
              Foreground, RunDisturbed, progressVars
<1>3. faults' \in 0 .. MaxFaults
  BY MaxFaultsAssumption
     DEF PipelineNext, Worker, WorkerFails, ControlPlane, Foreground,
         RunDisturbed
<1> QED BY <1>1, <1>2, <1>3

LEMMA Next_PipeInv == PipeInv /\ [PipelineNext]_pipelineVars => PipeInv'
<1>1. ASSUME PipeInv, PipelineNext PROVE PipeInv'
  <2>1. Changes /\ SafeInv'
    BY <1>1, StepChanges, SafeStep DEF PipeInv
  <2>2. PipelineTypeOK'
    BY <1>1, <2>1, TypesStep, QueueStep, ProjectionStep, AdmissionStep
       DEF PipelineTypeOK, SafeInv, IInv, ControlTypeOK
  <2> QED BY <1>1, <2>1, <2>2, LogTokensStep, WorkerTokensStep,
             QueueStep, RecordTokensStep, RecordsStep,
             ProjectionStep, AdmissionStep
          DEF PipeInv
<1>2. ASSUME PipeInv, UNCHANGED pipelineVars PROVE PipeInv'
  <2>0. UNCHANGED <<vars, progressVars, controlVars, admissionVars, faults>>
    BY <1>2 DEF pipelineVars
  <2>1. SafeInv'
    BY <1>2, <2>0, OutsideSafe DEF PipeInv
  <2>2. LogTokens'
    BY <1>2, <2>0 DEF PipeInv, LogTokens, Token, Bind, OpenAt, StatusAt,
                      Claimed, fence, vars, files, progressVars
  <2>3. WorkerTokens' /\ QueueTokens' /\ RecordTokens'
    BY <1>2, <2>0
       DEF PipeInv, WorkerTokens, QueueTokens, RecordTokens,
           Bind, OpenAt, StatusAt, fence, version, vars, files, progressVars,
           controlVars
  <2>4. RecordsInv'
    BY <1>2, <2>0 DEF PipeInv, RecordsInv, Histories, Wrote, Claimed, fence,
                      Committed, Status, Latest, vars, files, progressVars
  <2>5. ProjectionInv' /\ RecoveryBindingHolds'
    BY <1>2, <2>0
       DEF PipeInv, ProjectionInv, RecoveryBindingHolds, Seen, SeenStatus,
           StatusAt, Committed, Status, Latest, vars, files, controlVars
  <2>6. AdmissionInv'
    BY <1>2, <2>0 DEF PipeInv, AdmissionInv, Admissible, Told, Status, Latest,
                      vars, files, admissionVars
  <2>7. PipelineTypeOK'
    BY <1>2, <2>0, <2>1
       DEF PipeInv, PipelineTypeOK, SafeInv, IInv, ProgressTypeOK,
           ControlTypeOK, AdmissionTypeOK, progressVars, controlVars,
           admissionVars
  <2> QED BY <2>1, <2>2, <2>3, <2>4, <2>5, <2>6, <2>7 DEF PipeInv
<1> QED BY <1>1, <1>2

LEMMA Init_PipeInv == PipelineInit => PipeInv
<1> SUFFICES ASSUME PipelineInit PROVE PipeInv
  OBVIOUS
<1> USE DEF PipelineInit, ProgressInit, ControlInit, AdmissionInit
<1>1. SafeInv /\ TypeOK /\ Len(log) = 0 /\ 1 .. 0 = {}
  BY Init_SafeInv DEF SafeInv, IInv, Init
<1>2. PipelineTypeOK
  <2>1. ProgressTypeOK
    BY DEF ProgressTypeOK
  <2>2. ControlTypeOK /\ AdmissionTypeOK
    BY DEF ControlTypeOK, NoProjection, Projection, AdmissionTypeOK
  <2> QED BY <1>1, <2>1, <2>2, MaxFaultsAssumption DEF PipelineTypeOK
<1>3. LogTokens /\ WorkerTokens /\ QueueTokens /\ RecordTokens
  BY <1>1 DEF LogTokens, WorkerTokens, QueueTokens, RecordTokens, Init
<1>4. RecordsInv
  <2>1. Histories
    BY DEF Histories, Sequence
  <2>2. ASSUME NEW w \in Workers PROVE Wrote(w)
    BY DEF Init, Wrote, CommitSteps, RecoverySteps, Terminal, Finished
  <2> QED BY <2>1, <2>2 DEF RecordsInv
<1>5. ProjectionInv /\ RecoveryBindingHolds /\ AdmissionInv
  BY <1>1 DEF ProjectionInv, NoProjection, Seen, RecoveryBindingHolds,
              AdmissionInv, Told
<1> QED BY <1>1, <1>2, <1>3, <1>4, <1>5 DEF PipeInv

LEMMA PipelineInductive == PipelineSpec => []PipeInv
BY Init_PipeInv, Next_PipeInv, PTL DEF PipelineSpec

-----------------------------------------------------------------------------
(* The projection of the progress records. *)

\* The records of one version, whoever wrote them, are one legal history.
LEMMA OneHistory ==
  ASSUME PipeInv, ~ClaimRecordLost, NEW n, NEW v, NEW records,
         records = {fs \in Bound(n) : VersionOf(fs) = v}, records # {}
  PROVE  LegalHistory(n, records)
<1> USE DEF PipeInv
<1> DEFINE f == FenceOf[v]
           There(k) == progress[f][k] # Absent
<1>1. ASSUME NEW fs \in records
      PROVE  /\ fs[1] \in Fences /\ fs[2] \in Sequence /\ fs[1] = f
             /\ There(fs[2]) /\ FenceAt(n) \in {Absent, f}
  BY <1>1 DEF Bound, VersionOf, RecordTokens, Bind
<1>2. PICK one \in records : TRUE
  OBVIOUS
<1>3. f \in Fences /\ FenceAt(n) \in {Absent, f} /\ v \in DOMAIN FenceOf
  BY <1>1, <1>2 DEF Bound, VersionOf, RecordTokens, Bind
<1>4. ASSUME NEW k \in Sequence, There(k) PROVE <<f, k>> \in records
  <2>1. Bind(progress[f][k].version, f)
    BY <1>3, <1>4 DEF RecordTokens
  <2>2. progress[f][k].version = v
    BY <1>3, <2>1, FenceOfAssumption DEF Bind
  <2> QED BY <1>3, <1>4, <2>2 DEF Bound, VersionOf
<1> DEFINE numbers == {fs[2] : fs \in records}
<1>5. \A k : k \in numbers <=> k \in Sequence /\ There(k)
  <2>1. ASSUME NEW k \in Sequence, There(k) PROVE k \in numbers
    <3>1. <<f, k>> \in records /\ <<f, k>>[2] = k
      BY <1>4, <2>1
    <3> QED BY <3>1
  <2> QED BY <1>1, <2>1
<1>6. /\ \A k \in {2, 3, 4, 5, 6, 8} : There(k) => There(k - 1)
      /\ There(7) => There(3) /\ There(4)
  <2>1. There(7) => There(4)
    BY <1>3 DEF ClaimRecordLost
  <2> QED BY <1>3, <2>1 DEF RecordsInv, Histories
<1>7. There(1)
  <2>1. There(one[2]) /\ one[2] \in 1 .. 8
    BY <1>1 DEF Sequence
  <2>2. /\ There(8) => There(7)
        /\ There(7) => There(3) /\ There(4)
        /\ There(6) => There(5)
        /\ There(5) => There(4)
        /\ There(4) => There(3)
        /\ There(3) => There(2)
        /\ There(2) => There(1)
    <3>1. /\ 8 - 1 = 7 /\ 6 - 1 = 5 /\ 5 - 1 = 4 /\ 4 - 1 = 3 /\ 3 - 1 = 2
          /\ 2 - 1 = 1
      OBVIOUS
    <3> HIDE DEF There
    <3> QED BY <1>6, <3>1
  <2>3. one[2] \in {1, 2, 3, 4, 5, 6, 7, 8}
    BY <2>1
  <2> HIDE DEF There
  <2> QED BY <1>6, <2>1, <2>2, <2>3
<1> DEFINE first == CHOOSE a \in numbers : \A b \in numbers : a <= b
<1> HIDE DEF numbers
<1>8. first = 1
  <2>1. 1 \in numbers /\ \A b \in numbers : b \in Nat /\ 1 <= b
    BY <1>5, <1>7 DEF Sequence
  <2>2. first \in numbers /\ first <= 1
    BY <2>1
  <2> QED BY <2>1, <2>2
<1>9. ASSUME NEW a \in numbers, NEW b \in numbers, a < b,
             ~ \E c \in numbers : a < c /\ c < b
      PROVE  <<a, b>> \in AllowedTransitions
  <2>1. a \in 1 .. 8 /\ b \in 1 .. 8 /\ There(b)
    BY <1>5 DEF Sequence
  <2>2. CASE b \in {2, 3, 4, 5, 6, 8}
    <3>1. b - 1 \in numbers
      BY <1>5, <1>6, <2>1, <2>2 DEF Sequence
    <3>2. a = b - 1
      BY <1>9, <2>1, <3>1
    <3> QED BY <2>2, <3>2 DEF AllowedTransitions
  <2>3. CASE b = 7
    <3>1. 4 \in numbers
      BY <1>5, <1>6, <2>1, <2>3 DEF Sequence
    <3>2. a \in {4, 5, 6}
      BY <1>9, <2>1, <2>3, <3>1
    <3> QED BY <2>3, <3>2 DEF AllowedTransitions
  <2>4. b # 1
    BY <1>9, <2>1
  <2> QED BY <2>1, <2>2, <2>3, <2>4
<1>10. \A fs, gs \in records : fs[1] = gs[1]
  BY <1>1
<1> QED BY <1>8, <1>9, <1>10 DEF LegalHistory, numbers

\* The records that the view binds include some of an expected version.
LEMMA ExpectedThere ==
  ASSUME PipeInv, NEW n \in 0 .. Len(log), Bound(n) # {}
  PROVE  /\ DOMAIN ExpectedVersions(n) \in {1 .. 1, 1 .. 2}
         /\ \E i \in DOMAIN ExpectedVersions(n) :
              {fs \in Bound(n) : VersionOf(fs) = ExpectedVersions(n)[i]} # {}
<1> USE DEF PipeInv
<1>0. PICK fs \in Bound(n) : TRUE
  OBVIOUS
<1>1. /\ fs[1] \in Fences /\ fs[2] \in Sequence
      /\ VersionOf(fs) \in DOMAIN FenceOf /\ fs[1] = FenceOf[VersionOf(fs)]
      /\ OpenAt(VersionOf(fs)) /\ FenceAt(n) \in {Absent, fs[1]}
  BY <1>0 DEF Bound, VersionOf, RecordTokens, Bind
<1>2. /\ Len(log) \in Nat /\ \A i \in 1 .. Len(log) : log[i] \in Event /\ Token(i)
      /\ \A i \in 1 .. Len(log) : log[i].status \in Terminal => i = Len(log)
  BY CommittedEvent DEF SafeInv, IInv, LogTokens, LogInv
<1>3. ASSUME NEW v, Bind(v, FenceAt(n)), FenceAt(n) \in Fences
      PROVE  fs \in {gs \in Bound(n) : VersionOf(gs) = v}
  BY <1>0, <1>1, <1>3, FenceOfAssumption DEF Bind
\* The records before a claim that is in the log.
<1>4. ASSUME NEW i \in 1 .. Len(log), log[i].status = "running-production",
             FenceAt(n) = Absent
      PROVE  {gs \in Bound(n) : VersionOf(gs) = i - 1} # {}
  <2> DEFINE f == log[i].fence
  <2>1. Bind(i - 1, f) /\ Claimed(f)
    BY <1>2, <1>4 DEF Token
  <2>2. f \in Fences /\ progress[f][1] # Absent
    BY <2>1, FenceOfAssumption DEF Bind, Claimed
  <2>3. progress[f][1].version = i - 1
    <3>1. Bind(progress[f][1].version, f)
      BY <2>2 DEF RecordTokens, Sequence
    <3> QED BY <2>1, <3>1, FenceOfAssumption DEF Bind
  <2>4. <<f, 1>> \in Bound(n) /\ VersionOf(<<f, 1>>) = i - 1
    BY <1>4, <2>2, <2>3 DEF Bound, VersionOf, Sequence
  <2> QED BY <2>4
<1>5. CASE n = 0
  <2>1. ExpectedVersions(n) = <<0>> /\ FenceAt(n) = Absent
    BY <1>5 DEF ExpectedVersions, StatusAt, FenceAt, Finished
  <2>2. {gs \in Bound(n) : VersionOf(gs) = 0} # {}
    <3>1. CASE Len(log) >= 1 /\ log[1].status = "running-production"
      <4>1. 1 \in 1 .. Len(log) /\ 1 - 1 = 0
        BY <1>2, <3>1
      <4> QED BY <1>4, <2>1, <3>1, <4>1
    <3>2. CASE Len(log) >= 1 /\ log[1].status # "running-production"
      <4>0. 1 \in 1 .. Len(log)
        BY <1>2, <3>2
      <4>1. Len(log) = 1 /\ log[1].status \in Terminal
        BY <1>2, <3>2, <4>0 DEF Event
      <4>2. VersionOf(fs) = 0
        BY <1>1, <4>1 DEF OpenAt, StatusAt, Terminal, Finished
      <4> QED BY <1>0, <4>2
    <3>3. CASE Len(log) = 0
      BY <1>0, <1>1, <3>3 DEF OpenAt
    <3> QED BY <1>2, <3>1, <3>2, <3>3
  <2> QED BY <2>1, <2>2
<1>6. CASE n # 0
  <2>0. /\ n \in 1 .. Len(log) /\ StatusAt(n) = log[n].status
        /\ FenceAt(n) = log[n].fence /\ Token(n) /\ log[n] \in Event
    BY <1>2, <1>6 DEF StatusAt, FenceAt
  <2>1. CASE log[n].status = "running-production"
    <3>1. ExpectedVersions(n) = <<n - 1>>
      BY <2>0, <2>1 DEF ExpectedVersions, Finished
    <3>2. Bind(n - 1, FenceAt(n)) /\ FenceAt(n) \in Fences
      BY <2>0, <2>1, FenceOfAssumption DEF Token, Bind
    <3> QED BY <1>3, <3>1, <3>2
  <2>2. CASE log[n].status \in Finished
    <3>1. ExpectedVersions(n) = <<n - 2>>
      BY <2>0, <2>2 DEF ExpectedVersions, Finished
    <3>2. n >= 2 /\ log[n - 1].status = "running-production"
          /\ FenceAt(n) = log[n - 1].fence
      BY <2>0, <2>2 DEF Token
    <3>3. n - 1 \in 1 .. Len(log) /\ (n - 1) - 1 = n - 2
      BY <2>0, <3>2
    <3>4. Bind(n - 2, FenceAt(n)) /\ FenceAt(n) \in Fences
      BY <1>2, <3>2, <3>3, FenceOfAssumption DEF Token, Bind
    <3> QED BY <1>3, <3>1, <3>4
  <2>3. CASE log[n].status = "cancelled"
    <3>1. ExpectedVersions(n) = <<n - 2, n - 1>>
      BY <2>0, <2>3 DEF ExpectedVersions, Finished
    <3>2. FenceAt(n) = Absent /\ n = Len(log)
      BY <1>2, <2>0, <2>3 DEF Token, Terminal
    <3>3. CASE n >= 2
      <4>1. n - 1 \in 1 .. Len(log) /\ (n - 1) - 1 = n - 2 /\ n - 1 # Len(log)
        BY <2>0, <3>2, <3>3
      <4>2. log[n - 1].status = "running-production"
        <5>1. log[n - 1].status \notin Terminal /\ log[n - 1] \in Event
          BY <1>2, <4>1
        <5> QED BY <5>1 DEF Event
      <4>3. {gs \in Bound(n) : VersionOf(gs) = n - 2} # {}
        BY <1>4, <3>2, <4>1, <4>2
      <4> QED BY <3>1, <4>3
    <3>4. CASE n = 1
      <4>1. VersionOf(fs) = n - 1
        BY <1>1, <2>3, <3>2, <3>4 DEF OpenAt, StatusAt
      <4> QED BY <1>0, <3>1, <4>1
    <3> QED BY <2>0, <3>3, <3>4
  <2> QED BY <2>0, <2>1, <2>2, <2>3 DEF Event, Terminal
<1> QED BY <1>5, <1>6

LEMMA ProjectableInv ==
  ASSUME PipeInv, NEW n \in 0 .. Len(log)
  PROVE  Projectable(n) \/ ClaimRecordLost
<1> SUFFICES ASSUME ~ClaimRecordLost, Bound(n) # {}
             PROVE  Projectable(n)
  BY DEF Projectable
<1> DEFINE Of(v) == {fs \in Bound(n) : VersionOf(fs) = v}
           expected == ExpectedVersions(n)
           found == {i \in DOMAIN expected : Of(expected[i]) # {}}
           chosen == CHOOSE i \in found : \A j \in found : i <= j
<1>1. found # {} /\ found \subseteq 1 .. 2
  BY ExpectedThere
<1>2. chosen \in found
  <2> HIDE DEF found
  <2>1. \E i \in found : \A j \in found : i <= j
    <3>1. CASE 1 \in found
      BY <1>1, <3>1
    <3>2. CASE 1 \notin found
      <4>1. \A i \in found : i = 2
        BY <1>1, <3>2
      <4>2. PICK i \in found : TRUE
        BY <1>1
      <4> QED BY <4>1, <4>2
    <3> QED BY <3>1, <3>2
  <2> QED BY <2>1
<1>3. Of(expected[chosen]) # {}
  BY <1>2
<1>4. LegalHistory(n, Of(expected[chosen]))
  <2> HIDE DEF chosen, expected
  <2> QED BY <1>3, OneHistory
<1> QED BY <1>1, <1>4 DEF Projectable

-----------------------------------------------------------------------------
(* The theorems, from the one invariant. *)

\* In a run that is served from the queue, too, no crash and no failure, before
\* or after a write took effect, leaves the terminal event without its bytes,
\* except that the finish of a process with these bytes threw.
THEOREM PipelineCommittedBytes == PipelineSpec => []CommittedBytesKept
<1>1. PipeInv => CommittedBytesKept
  BY DEF PipeInv, SafeInv
<1> QED BY <1>1, PipelineInductive, PTL

\* terminalDisposition's two looks cannot miss the bytes that move from the one
\* place to the other: a run that is called "repair-or-close" is public, or the
\* finish of a process with its result threw, and then it may really be lost.
THEOREM RepairIsPublic == PipelineSpec => []RepairOnlyIfPublic
<1>1. PipeInv => RepairOnlyIfPublic
  <2> SUFFICES ASSUME PipeInv, RepairOrClose
               PROVE  log[Seen].result \in {result} \cup disowned
    BY DEF RepairOnlyIfPublic
  <2>1. SeenStatus \in Finished
    BY DEF PipeInv, ProjectionInv, RepairOrClose
  <2>2. Committed /\ log[Seen] = Latest /\ log[Seen].result \in Result
    BY <2>1, SeenFinished
  <2> QED BY <2>2 DEF PipeInv, SafeInv, CommittedBytesKept, CommittedBytesExist,
                      RepairOrClose, Pending
<1> QED BY <1>1, PipelineInductive, PTL

\* projectRecovery's request is the committer's, and stays it.
THEOREM RecoveryBinds == PipelineSpec => []RecoveryBindingHolds
<1>1. PipeInv => RecoveryBindingHolds
  BY DEF PipeInv
<1> QED BY <1>1, PipelineInductive, PTL

\* What classifyOrphans lists is not the last copy of a committed result, except
\* of one whose finish threw.
THEOREM OrphansAreExpendable == PipelineSpec => []OrphansExpendable
<1>1. PipeInv => OrphansExpendable
  <2> SUFFICES ASSUME PipeInv, projection.step = "sweep",
                      SeenStatus \in Finished,
                      log[Seen].result \notin {result} \cup disowned
               PROVE  \E g \in Fences \ Orphans :
                        transaction[g] = log[Seen].result
    BY DEF OrphansExpendable
  <2>1. Committed /\ log[Seen] = Latest /\ log[Seen].fence \in Fences
    BY SeenFinished
  <2>2. transaction[log[Seen].fence] = log[Seen].result
    BY <2>1 DEF PipeInv, SafeInv, CommittedBytesKept, CommittedBytesExist
  <2>3. log[Seen].fence \notin Orphans
    BY DEF PipeInv, ProjectionInv, Orphans
  <2> QED BY <2>1, <2>2, <2>3
<1> QED BY <1>1, PipelineInductive, PTL

\* However deliveries, reclaims, failures and recoveries interleave with it,
\* the projection of the records throws only when a claim's record was lost.
THEOREM ProgressIsProjectable == PipelineSpec => []ProgressProjectable
<1>1. PipeInv => ProgressProjectable
  BY ProjectableInv DEF PipeInv, ProjectionInv, ProgressProjectable
<1> QED BY <1>1, PipelineInductive, PTL

\* Of all processes that admit a run, one at most is told it is eligible.
THEOREM OneIsEligible == PipelineSpec => []OneEligible
<1>1. PipeInv => OneEligible
  BY DEF PipeInv, AdmissionInv, Told, OneEligible
<1> QED BY <1>1, PipelineInductive, PTL

\* What was admitted is the committed, public, admissible result for good.
THEOREM AdmissionBinds == PipelineSpec => []AdmissionBindsCommitted
<1>1. PipeInv => AdmissionBindsCommitted
  BY DEF PipeInv, AdmissionInv, Admissible, AssertWorkerResult,
         AdmissionBindsCommitted
<1> QED BY <1>1, PipelineInductive, PTL

-----------------------------------------------------------------------------
(* The refinement of RunOutcome: what a step does to the run is what it does  *)
(* to the run of AsyncWorker, and admissions come on top of it.               *)

\* A process that puts the end of a run holds its last claim: the tokens of the
\* claim and of the process are both derived from the version.
LEMMA FinisherHolds ==
  ASSUME PipeInv, NEW w \in Workers, pc[w] = "finishPut", AppendFinish(w)
  PROVE  Holding(w)
<1> USE DEF PipeInv, SafeInv, IInv
<1>1. /\ Extend(FinishEvent(w)) /\ Len(log) = version(w) + 1
      /\ FinishEvent(w).status \in Finished
  BY FinishWrite DEF AppendFinish
<1>2. Status \notin Terminal /\ version(w) \in Nat /\ Len(log) \in 1 .. Len(log)
  BY <1>1 DEF Extend, TypeOK, version
<1>3. Status = "running-production"
  BY <1>1, <1>2, CommittedEvent DEF Status, Latest, TypeOK, Event
<1>4. Bind(Len(log) - 1, Latest.fence) /\ Bind(version(w), fence(w))
  BY <1>2, <1>3 DEF LogTokens, Token, WorkerTokens, Latest, Status
<1> QED BY <1>1, <1>2, <1>3, <1>4 DEF Bind, Holding

\* A step that leaves the admissions alone is one of the carrier's.
LEMMA RunPromised ==
  ASSUME PipeInv, PipelineNext, UNCHANGED admissionVars
  PROVE  [Promised!Next]_(Promised!ovars)
<1> USE DEF PipeInv, SafeInv
<1>1. Changes /\ request' = request /\ Eligible' = Eligible
  BY StepChanges DEF Changes, admissionVars, Eligible
<1>0. CASE Carried!Draft
  BY <1>0, <1>1
     DEF Carried!Draft, Promised!Draft, Promised!Next, admissionVars
<1>2. CASE log' = log /\ result' = result /\ bytes' = bytes
  BY <1>1, <1>2, SameRun DEF Promised!ovars, admissionVars
<1>3. CASE MakePublic /\ bytes' = bytes
  <2>1. [Carried!Publish]_(Carried!ovars)
    BY <1>1, <1>3, PublicCarried
  <2> QED BY <1>1, <2>1
          DEF Carried!Publish, Carried!ovars, Promised!Publish, Promised!Next,
              Promised!ovars, admissionVars
<1>4. ASSUME NEW w \in Workers, pc[w] = "claimPut", AppendClaim(w),
             bytes' = bytes
      PROVE  Promised!Next
  <2>1. Carried!Claim
    BY <1>1, <1>4, ClaimCarried
  <2> QED BY <1>1, <2>1
          DEF Carried!Claim, Carried!Open, Promised!Claim, Promised!Open,
              Promised!Next, admissionVars
<1>5. ASSUME NEW w \in Workers, pc[w] = "finishPut", AppendFinish(w),
             bytes' = bytes
      PROVE  Promised!Next
  <2>1. Carried!Commit
    BY <1>5, FinisherHolds, FinishCarried
  <2> QED BY <1>1, <2>1
          DEF Carried!Commit, Promised!Commit, Promised!Next, admissionVars
<1>6. CASE Cancel
  <2>1. Carried!Cancel
    BY <1>6, CancelCarried
  <2> QED BY <1>1, <2>1
          DEF Carried!Cancel, Carried!Open, Promised!Cancel, Promised!Open,
              Promised!Next, admissionVars
<1> QED BY <1>0, <1>1, <1>2, <1>3, <1>4, <1>5, <1>6 DEF Changes, PutsEvent

\* The record is of the public result, and who created it is told, once.
LEMMA AdmitPromised ==
  ASSUME PipeInv, NEW p \in Foregrounds, Foreground(p)
  PROVE  [Promised!Next]_(Promised!ovars)
<1> USE DEF PipeInv, PipelineTypeOK, AdmissionTypeOK
<1>1. /\ UNCHANGED <<Status, Waiting, Holders, bytes, EndedWith, result>>
      /\ Admit(p)
  BY SameRun DEF Foreground, vars, files
<1>2. CASE admission' = admission /\ Eligible' = Eligible
  BY <1>1, <1>2 DEF Promised!ovars
<1>3. CASE AdmitPublish(p) /\ admission' # admission
  <2>1. Admissible /\ admission = Absent /\ admission' = result
    BY <1>3 DEF AdmitPublish, AdmissionInv, Admissible
  <2>2. result # Absent
    BY <2>1, CommittedEvent
       DEF Admissible, Committed, Finished, SafeInv, IInv
  <2>3. Eligible' = Eligible
    BY <1>3 DEF AdmitPublish, Eligible
  <2> QED BY <1>1, <2>1, <2>2, <2>3
          DEF Promised!Next, Promised!Admit, Admissible, AssertWorkerResult
<1>4. CASE AdmitAnswer(p)
  <2>1. Eligible = {} /\ admission # Absent
    BY <1>4 DEF AdmitAnswer, Eligible, AdmissionInv, Told
  <2>2. Eligible' = {p}
    BY <1>4, <2>1 DEF AdmitAnswer, Eligible
  <2> QED BY <1>1, <1>4, <2>1, <2>2
          DEF Promised!Next, Promised!Tell, AdmitAnswer
<1>5. CASE AdmitChecks(p) \/ AdmitFails(p) \/ AdmitPublish(p)
  <2>1. Eligible' = Eligible
    BY <1>5 DEF AdmitChecks, AdmitFails, AdmitPublish, Eligible
  <2> QED BY <1>2, <1>3, <1>5, <2>1 DEF AdmitChecks, AdmitFails
<1> QED BY <1>1, <1>4, <1>5 DEF Admit

LEMMA StepPromised ==
  ASSUME PipeInv, [PipelineNext]_pipelineVars
  PROVE  [Promised!Next]_(Promised!ovars)
<1>1. CASE UNCHANGED pipelineVars
  BY <1>1, SameRun
     DEF pipelineVars, vars, files, admissionVars, Promised!ovars, Eligible
<1>2. ASSUME NEW p \in Foregrounds, Foreground(p)
      PROVE  [Promised!Next]_(Promised!ovars)
  BY <1>2, AdmitPromised
<1>3. CASE PipelineNext /\ UNCHANGED admissionVars
  BY <1>3, RunPromised
<1> QED BY <1>1, <1>2, <1>3
        DEF PipelineNext, Worker, WorkerFails, ControlPlane, RunDisturbed

LEMMA Init_Promised == ASSUME PipelineInit PROVE Promised!Init
<1>1. Carried!Init
  BY Init_Carried DEF PipelineInit
<1>2. admission = Absent /\ Eligible = {}
  BY DEF PipelineInit, AdmissionInit, Eligible
<1> QED BY <1>1, <1>2 DEF Carried!Init, Promised!Init

\* Whatever workers, control planes and foreground processes do, the run keeps
\* the promises of RunOutcome.
THEOREM PipelineIsRunOutcome == PipelineSpec => ImplementsRunOutcome
<1>1. PipelineInit => Promised!Init
  BY Init_Promised
<1>2. PipeInv /\ [PipelineNext]_pipelineVars => [Promised!Next]_(Promised!ovars)
  BY StepPromised
<1> QED BY <1>1, <1>2, PipelineInductive, PTL
        DEF PipelineSpec, ImplementsRunOutcome, Promised!Spec
=============================================================================
