-------------------------- MODULE AsyncWorker_proofs --------------------------
(* Proofs about AsyncWorker for any set of workers, requests and fences.    *)
EXTENDS AsyncWorker, SequenceTheorems, TLAPS

USE AbsentAssumption, RequestsAssumption

\* The events are well formed, and nothing follows a terminal one.
LogInv ==
  \A i \in 1 .. Len(log) :
    /\ log[i].result # Absent <=> log[i].status \in Finished
    /\ log[i].result # Absent => log[i].result.status = log[i].status
    /\ log[i].status \in Terminal => i = Len(log)

\* An event is put only where the inspection found the run open.
PutReady(w) ==
  /\ pc[w] = "claimPut" =>
       /\ Len(log) >= version(w)
       /\ Len(log) = version(w) => Status \notin Terminal
  /\ pc[w] = "finishPut" =>
       /\ Len(log) >= version(w) + 1
       /\ Len(log) = version(w) + 1 => Status \notin Terminal

\* What a process commits is a result.
Owns(w) ==
  pc[w] \in {"prepare", "finish", "finishPut", "undoInspect", "undo",
             "undoCancelled", "publish", "discard"} => bytes[w] \in Result

\* What it publishes or discards after the event is what the event names.
NamesCommitted(w) ==
  /\ pc[w] \in {"publish", "discard"} \cup RecoverySteps =>
       Committed /\ Latest.fence = fence(w)
  /\ pc[w] \in {"publish", "discard", "recoverPublish", "recoverDiscard"} =>
       bytes[w] = Latest.result
  /\ pc[w] \in {"discard", "recoverDiscard"} => result = Latest.result
  /\ pc[w] = "undoCancelled" => Status = "cancelled"

BeforeItsEvent ==
  {"idle", "claim", "claimPut", "review", "prepare", "finish", "finishPut"}

\* Who stands down has come to no result, or the run is cancelled.
StandsDown(w) ==
  /\ StoodDown(w) => bytes[w] = Absent \/ Status = "cancelled"
  /\ pc[w] \in {"idle", "claim", "claimPut", "review"} => bytes[w] = Absent

\* A completion is the last thing that happens.
Answered(w) == reply[w] # "none" => pc[w] = "done"

Completed(w) ==
  reply[w] \in Finished =>
    /\ Status = reply[w]
    /\ result = Latest.result
    /\ Latest.fence = fence(w)

\* The transaction of a committed run is somebody's who will remove it.
Leftover ==
  Committed /\ transaction[Latest.fence] = Latest.result =>
    PutAgain(Latest.fence, Latest.result)

Local(w) == /\ PutReady(w) /\ Owns(w) /\ NamesCommitted(w) /\ StandsDown(w)
            /\ Answered(w) /\ Completed(w)

IInv == /\ TypeOK /\ LogInv /\ PublicResultIsCommitted
        /\ \A w \in Workers : Local(w)

\* The transaction a process is about to commit holds its result, unless the
\* finish of a process with the same result threw; then the result is disowned.
Prepared(w) ==
  /\ pc[w] \in {"finish", "finishPut"} =>
       transaction[fence(w)] = bytes[w] \/ bytes[w] \in disowned \/ Committed
  /\ pc[w] \in {"undoInspect", "undo", "undoCancelled"} => bytes[w] \in disowned

SafeInv == IInv /\ CommittedBytesKept /\ \A w \in Workers : Prepared(w)

-----------------------------------------------------------------------------
(* What the steps do to the files. *)

\* An event is put in an open run.
Extend(e) ==
  /\ Status \notin Terminal
  /\ e \in Event
  /\ e.result # Absent <=> e.status \in Finished
  /\ e.result # Absent => e.result.status = e.status
  /\ log' = Append(log, e)
  /\ lapsed' \in BOOLEAN
  /\ UNCHANGED <<late, transaction, result>>

\* A transaction is put or removed.
Transact(f, b) ==
  /\ b \in Result \cup {Absent}
  /\ transaction' = [transaction EXCEPT ![f] = b]
  /\ UNCHANGED <<log, lapsed, late, result>>

\* The committed result becomes public.
MakePublic ==
  /\ Committed
  /\ result' = Latest.result
  /\ UNCHANGED <<log, lapsed, late, transaction>>

\* The lease or the deadline passes, or nothing happens.
OnlyTime ==
  /\ lapsed' \in BOOLEAN /\ late' \in BOOLEAN
  /\ UNCHANGED <<log, transaction, result>>

\* The event of a committed run.
LEMMA CommittedEvent ==
  ASSUME TypeOK, LogInv
  PROVE  /\ Len(log) \in Nat
         /\ \A i \in 1 .. Len(log) : log[i] \in Event
         /\ Status \in Terminal \cup {"awaiting-production", "running-production"}
         /\ Committed => /\ Len(log) \in 1 .. Len(log)
                         /\ Latest \in Event
                         /\ Latest.result \in Result
                         /\ Latest.result # Absent
                         /\ Latest.result.status = Status
                         /\ Status \in Terminal
         /\ Status \notin Finished =>
              \A i \in 1 .. Len(log) : log[i].result = Absent
<1> USE DEF TypeOK
<1>1. Len(log) \in Nat /\ \A i \in 1 .. Len(log) : log[i] \in Event
  OBVIOUS
<1>2. log # <<>> => Len(log) \in 1 .. Len(log) /\ Latest \in Event
  BY <1>1, EmptySeq DEF Latest
<1>3. Status \in Terminal \cup {"awaiting-production", "running-production"}
  BY <1>2 DEF Status, Event
<1>4. Committed => log # <<>>
  BY DEF Committed, Status, Finished
<1>5. Committed => /\ Latest.result \in Result
                   /\ Latest.result # Absent
                   /\ Latest.result.status = Status
                   /\ Status \in Terminal
  BY <1>2, <1>4 DEF Committed, Status, LogInv, Event, Latest, Terminal
<1>6. ASSUME Status \notin Finished, NEW i \in 1 .. Len(log), log[i].result # Absent
      PROVE  FALSE
  <2>1. log[i].status \in Finished /\ i = Len(log)
    BY <1>6 DEF LogInv, Terminal
  <2>2. log # <<>>
    BY <1>6, <1>1
  <2> QED BY <2>1, <2>2, <1>6 DEF Status, Latest
<1> QED BY <1>1, <1>2, <1>3, <1>4, <1>5, <1>6

LEMMA ExtendFacts ==
  ASSUME TypeOK, LogInv, NEW e, Extend(e)
  PROVE  /\ log' \in Seq(Event)
         /\ Len(log') = Len(log) + 1
         /\ \A i \in 1 .. Len(log) : log'[i] = log[i]
         /\ \A i \in 1 .. Len(log) : log[i].status \notin Terminal
         /\ log'[Len(log) + 1] = e
         /\ Latest' = e /\ Status' = e.status
         /\ ~Committed
<1> USE DEF TypeOK, Extend
<1>1. /\ log' \in Seq(Event)
      /\ Len(log') = Len(log) + 1 /\ Len(log) \in Nat
      /\ \A i \in 1 .. Len(log) : log'[i] = log[i]
      /\ log'[Len(log) + 1] = e
  OBVIOUS
<1>2. log' # <<>>
  <2>1. Len(log') # 0
    BY <1>1
  <2> QED BY <2>1
<1>3. ASSUME NEW i \in 1 .. Len(log), log[i].status \in Terminal
      PROVE  FALSE
  <2>1. i = Len(log) /\ log # <<>>
    BY <1>3, <1>1 DEF LogInv
  <2> QED BY <2>1, <1>3 DEF Status, Latest
<1> QED BY <1>1, <1>2, <1>3 DEF Latest, Status, Committed, Terminal

\* The part of the invariant that is about files alone.
FilesInv ==
  /\ log \in Seq(Event)
  /\ lapsed \in BOOLEAN /\ late \in BOOLEAN
  /\ transaction \in [Fences -> Result \cup {Absent}]
  /\ result \in Result \cup {Absent}
  /\ LogInv
  /\ PublicResultIsCommitted

LEMMA FilesStep ==
  ASSUME IInv,
         \/ \E e : Extend(e)
         \/ \E f \in Fences : \E b : Transact(f, b)
         \/ MakePublic
         \/ OnlyTime
  PROVE  FilesInv'
<1> USE DEF IInv, TypeOK
<1>1. ASSUME NEW e, Extend(e) PROVE FilesInv'
  <2>1. LogInv'
    BY <1>1, ExtendFacts DEF LogInv, Extend
  <2>2. result = Absent
    BY <1>1, ExtendFacts DEF PublicResultIsCommitted
  <2> QED BY <1>1, <2>1, <2>2, ExtendFacts
          DEF FilesInv, Extend, PublicResultIsCommitted
<1>2. ASSUME NEW f \in Fences, NEW b, Transact(f, b) PROVE FilesInv'
  BY <1>2 DEF FilesInv, Transact, LogInv, PublicResultIsCommitted, Committed,
              Status, Latest
<1>3. ASSUME MakePublic PROVE FilesInv'
  BY <1>3, CommittedEvent
     DEF FilesInv, MakePublic, LogInv, PublicResultIsCommitted, Committed,
         Status, Latest
<1>4. ASSUME OnlyTime PROVE FilesInv'
  BY <1>4 DEF FilesInv, OnlyTime, LogInv, PublicResultIsCommitted, Committed,
              Status, Latest
<1> QED BY <1>1, <1>2, <1>3, <1>4

\* A process is not disturbed by what others do to the files: an open run
\* that gets longer fails its put, and a run that ended stays as it is.
LEMMA OthersStep ==
  ASSUME IInv, NEW v \in Workers,
         \/ \E e : Extend(e)
         \/ \E f \in Fences : \E b : Transact(f, b)
         \/ MakePublic
         \/ OnlyTime,
         request' = request, pc'[v] = pc[v], bytes'[v] = bytes[v],
         reply'[v] = reply[v]
  PROVE  Local(v)'
<1> USE DEF IInv, Local
<1> Local(v) /\ version(v) \in Nat /\ fence(v) \in Fences
  BY DEF TypeOK, version, fence
<1>1. version(v)' = version(v) /\ fence(v)' = fence(v)
  BY DEF version, fence
<1>2. Owns(v)' /\ Answered(v)'
  BY DEF Owns, Answered
<1>3. ASSUME NEW e, Extend(e) PROVE Local(v)'
  <2> USE ExtendFacts, CommittedEvent, <1>3, <1>1
  <2>1. PutReady(v)'
    BY DEF PutReady
  <2>2. ~Committed /\ Status # "cancelled"
    BY DEF Extend, Terminal
  <2>3. NamesCommitted(v)'
    BY <2>2 DEF NamesCommitted, RecoverySteps
  <2>4. StandsDown(v)'
    BY <2>2 DEF StandsDown, StoodDown
  <2>5. Completed(v)'
    BY <2>2 DEF Completed, Committed
  <2> QED BY <1>2, <2>1, <2>3, <2>4, <2>5
<1>4. ASSUME log' = log
      PROVE  PutReady(v)' /\ StandsDown(v)' /\ Latest' = Latest
             /\ Status' = Status /\ (Committed' <=> Committed)
  BY <1>1, <1>4 DEF PutReady, StandsDown, StoodDown, Latest, Status, Committed
<1>5. ASSUME NEW f \in Fences, NEW b, Transact(f, b) PROVE Local(v)'
  <2>1. NamesCommitted(v)'
    BY <1>1, <1>4, <1>5 DEF NamesCommitted, Transact
  <2>2. Completed(v)'
    BY <1>1, <1>4, <1>5 DEF Completed, Transact, TypeOK, Committed
  <2> QED BY <1>2, <1>4, <1>5, <2>1, <2>2 DEF Transact
<1>6. ASSUME MakePublic PROVE Local(v)'
  <2>1. NamesCommitted(v)'
    BY <1>1, <1>4, <1>6 DEF NamesCommitted, MakePublic
  <2>2. Completed(v)'
    BY <1>1, <1>4, <1>6 DEF Completed, MakePublic
  <2> QED BY <1>2, <1>4, <1>6, <2>1, <2>2 DEF MakePublic
<1>7. ASSUME OnlyTime PROVE Local(v)'
  <2>1. NamesCommitted(v)' /\ Completed(v)'
    BY <1>1, <1>4, <1>7 DEF NamesCommitted, Completed, OnlyTime
  <2> QED BY <1>2, <1>4, <1>7, <2>1 DEF OnlyTime
<1> QED BY <1>3, <1>5, <1>6, <1>7

-----------------------------------------------------------------------------
(* The steps of a process. *)

\* A step of w that keeps w's own part keeps all.
LEMMA ActorStep ==
  ASSUME IInv, NEW w \in Workers,
         NEW p \in Steps, NEW r \in Terminal \cup {"none", "error"},
         NEW b \in Result \cup {Absent},
         \/ \E e : Extend(e)
         \/ \E f \in Fences : \E t : Transact(f, t)
         \/ MakePublic
         \/ OnlyTime,
         request' = request,
         attempt' \in [Workers -> 1 .. 2],
         disowned' \subseteq Result,
         pc' = [pc EXCEPT ![w] = p],
         reply' = [reply EXCEPT ![w] = r],
         bytes' = [bytes EXCEPT ![w] = b],
         Local(w)'
  PROVE  IInv'
<1>1. FilesInv'
  BY FilesStep
<1>2. TypeOK'
  BY <1>1 DEF IInv, TypeOK, FilesInv
<1>3. ASSUME NEW v \in Workers, v # w PROVE Local(v)'
  <2>1. pc'[v] = pc[v] /\ reply'[v] = reply[v] /\ bytes'[v] = bytes[v]
    BY <1>3
  <2> QED BY <2>1, <1>3, OthersStep
<1> QED BY <1>1, <1>2, <1>3 DEF IInv, FilesInv

\* The answer of a process that is still running.
LEMMA Running ==
  ASSUME IInv, NEW w \in Workers, pc[w] # "done"
  PROVE  reply[w] = "none" /\ reply = [reply EXCEPT ![w] = "none"]
BY DEF IInv, TypeOK, Local, Answered

\* A step to p that leaves the files, with what w holds there.
LEMMA GotoStep ==
  ASSUME IInv, NEW w \in Workers, NEW p \in Steps \ {"done"},
         NEW b \in Result \cup {Absent},
         pc[w] # "done", Goto(w, p), bytes' = [bytes EXCEPT ![w] = b],
         p = "undoInspect" => bytes[w] \in Result,
         request' = request, attempt' \in [Workers -> 1 .. 2],
         UNCHANGED files,
         (PutReady(w) /\ Owns(w) /\ NamesCommitted(w) /\ StandsDown(w))'
  PROVE  IInv'
<1>1. reply' = [reply EXCEPT ![w] = "none"] /\ reply'[w] = "none"
  BY Running DEF Goto, IInv, TypeOK
<1>2. Local(w)'
  BY <1>1 DEF Local, Answered, Completed, Finished
<1>3. OnlyTime
  BY DEF OnlyTime, files, IInv, TypeOK
<1>4. disowned' \subseteq Result
  BY DEF Goto, IInv, TypeOK
<1> QED BY <1>1, <1>2, <1>3, <1>4, ActorStep DEF Goto

\* An answer after any change of the files.
LEMMA AnswerStep ==
  ASSUME IInv, NEW w \in Workers, NEW r \in Terminal \cup {"error"},
         \/ \E e : Extend(e)
         \/ \E f \in Fences : \E t : Transact(f, t)
         \/ MakePublic
         \/ OnlyTime,
         Answer(w, r), UNCHANGED <<request, attempt, bytes>>,
         r = "cancelled" => bytes[w] = Absent \/ Status' = "cancelled",
         r \in Finished => (/\ Status = r
                            /\ result = Latest.result
                            /\ Latest.fence = fence(w))'
  PROVE  IInv'
<1>1. pc'[w] = "done" /\ reply'[w] = r /\ bytes' = [bytes EXCEPT ![w] = bytes[w]]
  BY DEF Answer, IInv, TypeOK
<1>2. Local(w)'
  BY <1>1 DEF Local, PutReady, Owns, NamesCommitted, StandsDown,
              StoodDown, Answered, Completed, RecoverySteps
<1>3. "done" \in Steps /\ bytes[w] \in Result \cup {Absent}
      /\ attempt' \in [Workers -> 1 .. 2] /\ disowned' \subseteq Result
  BY DEF Steps, Answer, IInv, TypeOK
<1> QED BY <1>1, <1>2, <1>3, ActorStep DEF Answer

\* An exception: the process only keeps what it owned.
LEMMA EscapeStep ==
  ASSUME IInv, NEW w \in Workers, pc[w] # "done",
         \/ \E e : Extend(e)
         \/ \E f \in Fences : \E t : Transact(f, t)
         \/ MakePublic
         \/ OnlyTime,
         Escape(w), UNCHANGED <<request, attempt, bytes>>
  PROVE  IInv'
<1>1. CASE Answer(w, "error")
  BY <1>1, AnswerStep DEF Terminal, Finished
<1>2. ASSUME NEW p \in {"undoInspect", "catch"}, Goto(w, p),
             p = "undoInspect" => pc[w] \in {"finish", "finishPut"}
      PROVE  IInv'
  <2>1. pc'[w] = p /\ reply' = [reply EXCEPT ![w] = "none"]
        /\ reply'[w] = "none" /\ bytes' = [bytes EXCEPT ![w] = bytes[w]]
    BY <1>2, Running DEF Goto, IInv, TypeOK
  <2>2. Owns(w)'
    BY <1>2, <2>1 DEF Owns, IInv, Local
  <2>3. Local(w)'
    BY <2>1, <2>2
       DEF Local, PutReady, NamesCommitted, StandsDown, StoodDown,
           Answered, Completed, RecoverySteps, Finished
  <2>4. p \in Steps /\ bytes[w] \in Result \cup {Absent}
        /\ attempt' \in [Workers -> 1 .. 2] /\ disowned' \subseteq Result
    BY <1>2 DEF Steps, Goto, IInv, TypeOK, Local, Owns
  <2> QED BY <1>2, <2>1, <2>3, <2>4, ActorStep DEF Goto
<1> QED BY <1>1, <1>2 DEF Escape

\* The writes, each with what its place in the program guarantees.
LEMMA ClaimWrite ==
  ASSUME IInv, NEW w \in Workers, pc[w] = "claimPut", AppendClaim(w)
  PROVE  Extend(ClaimEvent(w)) /\ ClaimEvent(w).result = Absent
BY DEF IInv, TypeOK, Local, PutReady, AppendClaim, Extend, ClaimEvent, Event,
       Finished, Terminal, fence, version

LEMMA FinishWrite ==
  ASSUME IInv, NEW w \in Workers, pc[w] = "finishPut", AppendFinish(w)
  PROVE  /\ Extend(FinishEvent(w))
         /\ FinishEvent(w).result = bytes[w] /\ bytes[w] \in Result
         /\ FinishEvent(w).status \in Finished
<1>1. bytes[w] \in Result /\ fence(w) \in Fences
  BY DEF IInv, TypeOK, Local, Owns, fence
<1>2. Status \notin Terminal
  BY DEF IInv, TypeOK, Local, PutReady, AppendFinish
<1>3. FinishEvent(w) \in Event
  BY <1>1 DEF FinishEvent, Event, Result, Terminal
<1>4. /\ FinishEvent(w).result = bytes[w] /\ bytes[w] # Absent
      /\ FinishEvent(w).status = bytes[w].status /\ bytes[w].status \in Finished
  BY <1>1 DEF FinishEvent, Result
<1> QED BY <1>1, <1>2, <1>3, <1>4 DEF Extend, AppendFinish, IInv, TypeOK

LEMMA PrepareWrite ==
  ASSUME IInv, NEW w \in Workers, pc[w] = "prepare", PutTransaction(w)
  PROVE  Transact(fence(w), bytes[w]) /\ fence(w) \in Fences
BY DEF IInv, TypeOK, Local, Owns, fence, Transact, PutTransaction

LEMMA RemoveWrite ==
  ASSUME IInv, NEW w \in Workers, RemoveTransaction(w)
  PROVE  Transact(fence(w), Absent) /\ fence(w) \in Fences
BY CommittedEvent DEF IInv, TypeOK, Transact, RemoveTransaction, fence

LEMMA ResultWrite ==
  ASSUME IInv, NEW w \in Workers, pc[w] \in {"publish", "recoverPublish"},
         PutResult(w)
  PROVE  MakePublic
BY DEF IInv, Local, NamesCommitted, RecoverySteps, MakePublic, PutResult

LEMMA FailStep ==
  ASSUME IInv, NEW w \in Workers,
         WriteRefused(w) \/ FailBefore(w) \/ FailAfter(w)
  PROVE  IInv'
<1>1. pc[w] # "done"
  BY DEF WriteRefused, FailBefore, FailAfter, Write
<1>2. CASE UNCHANGED files
  <2>1. OnlyTime
    BY <1>2 DEF OnlyTime, files, IInv, TypeOK
  <2> QED BY <1>1, <2>1, EscapeStep DEF WriteRefused, FailBefore, FailAfter
<1>3. CASE FailAfter(w)
  <2>1. \/ \E e : Extend(e)
        \/ \E f \in Fences : \E t : Transact(f, t)
        \/ MakePublic
    BY <1>3, ClaimWrite, FinishWrite, PrepareWrite, RemoveWrite, ResultWrite
       DEF FailAfter, Write
  <2> QED BY <1>1, <1>3, <2>1, EscapeStep DEF FailAfter
<1> QED BY <1>2, <1>3 DEF WriteRefused, FailBefore

\* Recovery: the run is committed, and stays so.
LEMMA RecoverStep ==
  ASSUME IInv, NEW w \in Workers,
         \/ Recover(w) \/ RecoverResult(w) \/ RecoverTransaction(w)
         \/ RecoverPublish(w) \/ RecoverDiscard(w)
  PROVE  IInv'
<1> USE CommittedEvent DEF IInv, TypeOK
<1>0. Local(w) /\ fence(w) \in Fences /\ bytes[w] \in Result \cup {Absent}
      /\ bytes = [bytes EXCEPT ![w] = bytes[w]]
  BY DEF fence
<1>1. ASSUME UNCHANGED files
      PROVE  Latest' = Latest /\ Status' = Status /\ (Committed' <=> Committed)
             /\ OnlyTime
  BY <1>1 DEF files, Latest, Status, Committed, OnlyTime
<1>2. ASSUME request' = request PROVE fence(w)' = fence(w)
  BY <1>2 DEF fence
<1>3. ASSUME Answer(w, "error"), UNCHANGED <<request, attempt, bytes, files>>
      PROVE  IInv'
  BY <1>1, <1>3, AnswerStep DEF Terminal, Finished
<1>4. ASSUME Recover(w) PROVE IInv'
  <2>1. ASSUME Goto(w, "claim") PROVE IInv'
    <3>1. bytes[w] = Absent /\ reply[w] = "none"
      BY <1>0, <1>4, Running DEF Recover, Local, StandsDown
    <3>2. (PutReady(w) /\ Owns(w) /\ NamesCommitted(w) /\ StandsDown(w))'
      BY <1>1, <1>4, <2>1, <3>1
         DEF Recover, Goto, PutReady, Owns, NamesCommitted, StandsDown,
             StoodDown, RecoverySteps
    <3> QED BY <1>0, <1>4, <2>1, <3>2, GotoStep DEF Recover, Steps
  <2>2. ASSUME Goto(w, "recoverResult"), Status \in Finished,
               Latest.fence = fence(w)
        PROVE  IInv'
    <3>1. reply[w] = "none"
      BY <1>4, Running DEF Recover
    <3>2. (PutReady(w) /\ Owns(w) /\ NamesCommitted(w) /\ StandsDown(w))'
      BY <1>1, <1>2, <1>4, <2>2, <3>1
         DEF Recover, Goto, PutReady, Owns, NamesCommitted, StandsDown,
             StoodDown, RecoverySteps, Committed
    <3> QED BY <1>0, <1>4, <2>2, <3>2, GotoStep DEF Recover, Steps, RecoverySteps
  <2> QED BY <1>3, <1>4, <2>1, <2>2 DEF Recover
<1>5. ASSUME NEW p \in {"recoverTransaction", "recoverPublish", "recoverDiscard"},
             NEW b \in Result \cup {Absent},
             pc[w] \in RecoverySteps, Goto(w, p), UNCHANGED <<request, attempt>>,
             bytes' = [bytes EXCEPT ![w] = b],
             OnlyTime \/ MakePublic,
             p # "recoverTransaction" => b = Latest.result,
             p = "recoverDiscard" => result' = Latest.result
      PROVE  IInv'
  <2>1. Committed /\ Latest.fence = fence(w)
    BY <1>0, <1>5 DEF Local, NamesCommitted
  <2>2. log' = log
    BY <1>5 DEF OnlyTime, MakePublic
  <2>3. Latest' = Latest /\ Committed' /\ fence(w)' = fence(w)
    BY <2>1, <2>2, <1>2, <1>5 DEF Latest, Status, Committed
  <2>4. reply[w] = "none" /\ reply' = [reply EXCEPT ![w] = "none"]
    BY <1>5, Running DEF Goto, RecoverySteps
  <2>5. Local(w)'
    BY <1>5, <2>1, <2>3, <2>4
       DEF Goto, Local, PutReady, Owns, NamesCommitted, StandsDown, StoodDown,
           RecoverySteps, Answered, Completed, Finished
  <2> QED BY <1>5, <2>4, <2>5, ActorStep DEF Goto, Steps, RecoverySteps
<1>6. ASSUME RecoverResult(w) PROVE IInv'
  <2>0. Latest.result # Absent
    BY <1>0, <1>6 DEF RecoverResult, Local, NamesCommitted, RecoverySteps
  <2>1. CASE result = Absent
    <3>1. Goto(w, "recoverTransaction") /\ UNCHANGED bytes
      BY <2>0, <2>1, <1>6 DEF RecoverResult
    <3> QED BY <3>1, <1>0, <1>1, <1>5, <1>6 DEF RecoverResult, RecoverySteps
  <2>2. CASE result # Absent /\ result = Latest.result
    BY <2>2, <1>1, <1>5, <1>6 DEF RecoverResult, RecoverySteps, files
  <2>3. CASE result # Absent /\ result # Latest.result
    BY <2>3, <1>3, <1>6 DEF RecoverResult
  <2> QED BY <2>1, <2>2, <2>3
<1>7. ASSUME RecoverTransaction(w) PROVE IInv'
  <2>1. CASE transaction[fence(w)] = Latest.result
    <3>1. Latest.result \in Result \cup {Absent}
      BY <2>1, <1>0
    <3> QED BY <2>1, <3>1, <1>1, <1>5, <1>7 DEF RecoverTransaction, RecoverySteps
  <2>2. CASE transaction[fence(w)] # Latest.result
    BY <2>2, <1>3, <1>7 DEF RecoverTransaction
  <2> QED BY <2>1, <2>2
<1>8. ASSUME RecoverPublish(w) PROVE IInv'
  <2>1. MakePublic
    BY <1>8, ResultWrite DEF RecoverPublish
  <2>2. bytes[w] = Latest.result
    BY <1>0, <1>8 DEF RecoverPublish, Local, NamesCommitted
  <2> QED BY <2>1, <2>2, <1>0, <1>5, <1>8
          DEF RecoverPublish, RecoverySteps, MakePublic
<1>9. ASSUME RecoverDiscard(w) PROVE IInv'
  <2>1. Transact(fence(w), Absent)
    BY <1>9, RemoveWrite DEF RecoverDiscard
  <2>2. Committed /\ result = Latest.result /\ Latest.result # Absent
        /\ Status \in Finished /\ Latest.fence = fence(w)
    BY <1>0, <1>9 DEF RecoverDiscard, Local, NamesCommitted, RecoverySteps,
                      Committed
  <2>3. Latest' = Latest /\ Status' = Status /\ result' = result
    BY <1>0, <1>2, <1>9, <2>1 DEF RecoverDiscard, Transact, Latest, Status
  <2>4. Latest.status = Status
    BY <2>2 DEF Status, Finished
  <2>5. Latest'.fence = fence(w)'
    BY <1>2, <1>9, <2>2, <2>3 DEF RecoverDiscard
  <2> QED BY <1>0, <1>9, <2>1, <2>2, <2>3, <2>4, <2>5, AnswerStep
          DEF RecoverDiscard, Terminal, Finished
<1> QED BY <1>4, <1>6, <1>7, <1>8, <1>9

\* Steps on the way to the event: the process has ended nothing yet.
LEMMA OnTheWay ==
  ASSUME IInv, NEW w \in Workers, NEW p \in BeforeItsEvent,
         NEW b \in Result \cup {Absent},
         OnlyTime \/ (\E f \in Fences : \E t : Transact(f, t))
                  \/ (\E e : Extend(e) /\ e.result = Absent),
         Goto(w, p), bytes' = [bytes EXCEPT ![w] = b], pc[w] # "done",
         request' = request, attempt' \in [Workers -> 1 .. 2],
         PutReady(w)',
         IF p \in {"prepare", "finish", "finishPut"}
         THEN b \in Result ELSE b = Absent
  PROVE  IInv'
<1>1. pc'[w] = p /\ bytes'[w] = b
      /\ reply' = [reply EXCEPT ![w] = "none"] /\ reply'[w] = "none"
  BY Running DEF Goto, IInv, TypeOK
<1>2. Local(w)'
  BY <1>1 DEF Local, Owns, NamesCommitted, StandsDown, StoodDown,
              BeforeItsEvent, RecoverySteps, Answered, Completed, Finished
<1>3. p \in Steps /\ disowned' \subseteq Result
  BY DEF Steps, BeforeItsEvent, Goto, IInv, TypeOK
<1> QED BY <1>1, <1>2, <1>3, ActorStep DEF Goto

LEMMA ClaimStep ==
  ASSUME IInv, NEW w \in Workers,
         Claim(w) \/ PutClaim(w) \/ MatchClaim(w) \/ Review(w)
  PROVE  IInv'
<1> USE DEF IInv, TypeOK
<1>0. /\ Local(w) /\ fence(w) \in Fences /\ version(w) \in Nat /\ Len(log) \in Nat
      /\ bytes[w] \in Result \cup {Absent}
      /\ bytes = [bytes EXCEPT ![w] = bytes[w]]
      /\ bytes[w] = Absent /\ pc[w] # "done"
  BY DEF fence, version, Claim, PutClaim, MatchClaim, Review, Local, StandsDown
<1>1. ASSUME UNCHANGED files, request' = request
      PROVE  /\ Status' = Status /\ OnlyTime
             /\ version(w)' = version(w) /\ Len(log') = Len(log)
  BY <1>0, <1>1 DEF files, Latest, Status, OnlyTime, version
<1>2. ASSUME NEW r \in {"error", "cancelled"}, Answer(w, r),
             UNCHANGED <<request, attempt, bytes, files>>
      PROVE  IInv'
  BY <1>0, <1>1, <1>2, AnswerStep DEF Terminal, Finished
<1>3. ASSUME Claim(w) PROVE IInv'
  <2>1. ASSUME Goto(w, "claimPut"), Len(log) = version(w), Claimable
        PROVE  IInv'
    <3>1. Status \notin Terminal
      BY <2>1 DEF Claimable, Terminal, Finished
    <3>2. PutReady(w)'
      BY <1>0, <1>1, <1>3, <2>1, <3>1 DEF Claim, Goto, PutReady
    <3> QED BY <1>0, <1>1, <1>3, <2>1, <3>2, OnTheWay DEF Claim, BeforeItsEvent
  <2> QED BY <1>2, <1>3, <2>1 DEF Claim
<1>4. ASSUME PutClaim(w) PROVE IInv'
  <2>1. Extend(ClaimEvent(w)) /\ ClaimEvent(w).result = Absent
    BY <1>4, ClaimWrite DEF PutClaim
  <2>2. PutReady(w)'
    BY <1>4 DEF PutClaim, Goto, PutReady
  <2> QED BY <1>0, <1>4, <2>1, <2>2, OnTheWay DEF PutClaim, BeforeItsEvent
<1>5. ASSUME MatchClaim(w) PROVE IInv'
  <2>1. PutReady(w)'
    BY <1>5 DEF MatchClaim, Goto, PutReady
  <2> QED BY <1>0, <1>1, <1>5, <2>1, OnTheWay DEF MatchClaim, BeforeItsEvent
<1>6. ASSUME Review(w) PROVE IInv'
  <2>1. ASSUME NEW c \in Contents, NEW s \in Finished, Goto(w, "prepare"),
               bytes' = [bytes EXCEPT ![w] = [content |-> c, status |-> s]]
        PROVE  IInv'
    <3>1. PutReady(w)'
      BY <2>1 DEF Goto, PutReady
    <3>2. [content |-> c, status |-> s] \in Result
      BY DEF Result
    <3> QED BY <1>0, <1>1, <1>6, <2>1, <3>1, <3>2, OnTheWay
            DEF Review, BeforeItsEvent
  <2> QED BY <1>2, <1>6, <2>1 DEF Review
<1> QED BY <1>3, <1>4, <1>5, <1>6

\* The event that a second delivery finds is the last one.
LEMMA MatchedFinish ==
  ASSUME IInv, NEW w \in Workers, MatchFinish(w)
  PROVE  Latest = FinishEvent(w) /\ Committed
<1> USE DEF IInv, TypeOK, MatchFinish
<1>1. version(w) \in Nat /\ Len(log) \in Nat /\ bytes[w] \in Result
  BY DEF version, Local, Owns
<1>2. version(w) + 2 \in 1 .. Len(log) /\ FinishEvent(w).status \in Finished
  BY <1>1 DEF FinishEvent, Result
<1>3. version(w) + 2 = Len(log) /\ log # <<>>
  BY <1>1, <1>2 DEF LogInv, Terminal
<1> QED BY <1>2, <1>3 DEF Latest, Committed, Status

LEMMA CommitStep ==
  ASSUME IInv, NEW w \in Workers,
         Prepare(w) \/ Finish(w) \/ PutFinish(w) \/ MatchFinish(w)
  PROVE  IInv'
<1> USE DEF IInv, TypeOK
<1>0. /\ Local(w) /\ fence(w) \in Fences /\ version(w) \in Nat /\ Len(log) \in Nat
      /\ bytes[w] \in Result /\ bytes = [bytes EXCEPT ![w] = bytes[w]]
      /\ pc[w] # "done"
  BY DEF fence, version, Prepare, Finish, PutFinish, MatchFinish, Local, Owns
<1>1. ASSUME Prepare(w) PROVE IInv'
  <2>1. Transact(fence(w), bytes[w])
    BY <1>1, PrepareWrite DEF Prepare
  <2>2. PutReady(w)'
    BY <1>0, <1>1, <2>1 DEF PutReady, Prepare, Goto, Transact
  <2> QED BY <1>0, <1>1, <2>1, <2>2, OnTheWay DEF Prepare, BeforeItsEvent
<1>2. ASSUME Finish(w) PROVE IInv'
  <2>1. /\ Status' = Status /\ OnlyTime
        /\ version(w)' = version(w) /\ Len(log') = Len(log)
    BY <1>0, <1>2 DEF Finish, files, Latest, Status, OnlyTime, version
  <2>2. ASSUME Holding(w), Goto(w, "finishPut") PROVE IInv'
    <3>1. PutReady(w)'
      BY <1>0, <2>1, <2>2 DEF Holding, Goto, PutReady, Terminal, Finished
    <3> QED BY <1>0, <1>2, <2>1, <2>2, <3>1, OnTheWay DEF Finish, BeforeItsEvent
  <2>3. ASSUME Goto(w, "undoInspect") PROVE IInv'
    <3>1. (PutReady(w) /\ Owns(w) /\ NamesCommitted(w) /\ StandsDown(w))'
      BY <1>0, <1>2, <2>1, <2>3, Running
         DEF Finish, Goto, PutReady, Owns, NamesCommitted, StandsDown,
             StoodDown, RecoverySteps
    <3> QED BY <1>0, <1>2, <2>3, <3>1, GotoStep DEF Finish, Steps
  <2> QED BY <1>2, <2>2, <2>3 DEF Finish
<1>3. ASSUME Goto(w, "publish"), UNCHANGED <<request, attempt, bytes>>,
             (\E e : Extend(e)) \/ OnlyTime,
             (Committed /\ Latest = FinishEvent(w))'
      PROVE  IInv'
  <2>1. /\ reply[w] = "none" /\ reply' = [reply EXCEPT ![w] = "none"]
        /\ pc'[w] = "publish" /\ bytes'[w] = bytes[w]
        /\ FinishEvent(w)' = FinishEvent(w)
    BY <1>0, <1>3, Running DEF Goto, FinishEvent, fence
  <2>2. /\ FinishEvent(w).result = bytes[w] /\ FinishEvent(w).fence = fence(w)
        /\ fence(w)' = fence(w)
    BY <1>3 DEF FinishEvent, fence
  <2>3. Local(w)'
    BY <1>0, <1>3, <2>1, <2>2
       DEF Local, PutReady, Owns, NamesCommitted, StandsDown, StoodDown,
           RecoverySteps, Answered, Completed, Finished
  <2>4. "publish" \in Steps /\ disowned' \subseteq Result
    BY <1>3 DEF Steps, Goto
  <2> QED BY <1>0, <1>3, <2>1, <2>3, <2>4, ActorStep DEF Goto
<1>4. ASSUME PutFinish(w) PROVE IInv'
  <2>1. Extend(FinishEvent(w)) /\ FinishEvent(w).status \in Finished
    BY <1>4, FinishWrite DEF PutFinish
  <2>2. Latest' = FinishEvent(w) /\ Committed' /\ FinishEvent(w)' = FinishEvent(w)
    BY <1>4, <2>1, ExtendFacts DEF Committed, PutFinish, FinishEvent, fence
  <2> QED BY <1>3, <1>4, <2>1, <2>2 DEF PutFinish
<1>5. ASSUME MatchFinish(w) PROVE IInv'
  <2>1. Latest = FinishEvent(w) /\ Committed
    BY <1>5, MatchedFinish
  <2>2. Latest' = Latest /\ Committed' /\ FinishEvent(w)' = FinishEvent(w)
        /\ OnlyTime
    BY <1>5, <2>1 DEF MatchFinish, files, Latest, Status, Committed, FinishEvent,
                      fence, OnlyTime
  <2> QED BY <1>3, <1>5, <2>1, <2>2 DEF MatchFinish
<1> QED BY <1>1, <1>2, <1>4, <1>5

LEMMA UndoStep ==
  ASSUME IInv, NEW w \in Workers, UndoInspect(w) \/ Undo(w)
  PROVE  IInv'
<1> USE DEF IInv, TypeOK
<1>0. Local(w) /\ pc[w] # "done" /\ bytes[w] \in Result
      /\ bytes = [bytes EXCEPT ![w] = bytes[w]]
  BY DEF UndoInspect, Undo, Local, Owns
<1>1. ASSUME UndoInspect(w) PROVE IInv'
  <2>1. Status' = Status
    BY <1>1 DEF UndoInspect, files, Latest, Status
  <2>2. reply[w] = "none"
    BY <1>0, Running
  <2>3. ASSUME NEW p \in {"undo", "undoCancelled"}, Goto(w, p),
               p = "undoCancelled" => Status = "cancelled"
        PROVE  IInv'
    <3>1. (PutReady(w) /\ Owns(w) /\ NamesCommitted(w) /\ StandsDown(w))'
      BY <1>0, <1>1, <2>1, <2>2, <2>3
         DEF UndoInspect, Goto, PutReady, Owns, NamesCommitted, StandsDown,
             StoodDown, RecoverySteps
    <3> QED BY <1>0, <1>1, <2>3, <3>1, GotoStep DEF UndoInspect, Steps
  <2> QED BY <1>1, <2>3 DEF UndoInspect
<1>2. ASSUME Undo(w) PROVE IInv'
  <2>1. Transact(fence(w), Absent) /\ fence(w) \in Fences
    BY <1>2, RemoveWrite DEF Undo
  <2>2. CASE pc[w] = "undo"
    BY <1>0, <1>2, <2>1, <2>2, EscapeStep DEF Undo
  <2>3. CASE pc[w] = "undoCancelled"
    <3>1. Status = "cancelled"
      BY <1>0, <2>3 DEF Local, NamesCommitted
    <3>2. Status' = "cancelled"
      BY <2>1, <3>1 DEF Status, Latest, Transact
    <3> QED BY <1>2, <2>1, <2>3, <3>2, AnswerStep DEF Undo, Terminal, Finished
  <2> QED BY <1>2, <2>2, <2>3 DEF Undo
<1> QED BY <1>1, <1>2

LEMMA PublishStep ==
  ASSUME IInv, NEW w \in Workers, Publish(w) \/ Discard(w)
  PROVE  IInv'
<1> USE DEF IInv, TypeOK
<1>0. /\ Local(w) /\ pc[w] # "done" /\ bytes[w] \in Result
      /\ bytes = [bytes EXCEPT ![w] = bytes[w]]
      /\ Committed /\ bytes[w] = Latest.result /\ Latest.fence = fence(w)
  BY DEF Publish, Discard, Local, Owns, NamesCommitted
<1>1. ASSUME Publish(w) PROVE IInv'
  <2>1. MakePublic
    BY <1>1, ResultWrite DEF Publish
  <2>2. Latest' = Latest /\ Committed' /\ result' = Latest.result
    BY <1>0, <2>1 DEF MakePublic, Latest, Committed, Status
  <2>3. reply[w] = "none" /\ reply' = [reply EXCEPT ![w] = "none"]
        /\ pc'[w] = "discard" /\ bytes'[w] = bytes[w]
    BY <1>0, <1>1, Running DEF Publish, Goto
  <2>4. Local(w)'
    BY <1>0, <1>1, <2>2, <2>3
       DEF Publish, Goto, Local, PutReady, Owns, NamesCommitted, StandsDown,
           StoodDown, RecoverySteps, Answered, Completed, Finished, fence
  <2>5. "publish" \in Steps /\ disowned' \subseteq Result
    BY <1>1 DEF Publish, Goto, Steps
  <2> QED BY <1>0, <1>1, <2>1, <2>3, <2>4, <2>5, ActorStep
          DEF Publish, Goto, Steps
<1>2. ASSUME Discard(w) PROVE IInv'
  <2>1. Transact(fence(w), Absent) /\ fence(w) \in Fences
    BY <1>2, RemoveWrite DEF Discard
  <2>2. result = Latest.result /\ Status = bytes[w].status /\ bytes[w] # Absent
        /\ Status \in Finished
    BY <1>0, <1>2, CommittedEvent DEF Discard, Local, NamesCommitted, Committed
  <2>3. Latest' = Latest /\ Status' = Status /\ result' = result
        /\ fence(w)' = fence(w)
    BY <1>2, <2>1 DEF Discard, Transact, Latest, Status, fence
  <2> QED BY <1>0, <1>2, <2>1, <2>2, <2>3, AnswerStep
          DEF Discard, Terminal, Finished
<1> QED BY <1>1, <1>2

LEMMA CatchStep ==
  ASSUME IInv, NEW w \in Workers, Catch(w)
  PROVE  IInv'
<1> USE DEF IInv, TypeOK
<1>0. Status' = Status /\ Latest' = Latest /\ OnlyTime /\ pc[w] # "done"
  BY DEF Catch, files, Status, Latest, OnlyTime
<1>2. ASSUME Holding(w), NEW c \in Contents, NEW s \in {"failed", "stale"},
             Goto(w, "prepare"),
             bytes' = [bytes EXCEPT ![w] = [content |-> c, status |-> s]],
             attempt' = [attempt EXCEPT ![w] = 2]
      PROVE  IInv'
  <2>1. [content |-> c, status |-> s] \in Result
    BY DEF Result, Finished
  <2>2. PutReady(w)'
    BY <1>0, <1>2 DEF Goto, PutReady
  <2>3. attempt' \in [Workers -> 1 .. 2]
    BY <1>2
  <2>4. request' = request /\ "prepare" \in BeforeItsEvent
    BY DEF Catch, BeforeItsEvent
  <2> QED BY <1>0, <1>2, <2>1, <2>2, <2>3, <2>4, OnTheWay
<1>3. ASSUME NEW r \in {"cancelled", "error"}, Answer(w, r),
             r = "cancelled" => Status = "cancelled", UNCHANGED <<attempt, bytes>>
      PROVE  IInv'
  BY <1>0, <1>3, AnswerStep DEF Catch, Terminal, Finished
<1> QED BY <1>2, <1>3 DEF Catch

LEMMA CrashStep ==
  ASSUME IInv, NEW w \in Workers, Crash(w)
  PROVE  IInv'
<1> USE DEF IInv, TypeOK
<1>1. bytes = [bytes EXCEPT ![w] = bytes[w]] /\ bytes[w] \in Result \cup {Absent}
      /\ pc'[w] = "crashed" /\ reply[w] = "none" /\ reply' = reply
  BY Running DEF Crash, Goto
<1>2. (PutReady(w) /\ Owns(w) /\ NamesCommitted(w) /\ StandsDown(w))'
  BY <1>1 DEF PutReady, Owns, NamesCommitted, StandsDown, StoodDown,
              RecoverySteps
<1> QED BY <1>1, <1>2, GotoStep DEF Crash, Steps

\* The foreground and the clock.
LEMMA OutsideStep ==
  ASSUME IInv, Cancel \/ LeaseLapses \/ DeadlinePasses
  PROVE  IInv'
<1> USE DEF IInv
<1>1. \/ \E e : Extend(e) /\ e.result = Absent
      \/ OnlyTime
  <2>1. CASE Cancel
    <3> DEFINE e == [status |-> "cancelled", fence |-> Absent, result |-> Absent]
    <3>1. e \in Event /\ e.result = Absent /\ e.status \notin Finished
      BY DEF Event, Terminal, Finished
    <3>2. Status \notin Terminal
      BY <2>1 DEF Cancel, Terminal, Finished
    <3>3. Extend(e)
      BY <2>1, <3>1, <3>2 DEF Cancel, Extend, TypeOK
    <3> QED BY <3>1, <3>3
  <2>2. CASE LeaseLapses \/ DeadlinePasses
    BY <2>2 DEF LeaseLapses, DeadlinePasses, OnlyTime, TypeOK
  <2> QED BY <2>1, <2>2
<1>2. UNCHANGED <<request, pc, attempt, bytes, reply, disowned>>
  BY DEF Cancel, LeaseLapses, DeadlinePasses
<1>3. FilesInv'
  BY <1>1, FilesStep
<1>4. TypeOK'
  BY <1>2, <1>3 DEF TypeOK, FilesInv
<1>5. ASSUME NEW v \in Workers PROVE Local(v)'
  BY <1>1, <1>2, OthersStep
<1> QED BY <1>3, <1>4, <1>5 DEF FilesInv

LEMMA StutterStep == ASSUME IInv, UNCHANGED vars PROVE IInv'
<1>1. OnlyTime
  BY DEF OnlyTime, vars, files, IInv, TypeOK
<1>2. FilesInv'
  BY <1>1, FilesStep
<1>3. ASSUME NEW v \in Workers PROVE Local(v)'
  BY <1>1, OthersStep DEF vars
<1> QED BY <1>2, <1>3 DEF IInv, TypeOK, FilesInv, vars, files

LEMMA Init_IInv == Init => IInv
<1> SUFFICES ASSUME Init PROVE IInv
  OBVIOUS
<1> USE DEF Init
<1>1. Len(log) = 0 /\ log \in Seq(Event) /\ 1 .. 0 = {}
  OBVIOUS
<1>2. TypeOK
  <2>1. pc \in [Workers -> Steps] /\ attempt \in [Workers -> 1 .. 2]
    BY DEF Steps
  <2>2. /\ bytes \in [Workers -> Result \cup {Absent}]
        /\ reply \in [Workers -> Terminal \cup {"none", "error"}]
        /\ transaction \in [Fences -> Result \cup {Absent}]
    OBVIOUS
  <2>3. lapsed \in BOOLEAN /\ late \in BOOLEAN
    OBVIOUS
  <2> QED BY <1>1, <2>1, <2>2, <2>3 DEF TypeOK
<1>3. LogInv /\ PublicResultIsCommitted
  BY <1>1 DEF LogInv, PublicResultIsCommitted
<1>4. \A w \in Workers : Local(w)
  BY <1>1 DEF Local, PutReady, Owns, NamesCommitted, StandsDown, StoodDown,
              Answered, Completed, RecoverySteps, Finished
<1> QED BY <1>2, <1>3, <1>4 DEF IInv

LEMMA Next_IInv == IInv /\ [Next]_vars => IInv'
BY FailStep, RecoverStep, ClaimStep, CommitStep, UndoStep, PublishStep,
   CatchStep, CrashStep, OutsideStep, StutterStep
   DEF Next, Execute, Terminated

LEMMA Inductive == Spec => []IInv
BY Init_IInv, Next_IInv, PTL DEF Spec

\* Type correctness.
THEOREM TypeCorrect == Spec => []TypeOK
BY Inductive, PTL DEF IInv

\* Whatever crashes, fails or races, result.json is the one the terminal event
\* names.
THEOREM PublicIsCommitted == Spec => []PublicResultIsCommitted
BY Inductive, PTL DEF IInv

\* A process that stands down has not ended the run.
THEOREM StandDown == Spec => []CancelledNeverCommits
<1>1. ASSUME IInv, NEW w \in Workers, StoodDown(w),
             NEW i \in 1 .. Len(log), log[i].result # Absent
      PROVE  log[i].result # bytes[w]
  <2>1. CASE bytes[w] = Absent
    BY <1>1, <2>1
  <2>2. CASE Status = "cancelled"
    BY <1>1, <2>2, CommittedEvent DEF IInv, Finished
  <2> QED BY <1>1, <2>1, <2>2 DEF IInv, Local, StandsDown
<1>2. IInv => CancelledNeverCommits
  BY <1>1 DEF CancelledNeverCommits
<1> QED BY <1>2, Inductive, PTL

\* The conflict of the public result is unreachable: who is about to publish,
\* after its event or in a recovery, finds nothing or its own bytes there, so
\* that no committed result is refused for good.
THEOREM PublicationNeverConflicts ==
  Spec => [](\A w \in Workers : pc[w] \in {"publish", "recoverPublish"} =>
               result \in {Absent, bytes[w]})
<1>1. IInv => \A w \in Workers : pc[w] \in {"publish", "recoverPublish"} =>
                result \in {Absent, bytes[w]}
  BY DEF IInv, Local, NamesCommitted, PublicResultIsCommitted
<1> QED BY <1>1, Inductive, PTL

-----------------------------------------------------------------------------
(* What a step of a process does, by the write in it.  Others are not         *)
(* touched, and it changes its bytes only in steps that write nothing.        *)

Step(w) == Execute(w) \/ FailBefore(w) \/ FailAfter(w) \/ Crash(w)

LEMMA StepKinds ==
  ASSUME TypeOK, NEW w \in Workers, Step(w)
  PROVE  /\ request' = request /\ disowned \subseteq disowned'
         /\ \A v \in Workers \ {w} : /\ pc'[v] = pc[v] /\ bytes'[v] = bytes[v]
                                     /\ reply'[v] = reply[v]
         /\ UNCHANGED files \/ (Write(w) /\ bytes' = bytes)
         /\ reply'[w] \in Finished =>
              \/ reply'[w] = reply[w]
              \/ pc[w] \in {"discard", "recoverDiscard"} /\ RemoveTransaction(w)
<1> USE DEF TypeOK
<1>1. CASE Recover(w) \/ RecoverResult(w) \/ RecoverTransaction(w)
  BY <1>1 DEF Recover, RecoverResult, RecoverTransaction, Goto, Answer, Finished
<1>2. CASE RecoverPublish(w) \/ RecoverDiscard(w)
  BY <1>2 DEF RecoverPublish, RecoverDiscard, Goto, Answer, Write
<1>3. CASE Claim(w) \/ PutClaim(w) \/ MatchClaim(w) \/ Review(w)
  BY <1>3 DEF Claim, PutClaim, MatchClaim, Review, Goto, Answer, Write, Finished
<1>4. CASE Prepare(w) \/ Finish(w) \/ PutFinish(w) \/ MatchFinish(w)
  BY <1>4 DEF Prepare, Finish, PutFinish, MatchFinish, Goto, Write
<1>5. CASE UndoInspect(w) \/ Undo(w)
  BY <1>5 DEF UndoInspect, Undo, Escape, Goto, Answer, Write, Finished
<1>6. CASE Publish(w) \/ Discard(w)
  BY <1>6 DEF Publish, Discard, Goto, Answer, Write
<1>7. CASE Catch(w)
  BY <1>7 DEF Catch, Goto, Answer, Finished
<1>8. CASE WriteRefused(w) \/ FailBefore(w) \/ FailAfter(w) \/ Crash(w)
  BY <1>8 DEF WriteRefused, FailBefore, FailAfter, Crash, Escape, Goto, Answer,
              Finished
<1> QED BY <1>1, <1>2, <1>3, <1>4, <1>5, <1>6, <1>7, <1>8 DEF Step, Execute

\* What a process comes to hold: a new result, or the committed one.
LEMMA BytesKinds ==
  ASSUME IInv, NEW w \in Workers, Step(w), bytes' # bytes
  PROVE  /\ UNCHANGED files
         /\ \E r \in Result :
              /\ bytes' = [bytes EXCEPT ![w] = r]
              /\ bytes[w] = Absent \/ r = Latest.result \/ ~Committed
<1> USE DEF IInv, TypeOK
<1>1. CASE Review(w)
  <2>1. bytes[w] = Absent
    BY <1>1 DEF Review, Local, StandsDown
  <2> QED BY <1>1, <2>1 DEF Review, Result
<1>2. CASE Catch(w)
  <2>1. ~Committed
    BY <1>2 DEF Catch, Holding, Committed, Finished
  <2> QED BY <1>2, <2>1 DEF Catch, Result, Finished
<1>3. CASE RecoverResult(w) \/ RecoverTransaction(w)
  <2>1. Latest.result \in Result
    BY <1>3, CommittedEvent
       DEF RecoverResult, RecoverTransaction, Local, NamesCommitted, RecoverySteps
  <2> QED BY <1>3, <2>1 DEF RecoverResult, RecoverTransaction
<1> QED BY <1>1, <1>2, <1>3
        DEF Step, Execute, FailBefore, FailAfter, Crash, Recover, RecoverPublish,
            RecoverDiscard, Claim, PutClaim, MatchClaim, Prepare, Finish,
            PutFinish, MatchFinish, UndoInspect, Undo, Publish, Discard,
            WriteRefused

\* The writes, as changes of the files.
LEMMA WriteKinds ==
  ASSUME IInv, NEW w \in Workers, Write(w)
  PROVE  /\ fence(w) \in Fences
         /\ \/ Extend(ClaimEvent(w)) /\ ClaimEvent(w).result = Absent
            \/ /\ pc[w] = "finishPut" /\ Extend(FinishEvent(w))
               /\ FinishEvent(w).result = bytes[w]
               /\ FinishEvent(w).fence = fence(w)
            \/ /\ pc[w] = "prepare" /\ bytes[w] \in Result
               /\ transaction[fence(w)] \in {Absent, bytes[w]}
               /\ Transact(fence(w), bytes[w])
            \/ /\ pc[w] \in {"discard", "recoverDiscard", "undo", "undoCancelled"}
               /\ transaction[fence(w)] \in {Absent, bytes[w]}
               /\ Transact(fence(w), Absent)
            \/ MakePublic
<1>1. fence(w) \in Fences
  BY DEF IInv, TypeOK, fence
<1>2. CASE pc[w] = "claimPut"
  BY <1>1, <1>2, ClaimWrite DEF Write
<1>3. CASE pc[w] = "finishPut"
  BY <1>1, <1>3, FinishWrite DEF Write, FinishEvent
<1>4. CASE pc[w] = "prepare"
  BY <1>1, <1>4, PrepareWrite DEF Write, PutTransaction, IInv, Local, Owns
<1>5. CASE pc[w] \in {"discard", "recoverDiscard", "undo", "undoCancelled"}
  BY <1>1, <1>5, RemoveWrite DEF Write, RemoveTransaction
<1>6. CASE pc[w] \in {"publish", "recoverPublish"}
  BY <1>1, <1>6, ResultWrite DEF Write
<1> QED BY <1>2, <1>3, <1>4, <1>5, <1>6 DEF Write

LEMMA CancelExtends ==
  ASSUME IInv, Cancel
  PROVE  \E e : Extend(e) /\ e.status = "cancelled"
<1> DEFINE e == [status |-> "cancelled", fence |-> Absent, result |-> Absent]
<1>1. e \in Event /\ e.result = Absent /\ e.status \notin Finished
  BY DEF Event, Terminal, Finished
<1>2. Status \notin Terminal
  BY DEF Cancel, Terminal, Finished
<1>3. Extend(e)
  BY <1>1, <1>2 DEF Cancel, Extend, IInv, TypeOK
<1> QED BY <1>3

-----------------------------------------------------------------------------
(* What is left under transactions/ when the run is over. *)

LEMMA LeftoverStep ==
  ASSUME IInv, Leftover, NEW w \in Workers, Step(w)
  PROVE  Leftover'
<1> USE DEF IInv
<1> SUFFICES ASSUME Committed', transaction'[Latest'.fence] = Latest'.result
             PROVE  PutAgain(Latest.fence, Latest.result)'
  BY DEF Leftover
<1>1. /\ request' = request
      /\ \A v \in Workers : fence(v)' = fence(v)
      /\ \A v \in Workers \ {w} : bytes'[v] = bytes[v] /\ reply'[v] = reply[v]
  BY StepKinds DEF fence
<1>2. ASSUME pc[w] \notin {"discard", "recoverDiscard"}, reply'[w] \in Finished
      PROVE  reply[w] \in Finished
  BY <1>2, StepKinds
<1>3. ASSUME log' = log PROVE Latest' = Latest /\ Committed /\ Latest.result \in Result
  BY <1>3, CommittedEvent DEF Latest, Committed, Status
<1>4. CASE UNCHANGED files
  <2>1. log' = log /\ transaction' = transaction
    BY <1>4 DEF files
  <2>2. PICK v \in Workers :
          fence(v) = Latest.fence /\ bytes[v] = Latest.result
          /\ reply[v] \notin Finished
    BY <1>3, <2>1 DEF Leftover, PutAgain
  <2>3. CASE v # w
    BY <1>1, <1>3, <2>1, <2>2, <2>3 DEF PutAgain
  <2>4. CASE v = w
    <3>1. bytes'[w] = Latest.result
      <4>1. CASE bytes' = bytes
        BY <2>2, <2>4, <4>1
      <4>2. CASE bytes' # bytes
        BY <1>3, <2>1, <2>2, <2>4, <4>2, BytesKinds, AbsentAssumption DEF TypeOK
      <4> QED BY <4>1, <4>2
    <3>2. ~RemoveTransaction(w)
      <4>1. fence(w) \in Fences /\ fence(w) = Latest.fence
        BY <2>2, <2>4 DEF TypeOK, fence
      <4> QED BY <1>3, <2>1, <4>1 DEF RemoveTransaction, TypeOK
    <3>3. reply'[w] \notin Finished
      BY <2>2, <2>4, <3>2, StepKinds
    <3> QED BY <1>1, <1>3, <2>1, <2>2, <2>4, <3>1, <3>3 DEF PutAgain
  <2> QED BY <2>3, <2>4
<1>5. ASSUME Write(w), bytes' = bytes
      PROVE  PutAgain(Latest.fence, Latest.result)'
  <2>0. fence(w) \in Fences
    BY <1>5, WriteKinds
  <2>1. CASE Extend(ClaimEvent(w)) /\ ClaimEvent(w).result = Absent
    BY <2>1, ExtendFacts DEF Extend, Committed
  <2>2. CASE /\ pc[w] = "finishPut" /\ Extend(FinishEvent(w))
             /\ FinishEvent(w).result = bytes[w]
             /\ FinishEvent(w).fence = fence(w)
    <3>1. Latest' = FinishEvent(w) /\ bytes'[w] = bytes[w]
      BY <1>5, <2>2, ExtendFacts
    <3>2. reply'[w] \notin Finished
      BY <1>2, <2>2, Running DEF Finished
    <3> QED BY <1>1, <2>2, <3>1, <3>2 DEF PutAgain
  <2>3. ASSUME log' = log, transaction'[Latest.fence] = transaction[Latest.fence],
               pc[w] \notin {"discard", "recoverDiscard"} \/ fence(w) # Latest.fence
        PROVE  PutAgain(Latest.fence, Latest.result)'
    <3>1. PICK v \in Workers :
            fence(v) = Latest.fence /\ bytes[v] = Latest.result
            /\ reply[v] \notin Finished
      BY <1>3, <2>3 DEF Leftover, PutAgain
    <3>2. reply'[v] \notin Finished
      BY <1>1, <1>2, <2>3, <3>1
    <3> QED BY <1>1, <1>3, <1>5, <2>3, <3>1, <3>2 DEF PutAgain
  <2>4. CASE pc[w] = "prepare" /\ Transact(fence(w), bytes[w])
    <3>1. log' = log /\ transaction' = [transaction EXCEPT ![fence(w)] = bytes[w]]
      BY <2>4 DEF Transact
    <3>2. CASE fence(w) # Latest.fence
      BY <2>3, <2>4, <3>1, <3>2 DEF TypeOK
    <3>3. CASE fence(w) = Latest.fence
      <4>1. bytes[w] = Latest.result
        BY <1>3, <2>0, <3>1, <3>3 DEF TypeOK
      <4>2. reply'[w] \notin Finished
        BY <1>2, <2>4, Running DEF Finished
      <4> QED BY <1>1, <1>3, <1>5, <3>1, <3>3, <4>1, <4>2 DEF PutAgain
    <3> QED BY <3>2, <3>3
  <2>5. CASE Transact(fence(w), Absent)
    <3>1. log' = log /\ transaction' = [transaction EXCEPT ![fence(w)] = Absent]
      BY <2>5 DEF Transact
    <3>2. fence(w) # Latest.fence
      BY <1>3, <2>0, <3>1 DEF TypeOK
    <3> QED BY <2>3, <3>1, <3>2 DEF TypeOK
  <2>6. CASE MakePublic
    <3>1. pc[w] \notin {"discard", "recoverDiscard"} \/ transaction'[fence(w)] = Absent
      BY <1>5, <2>0 DEF Write, RemoveTransaction, TypeOK
    <3> QED BY <1>3, <2>3, <2>6, <3>1 DEF MakePublic
  <2> QED BY <1>5, <2>1, <2>2, <2>4, <2>5, <2>6, WriteKinds
<1> QED BY <1>4, <1>5, StepKinds

LEMMA LeftoverNext == IInv /\ Leftover /\ [Next]_vars => Leftover'
<1> SUFFICES ASSUME IInv, Leftover, [Next]_vars PROVE Leftover'
  OBVIOUS
<1>1. CASE Cancel
  BY <1>1, CancelExtends, ExtendFacts DEF Leftover, Committed, Finished, IInv
<1>2. CASE LeaseLapses \/ DeadlinePasses \/ UNCHANGED vars
  BY <1>2 DEF LeaseLapses, DeadlinePasses, vars, files, Leftover, PutAgain,
              Committed, Status, Latest, fence
<1> QED BY <1>1, <1>2, LeftoverStep DEF Next, Step, Terminated

\* A completion that a process reports is the run's end, and stays so.
THEOREM CompletionsAreFinal == Spec => []CompletionIsFinal
<1>1. Init => Leftover
  BY DEF Init, Leftover, Committed, Status, Finished
<1>2. IInv /\ Leftover => CompletionIsFinal
  BY DEF IInv, Local, Completed, Committed, Leftover, CompletionIsFinal
<1> QED BY <1>1, <1>2, LeftoverNext, Inductive, PTL DEF Spec

-----------------------------------------------------------------------------
(* The bytes of the terminal event. *)

\* Where a step leads to the finish, and into its handler.
LEMMA ToFinish ==
  ASSUME TypeOK, NEW w \in Workers, Step(w)
  PROVE  /\ pc'[w] = "finish" => Prepare(w)
         /\ pc'[w] = "finishPut" => Finish(w) /\ UNCHANGED files
         /\ pc'[w] = "undoInspect" => bytes' = bytes /\ bytes[w] \in disowned'
         /\ pc'[w] \in {"undo", "undoCancelled"} => UndoInspect(w)
<1> USE DEF TypeOK
<1>1. CASE Recover(w) \/ RecoverResult(w) \/ RecoverTransaction(w)
  BY <1>1 DEF Recover, RecoverResult, RecoverTransaction, Goto, Answer
<1>2. CASE RecoverPublish(w) \/ RecoverDiscard(w)
  BY <1>2 DEF RecoverPublish, RecoverDiscard, Goto, Answer
<1>3. CASE Claim(w) \/ PutClaim(w) \/ MatchClaim(w) \/ Review(w)
  BY <1>3 DEF Claim, PutClaim, MatchClaim, Review, Goto, Answer
<1>4. CASE Prepare(w) \/ Finish(w) \/ PutFinish(w) \/ MatchFinish(w)
  BY <1>4 DEF Prepare, Finish, PutFinish, MatchFinish, Goto
<1>5. CASE UndoInspect(w) \/ Undo(w)
  BY <1>5 DEF UndoInspect, Undo, Escape, Goto, Answer
<1>6. CASE Publish(w) \/ Discard(w)
  BY <1>6 DEF Publish, Discard, Goto, Answer
<1>7. CASE Catch(w)
  BY <1>7 DEF Catch, Goto, Answer
<1>8. CASE WriteRefused(w) \/ FailBefore(w) \/ FailAfter(w) \/ Crash(w)
  BY <1>8 DEF WriteRefused, FailBefore, FailAfter, Crash, Escape, Goto, Answer
<1> QED BY <1>1, <1>2, <1>3, <1>4, <1>5, <1>6, <1>7, <1>8 DEF Step, Execute

\* The bytes of a transaction that a process removes are public, or its finish
\* threw.
LEMMA Removable ==
  ASSUME SafeInv, NEW w \in Workers,
         pc[w] \in {"discard", "recoverDiscard", "undo", "undoCancelled"}
  PROVE  \/ bytes[w] \in disowned
         \/ Committed /\ bytes[w] = Latest.result /\ result = Latest.result
BY DEF SafeInv, IInv, Local, NamesCommitted, Prepared, RecoverySteps

LEMMA KeptStep ==
  ASSUME SafeInv, NEW w \in Workers, Step(w)
  PROVE  CommittedBytesKept'
<1> USE DEF SafeInv, IInv
<1>0. disowned \subseteq disowned'
  BY StepKinds
<1>1. ASSUME log' = log
      PROVE  Latest' = Latest /\ (Committed' <=> Committed)
             /\ (Committed => Latest.result \in Result)
  BY <1>1, CommittedEvent DEF Latest, Status, Committed
<1>2. CASE UNCHANGED files
  BY <1>0, <1>1, <1>2 DEF files, CommittedBytesKept, CommittedBytesExist
<1>3. ASSUME Write(w) PROVE CommittedBytesKept'
  <2>0. fence(w) \in Fences
    BY <1>3, WriteKinds
  <2>1. CASE Extend(ClaimEvent(w)) /\ ClaimEvent(w).result = Absent
    BY <2>1, ExtendFacts
       DEF Extend, Committed, CommittedBytesKept, CommittedBytesExist
  <2>2. CASE /\ pc[w] = "finishPut" /\ Extend(FinishEvent(w))
             /\ FinishEvent(w).result = bytes[w]
             /\ FinishEvent(w).fence = fence(w)
    <3>1. Latest' = FinishEvent(w) /\ ~Committed /\ transaction' = transaction
      BY <2>2, ExtendFacts DEF Extend
    <3>2. transaction[fence(w)] = bytes[w] \/ bytes[w] \in disowned
      BY <2>2, <3>1 DEF Prepared
    <3> QED BY <1>0, <2>2, <3>1, <3>2 DEF CommittedBytesKept, CommittedBytesExist
  <2>3. ASSUME NEW b \in {bytes[w], Absent}, Transact(fence(w), b),
               transaction[fence(w)] \in {Absent, bytes[w]},
               b = Absent => \/ bytes[w] \in disowned
                             \/ bytes[w] = Latest.result /\ result = Latest.result
        PROVE  CommittedBytesKept'
    <3> SUFFICES ASSUME Committed, Latest.result \notin disowned,
                        result # Latest.result
                 PROVE  transaction'[Latest.fence] = Latest.result
      BY <1>0, <1>1, <2>3 DEF Transact, CommittedBytesKept, CommittedBytesExist
    <3>1. transaction[Latest.fence] = Latest.result
      BY DEF CommittedBytesKept, CommittedBytesExist
    <3>2. CASE fence(w) # Latest.fence
      BY <2>3, <3>1, <3>2 DEF Transact, TypeOK
    <3>3. CASE fence(w) = Latest.fence
      <4>1. bytes[w] = Latest.result /\ b = bytes[w]
        BY <1>1, <2>3, <3>1, <3>3 DEF Transact
      <4> QED BY <2>0, <2>3, <3>3, <4>1 DEF Transact, TypeOK
    <3> QED BY <3>2, <3>3
  <2>4. CASE pc[w] = "prepare" /\ Transact(fence(w), bytes[w])
             /\ transaction[fence(w)] \in {Absent, bytes[w]}
             /\ bytes[w] \in Result
    BY <2>3, <2>4
  <2>5. CASE /\ pc[w] \in {"discard", "recoverDiscard", "undo", "undoCancelled"}
             /\ transaction[fence(w)] \in {Absent, bytes[w]}
             /\ Transact(fence(w), Absent)
    BY <2>3, <2>5, Removable
  <2>6. CASE MakePublic
    BY <1>1, <2>6 DEF MakePublic, CommittedBytesKept, CommittedBytesExist
  <2> QED BY <1>3, <2>1, <2>2, <2>4, <2>5, <2>6, WriteKinds
<1> QED BY <1>2, <1>3, StepKinds

LEMMA PreparedStep ==
  ASSUME SafeInv, NEW w \in Workers, Step(w), NEW v \in Workers
  PROVE  Prepared(v)'
<1> USE DEF SafeInv, IInv
<1>0. /\ disowned \subseteq disowned' /\ fence(v)' = fence(v)
      /\ fence(v) \in Fences
  BY StepKinds DEF fence, TypeOK
<1>1. Committed => Committed'
  <2>1. CASE log' = log
    BY <2>1 DEF Committed, Status, Latest
  <2>2. CASE log' # log
    BY <2>2, StepKinds, WriteKinds, ExtendFacts DEF files, Transact, MakePublic
  <2> QED BY <2>1, <2>2
<1>2. CASE v # w
  <2>1. pc'[v] = pc[v] /\ bytes'[v] = bytes[v]
    BY <1>2, StepKinds
  <2>2. ASSUME pc[v] \in {"finish", "finishPut"}, transaction[fence(v)] = bytes[v]
        PROVE  \/ transaction'[fence(v)] = bytes[v]
               \/ bytes[v] \in disowned \/ Committed
    <3>1. bytes[v] # Absent
      BY <2>2 DEF Local, Owns
    <3>2. CASE transaction' = transaction
      BY <2>2, <3>2
    <3>3. ASSUME NEW b \in {bytes[w], Absent}, Transact(fence(w), b),
                 transaction[fence(w)] \in {Absent, bytes[w]},
                 b = Absent => bytes[w] \in disowned \/ Committed
          PROVE  \/ transaction'[fence(v)] = bytes[v]
                 \/ bytes[v] \in disowned \/ Committed
      <4>1. CASE fence(v) # fence(w)
        BY <1>0, <2>2, <3>3, <4>1 DEF Transact, TypeOK
      <4>2. CASE fence(v) = fence(w)
        BY <1>0, <2>2, <3>1, <3>3, <4>2 DEF Transact, TypeOK
      <4> QED BY <4>1, <4>2
    <3>4. CASE pc[w] = "prepare" /\ Transact(fence(w), bytes[w])
               /\ transaction[fence(w)] \in {Absent, bytes[w]}
               /\ bytes[w] \in Result
      BY <3>3, <3>4
    <3>5. CASE /\ pc[w] \in {"discard", "recoverDiscard", "undo", "undoCancelled"}
               /\ transaction[fence(w)] \in {Absent, bytes[w]}
               /\ Transact(fence(w), Absent)
      BY <3>3, <3>5, Removable
    <3> QED BY <3>2, <3>4, <3>5, StepKinds, WriteKinds
            DEF files, Extend, MakePublic
  <2> QED BY <1>0, <1>1, <2>1, <2>2 DEF Prepared
<1>3. CASE v = w
  <2>1. CASE pc'[w] = "finish"
    <3>1. Prepare(w)
      BY <2>1, ToFinish DEF Step
    <3> QED BY <1>0, <1>3, <2>1, <3>1
            DEF Prepare, PutTransaction, Prepared, TypeOK
  <2>2. CASE pc'[w] = "finishPut"
    <3>1. Finish(w) /\ UNCHANGED files
      BY <2>2, ToFinish
    <3> QED BY <1>0, <1>1, <1>3, <2>2, <3>1 DEF Finish, Prepared, files
  <2>3. CASE pc'[w] = "undoInspect"
    BY <1>3, <2>3, ToFinish DEF Prepared
  <2>4. CASE pc'[w] \in {"undo", "undoCancelled"}
    <3>1. UndoInspect(w)
      BY <2>4, ToFinish
    <3> QED BY <1>0, <1>3, <2>4, <3>1 DEF UndoInspect, Prepared
  <2> QED BY <1>3, <2>1, <2>2, <2>3, <2>4 DEF Prepared
<1> QED BY <1>2, <1>3

LEMMA WorkerSafe ==
  ASSUME SafeInv, NEW w \in Workers, Step(w)
  PROVE  SafeInv'
<1>1. IInv'
  BY Next_IInv DEF SafeInv, Next, Step
<1> QED BY <1>1, KeptStep, PreparedStep DEF SafeInv

LEMMA OutsideSafe ==
  ASSUME SafeInv, Cancel \/ LeaseLapses \/ DeadlinePasses \/ UNCHANGED vars
  PROVE  SafeInv'
<1>1. IInv'
  BY OutsideStep, StutterStep DEF SafeInv
<1>2. UNCHANGED <<request, pc, bytes, disowned, transaction, result>>
  BY DEF Cancel, LeaseLapses, DeadlinePasses, vars, files
<1>3. CASE Cancel
  <2>1. ~Committed' /\ ~Committed
    BY <1>3, CancelExtends, ExtendFacts DEF Committed, Finished, SafeInv, IInv
  <2>2. \A v \in Workers : Prepared(v)'
    BY <1>2, <2>1 DEF SafeInv, Prepared, fence
  <2> QED BY <1>1, <2>1, <2>2 DEF SafeInv, CommittedBytesKept, CommittedBytesExist
<1>4. CASE log' = log
  <2>1. Latest' = Latest /\ (Committed' <=> Committed)
    BY <1>4 DEF Latest, Committed, Status
  <2>2. \A v \in Workers : Prepared(v)'
    BY <1>2, <2>1 DEF SafeInv, Prepared, fence
  <2> QED BY <1>1, <1>2, <2>1, <2>2
          DEF SafeInv, CommittedBytesKept, CommittedBytesExist
<1> QED BY <1>3, <1>4 DEF LeaseLapses, DeadlinePasses, vars, files

LEMMA Init_SafeInv == Init => SafeInv
<1> SUFFICES ASSUME Init PROVE SafeInv
  OBVIOUS
<1>1. CommittedBytesKept /\ \A w \in Workers : Prepared(w)
  BY DEF Init, CommittedBytesKept, CommittedBytesExist, Committed, Status,
         Finished, Prepared
<1> QED BY <1>1, Init_IInv DEF SafeInv

\* No crash, cancellation, second delivery, reclaim or failure, before or after
\* a write took effect, leaves a terminal event without its bytes, except that
\* the finish of a process with these bytes threw.
THEOREM CommittedBytes == Spec => []CommittedBytesKept
<1>1. SafeInv /\ [Next]_vars => SafeInv'
  BY WorkerSafe, OutsideSafe DEF Next, Step, Terminated
<1>2. SafeInv => CommittedBytesKept
  BY DEF SafeInv
<1> QED BY Init_SafeInv, <1>1, <1>2, PTL DEF Spec

-----------------------------------------------------------------------------
(* The refinement of RunOutcome.  The lemmas on the ways in which the run can *)
(* change say nothing of program counters, so that they serve the pipeline.   *)

\* Where the finish is about to be put, the claim of w is the last event.
HoldsAtPut ==
  \A w \in Workers :
    pc[w] = "finishPut" /\ Len(log) = version(w) + 1 => Holding(w)

\* What the run is depends on log, requests and result only.
LEMMA SameRun ==
  ASSUME log' = log, request' = request
  PROVE  /\ Status' = Status /\ Waiting' = Waiting /\ Holders' = Holders
         /\ EndedWith' = EndedWith
BY DEF Status, Latest, Waiting, Holders, Holding, EndedWith, Committed, version,
       fence

\* A claim goes to processes that have waited for it, and supersedes the rest.
LEMMA ClaimCarried ==
  ASSUME IInv, NEW w \in Workers, pc[w] = "claimPut", AppendClaim(w),
         request' = request, bytes' = bytes
  PROVE  Carried!Claim
<1> USE DEF IInv
<1>1. Extend(ClaimEvent(w)) /\ Len(log) = version(w)
  BY ClaimWrite DEF AppendClaim
<1>2. /\ Status \notin Terminal /\ Len(log) \in Nat
      /\ Len(log') = Len(log) + 1
      /\ Latest' = ClaimEvent(w) /\ Status' = "running-production"
  BY <1>1, ExtendFacts, CommittedEvent DEF Extend, ClaimEvent
<1>3. \A v \in Workers : version(v) \in Nat
  BY DEF TypeOK, version
<1>4. /\ Holders' = {v \in Workers : version(v) = Len(log) /\ fence(v) = fence(w)}
      /\ Waiting' = {v \in Workers : version(v) >= Len(log) + 1}
      /\ Waiting = {v \in Workers : version(v) >= Len(log)}
  BY <1>2, <1>3
     DEF Holders, Holding, Waiting, ClaimEvent, Terminal, Finished, version, fence
<1>5. Carried!Open
  BY <1>2, CommittedEvent DEF Carried!Open
<1>6. w \in Holders' /\ Holders' \subseteq Waiting
  BY <1>1, <1>2, <1>3, <1>4
<1>7. Waiting' \subseteq Waiting \ Holders'
  BY <1>2, <1>3, <1>4
<1>8. EndedWith' = EndedWith
  BY <1>2 DEF EndedWith, Committed, Terminal, Finished
<1> QED BY <1>2, <1>5, <1>6, <1>7, <1>8 DEF Carried!Claim, AppendClaim

\* A holder of the last claim ends the run, with its own result.
LEMMA FinishCarried ==
  ASSUME IInv, NEW w \in Workers, pc[w] = "finishPut", AppendFinish(w),
         Holding(w), bytes' = bytes
  PROVE  Carried!Commit
<1> USE DEF IInv
<1>1. /\ Extend(FinishEvent(w))
      /\ FinishEvent(w).result = bytes[w]
      /\ FinishEvent(w).status \in Finished /\ bytes[w] \in Result
      /\ FinishEvent(w).status = bytes[w].status
  BY FinishWrite DEF FinishEvent, Local, Owns
<1>2. /\ Status \notin Terminal /\ ~Committed
      /\ Latest' = FinishEvent(w) /\ Status' = bytes[w].status
  BY <1>1, ExtendFacts DEF Extend
<1>3. Status = "running-production" /\ w \in Holders
  BY DEF Holding, Holders
<1>4. EndedWith' = bytes[w]
  BY <1>1, <1>2 DEF EndedWith, Committed
<1>5. Holders' = {} /\ Waiting' = {}
  BY <1>1, <1>2 DEF Holders, Holding, Waiting, Terminal, Finished
<1> QED BY <1>1, <1>2, <1>3, <1>4, <1>5 DEF Carried!Commit, AppendFinish

LEMMA CancelCarried == ASSUME IInv, Cancel PROVE Carried!Cancel
<1> USE DEF IInv
<1>1. Status' = "cancelled" /\ ~Committed
  BY CancelExtends, ExtendFacts
<1>2. Holders' = {} /\ Waiting' = {} /\ EndedWith' = EndedWith
  BY <1>1 DEF Holders, Holding, Waiting, EndedWith, Committed, Terminal, Finished
<1> QED BY <1>1, <1>2 DEF Carried!Cancel, Carried!Open, Cancel

\* What becomes public is what the run ended with, and it does so once.
LEMMA PublicCarried ==
  ASSUME IInv, MakePublic, request' = request, bytes' = bytes
  PROVE  [Carried!Publish]_(Carried!ovars)
<1>1. EndedWith = Latest.result /\ EndedWith # Absent
  BY CommittedEvent DEF IInv, EndedWith, MakePublic
<1>2. result # Absent => result' = result
  BY DEF IInv, MakePublic, PublicResultIsCommitted
<1> QED BY <1>1, <1>2, SameRun DEF Carried!Publish, Carried!ovars, MakePublic

\* The ways in which a step changes what the run is, or comes to a result.
LEMMA RunChanges ==
  ASSUME IInv, [Next]_vars
  PROVE  /\ request' = request
         /\ \/ log' = log /\ result' = result /\ (bytes' = bytes \/ Carried!Draft)
            \/ /\ bytes' = bytes
               /\ \/ MakePublic
                  \/ \E w \in Workers : pc[w] = "claimPut" /\ AppendClaim(w)
                  \/ \E w \in Workers : pc[w] = "finishPut" /\ AppendFinish(w)
                  \/ Cancel
<1>1. ASSUME NEW w \in Workers, Step(w)
      PROVE  /\ request' = request
             /\ \/ log' = log /\ result' = result
                              /\ (bytes' = bytes \/ Carried!Draft)
                \/ /\ bytes' = bytes
                   /\ \/ pc[w] = "claimPut" /\ AppendClaim(w)
                      \/ pc[w] = "finishPut" /\ AppendFinish(w)
                      \/ MakePublic
  <2>1. request' = request
    BY <1>1, StepKinds DEF IInv
  <2>2. CASE bytes' # bytes
    <3>1. UNCHANGED files /\ \E r \in Result : bytes' = [bytes EXCEPT ![w] = r]
      BY <1>1, <2>2, BytesKinds
    <3>2. log' = log /\ result' = result
      BY <3>1 DEF files
    <3>3. Carried!Draft
      BY <2>1, <3>1, <3>2, SameRun DEF Carried!Draft
    <3> QED BY <2>1, <3>2, <3>3
  <2>3. CASE bytes' = bytes /\ UNCHANGED files
    BY <2>1, <2>3 DEF files
  <2>4. CASE bytes' = bytes /\ Write(w)
    BY <2>1, <2>4, ResultWrite DEF Write, PutTransaction, RemoveTransaction
  <2> QED BY <1>1, <2>2, <2>3, <2>4, StepKinds DEF IInv
<1> QED BY <1>1
        DEF Next, Step, LeaseLapses, DeadlinePasses, Terminated, vars, files,
            Cancel

\* Only the inspection of the finish leads to its event.
LEMMA ToFinishPut ==
  ASSUME TypeOK, [Next]_vars, NEW w \in Workers,
         pc[w] # "finishPut", pc'[w] = "finishPut"
  PROVE  Finish(w)
<1>1. ASSUME NEW v \in Workers, Step(v) PROVE Finish(w)
  BY <1>1, StepKinds, ToFinish
<1> QED BY <1>1
        DEF Next, Step, Cancel, LeaseLapses, DeadlinePasses, Terminated, vars

LEMMA HoldsStep ==
  ASSUME IInv, HoldsAtPut, [Next]_vars PROVE HoldsAtPut'
<1> USE DEF IInv
<1> SUFFICES ASSUME NEW w \in Workers, pc'[w] = "finishPut",
                    Len(log') = version(w)' + 1
             PROVE  Holding(w)'
  BY DEF HoldsAtPut
<1>1. request' = request /\ version(w)' = version(w) /\ fence(w)' = fence(w)
  BY RunChanges DEF version, fence
<1>2. CASE pc[w] # "finishPut"
  <2>1. Finish(w)
    BY <1>2, ToFinishPut
  <2> QED BY <1>1, <2>1
          DEF Finish, Goto, TypeOK, files, Holding, Status, Latest
<1>3. CASE pc[w] = "finishPut"
  <2>1. CASE log' = log
    BY <1>1, <1>3, <2>1 DEF HoldsAtPut, Holding, Status, Latest
  <2>2. CASE log' # log
    <3>1. \E e : Extend(e)
      <4>1. CASE Cancel
        BY <4>1, CancelExtends
      <4> QED BY <2>2, <4>1, RunChanges, ClaimWrite, FinishWrite DEF MakePublic
    <3>2. Len(log') = Len(log) + 1 /\ Len(log) >= version(w) + 1
      BY <1>3, <3>1, ExtendFacts DEF Local, PutReady
    <3> QED BY <1>1, <3>2, CommittedEvent DEF TypeOK, version
  <2> QED BY <2>1, <2>2
<1> QED BY <1>2, <1>3

LEMMA StepCarried ==
  ASSUME IInv, HoldsAtPut, [Next]_vars
  PROVE  [Carried!Next]_(Carried!ovars)
<1>1. request' = request
  BY RunChanges
<1>2. ASSUME NEW w \in Workers, pc[w] = "finishPut", AppendFinish(w),
             bytes' = bytes
      PROVE  Carried!Commit
  BY <1>2, FinishCarried DEF HoldsAtPut, AppendFinish
<1>3. CASE log' = log /\ result' = result /\ bytes' = bytes
  BY <1>1, <1>3, SameRun DEF Carried!ovars
<1> QED BY <1>1, <1>2, <1>3, RunChanges, ClaimCarried, CancelCarried, PublicCarried
        DEF Carried!Next

LEMMA Init_Carried == ASSUME Init PROVE Carried!Init /\ HoldsAtPut
<1> USE DEF Init
<1>1. Status = "awaiting-production" /\ ~Committed /\ Holders = {}
  BY DEF Status, Committed, Finished, Holders, Holding
<1> QED BY <1>1 DEF Carried!Init, EndedWith, Waiting, HoldsAtPut

\* The carrier keeps the promises of RunOutcome to whoever looks at the run's
\* files, for any requests, and whatever writes fail, with or without effect.
THEOREM CarrierIsRunOutcome == Spec => CarriesRunOutcome
<1>1. Init => Carried!Init /\ HoldsAtPut
  BY Init_Carried
<1>2. IInv /\ HoldsAtPut /\ [Next]_vars => HoldsAtPut'
  BY HoldsStep
<1>3. IInv /\ HoldsAtPut /\ [Next]_vars => [Carried!Next]_(Carried!ovars)
  BY StepCarried
<1> QED BY <1>1, <1>2, <1>3, Inductive, PTL
        DEF Spec, CarriesRunOutcome, Carried!Spec
=============================================================================
