----------------------------- MODULE AsyncWorker -----------------------------
(***************************************************************************)
(* executeAsyncWorker (async-worker-carrier.ts): processes that were handed *)
(* requests for one sealed run.  A process first recovers a result that an  *)
(* earlier one committed but did not publish; otherwise it claims the run,  *)
(* reviews, and commits in four writes: the result's bytes under            *)
(* transactions/<run>/<fence>, the terminal event that names them, the      *)
(* public result, and the removal of the transaction.  Meanwhile requests   *)
(* are delivered twice, leases lapse, the run is cancelled or claimed by    *)
(* another process, processes die, and writes fail.                         *)
(*                                                                          *)
(* Each file is written as WriteOnceStore says, each event as               *)
(* AsyncLifecycle says: an event is put only at the version after the last. *)
(***************************************************************************)
EXTENDS Naturals, Sequences

CONSTANTS
  Workers,   \* processes that execute the worker, one request each
  Requests,  \* requests for the run: expected version and fencing token
  Fences,    \* fencing tokens
  Contents,  \* what a review, its circumstances and its duration come to
  Absent,    \* a file that does not exist
  Failures   \* when a write may fail: before and after it takes effect

ASSUME RequestsAssumption == Requests \subseteq [version : Nat, fence : Fences]

ASSUME FailuresAssumption == Failures \subseteq {"before", "after"}

VARIABLES
  request,      \* request[w]: the request of process w
  pc,           \* pc[w]: the step w takes next
  attempt,      \* attempt[w]: 1 for the reviewed result, 2 after an error
  bytes,        \* bytes[w]: the result w commits or recovers
  reply,        \* reply[w]: the completion, "error" for an exception
  log,          \* the events of the run
  lapsed,       \* the lease of the last claim has passed
  late,         \* the run's deadline has passed
  transaction,  \* transaction[f]: transactions/<run>/<f>.result.json
  result,       \* the public result
  disowned      \* history, which no step looks at: what a finish that threw
                \* was to commit

files == <<log, lapsed, late, transaction, result>>
vars  == <<request, pc, attempt, bytes, reply, files, disowned>>

Finished == {"verified", "failed", "stale"}
Terminal == Finished \cup {"cancelled"}

\* The bytes of a result do not name the process: twin deliveries may come to
\* the same.
Result == [content : Contents, status : Finished]

ASSUME AbsentAssumption == Absent \notin Result

Event == [status : Terminal \cup {"running-production"},
          fence  : Fences \cup {Absent},
          result : Result \cup {Absent}]

RecoverySteps == {"recoverResult", "recoverTransaction", "recoverPublish",
                  "recoverDiscard"}
Steps == RecoverySteps \cup
         {"idle", "claim", "claimPut", "review", "prepare", "finish",
          "finishPut", "undoInspect", "undo", "undoCancelled", "publish",
          "discard", "catch", "done", "crashed"}

TypeOK ==
  /\ request \in [Workers -> Requests]
  /\ pc \in [Workers -> Steps]
  /\ attempt \in [Workers -> 1 .. 2]
  /\ bytes \in [Workers -> Result \cup {Absent}]
  /\ reply \in [Workers -> Terminal \cup {"none", "error"}]
  /\ log \in Seq(Event)
  /\ lapsed \in BOOLEAN /\ late \in BOOLEAN
  /\ transaction \in [Fences -> Result \cup {Absent}]
  /\ result \in Result \cup {Absent}
  /\ disowned \subseteq Result

Init ==
  /\ request \in [Workers -> Requests]
  /\ pc = [w \in Workers |-> "idle"]
  /\ attempt = [w \in Workers |-> 1]
  /\ bytes = [w \in Workers |-> Absent]
  /\ reply = [w \in Workers |-> "none"]
  /\ log = <<>>
  /\ lapsed = FALSE /\ late = FALSE
  /\ transaction = [f \in Fences |-> Absent]
  /\ result = Absent
  /\ disowned = {}

-----------------------------------------------------------------------------
fence(w)   == request[w].fence
version(w) == request[w].version

Latest == log[Len(log)]
Status == IF log = <<>> THEN "awaiting-production" ELSE Latest.status

\* The claim of w is the last event.
Holding(w) ==
  /\ Status = "running-production"
  /\ Len(log) = version(w) + 1
  /\ Latest.fence = fence(w)

Claimable ==
  \/ Status = "awaiting-production"
  \/ Status = "running-production" /\ lapsed

ClaimEvent(w)  == [status |-> "running-production", fence |-> fence(w),
                   result |-> Absent]
FinishEvent(w) == [status |-> bytes[w].status, fence |-> fence(w),
                   result |-> bytes[w]]

Goto(w, to) ==
  /\ pc' = [pc EXCEPT ![w] = to]
  /\ disowned' = disowned \cup (IF to = "undoInspect" THEN {bytes[w]} ELSE {})
  /\ UNCHANGED reply

Answer(w, r) ==
  /\ pc' = [pc EXCEPT ![w] = "done"]
  /\ reply' = [reply EXCEPT ![w] = r]
  /\ UNCHANGED disowned

\* Where an exception goes: out of recovery, claim and the error path itself;
\* to commitResultTransaction's handler; or to executeAsyncWorker's, once.
Escape(w) ==
  CASE pc[w] \in RecoverySteps \cup {"idle", "claim", "claimPut", "catch"} ->
         Answer(w, "error")
    [] pc[w] \in {"finish", "finishPut"} -> Goto(w, "undoInspect")
    [] OTHER -> IF attempt[w] = 1 THEN Goto(w, "catch") ELSE Answer(w, "error")

(* The writes.  Each is enabled when the write can take effect. *)

\* Variants: the event goes behind whatever is the last one by now.
AppendClaim_BehindLast(w) ==
  /\ log' = Append(log, ClaimEvent(w))
  /\ lapsed' = late
  /\ UNCHANGED <<late, transaction, result>>
AppendFinish_BehindLast(w) ==
  /\ log' = Append(log, FinishEvent(w))
  /\ UNCHANGED <<lapsed, late, transaction, result>>

AppendClaim(w) ==
  /\ Len(log) = version(w)
  /\ log' = Append(log, ClaimEvent(w))
  /\ lapsed' = late
  /\ UNCHANGED <<late, transaction, result>>

AppendFinish(w) ==
  /\ Len(log) = version(w) + 1
  /\ log' = Append(log, FinishEvent(w))
  /\ UNCHANGED <<lapsed, late, transaction, result>>

PutTransaction(w) ==
  /\ transaction[fence(w)] \in {Absent, bytes[w]}
  /\ transaction' = [transaction EXCEPT ![fence(w)] = bytes[w]]
  /\ UNCHANGED <<log, lapsed, late, result>>

RemoveTransaction(w) ==
  /\ transaction[fence(w)] \in {Absent, bytes[w]}
  /\ transaction' = [transaction EXCEPT ![fence(w)] = Absent]
  /\ UNCHANGED <<log, lapsed, late, result>>

PutResult(w) ==
  /\ result \in {Absent, bytes[w]}
  /\ result' = bytes[w]
  /\ UNCHANGED <<log, lapsed, late, transaction>>

\* The write w is about to make.
Write(w) ==
  \/ pc[w] = "claimPut" /\ AppendClaim(w)
  \/ pc[w] = "finishPut" /\ AppendFinish(w)
  \/ pc[w] = "prepare" /\ PutTransaction(w)
  \/ pc[w] \in {"publish", "recoverPublish"} /\ PutResult(w)
  \/ pc[w] \in {"discard", "recoverDiscard", "undo", "undoCancelled"}
       /\ RemoveTransaction(w)

-----------------------------------------------------------------------------
(* recoverCommittedResult. *)

Recover(w) ==
  /\ pc[w] = "idle"
  /\ IF Status \notin Finished
     THEN Goto(w, "claim")
     ELSE IF Len(log) = version(w) + 2 /\ Latest.fence = fence(w)
          THEN Goto(w, "recoverResult")
          ELSE Answer(w, "error")
  /\ UNCHANGED <<request, attempt, bytes, files>>

\* Variant: only the public result is looked for.
RecoverResult_PublicOnly(w) ==
  /\ pc[w] = "recoverResult"
  /\ IF result = Latest.result /\ result # Absent
     THEN /\ Goto(w, "recoverDiscard")
          /\ bytes' = [bytes EXCEPT ![w] = result]
     ELSE Answer(w, "error") /\ UNCHANGED bytes
  /\ UNCHANGED <<request, attempt, files>>

RecoverResult(w) ==
  /\ pc[w] = "recoverResult"
  /\ CASE result = Absent -> Goto(w, "recoverTransaction") /\ UNCHANGED bytes
       [] result = Latest.result -> /\ Goto(w, "recoverDiscard")
                                    /\ bytes' = [bytes EXCEPT ![w] = result]
       [] OTHER -> Answer(w, "error") /\ UNCHANGED bytes
  /\ UNCHANGED <<request, attempt, files>>

\* A transaction that is missing or has another hash is an error.
RecoverTransaction(w) ==
  /\ pc[w] = "recoverTransaction"
  /\ IF transaction[fence(w)] = Latest.result
     THEN /\ Goto(w, "recoverPublish")
          /\ bytes' = [bytes EXCEPT ![w] = Latest.result]
     ELSE Answer(w, "error") /\ UNCHANGED bytes
  /\ UNCHANGED <<request, attempt, files>>

RecoverPublish(w) ==
  /\ pc[w] = "recoverPublish"
  /\ PutResult(w)
  /\ Goto(w, "recoverDiscard")
  /\ UNCHANGED <<request, attempt, bytes>>

RecoverDiscard(w) ==
  /\ pc[w] = "recoverDiscard"
  /\ RemoveTransaction(w)
  /\ Answer(w, Latest.status)
  /\ UNCHANGED <<request, attempt, bytes>>

(* claimAsyncProductionRun: the inspection, then the event. *)

Claim(w) ==
  /\ pc[w] = "claim"
  /\ IF Len(log) = version(w) /\ ~late /\ Claimable
     THEN Goto(w, "claimPut")
     ELSE Answer(w, "error")
  /\ UNCHANGED <<request, attempt, bytes, files>>

PutClaim(w) ==
  /\ pc[w] = "claimPut"
  /\ AppendClaim(w)
  /\ Goto(w, "review")
  /\ UNCHANGED <<request, attempt, bytes>>

\* A second delivery of the request, claimed in the same millisecond, finds
\* the bytes it would have written.
MatchClaim(w) ==
  /\ pc[w] = "claimPut"
  /\ Len(log) > version(w)
  /\ log[version(w) + 1] = ClaimEvent(w)
  /\ Goto(w, "review")
  /\ UNCHANGED <<request, attempt, bytes, files>>

(* The reviewer ran to its end or was aborted by the watcher; the run is     *)
(* inspected again.  Any status may come out of the reviewer, its cleanup    *)
(* and the repository's HEAD.                                                *)

Review(w) ==
  /\ pc[w] = "review"
  /\ IF Len(log) # version(w) + 1
     THEN Answer(w, "cancelled") /\ UNCHANGED bytes
     ELSE /\ Goto(w, "prepare")
          /\ \E c \in Contents, s \in Finished :
               bytes' = [bytes EXCEPT ![w] = [content |-> c, status |-> s]]
  /\ UNCHANGED <<request, attempt, files>>

(* commitResultTransaction. *)

Prepare(w) ==
  /\ pc[w] = "prepare"
  /\ PutTransaction(w)
  /\ Goto(w, "finish")
  /\ UNCHANGED <<request, attempt, bytes>>

\* finishAsyncProductionRun: the inspection ...
Finish(w) ==
  /\ pc[w] = "finish"
  /\ Goto(w, IF Holding(w) /\ ~lapsed /\ ~late THEN "finishPut"
                                               ELSE "undoInspect")
  /\ UNCHANGED <<request, attempt, bytes, files>>

\* Variants: a lost version is taken for a finished one; the transaction is
\* discarded before the result is public.
PutFinish_ConflictIsMatch(w) ==
  /\ pc[w] = "finishPut"
  /\ IF Len(log) = version(w) + 1 THEN AppendFinish(w) ELSE UNCHANGED files
  /\ Goto(w, "publish")
  /\ UNCHANGED <<request, attempt, bytes>>
PutFinish_DiscardFirst(w) ==
  /\ pc[w] = "finishPut"
  /\ AppendFinish(w)
  /\ Goto(w, "discard")
  /\ UNCHANGED <<request, attempt, bytes>>

\* ... and the event.
PutFinish(w) ==
  /\ pc[w] = "finishPut"
  /\ AppendFinish(w)
  /\ Goto(w, "publish")
  /\ UNCHANGED <<request, attempt, bytes>>

\* A second delivery that comes to the same result in the same millisecond
\* finds the bytes it would have written.
MatchFinish(w) ==
  /\ pc[w] = "finishPut"
  /\ Len(log) > version(w) + 1
  /\ log[version(w) + 2] = FinishEvent(w)
  /\ Goto(w, "publish")
  /\ UNCHANGED <<request, attempt, bytes, files>>

\* The handler of a finish that threw looks at the run, ...
UndoInspect(w) ==
  /\ pc[w] = "undoInspect"
  /\ Goto(w, IF Status = "cancelled" THEN "undoCancelled" ELSE "undo")
  /\ UNCHANGED <<request, attempt, bytes, files>>

\* ... discards the transaction, and stands down or throws again.
Undo(w) ==
  /\ pc[w] \in {"undo", "undoCancelled"}
  /\ RemoveTransaction(w)
  /\ IF pc[w] = "undo" THEN Escape(w) ELSE Answer(w, "cancelled")
  /\ UNCHANGED <<request, attempt, bytes>>

\* Variant: an exhausted publication is only logged.
Publish_BestEffort(w) ==
  /\ pc[w] = "publish"
  /\ PutResult(w) \/ UNCHANGED files
  /\ Goto(w, "discard")
  /\ UNCHANGED <<request, attempt, bytes>>

\* publishCommittedResult.
Publish(w) ==
  /\ pc[w] = "publish"
  /\ PutResult(w)
  /\ Goto(w, "discard")
  /\ UNCHANGED <<request, attempt, bytes>>

Discard(w) ==
  /\ pc[w] = "discard"
  /\ RemoveTransaction(w)
  /\ Answer(w, bytes[w].status)
  /\ UNCHANGED <<request, attempt, bytes>>

\* Variant: any end of the run is taken for a cancellation.
Catch_AnyEnd(w) ==
  /\ pc[w] = "catch"
  /\ ~Holding(w)
  /\ Answer(w, "cancelled")
  /\ UNCHANGED <<request, attempt, bytes, files>>

\* executeAsyncWorker's handler: stand down, give up, or commit the failure.
Catch(w) ==
  /\ pc[w] = "catch"
  /\ IF Holding(w)
     THEN /\ Goto(w, "prepare")
          /\ attempt' = [attempt EXCEPT ![w] = 2]
          /\ \E c \in Contents, s \in {"failed", "stale"} :
               bytes' = [bytes EXCEPT ![w] = [content |-> c, status |-> s]]
     ELSE /\ Answer(w, IF Status = "cancelled" THEN "cancelled" ELSE "error")
          /\ UNCHANGED <<attempt, bytes>>
  /\ UNCHANGED <<request, files>>

-----------------------------------------------------------------------------
(* What goes wrong. *)

\* The write finds another event or other bytes.
WriteRefused(w) ==
  /\ \/ pc[w] = "claimPut" /\ Len(log) # version(w)
     \/ pc[w] = "finishPut" /\ Len(log) # version(w) + 1
     \/ /\ pc[w] \in {"prepare", "discard", "recoverDiscard", "undo",
                      "undoCancelled"}
        /\ transaction[fence(w)] \notin {Absent, bytes[w]}
     \/ /\ pc[w] \in {"publish", "recoverPublish"}
        /\ result \notin {Absent, bytes[w]}
  /\ Escape(w)
  /\ UNCHANGED <<request, attempt, bytes, files>>

\* A busy directory, an unreadable log, an injected or I/O error.
FailBefore(w) ==
  /\ "before" \in Failures
  /\ pc[w] \notin {"done", "crashed"}
  /\ Escape(w)
  /\ UNCHANGED <<request, attempt, bytes, files>>

\* WriterPublicationFailure with artifactCreated, a failed fsync of a removal,
\* or a failed inspection after the event was put.
FailAfter(w) ==
  /\ "after" \in Failures
  /\ Write(w)
  /\ Escape(w)
  /\ UNCHANGED <<request, attempt, bytes>>

Crash(w) ==
  /\ pc[w] \notin {"idle", "done", "crashed"}
  /\ Goto(w, "crashed")
  /\ UNCHANGED <<request, attempt, bytes, files>>

\* cancelAsyncProductionRun, by the foreground.
Cancel ==
  /\ Status \in {"awaiting-production", "running-production"}
  /\ log' = Append(log, [status |-> "cancelled", fence |-> Absent,
                         result |-> Absent])
  /\ UNCHANGED <<request, pc, attempt, bytes, reply, disowned, lapsed, late,
                 transaction, result>>

LeaseLapses ==
  /\ Status = "running-production" /\ ~lapsed
  /\ lapsed' = TRUE
  /\ UNCHANGED <<request, pc, attempt, bytes, reply, disowned, log, late,
                 transaction, result>>

\* No lease goes beyond the deadline.
DeadlinePasses ==
  /\ ~late
  /\ late' = TRUE /\ lapsed' = TRUE
  /\ UNCHANGED <<request, pc, attempt, bytes, reply, disowned, log, transaction,
                 result>>

Terminated ==
  /\ \A w \in Workers : pc[w] \in {"done", "crashed"}
  /\ UNCHANGED vars

Execute(w) ==
  \/ Recover(w) \/ RecoverResult(w) \/ RecoverTransaction(w)
  \/ RecoverPublish(w) \/ RecoverDiscard(w)
  \/ Claim(w) \/ PutClaim(w) \/ MatchClaim(w) \/ Review(w)
  \/ Prepare(w) \/ Finish(w) \/ PutFinish(w) \/ MatchFinish(w)
  \/ UndoInspect(w) \/ Undo(w)
  \/ Publish(w) \/ Discard(w) \/ Catch(w) \/ WriteRefused(w)

Next ==
  \/ \E w \in Workers : Execute(w) \/ FailBefore(w) \/ FailAfter(w) \/ Crash(w)
  \/ Cancel \/ LeaseLapses \/ DeadlinePasses
  \/ Terminated

Spec == Init /\ [][Next]_vars
-----------------------------------------------------------------------------
(* Properties. *)

Committed == Status \in Finished

\* commitResultTransaction's order keeps the bytes that the terminal event
\* names: they are public or under the transaction of the event's fence, "so
\* that no crash point can leave a terminal event without recoverable bytes"
\* (openwiki/terminal-operator/async-lifecycle.md:159-160).
CommittedBytesExist ==
  Committed => Latest.result \in {result, transaction[Latest.fence]}

\* What is left of it: the bytes of a terminal event are lost only if the finish
\* of a process with these bytes threw, be it of the process that put the event,
\* and discarded the transaction; whatever else dies, fails or is outrun.
CommittedBytesKept == CommittedBytesExist \/ Latest.result \in disowned

\* The public result is the one the terminal event committed to: a process
\* that was cancelled, superseded or outrun never publishes its own.
PublicResultIsCommitted ==
  result # Absent => Committed /\ result = Latest.result

\* Another delivery of a request put the bytes r under the fence f again, and
\* has not come to remove them.
PutAgain(f, r) ==
  \E v \in Workers : fence(v) = f /\ bytes[v] = r /\ reply[v] \notin Finished

\* A completion "verified", "failed" or "stale", recovered ones included, is
\* the run's terminal status, its result is public, and its transaction is
\* gone, unless another delivery that came to the same bytes put it again.
CompletionIsFinal ==
  \A w \in Workers : reply[w] \in Finished =>
    /\ Status = reply[w]
    /\ result = Latest.result
    /\ transaction[fence(w)] = result => PutAgain(fence(w), result)

\* A process that reports "cancelled", from its review, its lost finish or its
\* error path, did not end the run: no event carries its result.
StoodDown(w) == reply[w] = "cancelled"
CancelledNeverCommits ==
  \A w \in Workers : StoodDown(w) =>
    \A i \in 1 .. Len(log) :
      log[i].result # Absent => log[i].result # bytes[w]
-----------------------------------------------------------------------------
(* What the run is to those who look at its files. *)

\* Who may still claim the run, and who made the last claim.
Waiting ==
  {w \in Workers : Status \notin Terminal /\ version(w) >= Len(log)}
Holders == {w \in Workers : Holding(w)}

EndedWith == IF Committed THEN Latest.result ELSE Absent

Carried == INSTANCE RunOutcome WITH
  Results <- Result, Foregrounds <- {}, Blocking <- {},
  status <- Status, waiting <- Waiting, holders <- Holders,
  draft <- bytes, outcome <- EndedWith, public <- result, admitted <- Absent,
  told <- {}

\* Whatever is delivered twice, dies or fails before or after it takes effect,
\* and whatever tokens the requests have: only a holder of the last claim ends
\* the run, once, and nothing but what it ended with becomes public.
CarriesRunOutcome == Carried!Spec
=============================================================================
