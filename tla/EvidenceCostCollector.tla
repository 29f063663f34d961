------------------------ MODULE EvidenceCostCollector ------------------------
(***************************************************************************)
(* evidence-cost-collector.ts and its CLI: a process measures one stage of a *)
(* canonical request and publishes, each under its hash, an execution, an    *)
(* observation if it passed, and a completion.  It awaits subprocesses, and  *)
(* in between the repository moves and signals arrive.  An exception ends in *)
(* a failure receipt.                                                        *)
(***************************************************************************)
EXTENDS EvidenceCostCache

CONSTANTS
  Collectors,   \* processes of the CLI, of one collector request
  Measured,     \* its canonical request
  Heads,        \* commits
  ExpectedHead  \* its expected_repo_head

ASSUME ExpectedHeadAssumption == ExpectedHead \in Heads

\* What is absent is no exit code and no completion.
ASSUME AbsentAssumption ==
  Absent \notin {0, 2} /\ Absent \notin {"measured", "failed"}

VARIABLES
  head,       \* HEAD of the repository
  readable,   \* the collector request is there and well-formed
  collector   \* collector[k]: the progress of process k and what it published

collectorVars == <<head, readable, collector>>

\* armed: the CLI's handlers are there.  aborted: one of them was called.
\* before, after: HEAD as read before and after the command.  The times in the
\* receipts differ, so that every process has files of its own.
NewCollector ==
  [step |-> "idle", armed |-> TRUE, aborted |-> FALSE,
   before |-> Absent, after |-> Absent, result |-> Absent,
   execution |-> Absent, observation |-> FALSE, completion |-> Absent,
   failure |-> FALSE, code |-> Absent]

\* What runMeasuredOwnedProfileCommand tells of the command.
CommandResult ==
  [exitCode : {0, 1}, timedOut : BOOLEAN, cancelled : BOOLEAN, clean : BOOLEAN]

CollectorInit ==
  /\ head \in Heads /\ readable \in BOOLEAN
  /\ collector = [k \in Collectors |-> NewCollector]

Step(k, from, to) ==
  collector[k].step = from /\ collector' = [collector EXCEPT ![k].step = to]

\* The exception is caught by the CLI.
Thrown(k, from) == Step(k, from, "failing")

\* A subprocess that is given the signal fails once it is aborted.
Cancelled(k) == collector[k].aborted

-----------------------------------------------------------------------------
\* The request is read and published and the canonical request, the stage's
\* inputs and its progress are read.
ReadRequest(k) ==
  IF readable /\ Measured \in requests THEN Step(k, "idle", "head")
  ELSE Thrown(k, "idle")

\* The first HEAD.
ReadHead(k) ==
  IF Cancelled(k) \/ head # ExpectedHead THEN Thrown(k, "head")
  ELSE /\ collector[k].step = "head"
       /\ collector' = [collector EXCEPT ![k].step = "identity",
                                         ![k].before = head]

\* The collector's own files are those of that commit and the executable has
\* the version of the request; or not.
Identify(k) ==
  \/ ~Cancelled(k) /\ Step(k, "identity", "run")
  \/ Thrown(k, "identity")

RunCommand(k) ==
  \E result \in CommandResult :
    /\ collector[k].step = "run"
    /\ result.cancelled = Cancelled(k)
    /\ result.timedOut \/ result.cancelled => result.exitCode # 0
    /\ collector' = [collector EXCEPT ![k].step = "rehead",
                                      ![k].result = result]

\* The second HEAD, without the signal.
ReadHeadAgain(k) ==
  /\ collector[k].step = "rehead"
  /\ collector' = [collector EXCEPT ![k].step = "settle", ![k].after = head]

FailureKind(r, cancelled, stable) ==
  CASE r.timedOut -> "timeout"
    [] ~r.timedOut /\ cancelled -> "cancelled"
    [] ~r.timedOut /\ ~cancelled /\ r.exitCode # 0 -> "command-failed"
    [] ~r.timedOut /\ ~cancelled /\ r.exitCode = 0 /\ ~stable ->
         "repository-head-drift"
    [] OTHER -> "cleanup-failed"

Verdict(k, cancelled) ==
  LET c == collector[k]
      stable == c.after = c.before
      passed == /\ c.result.exitCode = 0 /\ ~c.result.timedOut /\ ~cancelled
                /\ c.result.clean /\ stable
  IN IF passed THEN "passed" ELSE FailureKind(c.result, cancelled, stable)

Settled(k, cancelled) ==
  collector' = [collector EXCEPT ![k].step = "execution", ![k].armed = FALSE,
                                 ![k].result = Verdict(k, cancelled)]

\* Variant: cancelled is what the command was.
Settle_ByCommand(k) ==
  collector[k].step = "settle" /\ Settled(k, collector[k].result.cancelled)

\* The signals that have arrived are handled, then the handlers are removed.
Settle(k) ==
  /\ collector[k].step = "settle"
  /\ Settled(k, collector[k].result.cancelled \/ collector[k].aborted)

PutExecution(k) ==
  /\ collector[k].step = "execution"
  /\ collector' = [collector EXCEPT
       ![k].execution = collector[k].result,
       ![k].step = IF collector[k].result = "passed" THEN "observation"
                   ELSE "completion"]

PutObservation(k) ==
  /\ collector[k].step = "observation"
  /\ collector' = [collector EXCEPT ![k].step = "completion",
                                    ![k].observation = TRUE]

\* The CLI exits with 0 only for a measured completion.
PutCompletion(k) ==
  LET measured == collector[k].result = "passed"
  IN /\ collector[k].step = "completion"
     /\ collector' = [collector EXCEPT
          ![k].step = "exited",
          ![k].completion = IF measured THEN "measured" ELSE "failed",
          ![k].code = IF measured THEN 0 ELSE 2]

\* persistEvidenceCostPreconditionFailure: the request is read again, and HEAD,
\* but a failure to read HEAD is only noted.
PutFailure(k) ==
  /\ collector[k].step = "failing"
  /\ collector' = [collector EXCEPT
       ![k].step = "exited", ![k].armed = FALSE,
       ![k].failure = IF readable THEN TRUE ELSE @, ![k].code = 2]

Collect(k) ==
  \/ ReadRequest(k) \/ ReadHead(k) \/ Identify(k) \/ RunCommand(k)
  \/ ReadHeadAgain(k) \/ Settle(k) \/ PutExecution(k) \/ PutObservation(k)
  \/ PutCompletion(k) \/ PutFailure(k)

-----------------------------------------------------------------------------
\* Variant: only what fails before the command leaves a failure receipt.
CollectFails_Unnoted(k) ==
  \/ Thrown(k, "rehead")
  \/ /\ collector[k].step \in {"execution", "observation", "completion", "failing"}
     /\ collector' = [collector EXCEPT ![k].step = "exited", ![k].code = 2]

\* git cannot be run, or a publication fails.  A failure receipt that cannot be
\* published is reported as such and the process exits all the same.
CollectFails(k) ==
  \/ \E step \in {"rehead", "execution", "observation", "completion"} :
       Thrown(k, step)
  \/ /\ collector[k].step = "failing"
     /\ collector' = [collector EXCEPT ![k].step = "exited",
                                       ![k].armed = FALSE, ![k].code = 2]

Living(k) == collector[k].step \notin {"idle", "exited", "killed"}

\* SIGINT or SIGTERM.  Each handler is called once: the same signal again, or
\* any when the handlers are gone, kills.
Signal(k) ==
  /\ Living(k)
  /\ \/ /\ collector[k].armed
        /\ collector' = [collector EXCEPT ![k].aborted = TRUE]
     \/ /\ ~collector[k].armed \/ collector[k].aborted
        /\ collector' = [collector EXCEPT ![k].step = "killed"]

\* A commit, a checkout or a reset.
HeadMoves ==
  /\ \E h \in Heads \ {head} : head' = h
  /\ UNCHANGED <<readable, collector>>

\* The collector request is removed or spoilt.
RequestSpoils ==
  readable /\ readable' = FALSE /\ UNCHANGED <<head, collector>>

-----------------------------------------------------------------------------
(* Properties. *)

\* A cancellation that was acknowledged is never followed by a measurement:
\* "Any later OS signal fail-stops the synchronous publication window instead of
\* being acknowledged after a measured receipt is emitted"
\* (evidence-cost-collector.ts:559-561), at whichever await the signal arrives.
CancellationNotLost ==
  \A k \in Collectors :
    collector[k].aborted =>
      ~collector[k].observation /\ collector[k].completion # "measured"

\* A process that ends by itself leaves word of how it ended: a measured
\* completion, whose execution passed and whose observation is there, if it
\* exits with 0; a failed completion or a failure receipt if not, unless the
\* request that the receipt is about cannot be read, or the receipt cannot be
\* published.  Once the command has run, it takes the failure of a step besides to
\* leave no word of it.
Mishaps == faults + (IF readable THEN 0 ELSE 1)
EveryEndIsTold ==
  \A k \in Collectors :
    /\ collector[k].code = 0 =>
         /\ collector[k].completion = "measured"
         /\ collector[k].execution = "passed" /\ collector[k].observation
         /\ collector[k].before = ExpectedHead
         /\ collector[k].after = ExpectedHead
    /\ collector[k].code = 2 =>
         \/ collector[k].completion = "failed"
         \/ collector[k].failure
         \/ Mishaps >= IF collector[k].result = Absent THEN 1 ELSE 2
=============================================================================
