# Verification of the durable core of openwiki-source-anchoring

TLA+ specifications, TLC configurations and TLAPS proofs for the part of this
repository that several processes execute at once and that has to survive their
death: the skill `repo-terminal-operator`
(`src/repo-snapshot/.agents/skills/repo-terminal-operator/`, called OP below).

Contents: 1 the system, 2 the modules, 3 how state and actions correspond to
the code, 4 the runs, 5 bounds and fairness, 6 the proofs, 7 findings, 8 what is
not modelled, 9 the plan.

## 1. The system

| Component | State it keeps | Operations | Talks to |
|---|---|---|---|
| writer publication (`writer-*.ts`, `anchored-artifact-read.ts`) | a directory: outputs, hidden pending names, its `flock` | publish, remove, read | the file system |
| async job lifecycle (`async-job-lifecycle.ts`) | `runs/<run>.seal.json`, `runs/<run>.event.<version>.json` | seal, claim, finish, cancel, inspect | the writer |
| async worker carrier (`async-worker-carrier.ts`) | `transactions/<run>/<fence>.result.json`, `results/...`, a temporary snapshot | execute one request: recover, or claim, review, commit | lifecycle, writer, a reviewer process |
| async control plane (`async-control-plane.ts`) | `queue/`, `projections/` | project: classify runs, write requests | lifecycle, writer, progress |
| async progress store | `progress/<run>/` | one file per event | writer |
| async admission facade (`async-admission-*.ts`) | `admissions/<run>.json` | start, inspect, cancel, admit | lifecycle, writer, git, source tree |
| evidence cost cache and collector | content-addressed entries, receipts | project; run stages | writer, subprocesses |
| small-loop runner, task quality runner, preflight | receipts | preflight, code quality in phases, production use | subprocesses, git |
| forgejo handoff | a Git remote, a remote branch | add the remote, push, check, take back | git |
| wiki audit harness (`src/harness/`) | a wiki page, its snapshot, `.unresolved.json` | retry loop over audit, driver, claim guard | a language-model driver |
| factorial experiment (`src/experiments/factorial-v1/`) | run records | resumable study | drivers |
| gates, validators, evaluation scripts | none | one-shot checks | files |

Everything under OP meets in the first row: no component writes a byte of
durable state except through `publishWriterArtifact`, and every compare-and-swap
of the system is "this name did not exist". The lifecycle is a log built from
that primitive, the carrier a transaction built from the log and the primitive,
the control plane and the facade readers of the log that publish more write-once
records. Processes share nothing but the file system. They are started by hand
or by a dispatcher, may be killed at any instruction, and retry by being started
again.

What is hard here:

* **writer**: a crash between link and unlink leaves an inode with two names; a
  power loss undoes entries that were not synced; a caller that did not get the
  lock still looks; cleanup unlinks by name; a failure after the link is a
  failure of something that happened.
* **lifecycle**: every guard is evaluated on an inspection that may be stale
  when the event is published, and against a time the caller captured earlier.
* **carrier**: four writes and two nested error handlers, each of which re-reads
  the run and undoes or repeats part of the commit, while other processes
  recover, cancel or reclaim.
* **control plane, admission**: decisions from several files read at different
  moments, while workers write them; records that must fit what a worker will
  find when it is started with them, possibly much later.
* **evidence cost**: concurrent projections share content-addressed entries, and
  each must account for its own; signals arrive at any await of a measurement.
* **delivery**: HEAD and the lease change between the gates; stages settle in any
  order; several handoffs use one remote and one ref without a lock.
* **harness trigger**: a shared file updated by read-modify-write.

What makes each component correct: the writer never shows torn bytes and tells
its caller the truth; the log is a legal history in which a reported transition
stays; the public result is the committed one, and a committed one can become
public; a queued request can be executed and an orphan can be spared; an
admission is of the committed result and told once; a ledger is the same whoever
computes it; an acknowledged signal is not lost; a seal was earned; a handoff
takes back what it added and nothing else.

`PROJECT.json` lists these hazards at their lines, with the properties that
cover them.

## 2. The modules

| Module | What it is | Uses |
|---|---|---|
| `WriteOnceStore` | abstract: names hold one candidate or nothing; what a caller may be told | |
| `WriterPublication` | the writer, one action per observable system call, and its mapping to the store | `WriteOnceStore` |
| `MCWriterPublication`, `WriterPublication_proofs` | instances, symmetry; invariants and theorems | |
| `RunStateMachine` | abstract: the life of a run as `async-lifecycle.md` draws it | |
| `AsyncLifecycle` | seal and event log with concurrent clients, and their mapping to the machine | `RunStateMachine` |
| `MCAsyncLifecycle`, `AsyncLifecycle_proofs` | instances; invariants and theorems | |
| `RunOutcome` | abstract: what a run promises to those who look at its files | |
| `AsyncWorker` | the carrier's recovery, review and result transaction | `RunOutcome` |
| `MCAsyncWorker`, `AsyncWorker_proofs` | instances; invariants and theorems | |
| `AsyncProgress` | the worker's progress records and their projection | extends `AsyncWorker` |
| `AsyncControlPlane` | inspection, classification, queue, orphans | extends `AsyncProgress` |
| `AsyncAdmission` | the facade's admit | extends `AsyncControlPlane` |
| `AsyncPipeline` | a run from its seal to its admission | the four above, `RunOutcome` |
| `MCAsyncPipeline`, `AsyncPipeline_proofs` | instances; invariants and theorems | the latter extends `AsyncWorker_proofs` |
| `EvidenceCostCache` | requests, entries, ledgers | |
| `EvidenceCostCollector` | a measurement with signals | extends `EvidenceCostCache` |
| `EvidenceCost` | both on one state root | the two above |
| `MCEvidenceCost`, `EvidenceCost_proofs` | instances; invariants and theorems | |
| `Repository` | HEAD, which others move | |
| `TaskQuality` | phases of concurrent stages | |
| `SmallLoop` | the loop of a terminal packet and the facade's start | extends both |
| `GitHandoff` | handoffs through a shared remote | extends `Repository` |
| `Delivery` | one workspace | extends `SmallLoop`, `GitHandoff` |
| `MCDelivery`, `Delivery_proofs` | instances; invariants and theorems | |

Each layer of the run's modules uses the one below through its abstract promise:
`AsyncLifecycle` writes events as `WriteOnceStore` allows (put, match, conflict,
failure before or after the put), and `AsyncWorker` appends events as
`AsyncLifecycle` allows (only at the version after the last). The layers above
share the variables of `AsyncWorker`, because they read its files while it writes
them; the actions of `AsyncPipeline` are those of the parts with the rest
unchanged. `RunOutcome` is what all of these together amount to: claims
supersede, a holder of the last claim ends the run, what it ended with becomes
public, is admitted and told once. The evidence and delivery modules use write-once files as single
actions.

Operators whose name has an underscore in the middle (`Peek_Cleans`) are
*variants*: the form that the operator named before the underscore would take
with a plausible bug. No specification uses them. They document which mistake each property is there to
catch, and `PROJECT.json` pairs them with the properties.

## 3. Correspondence with the code

### WriterPublication

A process makes one call and has the program counter of that call. The file a
publication creates is named by its process, so `output[n] = p` reads "n is a
link to the inode p wrote"; link counts (`Links`) are derived. `bytes[p]` is
`Torn` until the write and its fsync are over. `pendingDisk`, `outputDisk` hold
the entries a power loss may leave: each change of an entry adds to them, an
fsync of the directory reduces them to the current entry.

| Code | Actions |
|---|---|
| `openWriterDirectory`, `acquireWriterLock` | `OpenDirectory`, `OpenFails`, `AcquireLock`, `LockBusy`, `LockGivenUp` |
| `publishWithOwnership` | `Peek` without the lock, else the steps below |
| `recoverPending` | `RecoverPending` |
| `publishLocked` | `CheckExisting`, `CreatePending`, `WritePending`, `LinkOutput`, `SyncPublication`, `VerifyPublished`, `PublishFails` |
| cleanup, close, `publicationResult` | `Cleanup`, `CleanupFails`, `Close`, `CloseFails` |
| `removeWriterArtifact` | `RemoveCheck`, `RemoveUnlink`, `RemoveSync`, `RemoveFails` |
| `readAnchoredArtifact` | `ReadOutput`, `ReadFails` |
| outside | `Crash` (the kernel drops the lock, files stay), `PowerLoss` |

A failing step is enabled wherever the code throws. `CreatePending` with an
existing pending name is the `O_EXCL` failure. `LinkOutput` with an existing
output is the `EEXIST` branch; under the lock it is unreachable, which the model
shows instead of assuming. The expected-parent check is a free choice
(`ParentMismatch`), since directory replacement is outside the model.

### AsyncLifecycle

`events[v]` is the content of the event file of version v, `NoEvent` if there is
none. A transition is two or three steps: the inspection with its guards
(`Claim`, `Finish`, `Cancel`; `Refuse` for every request whose guard fails),
`PublishEvent`, `Reinspect`. `CallFails` ends a call before or after its event is
in place, which is also what a killed process looks like to the others. `now` is
chosen when the call is made: up to the clock for a claim, any time for `finish`
and `cancel`, whose CLI takes it from its request.

A second put of identical bytes is a match, as in the writer. Two clients whose
requests agree in every field and in the millisecond therefore both succeed;
`SuccessMeansMine` and `OneEnd` count identical events as one.

### AsyncWorker

A process has one request, expected version and fence. `log` is the run's event
log, `transaction[f]` and `result` the files. Time is reduced to what guards
test: `lapsed` (the last lease is over) and `late` (the deadline is over; no
lease exceeds it).

| Code | Actions |
|---|---|
| `recoverCommittedResult` | `Recover`, `RecoverResult`, `RecoverTransaction`, `RecoverPublish`, `RecoverDiscard` |
| claim | `Claim`, `PutClaim`, `MatchClaim` |
| reviewer, watcher, re-inspection | `Review` |
| `commitResultTransaction` | `Prepare`, `Finish`, `PutFinish`, `Publish`, `Discard` |
| its handler | `UndoInspect`, `Undo` |
| the outer handler | `Catch` |
| failures | `WriteRefused` (other bytes, other version), `FailBefore`, `FailAfter`, `Crash` |

`Escape` says where an exception goes from each step. `Failures` says whether
writes may fail before or after they take effect; a run names the set it uses.

The bytes of a result name no process. `Contents` stands for what else they
depend on, so that two deliveries of one request, which share fence and
transaction, may come to equal bytes: then the second finds its transaction and
its event in place (`MatchFinish`), and one whose finish loses discards the
transaction that the other still counts on. `disowned` is a history variable that
no step reads: the results whose finish threw, that is, for which
`commitResultTransaction`'s handler was entered. It is what separates the known
defect (section 7) from everything else: `CommittedBytesExist` is what the
documentation says and the code does not keep, `CommittedBytesKept` says that
bytes are lost in no other way.

### AsyncProgress, AsyncControlPlane, AsyncAdmission, AsyncPipeline

`progress[f][n]` is the record `<f>.<n>.json`. `Due` says which of the eight
records is next on the way of a process: materialize and claim before the claim,
review around the review, finish around the commit; a recovery writes 7 and 8
only; a process that stood down writes none after its review. `Work` is a step of
`AsyncWorker` that waits until the record before it is written. Processes with
the same fence share records: equal bytes match, other bytes are an exception,
which `ProgressThrows` sends where the code's `throw` would go: from the last
record of a cancelled finish into the outer handler, which inspects the run and
answers `cancelled` again. A worker of the pipeline fails in every way it does in
`AsyncWorker`, before and after effect (`WorkFails`), and in its records
(`EmitFails`).

| Code | Actions and operators |
|---|---|
| `progress()`, `persistAsyncWorkerProgress` | `Emit`, `EmitFails`, `RecordOf`, `Free` |
| `progressProjection` | `ExpectedVersions`, `Bound`, `LegalHistory`, `Projectable` |
| `projectAsyncControl` | `Inspect`, `Load`, `LookForResult`, `LookForTransaction`, `Sweep`, `ProjectionFails` |
| `projectDispatch`, `projectRecovery`, `publishWorkerRequest` | `ProjectDispatch`, `ProjectRecovery`, `Enqueue` |
| `classifyOrphans` | `Orphans` |
| `admit` | `AdmitChecks`, `AdmitPublish`, `AdmitAnswer`, `AdmitFails` |
| facade's `cancel` | `Cancel` of `AsyncWorker` |

What a projection knows of the run is the length of the log at its inspection,
`projection.seen`: the log only grows, so the length says everything it saw. The
order of the reads is the code's: log, progress records, public result,
transaction, directory of transactions. A token is derived from run and version,
which `FenceOf` states (injective). The observed time of a projection comes with
its request, so whether a run is past its deadline, running or expired is a free
choice where the status is open. An admission reads HEAD and files that anybody
changes: any answer is possible, and `AdmitChecks` keeps the checks that depend
on the run.

### EvidenceCostCache, EvidenceCostCollector

A request file has lists; `Canonical` makes sets of them, because their ids are
unique (`Accepted`). `Uses` is the canonical order in which a projection goes
through the stages, each use in the place left by those before it (`UsesOf`).
`Cached` and `Entry` are what a lookup finds under an identity. An entry is named by its identity and says who made it.
`Look`, `Put` and `PutLedger` are one file each; a put that finds the entry of
another reads it and counts by its maker. Since a failing publication is judged
by what is on the disk, a failure with effect is a success; the other kind and a
crash are `ProjectFails`.

`readable` says that the collector's own request file is there and well-formed; it
may not be from the beginning, or be spoilt at any time (`RequestSpoils`). The
failure receipt is bound to it, so that without it `PutFailure` exits with 2 and
publishes nothing.

The collector's steps are its awaits: request, HEAD, identity of its own files and
of the executable, command, HEAD again, the turn in which pending signals are
handled and the handlers removed (`Settle`), then three synchronous publications.
`Signal` either calls a handler, once, or kills.

### SmallLoop, TaskQuality, GitHandoff

`runSmallLoop` is a sequence of reads of HEAD, preflights and gates; a preflight
passes only if the lease holds and HEAD is the packet's at that moment, and may
fail for any other reason. The code-quality gate runs the stages of `TaskQuality`:
`RunPhase` starts or blocks a phase when nothing is at work, `SettleStage` settles
one stage. `AcceptedReceipt` is what the consumer looks at, and `StartReadsHead`,
`StartSeals` are the facade's start. Three of the consumer's checks are of things
the loop does not look at: that the receipt is of the run that the start names,
that HEAD has 40 digits (the facade accepts 64 as well), and that no changed path
is empty (`named`: the listing loses the first letter of a first path that is not
staged). `SealMeansEarned` names them as the only reasons to refuse a receipt
that says passed.

A handoff is one action per git process. `Rollback` is the code's catch: a remote
that this process added is removed. `GitFails` lets any of them fail before or
after its effect; where git was to add or remove the remote the process cannot
know, and `residue` records that. A ref that is already at the pushed commit is
up to date for git, before it looks at the empty lease: `Pushable`.

## 4. The runs

| Run | States | Question |
|---|---|---|
| `writer_race` | 482 000 | Three publications of one name: torn outputs, ownership of the pending name, recoverable residue, a readback that cannot fail, truthful `artifactCreated`, durable `published` |
| `writer_store` | 150 000 | Publications, removals and reads of one name, next to publications of another under the same lock and fsync, implement `WriteOnceStore`; readers see a still directory; whoever gets the lock gives it back |
| `writer_success` | | (violated) every success is durable |
| `lifecycle_log` | 259 000 | Two clients, two competing seals: a legal, contiguous, append-only log; disjoint leases; a success stays true; one end wins; the log implements `RunStateMachine` |
| `lifecycle_lapsed` | | (violated) no terminal event after its lease has passed |
| `worker_commit` | 2.3 million | Failures before and after every write: the bytes of a terminal event are lost only if a finish with them threw, only the committed result is public, completions are true, who stood down did not commit; the carrier implements `RunOutcome` |
| `worker_undone` | | (violated) committed bytes exist when a finish may fail after its event |
| `pipeline_safe` | 1.0 million | Control planes, workers and foreground processes on one run, failures before and after every write: queued recoveries can be executed, reports of loss and of orphans are right unless a finish threw, progress can be projected, one admission of the committed result is told eligible; the whole implements `RunOutcome` |
| `pipeline_live` | 223 000 | A committed result becomes public through projection, queue and recovery, unless the finish that threw discarded it |
| `evidence` | 157 000 | Reuse is sound, ledgers say what the store holds and are determined by their request, no acknowledged signal is followed by a measurement, every end is told |
| `evidence_identity` | | (violated) the same work over the same inputs has one entry |
| `delivery` | 779 000 | A seal was earned, phases run in order, a passed handoff holds, the remote is restored |

## 5. Bounds and fairness

* Writer: three processes because the interesting races need a crashed one, a
  lock holder and one that is refused or waits; two candidates give match and
  conflict; `MaxPowerLosses = 1`, since each loss resets the disk to a state
  another run reaches. `writer_store` has two processes, two names and every
  operation; `MaxAttempts` is 1 in `writer_race` (a further attempt only repeats
  the wait) and 2 where liveness is checked.
* Lifecycle: three versions hold claim, reclaim, end; four times hold two
  leases before the deadline; two fences, two results of seals. Requests take
  every value in these sets.
* Worker: three processes (one that commits, one or two that recover or
  reclaim), versions 0 and 1, two fences. The log needs no bound: each process
  appends at most two events and a cancellation ends it. One content, so that
  results with the same status are equal bytes, two with other ones are not;
  `NotStale` leaves out stale results, which go the way of failed ones.
* Pipeline: two workers with the requests of versions 0 and 1 (a claim and a
  reclaim, or a commit and its recovery), two foreground processes, two lease
  lengths of which one is too short for a request, one failure or death of a
  worker, before or after effect (`MaxFaults`), and any number of failing
  projections. There are two contents, of which one blocks an admission.
  `Distinct` lets `w1` serve version 0, since somebody must, leaves out stale
  results, which go the way of failed ones, and lets `w2` be the worker that comes
  to anything but the ordinary verified result: to a failed one, or to a verified
  one with the content that blocks; `w1` may come to the same. `Apart` takes no
  projection once an admission has begun: neither writes a file that the other
  reads, so projections take the same steps before. Deadlines do not
  pass: that a run past its deadline is only reported is in `Load`; the worker's
  side of the deadline is in `worker_commit`. In `pipeline_live` both workers have
  the same request and one content, `Distinct` holds as well, and what fails fails after its effect, or
  dies: a failure without effect is left out for the size of the run; once the
  event is there, it leaves the files as a death does.
* Evidence: three projections choose among a request, the same one in another
  order, one with its id and other content, one whose stage has no fitting
  observation, and a refused one; one failure or death, and besides it a collector
  request that is, or becomes, unreadable. `Apart` keeps projections
  and collectors from being at work at the same time: they share one write-once
  file. Callers are symmetric.
* Delivery: four stages in three phases, two commits, handoffs of both commits to
  both targets, one failing git process. `Bounds` lets two of the four handoffs
  begin, before the loop or after a seal: loop and handoffs share HEAD only, which
  moves freely in both parts. The start's request names the packet's run or
  another, with 40 or 64 digits.
* Symmetry is used over processes, clients, callers and fences, in runs without
  liveness properties only.
* Fairness in `WriterPublication` is weak, per process, on taking the next step
  once it has started. The code is straight-line with bounded waits, so a live
  process continues; nobody is assumed to get the lock. `LockBusy` is bounded by
  the retry budget.
* Fairness in `AsyncPipeline`: control planes are started again and again (the
  documented way to redrive), a dispatcher executes the recoveries it finds in the
  queue, and a worker that has started goes on. No worker is assumed to start on a
  dispatch, no lease to pass; deaths and failures are not fair. The formula is
  weak fairness of actions that change the state whenever they are enabled,
  written out without `ENABLED` in a form that TLC evaluates faster.
* Deadlock is checked except in `delivery` and `evidence_identity`, where loop,
  handoffs and projections end and nothing follows. In `AsyncWorker` and the
  writer `Terminated` marks the end; clients of `AsyncLifecycle`, control planes
  and the mover of HEAD never end.

## 6. Proofs

TLAPS checks the theorems for every value of the constants: any number of
processes, names, candidates, requests, stages and handoffs. Every property of a
passing run is a listed theorem, except the two liveness properties. Three
more theorems state no property of a run: `AppendOnly` (no step rewrites an event
or the seal), the type invariant of the carrier and `PublicationNeverConflicts`
(who is about to publish a committed result finds nothing or its own bytes).

**Assumptions.** Each is a named `ASSUME` of the module that declares the
constant, and TLC evaluates it.

| Assumption | What it says, and why the code justifies it |
|---|---|
| `SetsAssumption`, `LifecycleAssumption` (first line), `AbsentAssumption`, `NoRecordAssumption`, `HandoffAssumption` (second line) | the mark of what is absent is no process, file, result, record, fence or commit |
| `CallsAssumption`, `RequestsAssumption`, `RequestFilesAssumption`, `HandoffAssumption` | calls, requests and files have the fields of their schemas, which the parsers enforce |
| `BoundAssumption`, `MaxFaultsAssumption`, `LifecycleAssumption` | bounds are natural numbers; `Deadline` gives every seal one |
| `FailuresAssumption` | a write fails before or after it takes effect |
| `FenceOfAssumption` | a token is derived from the version and no two versions share one (a hash in `projectDispatch`) |
| `LeasesAssumption`, `BlockingAssumption`, `HeadsAssumption`, `ExpectedHeadAssumption` | what they are made of: numbers, workers, commits |
| `StagesAssumption` | finitely many stages, each in one phase |

**WriterPublication_proofs.** `NoTornOutput` is not inductive: that a linked file
is complete depends on the process at `link` having written its own pending file
and nobody having touched it, which depends on the lock. `IInv` therefore adds
`LockInv` (a process in a locked step holds the lock), `EntriesInv` (entries only
name files of publications of that name), `CompleteInv` (complete bytes once past
`write`) and `PendingInv`. `RecoveryNeverRefuses` follows: an output with the same
inode as the pending name is of the same name, so that the pending name has one
link, or two with the output. The other claims are about one call and about what
stays, and need `WriterInv`, which adds

* `CallInv`: a call takes the steps of its operation, decides once, and creates
  nothing before its link;
* `StepInv`: what the lock keeps from one step to the next, e.g. the output is
  the caller's own from link to readback, and on disk after the fsync;
* `CreatedInv`: who has not created an artifact has no entry anywhere, on a disk
  that a power loss may leave included;
* `ResidueInv`: whose a pending name can be;
* `DurableInv`: what was published is the only entry that disk and memory hold.

`WriterIsWriteOnceStore` is the refinement: `LinkOutput` is `Put`, `RemoveUnlink`
is `Remove`, the fsyncs are `Sync`, the answers are `Hear` and `Fail`, a power loss
is one, and all the rest (opening, locks, pending names, recovery, crashes)
stutters. Where the code answers from what it sees, `CallInv` and `StepInv` say
that the store allows the answer.

**AsyncLifecycle_proofs.** The inductive invariant adds `Contiguous` (an event
implies all earlier ones) and `PublishInv`: an event about to be published is still
a legal successor of the version before its target, or that version's successor
exists already and the publication will find it. This is the precise sense in
which the file name is the compare-and-swap. `RaceHasOneWinner` follows from
`SuccessIsMine` and from "a terminal event has no successor", which is part of
legality. `LogInv` adds that the version of the log exists and that claims have
fences, and gives `LogIsReadable` and the refinement `LifecycleIsMachine`: an
event that appears is a step of the machine at the version before it; inspections,
matches, refusals and the clock stutter.

**AsyncWorker_proofs.** Steps are classified by what they do to the files
(`Extend`, `Transact`, `MakePublic`, `OnlyTime`), and `Local(w)` collects what holds
of one process, so that each step needs two arguments: what `w` gains, and that no
other process is disturbed (`OthersStep`). The parts that carry the weight are
`PutReady` (an event is put only where the inspection found the run open, or its
version is taken), `StandsDown` (who reports "cancelled" has come to no result, or
the run is cancelled), `NamesCommitted` (whatever is published or discarded after
the event is what the event names) and `Leftover` (a transaction that outlives the
commit is that of another delivery with the same bytes, which will remove it).
`SafeInv` adds `Prepared`: the transaction of a process about to finish holds its
bytes, unless a finish of these bytes threw. `CommittedBytes` needs no hypothesis
about `Failures`: the exception is in the property, and run `worker_undone` shows
that it is needed. `CarrierIsRunOutcome` says that whatever fails, and whatever
tokens requests carry, the carrier refines `RunOutcome`; a review that comes to a
result is its step `Draft`. Besides `IInv` it needs `HoldsAtPut`: where a finish is
about to be put and its version is free, the claim of that process is the last
event.

**AsyncPipeline_proofs.** `PipeInv` is `SafeInv` of the carrier, carried over by
`SafeStep` (an exception from a progress record goes where a failing write goes),
with

* tokens: wherever a fence turns up, it is the one derived from its version
  (`LogTokens`, `WorkerTokens`, `QueueTokens`, `RecordTokens`);
* `RecordsInv`: what a process has written when it is at a step, and that only the
  record of a successful claim can be missing between two others;
* `ProjectionInv`: what a control plane has seen stays true while it goes on, or
  the result it looks for is disowned;
* `AdmissionInv`: what an admission was checked for stays true.

The workers of this module fail after effect as those of `AsyncWorker` do, so that
`PipelineCommittedBytes`, `RepairIsPublic` and `OrphansAreExpendable` hold for
every set `Failures` and name the exception, a finish that threw, themselves.

All steps are reduced to one formula, `Changes`: what a step may do to log,
transactions, result and records. From it follow `LogGrows` and `RecordsStay`,
which each part cites. `ProjectableInv` is the longest argument: the records of one
version form one legal history, and the version that a projection prefers is one
that has them. `PipelineIsRunOutcome` uses the lemmas of the carrier's refinement,
with `FinisherHolds` from the tokens in place of `HoldsAtPut`, and puts the
admissions on top.

**EvidenceCost_proofs.** `CollectorsInv` says of one collector what its step implies
of its handlers, receipts and exit code (`CollectorInv`, `Told`), and that a second
failure has used up a fault (`Excused`); an unreadable request counts as one more. `CacheInv` says that entries are unique by
identity and made by a stored request (`Single`, `MadeBy`), and of the statuses
that a projection has collected that they are those the cache determines
(`Counted`). The key lemma is that this stays true as others add entries: a use
that was counted by its maker keeps its maker. Costs are sums by folds, which no
proof expands: equal ledgers have equal statuses, hence equal sums.

**Delivery_proofs.** `QualityInv` adds to `PhasesInOrder` that phases begin in
order; `LoopInv` says what has passed when the loop is at a step, and that its
receipt was earned (`ReceiptInv`); `HandoffInv` says that what was read back is on
the remote, and that whoever has `added` the remote, and nobody else, may still
remove it (`RemoteInv`).

**Only model-checked.** `LockEventuallyFree` and `CommittedBecomesPublic`: liveness
under fairness is beyond this prover, as is `ENABLED`. The four violations are
counterexamples that TLC finds. All inductive invariants were checked by TLC on
the instances of the runs before they were proved.

## 7. Findings

* **A transaction is discarded under a terminal event**
  (`async-worker-carrier.ts:842`, run `worker_undone`). When finish throws after
  its event was linked, the handler removes the bytes the event names; the run
  is terminal for good and cannot be recovered. The same happens without a failing
  write to two deliveries with equal bytes: the one that loses the finish discards
  what the other committed, and if the other then dies before it published, the
  bytes are gone. No other way to lose them exists (`CommittedBytesKept`,
  theorems `CommittedBytes` and `PipelineCommittedBytes`), and what rests on them is
  stated with this exception: a run called `repair-or-close` is public or its
  result disowned (`RepairOnlyIfPublic`), an orphan is expendable or disowned
  (`OrphansExpendable`), a committed result becomes public or was discarded
  (`CommittedBecomesPublic`).
* **`matched-existing` is not durable** (`writer-publication.ts:192`, run
  `writer_success`). The caller is told its bytes are in place before any
  directory fsync covers the entry. `published` is durable (`PublishedIsDurable`).
* **A lapsed lease can still finish** (`async-job-lifecycle.ts:619`, run
  `lifecycle_lapsed`). The lease is compared with a captured time. What does hold
  is that leases never overlap and that a superseded worker cannot finish.
* **The cache identity contains the observation and the cost**
  (`evidence-cost-cache.ts:580`, run `evidence_identity`), although
  `evidence-cost.md:62-63` lists both as "not in the identity": measuring the same
  work again makes a second entry. Reuse is sound all the same (`ReuseIsSound`).

## 8. Not modelled, and why

The components table of `PROJECT.json` gives the reason for each.

* CLI parsing, FFI tables and record validation have no state.
* Snapshots, isolation and process groups of the carrier only decide the outcome
  of a review, which is a free choice.
* A projection of several runs at once, and the projection file: the runs have
  disjoint files, and what couples them is that an exception for one ends the
  whole projection, which `Throw` does for the one.
* The bytes of candidates and seals, and the text of changed paths
  (`small-loop-runner.ts:124`), but for whether each kept a name.
* Auditors, claim guard, validators and statistics are sequential text and number
  handling; production journeys are test drivers, whose scenarios are behaviours
  of `WriterPublication`; gates and evaluation scripts run once over files.
* The harness trigger is a shell script with a retry loop and one shared file
  without a lock (`trigger.sh:257`). It shares nothing with the operator skill.
* Run ids are opaque, so that the events of a run whose id extends another's by
  `.event.` match the other's name filter (`async-job-lifecycle.ts:372`) is
  outside the model. A directory listing is atomic in the model; the code's is
  not, and may refuse a call that would otherwise succeed, which `Refuse` and
  `CallFails` include.

## 9. Plan

The model is complete for the components above, and every safety property it
states is proved; no module declares a RECURSIVE operator. What is left:

1. The state predicates on which the two liveness properties rest, as invariants:
   which step of a committed run is possible when no worker is at work.
2. The link between the layers of the run: that the log of `AsyncWorker` behaves
   as `RunStateMachine`, with leases abstracted to `lapsed` and `late`.
3. Two runs whose jobs name one result (`async-worker-carrier.ts:688`), which needs
   a second log in the model.
