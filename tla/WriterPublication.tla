------------------------- MODULE WriterPublication -------------------------
(***************************************************************************)
(* publishWriterArtifact, removeWriterArtifact and readAnchoredArtifact of  *)
(* the repo-terminal-operator skill: processes that share one directory,    *)
(* its advisory lock (flock) and, for every output name X, the hidden       *)
(* pending name .X.writer-pending.  A publication writes the pending file,  *)
(* fsyncs it, hard-links it to the output name, fsyncs the directory, reads *)
(* the output back, and removes the pending name.                           *)
(*                                                                          *)
(* A process makes one call.  The file a publication creates is identified  *)
(* by the process that creates it, so output[n] = p reads "the name n is a  *)
(* link to the file written by p".  The directory is kept twice: as the     *)
(* running system sees it (pending, output), and as the set of entries the  *)
(* disk may hold after a power loss (pendingDisk, outputDisk), which only   *)
(* an fsync of the directory narrows to the current entry.                  *)
(***************************************************************************)
EXTENDS Naturals, FiniteSets

CONSTANTS
  Procs,           \* processes; each makes one call
  Names,           \* output names of the directory
  Candidates,      \* byte strings that are published
  Calls,           \* the calls a process may make
  NoProc, NoFile,  \* nobody holds the lock; a name without an entry
  Torn,            \* content of a file whose write did not complete
  MaxAttempts,     \* flock attempts of one call (3 in the code)
  MaxPowerLosses   \* bound on the number of power losses

ASSUME SetsAssumption ==
  /\ NoProc \notin Procs
  /\ NoFile \notin Procs \cup Candidates
  /\ Torn \notin Candidates
  /\ Torn # NoFile

ASSUME CallsAssumption ==
  Calls \subseteq [op : {"publish", "remove", "read"},
                   name : Names, candidate : Candidates]

ASSUME BoundAssumption == MaxAttempts \in Nat \ {0} /\ MaxPowerLosses \in Nat

VARIABLES
  call,         \* call[p]: the call process p makes
  pc,           \* pc[p]: the step p takes next
  attempt,      \* attempt[p]: number of the next flock attempt
  lock,         \* holder of the exclusive lock, or NoProc
  readers,      \* holders of the shared lock
  pending,      \* pending[n]: file linked at .n.writer-pending
  output,       \* output[n]: file linked at n
  pendingDisk,  \* pendingDisk[n]: entries a power loss may leave
  outputDisk,
  bytes,        \* bytes[p]: content of the file p writes, once synced
  verdict,      \* verdict[p]: what the call is going to return
  created,      \* created[p]: state.artifactCreated
  recovery,     \* recovery[p]: recoveryOutcome
  seen,         \* seen[p]: what readAnchoredArtifact read
  powerLosses   \* number of power losses so far

dirVars  == <<pending, output, pendingDisk, outputDisk>>
frame    == <<call, attempt, lock, readers, powerLosses>>
memo     == <<created, recovery, seen>>
callVars == <<verdict, memo>>
vars == <<call, pc, attempt, lock, readers, dirVars, bytes, callVars,
          powerLosses>>

Files     == Procs \cup {NoFile}
Contents  == Candidates \cup {Torn}
Outcomes  == {"published", "matched-existing", "removed", "read"}
Failures  == {"conflict", "busy", "mismatch", "failed"}
PublishSteps == {"recover", "check", "open", "write", "link", "sync", "verify"}
RemoveSteps  == {"rmCheck", "rmUnlink", "rmSync"}
LockedSteps  == PublishSteps \cup RemoveSteps \cup {"cleanup"}
Steps == LockedSteps \cup {"idle", "lock", "peek", "rdOpen", "close",
                           "done", "crashed"}

op(p)        == call[p].op
name(p)      == call[p].name
candidate(p) == call[p].candidate

Content(f) == IF f = NoFile THEN NoFile ELSE bytes[f]
Links(f)   == Cardinality({n \in Names : pending[n] = f})
                + Cardinality({n \in Names : output[n] = f})

\* A process that has the lock, in either mode.
Holds(p) == lock = p \/ p \in readers

TypeOK ==
  /\ call \in [Procs -> Calls]
  /\ pc \in [Procs -> Steps]
  /\ attempt \in [Procs -> 1 .. MaxAttempts]
  /\ lock \in Procs \cup {NoProc}
  /\ readers \subseteq Procs
  /\ pending \in [Names -> Files]
  /\ output \in [Names -> Files]
  /\ pendingDisk \in [Names -> SUBSET Files]
  /\ outputDisk \in [Names -> SUBSET Files]
  /\ bytes \in [Procs -> Contents]
  /\ verdict \in [Procs -> Outcomes \cup Failures \cup {"none"}]
  /\ created \in [Procs -> BOOLEAN]
  /\ recovery \in [Procs -> {"none", "pre-link", "post-link"}]
  /\ seen \in [Procs -> Contents \cup {NoFile}]
  /\ powerLosses \in 0 .. MaxPowerLosses

-----------------------------------------------------------------------------
(* The directory. *)

SetPending(n, f) ==
  /\ pending' = [pending EXCEPT ![n] = f]
  /\ pendingDisk' = [pendingDisk EXCEPT ![n] = @ \cup {f}]

SetOutput(n, f) ==
  /\ output' = [output EXCEPT ![n] = f]
  /\ outputDisk' = [outputDisk EXCEPT ![n] = @ \cup {f}]

SyncDirectory ==
  /\ pendingDisk' = [n \in Names |-> {pending[n]}]
  /\ outputDisk' = [n \in Names |-> {output[n]}]
  /\ UNCHANGED <<pending, output>>

Goto(p, from, to) ==
  /\ pc[p] = from
  /\ pc' = [pc EXCEPT ![p] = to]

Decide(p, v) == verdict' = [verdict EXCEPT ![p] = v]

-----------------------------------------------------------------------------
Init ==
  /\ call \in [Procs -> Calls]
  /\ pc = [p \in Procs |-> "idle"]
  /\ attempt = [p \in Procs |-> 1]
  /\ lock = NoProc
  /\ readers = {}
  /\ pending = [n \in Names |-> NoFile]
  /\ output = [n \in Names |-> NoFile]
  /\ pendingDisk = [n \in Names |-> {NoFile}]
  /\ outputDisk = [n \in Names |-> {NoFile}]
  /\ bytes = [p \in Procs |-> Torn]
  /\ verdict = [p \in Procs |-> "none"]
  /\ created = [p \in Procs |-> FALSE]
  /\ recovery = [p \in Procs |-> "none"]
  /\ seen = [p \in Procs |-> NoFile]
  /\ powerLosses = 0

(* openWriterDirectory: the identity checks, then up to three attempts at   *)
(* flock, which sleep 200 ms and 400 ms in between.                         *)

OpenDirectory(p) ==
  /\ Goto(p, "idle", "lock")
  /\ UNCHANGED <<frame, dirVars, bytes, callVars>>

\* A refused walk, a changed identity, or a flock errno other than
\* EWOULDBLOCK: the call throws before it owns anything.
OpenFails(p) ==
  /\ pc[p] \in {"idle", "lock"}
  /\ pc' = [pc EXCEPT ![p] = "done"]
  /\ Decide(p, "failed")
  /\ UNCHANGED <<frame, dirVars, bytes, memo>>

\* Variant: a writer does not wait for readers.
Lockable_IgnoresReaders(p) == lock = NoProc

Lockable(p) == lock = NoProc /\ (op(p) # "read" => readers = {})

FirstStep(p) == CASE op(p) = "publish" -> "recover"
                  [] op(p) = "remove"  -> "rmCheck"
                  [] OTHER             -> "rdOpen"

AcquireLock(p) ==
  /\ Lockable(p)
  /\ Goto(p, "lock", FirstStep(p))
  /\ IF op(p) = "read"
     THEN readers' = readers \cup {p} /\ UNCHANGED lock
     ELSE lock' = p /\ UNCHANGED readers
  /\ UNCHANGED <<call, attempt, dirVars, bytes, callVars, powerLosses>>

\* Variant: the retry budget is not checked.
LockBusy_Unbounded(p) ==
  /\ ~Lockable(p)
  /\ pc[p] = "lock"
  /\ attempt' = [attempt EXCEPT ![p] = @ + 1]
  /\ UNCHANGED <<call, pc, lock, readers, dirVars, bytes, callVars, powerLosses>>

LockBusy(p) ==
  /\ ~Lockable(p)
  /\ pc[p] = "lock"
  /\ attempt[p] < MaxAttempts
  /\ attempt' = [attempt EXCEPT ![p] = @ + 1]
  /\ UNCHANGED <<call, pc, lock, readers, dirVars, bytes, callVars, powerLosses>>

\* The third refusal: a publication still looks at the output without the
\* lock, a removal and a read give up.
LockGivenUp(p) ==
  /\ ~Lockable(p)
  /\ attempt[p] = MaxAttempts
  /\ IF op(p) = "publish"
     THEN Goto(p, "lock", "peek") /\ UNCHANGED verdict
     ELSE Goto(p, "lock", "close") /\ Decide(p, "busy")
  /\ UNCHANGED <<frame, dirVars, bytes, memo>>

\* expectedParent names another directory: close and throw, nothing touched.
ParentMismatch(p) ==
  /\ pc[p] \in {"recover", "peek", "rmCheck"}
  /\ pc' = [pc EXCEPT ![p] = "close"]
  /\ Decide(p, "failed")
  /\ UNCHANGED <<frame, dirVars, bytes, memo>>

(* existingWriterOutcome: absent, equal to the candidate, or in conflict.   *)

Existing(p) ==
  LET content == Content(output[name(p)])
  IN CASE content = NoFile       -> "none"
       [] content = candidate(p) -> "matched-existing"
       [] OTHER                  -> "conflict"

\* Variant: cleanup also runs for a caller that never got the lock.
Peek_Cleans(p) ==
  /\ Goto(p, "peek", "cleanup")
  /\ Decide(p, IF Existing(p) = "none" THEN "busy" ELSE Existing(p))
  /\ UNCHANGED <<frame, dirVars, bytes, memo>>

\* publishWithOwnership without the lock.
Peek(p) ==
  /\ Goto(p, "peek", "close")
  /\ Decide(p, IF Existing(p) = "none" THEN "busy" ELSE Existing(p))
  /\ UNCHANGED <<frame, dirVars, bytes, memo>>

(* publishLocked, one action per system call that others can observe.       *)

\* Variant: residue of a crash after the link is taken for foreign.
Recoverable_OneLink(n) == Links(pending[n]) = 1

\* recoverPending: only a pending file with one link, or with a second link
\* at its own output name, is residue that may be removed.
Recoverable(n) ==
  LET f == pending[n]
  IN Links(f) = 1 \/ (Links(f) = 2 /\ output[n] = f)

RecoverPending(p) ==
  LET n == name(p)
      refused == pending[n] # NoFile /\ ~Recoverable(n)
  IN
  /\ Goto(p, "recover", IF refused THEN "cleanup" ELSE "check")
  /\ IF refused THEN Decide(p, "failed") ELSE UNCHANGED verdict
  /\ recovery' = [recovery EXCEPT ![p] =
        CASE refused \/ pending[n] = NoFile -> "none"
          [] Links(pending[n]) = 2          -> "post-link"
          [] OTHER                          -> "pre-link"]
  /\ IF refused \/ pending[n] = NoFile
     THEN UNCHANGED dirVars
     ELSE SetPending(n, NoFile) /\ UNCHANGED <<output, outputDisk>>
  /\ UNCHANGED <<frame, bytes, created, seen>>

CheckExisting(p) ==
  /\ Goto(p, "check", IF Existing(p) = "none" THEN "open" ELSE "cleanup")
  /\ Decide(p, Existing(p))
  /\ UNCHANGED <<frame, dirVars, bytes, memo>>

\* Variant: the link does not wait for the bytes.
CreatePending_Unwritten(p) ==
  /\ pending[name(p)] = NoFile
  /\ Goto(p, "open", "link")
  /\ SetPending(name(p), p)
  /\ UNCHANGED <<frame, output, outputDisk, bytes, callVars>>

\* writePending: O_CREAT | O_EXCL ...
CreatePending(p) ==
  LET n == name(p) IN
  /\ IF pending[n] = NoFile
     THEN /\ Goto(p, "open", "write")
          /\ SetPending(n, p)
          /\ UNCHANGED <<output, outputDisk, verdict>>
     ELSE /\ Goto(p, "open", "cleanup")
          /\ Decide(p, "failed")
          /\ UNCHANGED dirVars
  /\ UNCHANGED <<frame, bytes, memo>>

\* ... the bytes, and the fsync of the file.
WritePending(p) ==
  /\ Goto(p, "write", "link")
  /\ bytes' = [bytes EXCEPT ![p] = candidate(p)]
  /\ UNCHANGED <<frame, dirVars, callVars>>

\* Variants: the pending name is renamed to the output name; artifactCreated
\* is left for a later step.
LinkOutput_Renames(p) ==
  LET n == name(p) IN
  /\ output[n] = NoFile
  /\ Goto(p, "link", "sync")
  /\ SetOutput(n, pending[n])
  /\ SetPending(n, NoFile)
  /\ created' = [created EXCEPT ![p] = TRUE]
  /\ UNCHANGED <<frame, bytes, verdict, recovery, seen>>
LinkOutput_FlagLate(p) ==
  /\ output[name(p)] = NoFile
  /\ Goto(p, "link", "sync")
  /\ SetOutput(name(p), pending[name(p)])
  /\ UNCHANGED <<frame, pending, pendingDisk, bytes, callVars>>

\* link(pending, output), which never replaces an existing entry.
LinkOutput(p) ==
  LET n == name(p) IN
  /\ IF output[n] = NoFile
     THEN /\ Goto(p, "link", "sync")
          /\ SetOutput(n, pending[n])
          /\ created' = [created EXCEPT ![p] = TRUE]
          /\ UNCHANGED <<pending, pendingDisk, verdict>>
     ELSE /\ Goto(p, "link", "cleanup")
          /\ Decide(p, Existing(p))
          /\ UNCHANGED <<dirVars, created>>
  /\ UNCHANGED <<frame, bytes, recovery, seen>>

\* Variant: the directory is not synced.
SyncPublication_Skipped(p) ==
  /\ Goto(p, "sync", "verify")
  /\ UNCHANGED <<frame, dirVars, bytes, callVars>>

SyncPublication(p) ==
  /\ Goto(p, "sync", "verify")
  /\ SyncDirectory
  /\ UNCHANGED <<frame, bytes, callVars>>

\* verifyPublished: two links, and the candidate's bytes.
ReadbackHolds(p) ==
  LET f == output[name(p)]
  IN f # NoFile /\ Links(f) = 2 /\ Content(f) = candidate(p)

VerifyPublished(p) ==
  /\ Goto(p, "verify", "cleanup")
  /\ Decide(p, IF ReadbackHolds(p) THEN "published" ELSE "failed")
  /\ UNCHANGED <<frame, dirVars, bytes, memo>>

\* An I/O error, a boundary drift or an injected failure at any step.
PublishFails(p) ==
  /\ pc[p] \in PublishSteps
  /\ pc' = [pc EXCEPT ![p] = "cleanup"]
  /\ Decide(p, "failed")
  /\ UNCHANGED <<frame, dirVars, bytes, memo>>

\* Every locked call unlinks the pending name, whoever created it.
Cleanup(p) ==
  /\ Goto(p, "cleanup", "close")
  /\ IF pending[name(p)] = NoFile
     THEN UNCHANGED <<pending, pendingDisk>>
     ELSE SetPending(name(p), NoFile)
  /\ UNCHANGED <<frame, output, outputDisk, bytes, callVars>>

\* Variant: a cleanup failure is only logged.
CleanupFails_LogOnly(p) ==
  /\ Goto(p, "cleanup", "close")
  /\ UNCHANGED <<frame, dirVars, bytes, callVars>>

CleanupFails(p) ==
  /\ Goto(p, "cleanup", "close")
  /\ Decide(p, "failed")
  /\ UNCHANGED <<frame, dirVars, bytes, memo>>

(* removeWriterArtifact. *)

\* Variant: the content is not compared with what the caller expects.
RemoveCheck_AnyContent(p) ==
  /\ output[name(p)] # NoFile
  /\ Goto(p, "rmCheck", "rmUnlink")
  /\ UNCHANGED <<frame, dirVars, bytes, callVars>>

RemoveCheck(p) ==
  LET content == Content(output[name(p)]) IN
  /\ CASE content = NoFile       -> /\ Goto(p, "rmCheck", "close")
                                    /\ Decide(p, "removed")
       [] content = candidate(p) -> /\ Goto(p, "rmCheck", "rmUnlink")
                                    /\ UNCHANGED verdict
       [] OTHER                  -> /\ Goto(p, "rmCheck", "close")
                                    /\ Decide(p, "mismatch")
  /\ UNCHANGED <<frame, dirVars, bytes, memo>>

RemoveUnlink(p) ==
  /\ Goto(p, "rmUnlink", "rmSync")
  /\ SetOutput(name(p), NoFile)
  /\ UNCHANGED <<frame, pending, pendingDisk, bytes, callVars>>

RemoveSync(p) ==
  /\ Goto(p, "rmSync", "close")
  /\ SyncDirectory
  /\ Decide(p, "removed")
  /\ UNCHANGED <<frame, bytes, memo>>

RemoveFails(p) ==
  /\ pc[p] \in RemoveSteps
  /\ pc' = [pc EXCEPT ![p] = "close"]
  /\ Decide(p, "failed")
  /\ UNCHANGED <<frame, dirVars, bytes, memo>>

(* readAnchoredArtifact, under the shared lock. *)

ReadOutput(p) ==
  /\ Goto(p, "rdOpen", "close")
  /\ seen' = [seen EXCEPT ![p] = Content(output[name(p)])]
  /\ Decide(p, "read")
  /\ UNCHANGED <<frame, dirVars, bytes, created, recovery>>

\* openat, fstat or read fails, with the lock or in the unlocked look.
ReadFails(p) ==
  /\ pc[p] \in {"rdOpen", "peek"}
  /\ pc' = [pc EXCEPT ![p] = "close"]
  /\ Decide(p, "failed")
  /\ UNCHANGED <<frame, dirVars, bytes, memo>>

(* closeWriterDirectory and publicationResult.  A failed unlock or close    *)
(* still gives up the lock, with the descriptor, and fails the call.        *)

Release(p) ==
  /\ lock' = IF lock = p THEN NoProc ELSE lock
  /\ readers' = readers \ {p}

Close(p) ==
  /\ Goto(p, "close", "done")
  /\ Release(p)
  /\ Decide(p, IF verdict[p] = "none" THEN "failed" ELSE verdict[p])
  /\ UNCHANGED <<call, attempt, dirVars, bytes, memo, powerLosses>>

\* Variant: a failing close leaves the lock behind.
CloseFails_KeepsLock(p) ==
  /\ Goto(p, "close", "done")
  /\ Decide(p, "failed")
  /\ UNCHANGED <<frame, dirVars, bytes, memo>>

CloseFails(p) ==
  /\ Goto(p, "close", "done")
  /\ Release(p)
  /\ Decide(p, "failed")
  /\ UNCHANGED <<call, attempt, dirVars, bytes, memo, powerLosses>>

(* The environment. *)

Running(p) == pc[p] \notin {"idle", "done", "crashed"}

\* The process is killed: the kernel drops its lock, its files stay.
Crash(p) ==
  /\ Running(p)
  /\ pc' = [pc EXCEPT ![p] = "crashed"]
  /\ Release(p)
  /\ UNCHANGED <<call, attempt, dirVars, bytes, callVars, powerLosses>>

\* Every process dies, and each entry comes back as one that was written
\* since the directory was last synced.
PowerLoss ==
  /\ powerLosses < MaxPowerLosses
  /\ powerLosses' = powerLosses + 1
  /\ pc' = [p \in Procs |-> IF Running(p) THEN "crashed" ELSE pc[p]]
  /\ lock' = NoProc
  /\ readers' = {}
  /\ pending' \in [Names -> Files]
  /\ output' \in [Names -> Files]
  /\ \A n \in Names : pending'[n] \in pendingDisk[n]
                   /\ output'[n] \in outputDisk[n]
  /\ pendingDisk' = [n \in Names |-> {pending'[n]}]
  /\ outputDisk' = [n \in Names |-> {output'[n]}]
  /\ UNCHANGED <<call, attempt, bytes, callVars>>

\* Every call has returned or died.
Terminated ==
  /\ \A p \in Procs : pc[p] \in {"done", "crashed"}
  /\ UNCHANGED vars

Publish(p) ==
  \/ RecoverPending(p) \/ CheckExisting(p)
  \/ CreatePending(p) \/ WritePending(p) \/ LinkOutput(p)
  \/ SyncPublication(p) \/ VerifyPublished(p) \/ PublishFails(p)
  \/ Cleanup(p) \/ CleanupFails(p) \/ Peek(p)

Run(p) ==
  \/ OpenDirectory(p) \/ OpenFails(p) \/ AcquireLock(p) \/ LockBusy(p)
  \/ LockGivenUp(p) \/ ParentMismatch(p)
  \/ Publish(p)
  \/ RemoveCheck(p) \/ RemoveUnlink(p) \/ RemoveSync(p) \/ RemoveFails(p)
  \/ ReadOutput(p) \/ ReadFails(p)
  \/ Close(p) \/ CloseFails(p)

Next == (\E p \in Procs : Run(p) \/ Crash(p)) \/ PowerLoss \/ Terminated

Spec == Init /\ [][Next]_vars

\* A process that runs takes its next step; nothing makes it crash.
Fairness == \A p \in Procs : WF_vars(pc[p] # "idle" /\ Run(p))

FairSpec == Spec /\ Fairness
-----------------------------------------------------------------------------
(* Properties. *)

\* The output name only ever shows, and the disk only ever brings back, files
\* whose bytes were complete and synced before they were linked, and that
\* were published under that name: no reader sees a torn artifact
\* (writePending's fsync before publishLocked's link).
NoTornOutput ==
  \A n \in Names : \A f \in outputDisk[n] \cup {output[n]} :
    f # NoFile => bytes[f] = candidate(f) /\ name(f) = n

\* Between its exclusive create and its cleanup a publication owns the lock
\* and the pending name: no other process recovers, replaces or unlinks it,
\* so the file it links is the file it wrote.
HolderOwnsPending ==
  \A p \in Procs : pc[p] \in {"write", "link", "sync", "verify"} =>
    lock = p /\ pending[name(p)] = p

\* Whatever crashes and power losses leave behind, the next publication of
\* that name can recover: the unsafe-recovery-pending, recovery-output and
\* recovery-link-mismatch failures of recoverPending stay unreachable.
RecoveryNeverRefuses ==
  \A n \in Names : pending[n] # NoFile => Recoverable(n)

\* verifyPublished's own checks, two links and the candidate's bytes, cannot
\* fail: a publication that reaches the readback has its file at the output.
ReadbackCannotFail ==
  \A p \in Procs : pc[p] = "verify" => ReadbackHolds(p)

\* artifactCreated separates a safe retry from a state to inspect: a call
\* that ends without it has left no output, now or after a power loss, and a
\* call that returns "published" has it.
CreatedIsTruthful ==
  \A p \in Procs : pc[p] \in {"close", "done"} =>
    /\ ~created[p] => \A n \in Names : p \notin outputDisk[n]
    /\ verdict[p] = "published" => created[p]

\* A pending name outlives its call only through a crash, a power loss or a
\* cleanup failure that failed the call: no call that reported success leaves
\* residue.
ResidueExplained ==
  \A n \in Names : LET f == pending[n] IN
    f # NoFile => \/ powerLosses > 0
                  \/ pc[f] = "crashed"
                  \/ lock = f
                  \/ pc[f] \in {"close", "done"} /\ verdict[f] = "failed"

\* No call removes what p published.
Kept(p) == \A q \in Procs : ~ /\ op(q) = "remove"
                              /\ name(q) = name(p)
                              /\ candidate(q) = candidate(p)

\* "published" is only returned for an output whose directory entry has been
\* synced: no later power loss takes it back.
PublishedIsDurable ==
  \A p \in Procs : verdict[p] = "published" /\ Kept(p) =>
    outputDisk[name(p)] = {p}

\* The same for every success, "the one function every other module uses to
\* put a byte on disk durably" (openwiki/terminal-operator/
\* writer-publication.md:17): a call that returned success has its candidate
\* at the output name after any power loss.
SuccessIsDurable ==
  \A p \in Procs :
    /\ pc[p] = "done"
    /\ verdict[p] \in {"published", "matched-existing"}
    /\ Kept(p)
    => \A f \in outputDisk[name(p)] : Content(f) = candidate(p)

\* Readers hold the shared lock, writers the exclusive one: while anyone
\* reads, no entry of the directory changes, except by a power loss.
DirectoryStillForReaders ==
  [][readers # {} => \/ UNCHANGED <<pending, output>>
                     \/ powerLosses' # powerLosses]_vars

\* The lock never outlives its holder: a call that failed anywhere, cleanup
\* and unlock included, gives the directory back.
LockEventuallyFree == \A p \in Procs : Holds(p) ~> ~Holds(p)

-----------------------------------------------------------------------------
(* The refinement: the store a caller sees is the content of the output.   *)
Stored(n) == Content(output[n])
Surviving(n) == {Content(f) : f \in outputDisk[n]}

Store == INSTANCE WriteOnceStore WITH
  Absent <- NoFile,
  store <- [n \in Names |-> Stored(n)],
  survivors <- [n \in Names |-> Surviving(n)],
  putters <- {p \in Procs : created[p]},
  reply <- verdict,
  value <- seen

\* Processes that race, crash and lose power in the middle of publishing,
\* removing and reading behave to their callers as WriteOnceStore says.
ImplementsWriteOnceStore == Store!Spec
=============================================================================
