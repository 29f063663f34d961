---------------------- MODULE WriterPublication_proofs ----------------------
(* Proofs about WriterPublication for any number of processes, names and    *)
(* candidates.                                                              *)
EXTENDS WriterPublication, FiniteSetTheorems, TLAPS

\* Steps in which the pending name of p's output is p's own file.
OwnerSteps == {"write", "link", "sync", "verify"}

\* The exclusive lock and the program counters agree, and shared holders
\* exclude the exclusive one.
LockInv ==
  /\ \A p \in Procs : pc[p] \in LockedSteps => lock = p
  /\ \A p \in Procs : lock = p => pc[p] \in LockedSteps \cup {"close"}
  /\ readers # {} => lock = NoProc

\* Every entry, current or on disk, is a file published under that name, and
\* a linked output is complete.
EntriesInv ==
  \A n \in Names :
    /\ \A f \in pendingDisk[n] \cup {pending[n]} : f # NoFile => name(f) = n
    /\ \A f \in outputDisk[n] \cup {output[n]} :
         f # NoFile => bytes[f] = candidate(f) /\ name(f) = n

\* A file that is about to be linked is complete.
CompleteInv ==
  \A p \in Procs : pc[p] \in {"link", "sync", "verify"} =>
    bytes[p] = candidate(p)

PendingInv ==
  \A p \in Procs : pc[p] \in OwnerSteps => pending[name(p)] = p

IInv == TypeOK /\ LockInv /\ EntriesInv /\ CompleteInv /\ PendingInv

USE SetsAssumption, CallsAssumption, BoundAssumption

LEMMA CallFields ==
  ASSUME TypeOK, NEW p \in Procs
  PROVE  /\ name(p) \in Names
         /\ candidate(p) \in Candidates
         /\ op(p) \in {"publish", "remove", "read"}
BY DEF TypeOK, name, candidate, op

LEMMA ExistingType ==
  ASSUME NEW p \in Procs
  PROVE  Existing(p) \in {"none", "matched-existing", "conflict"}
BY DEF Existing

LEMMA SetPendingType ==
  ASSUME TypeOK, NEW n \in Names, NEW f \in Files, SetPending(n, f)
  PROVE  /\ pending' \in [Names -> Files]
         /\ pendingDisk' \in [Names -> SUBSET Files]
BY DEF TypeOK, SetPending

LEMMA SetOutputType ==
  ASSUME TypeOK, NEW n \in Names, NEW f \in Files, SetOutput(n, f)
  PROVE  /\ output' \in [Names -> Files]
         /\ outputDisk' \in [Names -> SUBSET Files]
BY DEF TypeOK, SetOutput

LEMMA InitType == Init => TypeOK
BY DEF Init, TypeOK, Steps, Files, Contents, Outcomes, Failures

\* TypeOK is inductive: every action keeps every variable in its range.
LEMMA NextType == TypeOK /\ [Next]_vars => TypeOK'
<1> SUFFICES ASSUME TypeOK, [Next]_vars PROVE TypeOK'
  OBVIOUS
<1> USE DEF TypeOK, frame, memo, callVars, dirVars
<1>1. ASSUME NEW p \in Procs, Run(p) PROVE TypeOK'
  <2> /\ name(p) \in Names
      /\ op(p) \in {"publish", "remove", "read"}
      /\ candidate(p) \in Candidates
    BY CallFields
  <2> Existing(p) \in {"none", "matched-existing", "conflict"}
    BY ExistingType
  <2> p \in Files /\ NoFile \in Files
    BY DEF Files
  <2> USE DEF Goto, Decide, Steps, LockedSteps, PublishSteps, RemoveSteps,
              Outcomes, Failures
  <2>1. CASE OpenDirectory(p) BY <2>1 DEF OpenDirectory
  <2>2. CASE OpenFails(p) BY <2>2 DEF OpenFails
  <2>3. CASE AcquireLock(p) BY <2>3 DEF AcquireLock, FirstStep
  <2>4. CASE LockBusy(p) BY <2>4 DEF LockBusy
  <2>5. CASE LockGivenUp(p) BY <2>5 DEF LockGivenUp
  <2>6. CASE ParentMismatch(p) BY <2>6 DEF ParentMismatch
  <2>7. CASE Publish(p)
    <3>1. CASE RecoverPending(p)
      <4>1. /\ pc' \in [Procs -> Steps]
            /\ verdict' \in [Procs -> Outcomes \cup Failures \cup {"none"}]
        BY <3>1 DEF RecoverPending
      <4>2. recovery' \in [Procs -> {"none", "pre-link", "post-link"}]
        BY <3>1 DEF RecoverPending
      <4>3. /\ pending' \in [Names -> Files]
            /\ pendingDisk' \in [Names -> SUBSET Files]
            /\ UNCHANGED <<output, outputDisk>>
        <5>1. CASE UNCHANGED dirVars BY <5>1
        <5>2. CASE SetPending(name(p), NoFile) /\ UNCHANGED <<output, outputDisk>>
          BY <5>2, SetPendingType
        <5> QED BY <3>1, <5>1, <5>2 DEF RecoverPending
      <4> QED BY <3>1, <4>1, <4>2, <4>3 DEF RecoverPending
    <3>2. CASE CheckExisting(p) BY <3>2 DEF CheckExisting
    <3>3. CASE CreatePending(p)
      <4>1. /\ pc' \in [Procs -> Steps]
            /\ verdict' \in [Procs -> Outcomes \cup Failures \cup {"none"}]
            /\ created' \in [Procs -> BOOLEAN]
        BY <3>3 DEF CreatePending
      <4>2. /\ pending' \in [Names -> Files]
            /\ pendingDisk' \in [Names -> SUBSET Files]
            /\ UNCHANGED <<output, outputDisk>>
        <5>1. CASE UNCHANGED dirVars BY <5>1
        <5>2. CASE SetPending(name(p), p) /\ UNCHANGED <<output, outputDisk>>
          BY <5>2, SetPendingType
        <5> QED BY <3>3, <5>1, <5>2 DEF CreatePending
      <4> QED BY <3>3, <4>1, <4>2 DEF CreatePending
    <3>4. CASE WritePending(p) BY <3>4 DEF WritePending, Contents
    <3>5. CASE LinkOutput(p)
      <4>1. /\ pc' \in [Procs -> Steps]
            /\ verdict' \in [Procs -> Outcomes \cup Failures \cup {"none"}]
            /\ created' \in [Procs -> BOOLEAN]
        BY <3>5 DEF LinkOutput
      <4>2. /\ output' \in [Names -> Files]
            /\ outputDisk' \in [Names -> SUBSET Files]
            /\ UNCHANGED <<pending, pendingDisk>>
        <5>1. CASE UNCHANGED dirVars BY <5>1
        <5>2. CASE /\ SetOutput(name(p), pending[name(p)])
                   /\ UNCHANGED <<pending, pendingDisk>>
          BY <5>2, SetOutputType, pending[name(p)] \in Files
        <5> QED BY <3>5, <5>1, <5>2 DEF LinkOutput
      <4> QED BY <3>5, <4>1, <4>2 DEF LinkOutput
    <3>6. CASE SyncPublication(p) BY <3>6 DEF SyncPublication, SyncDirectory
    <3>7. CASE VerifyPublished(p) BY <3>7 DEF VerifyPublished
    <3>8. CASE PublishFails(p) BY <3>8 DEF PublishFails
    <3>9. CASE Cleanup(p) BY <3>9 DEF Cleanup, SetPending, Files
    <3>10. CASE CleanupFails(p) BY <3>10 DEF CleanupFails
    <3>11. CASE Peek(p) BY <3>11 DEF Peek
    <3> QED
      BY <2>7, <3>1, <3>2, <3>3, <3>4, <3>5, <3>6, <3>7, <3>8, <3>9, <3>10,
         <3>11 DEF Publish
  <2>8. CASE RemoveCheck(p) BY <2>8 DEF RemoveCheck
  <2>9. CASE RemoveUnlink(p) BY <2>9 DEF RemoveUnlink, SetOutput, Files
  <2>10. CASE RemoveSync(p) BY <2>10 DEF RemoveSync, SyncDirectory
  <2>11. CASE RemoveFails(p) BY <2>11 DEF RemoveFails
  <2>12. CASE ReadOutput(p)
    BY <2>12 DEF ReadOutput, Content, Files, Contents
  <2>13. CASE ReadFails(p) BY <2>13 DEF ReadFails
  <2>14. CASE Close(p) BY <2>14 DEF Close, Release
  <2>15. CASE CloseFails(p) BY <2>15 DEF CloseFails, Release
  <2> QED
    BY <1>1, <2>1, <2>2, <2>3, <2>4, <2>5, <2>6, <2>7, <2>8, <2>9, <2>10,
       <2>11, <2>12, <2>13, <2>14, <2>15 DEF Run
<1>2. ASSUME NEW p \in Procs, Crash(p) PROVE TypeOK'
  BY <1>2 DEF Crash, Release, Steps
<1>3. CASE PowerLoss BY <1>3 DEF PowerLoss, Running, Steps
<1>4. CASE Terminated BY <1>4 DEF Terminated, vars
<1>5. CASE UNCHANGED vars BY <1>5 DEF vars
<1> QED BY <1>1, <1>2, <1>3, <1>4, <1>5 DEF Next

\* The type invariant holds of every behaviour, for any set of processes,
\* names and candidates.
THEOREM TypeCorrect == Spec => []TypeOK
<1> QED BY InitType, NextType, PTL DEF Spec

-----------------------------------------------------------------------------
\* The lock: a call acquires it before its first locked step and every way
\* out of the locked steps leads through Close, Crash or PowerLoss.
LEMMA NextLock == TypeOK /\ LockInv /\ [Next]_vars => LockInv'
<1> SUFFICES ASSUME TypeOK, LockInv, [Next]_vars PROVE LockInv'
  OBVIOUS
<1> USE DEF frame, LockInv, LockedSteps, PublishSteps, RemoveSteps
<1> pc \in [Procs -> Steps] /\ lock \in Procs \cup {NoProc}
  BY DEF TypeOK
<1>1. ASSUME NEW p \in Procs, Run(p) PROVE LockInv'
  <2> op(p) \in {"publish", "remove", "read"}
    BY CallFields
  <2> USE DEF Goto
  <2>1. CASE OpenDirectory(p) BY <2>1 DEF OpenDirectory
  <2>2. CASE OpenFails(p) BY <2>2 DEF OpenFails
  <2>3. CASE AcquireLock(p) BY <2>3 DEF AcquireLock, FirstStep, Lockable
  <2>4. CASE LockBusy(p) BY <2>4 DEF LockBusy
  <2>5. CASE LockGivenUp(p) BY <2>5 DEF LockGivenUp
  <2>6. CASE ParentMismatch(p) BY <2>6 DEF ParentMismatch
  <2>7. CASE RecoverPending(p) BY <2>7 DEF RecoverPending
  <2>8. CASE CheckExisting(p) BY <2>8 DEF CheckExisting
  <2>9. CASE CreatePending(p) BY <2>9 DEF CreatePending
  <2>10. CASE WritePending(p) BY <2>10 DEF WritePending
  <2>11. CASE LinkOutput(p) BY <2>11 DEF LinkOutput
  <2>12. CASE SyncPublication(p) BY <2>12 DEF SyncPublication
  <2>13. CASE VerifyPublished(p) BY <2>13 DEF VerifyPublished
  <2>14. CASE PublishFails(p) BY <2>14 DEF PublishFails
  <2>15. CASE Cleanup(p) BY <2>15 DEF Cleanup
  <2>16. CASE CleanupFails(p) BY <2>16 DEF CleanupFails
  <2>17. CASE Peek(p) BY <2>17 DEF Peek
  <2>18. CASE RemoveCheck(p) BY <2>18 DEF RemoveCheck
  <2>19. CASE RemoveUnlink(p) BY <2>19 DEF RemoveUnlink
  <2>20. CASE RemoveSync(p) BY <2>20 DEF RemoveSync
  <2>21. CASE RemoveFails(p) BY <2>21 DEF RemoveFails
  <2>22. CASE ReadOutput(p) BY <2>22 DEF ReadOutput
  <2>23. CASE ReadFails(p) BY <2>23 DEF ReadFails
  <2>24. CASE Close(p) BY <2>24 DEF Close, Release
  <2>25. CASE CloseFails(p) BY <2>25 DEF CloseFails, Release
  <2> QED
    BY <1>1, <2>1, <2>2, <2>3, <2>4, <2>5, <2>6, <2>7, <2>8, <2>9, <2>10,
       <2>11, <2>12, <2>13, <2>14, <2>15, <2>16, <2>17, <2>18, <2>19,
       <2>20, <2>21, <2>22, <2>23, <2>24, <2>25 DEF Run, Publish
<1>2. ASSUME NEW p \in Procs, Crash(p) PROVE LockInv'
  BY <1>2 DEF Crash, Release, Running
<1>3. CASE PowerLoss BY <1>3 DEF PowerLoss, Running
<1>4. CASE Terminated BY <1>4 DEF Terminated, vars
<1>5. CASE UNCHANGED vars BY <1>5 DEF vars
<1> QED BY <1>1, <1>2, <1>3, <1>4, <1>5 DEF Next

\* Complete bytes: only the writer of a file writes it, and it writes before
\* it may link.
LEMMA NextComplete == TypeOK /\ CompleteInv /\ [Next]_vars => CompleteInv'
<1> SUFFICES ASSUME TypeOK, CompleteInv, [Next]_vars PROVE CompleteInv'
  OBVIOUS
<1> USE DEF frame, CompleteInv, candidate
<1> pc \in [Procs -> Steps] /\ bytes \in [Procs -> Contents]
  BY DEF TypeOK
<1>1. ASSUME NEW p \in Procs, Run(p) PROVE CompleteInv'
  <2> op(p) \in {"publish", "remove", "read"}
    BY CallFields
  <2> USE DEF Goto
  <2>1. CASE OpenDirectory(p) BY <2>1 DEF OpenDirectory
  <2>2. CASE OpenFails(p) BY <2>2 DEF OpenFails
  <2>3. CASE AcquireLock(p) BY <2>3 DEF AcquireLock, FirstStep
  <2>4. CASE LockBusy(p) BY <2>4 DEF LockBusy
  <2>5. CASE LockGivenUp(p) BY <2>5 DEF LockGivenUp
  <2>6. CASE ParentMismatch(p) BY <2>6 DEF ParentMismatch
  <2>7. CASE RecoverPending(p) BY <2>7 DEF RecoverPending
  <2>8. CASE CheckExisting(p) BY <2>8 DEF CheckExisting
  <2>9. CASE CreatePending(p) BY <2>9 DEF CreatePending
  <2>10. CASE WritePending(p) BY <2>10 DEF WritePending
  <2>11. CASE LinkOutput(p) BY <2>11 DEF LinkOutput
  <2>12. CASE SyncPublication(p) BY <2>12 DEF SyncPublication
  <2>13. CASE VerifyPublished(p) BY <2>13 DEF VerifyPublished
  <2>14. CASE PublishFails(p) BY <2>14 DEF PublishFails, PublishSteps
  <2>15. CASE Cleanup(p) BY <2>15 DEF Cleanup
  <2>16. CASE CleanupFails(p) BY <2>16 DEF CleanupFails
  <2>17. CASE Peek(p) BY <2>17 DEF Peek
  <2>18. CASE RemoveCheck(p) BY <2>18 DEF RemoveCheck
  <2>19. CASE RemoveUnlink(p) BY <2>19 DEF RemoveUnlink
  <2>20. CASE RemoveSync(p) BY <2>20 DEF RemoveSync
  <2>21. CASE RemoveFails(p) BY <2>21 DEF RemoveFails, RemoveSteps
  <2>22. CASE ReadOutput(p) BY <2>22 DEF ReadOutput
  <2>23. CASE ReadFails(p) BY <2>23 DEF ReadFails
  <2>24. CASE Close(p) BY <2>24 DEF Close
  <2>25. CASE CloseFails(p) BY <2>25 DEF CloseFails
  <2> QED
    BY <1>1, <2>1, <2>2, <2>3, <2>4, <2>5, <2>6, <2>7, <2>8, <2>9, <2>10,
       <2>11, <2>12, <2>13, <2>14, <2>15, <2>16, <2>17, <2>18, <2>19,
       <2>20, <2>21, <2>22, <2>23, <2>24, <2>25 DEF Run, Publish
<1>2. ASSUME NEW p \in Procs, Crash(p) PROVE CompleteInv'
  BY <1>2 DEF Crash, Running, dirVars
<1>3. CASE PowerLoss BY <1>3 DEF PowerLoss, Running
<1>4. CASE Terminated BY <1>4 DEF Terminated, vars, dirVars
<1>5. CASE UNCHANGED vars BY <1>5 DEF vars, dirVars
<1> QED BY <1>1, <1>2, <1>3, <1>4, <1>5 DEF Next

\* The pending name: whoever is in an owner step holds the lock, so no other
\* process is in a step that touches the pending name.
LEMMA NextPending ==
  TypeOK /\ LockInv /\ PendingInv /\ [Next]_vars => PendingInv'
<1> SUFFICES ASSUME TypeOK, LockInv, PendingInv, [Next]_vars
             PROVE  PendingInv'
  OBVIOUS
<1> USE DEF frame, PendingInv, OwnerSteps, name
<1> pc \in [Procs -> Steps] /\ pending \in [Names -> Files]
  BY DEF TypeOK
<1> \A p \in Procs : pc[p] \in LockedSteps => lock = p
  BY DEF LockInv
<1> \A p \in Procs : call[p].name \in Names
  BY CallFields
<1>1. ASSUME NEW p \in Procs, Run(p) PROVE PendingInv'
  <2> op(p) \in {"publish", "remove", "read"}
    BY CallFields
  <2> USE DEF Goto, LockedSteps, PublishSteps, RemoveSteps, dirVars
  <2>1. CASE OpenDirectory(p) BY <2>1 DEF OpenDirectory
  <2>2. CASE OpenFails(p) BY <2>2 DEF OpenFails
  <2>3. CASE AcquireLock(p) BY <2>3 DEF AcquireLock, FirstStep
  <2>4. CASE LockBusy(p) BY <2>4 DEF LockBusy
  <2>5. CASE LockGivenUp(p) BY <2>5 DEF LockGivenUp
  <2>6. CASE ParentMismatch(p) BY <2>6 DEF ParentMismatch
  <2>7. CASE RecoverPending(p) BY <2>7 DEF RecoverPending, SetPending
  <2>8. CASE CheckExisting(p) BY <2>8 DEF CheckExisting
  <2>9. CASE CreatePending(p) BY <2>9 DEF CreatePending, SetPending
  <2>10. CASE WritePending(p) BY <2>10 DEF WritePending
  <2>11. CASE LinkOutput(p) BY <2>11 DEF LinkOutput
  <2>12. CASE SyncPublication(p) BY <2>12 DEF SyncPublication, SyncDirectory
  <2>13. CASE VerifyPublished(p) BY <2>13 DEF VerifyPublished
  <2>14. CASE PublishFails(p) BY <2>14 DEF PublishFails
  <2>15. CASE Cleanup(p) BY <2>15 DEF Cleanup, SetPending
  <2>16. CASE CleanupFails(p) BY <2>16 DEF CleanupFails
  <2>17. CASE Peek(p) BY <2>17 DEF Peek
  <2>18. CASE RemoveCheck(p) BY <2>18 DEF RemoveCheck
  <2>19. CASE RemoveUnlink(p) BY <2>19 DEF RemoveUnlink
  <2>20. CASE RemoveSync(p) BY <2>20 DEF RemoveSync, SyncDirectory
  <2>21. CASE RemoveFails(p) BY <2>21 DEF RemoveFails
  <2>22. CASE ReadOutput(p) BY <2>22 DEF ReadOutput
  <2>23. CASE ReadFails(p) BY <2>23 DEF ReadFails
  <2>24. CASE Close(p) BY <2>24 DEF Close
  <2>25. CASE CloseFails(p) BY <2>25 DEF CloseFails
  <2> QED
    BY <1>1, <2>1, <2>2, <2>3, <2>4, <2>5, <2>6, <2>7, <2>8, <2>9, <2>10,
       <2>11, <2>12, <2>13, <2>14, <2>15, <2>16, <2>17, <2>18, <2>19,
       <2>20, <2>21, <2>22, <2>23, <2>24, <2>25 DEF Run, Publish
<1>2. ASSUME NEW p \in Procs, Crash(p) PROVE PendingInv'
  BY <1>2 DEF Crash, Running, dirVars
<1>3. CASE PowerLoss BY <1>3 DEF PowerLoss, Running
<1>4. CASE Terminated BY <1>4 DEF Terminated, vars, dirVars
<1>5. CASE UNCHANGED vars BY <1>5 DEF vars, dirVars
<1> QED BY <1>1, <1>2, <1>3, <1>4, <1>5 DEF Next

\* Directory entries: what is linked is the holder's own complete file, and
\* a power loss only brings back entries that satisfied the invariant.
LEMMA NextEntries == IInv /\ [Next]_vars => EntriesInv'
<1> SUFFICES ASSUME IInv, [Next]_vars PROVE EntriesInv'
  OBVIOUS
<1> USE DEF frame, EntriesInv, name, candidate
<1> TypeOK /\ EntriesInv /\ CompleteInv /\ PendingInv
  BY DEF IInv
<1> /\ pc \in [Procs -> Steps]
    /\ bytes \in [Procs -> Contents]
    /\ pending \in [Names -> Files] /\ pendingDisk \in [Names -> SUBSET Files]
    /\ output \in [Names -> Files] /\ outputDisk \in [Names -> SUBSET Files]
  BY DEF TypeOK
<1>1. ASSUME NEW p \in Procs, Run(p) PROVE EntriesInv'
  <2> call[p].name \in Names
    BY CallFields
  <2> USE DEF Goto, dirVars
  <2>1. CASE OpenDirectory(p) BY <2>1 DEF OpenDirectory
  <2>2. CASE OpenFails(p) BY <2>2 DEF OpenFails
  <2>3. CASE AcquireLock(p) BY <2>3 DEF AcquireLock
  <2>4. CASE LockBusy(p) BY <2>4 DEF LockBusy
  <2>5. CASE LockGivenUp(p) BY <2>5 DEF LockGivenUp
  <2>6. CASE ParentMismatch(p) BY <2>6 DEF ParentMismatch
  <2>7. CASE RecoverPending(p) BY <2>7 DEF RecoverPending, SetPending
  <2>8. CASE CheckExisting(p) BY <2>8 DEF CheckExisting
  <2>9. CASE CreatePending(p) BY <2>9 DEF CreatePending, SetPending
  <2>10. CASE WritePending(p) BY <2>10 DEF WritePending, Files
  <2>11. CASE LinkOutput(p) BY <2>11 DEF LinkOutput, SetOutput, CompleteInv, PendingInv, OwnerSteps
  <2>12. CASE SyncPublication(p) BY <2>12 DEF SyncPublication, SyncDirectory
  <2>13. CASE VerifyPublished(p) BY <2>13 DEF VerifyPublished
  <2>14. CASE PublishFails(p) BY <2>14 DEF PublishFails
  <2>15. CASE Cleanup(p) BY <2>15 DEF Cleanup, SetPending
  <2>16. CASE CleanupFails(p) BY <2>16 DEF CleanupFails
  <2>17. CASE Peek(p) BY <2>17 DEF Peek
  <2>18. CASE RemoveCheck(p) BY <2>18 DEF RemoveCheck
  <2>19. CASE RemoveUnlink(p) BY <2>19 DEF RemoveUnlink, SetOutput
  <2>20. CASE RemoveSync(p) BY <2>20 DEF RemoveSync, SyncDirectory
  <2>21. CASE RemoveFails(p) BY <2>21 DEF RemoveFails
  <2>22. CASE ReadOutput(p) BY <2>22 DEF ReadOutput
  <2>23. CASE ReadFails(p) BY <2>23 DEF ReadFails
  <2>24. CASE Close(p) BY <2>24 DEF Close
  <2>25. CASE CloseFails(p) BY <2>25 DEF CloseFails
  <2> QED
    BY <1>1, <2>1, <2>2, <2>3, <2>4, <2>5, <2>6, <2>7, <2>8, <2>9, <2>10,
       <2>11, <2>12, <2>13, <2>14, <2>15, <2>16, <2>17, <2>18, <2>19,
       <2>20, <2>21, <2>22, <2>23, <2>24, <2>25 DEF Run, Publish
<1>2. ASSUME NEW p \in Procs, Crash(p) PROVE EntriesInv'
  BY <1>2 DEF Crash, Running, dirVars
<1>3. CASE PowerLoss BY <1>3 DEF PowerLoss, Running
<1>4. CASE Terminated BY <1>4 DEF Terminated, vars, dirVars
<1>5. CASE UNCHANGED vars BY <1>5 DEF vars, dirVars
<1> QED BY <1>1, <1>2, <1>3, <1>4, <1>5 DEF Next

\* The inductive invariant.
LEMMA NextIInv == IInv /\ [Next]_vars => IInv'
BY NextType, NextLock, NextEntries, NextComplete, NextPending DEF IInv

LEMMA InitIInv == Init => IInv
<1> SUFFICES ASSUME Init PROVE IInv
  OBVIOUS
<1>1. TypeOK BY InitType
<1>2. LockInv BY <1>1 DEF Init, LockInv, LockedSteps, PublishSteps, RemoveSteps
<1>3. EntriesInv BY DEF Init, EntriesInv
<1>4. CompleteInv /\ PendingInv
  BY DEF Init, CompleteInv, PendingInv, OwnerSteps
<1> QED BY <1>1, <1>2, <1>3, <1>4 DEF IInv

LEMMA Invariance == Spec => []IInv
<1> QED BY InitIInv, NextIInv, PTL DEF Spec

\* No behaviour shows a torn artifact, not even after any number of power
\* losses within the bound: every linked or surviving output is complete.
THEOREM NeverTorn == Spec => []NoTornOutput
<1>1. IInv => NoTornOutput
  BY DEF IInv, EntriesInv, NoTornOutput
<1> QED BY <1>1, Invariance, PTL

\* The pending name belongs to the lock's holder from the exclusive create to
\* the cleanup.
THEOREM PendingOwned == Spec => []HolderOwnsPending
<1>1. IInv => HolderOwnsPending
  BY DEF IInv, LockInv, PendingInv, HolderOwnsPending, OwnerSteps,
         LockedSteps, PublishSteps
<1> QED BY <1>1, Invariance, PTL

-----------------------------------------------------------------------------
(* What a call knows of itself and, while it has the lock, of the directory. *)

Undecided ==
  PublishSteps \cup RemoveSteps \cup {"idle", "lock", "peek", "rdOpen"}
Unlinked ==
  {"idle", "lock", "peek", "recover", "check", "open", "write", "link"}

\* A call takes the steps of its operation, decides once, and owns an artifact
\* from its link on.
CallInv ==
  \A p \in Procs :
    /\ pc[p] \in PublishSteps \cup {"peek"} => op(p) = "publish"
    /\ pc[p] \in RemoveSteps => op(p) = "remove"
    /\ pc[p] = "rdOpen" => op(p) = "read"
    /\ pc[p] \in Undecided => verdict[p] = "none"
    /\ pc[p] \in Unlinked => ~created[p]
    /\ pc[p] \in {"sync", "verify"} \/ verdict[p] = "published" => created[p]

\* What the lock keeps from one step to the next.
StepInv ==
  \A p \in Procs :
    /\ pc[p] \in {"sync", "verify"} => output[name(p)] = p
    /\ pc[p] = "verify" => outputDisk[name(p)] = {p}
    /\ pc[p] = "rmUnlink" => Content(output[name(p)]) = candidate(p)
    /\ pc[p] = "rmSync" => output[name(p)] = NoFile

\* Who has not created an artifact is nowhere in the directory.
CreatedInv ==
  \A p \in Procs : ~created[p] =>
    \A n \in Names : p \notin outputDisk[n] /\ output[n] # p

\* A pending file is that of a call in between, of one that died, or of one
\* that failed in its cleanup.
ResidueInv ==
  \A n \in Names : LET f == pending[n] IN
    f # NoFile => \/ powerLosses > 0
                  \/ pc[f] = "crashed"
                  \/ pc[f] \in OwnerSteps \cup {"cleanup"}
                  \/ pc[f] \in {"close", "done"} /\ verdict[f] = "failed"

\* What was published is there, now and after a power loss.
DurableInv ==
  \A p \in Procs : verdict[p] = "published" /\ Kept(p) =>
    outputDisk[name(p)] = {p} /\ output[name(p)] = p

LEMMA NextCall == TypeOK /\ CallInv /\ [Next]_vars => CallInv'
<1> SUFFICES ASSUME TypeOK, CallInv, [Next]_vars PROVE CallInv'
  OBVIOUS
<1> USE DEF frame, memo, callVars, CallInv, op, Undecided, Unlinked, PublishSteps, RemoveSteps
<1> pc \in [Procs -> Steps] /\ verdict \in [Procs -> Outcomes \cup Failures \cup {"none"}]
    /\ created \in [Procs -> BOOLEAN]
  BY DEF TypeOK
<1>1. ASSUME NEW p \in Procs, Run(p) PROVE CallInv'
  <2> op(p) \in {"publish", "remove", "read"}
    BY CallFields
  <2> Existing(p) \in {"none", "matched-existing", "conflict"}
    BY ExistingType
  <2> USE DEF Goto, Decide
  <2>1. CASE OpenDirectory(p) BY <2>1 DEF OpenDirectory
  <2>2. CASE OpenFails(p) BY <2>2 DEF OpenFails
  <2>3. CASE AcquireLock(p) BY <2>3 DEF AcquireLock, FirstStep
  <2>4. CASE LockBusy(p) BY <2>4 DEF LockBusy
  <2>5. CASE LockGivenUp(p) BY <2>5 DEF LockGivenUp
  <2>6. CASE ParentMismatch(p) BY <2>6 DEF ParentMismatch
  <2>7. CASE RecoverPending(p) BY <2>7 DEF RecoverPending
  <2>8. CASE CheckExisting(p) BY <2>8 DEF CheckExisting
  <2>9. CASE CreatePending(p) BY <2>9 DEF CreatePending
  <2>10. CASE WritePending(p) BY <2>10 DEF WritePending
  <2>11. CASE LinkOutput(p) BY <2>11 DEF LinkOutput
  <2>12. CASE SyncPublication(p) BY <2>12 DEF SyncPublication
  <2>13. CASE VerifyPublished(p) BY <2>13 DEF VerifyPublished
  <2>14. CASE PublishFails(p) BY <2>14 DEF PublishFails
  <2>15. CASE Cleanup(p) BY <2>15 DEF Cleanup
  <2>16. CASE CleanupFails(p) BY <2>16 DEF CleanupFails
  <2>17. CASE Peek(p) BY <2>17 DEF Peek
  <2>18. CASE RemoveCheck(p) BY <2>18 DEF RemoveCheck
  <2>19. CASE RemoveUnlink(p) BY <2>19 DEF RemoveUnlink
  <2>20. CASE RemoveSync(p) BY <2>20 DEF RemoveSync
  <2>21. CASE RemoveFails(p) BY <2>21 DEF RemoveFails
  <2>22. CASE ReadOutput(p) BY <2>22 DEF ReadOutput
  <2>23. CASE ReadFails(p) BY <2>23 DEF ReadFails
  <2>24. CASE Close(p) BY <2>24 DEF Close
  <2>25. CASE CloseFails(p) BY <2>25 DEF CloseFails
  <2> QED
    BY <1>1, <2>1, <2>2, <2>3, <2>4, <2>5, <2>6, <2>7, <2>8, <2>9, <2>10,
       <2>11, <2>12, <2>13, <2>14, <2>15, <2>16, <2>17, <2>18, <2>19, <2>20,
       <2>21, <2>22, <2>23, <2>24, <2>25 DEF Run, Publish
<1>2. ASSUME NEW p \in Procs, Crash(p) PROVE CallInv'
  BY <1>2 DEF Crash, Running, dirVars
<1>3. CASE PowerLoss BY <1>3 DEF PowerLoss, Running
<1>4. CASE Terminated BY <1>4 DEF Terminated, vars, dirVars
<1>5. CASE UNCHANGED vars BY <1>5 DEF vars, dirVars
<1> QED BY <1>1, <1>2, <1>3, <1>4, <1>5 DEF Next


LEMMA NextStep == IInv /\ StepInv /\ [Next]_vars => StepInv'
<1> SUFFICES ASSUME IInv, StepInv, [Next]_vars PROVE StepInv'
  OBVIOUS
<1> USE DEF frame, StepInv, name, candidate, Content, LockedSteps, PublishSteps, RemoveSteps
<1> TypeOK /\ PendingInv /\ CompleteInv /\ EntriesInv
    /\ (\A q \in Procs : pc[q] \in LockedSteps => lock = q)
  BY DEF IInv, LockInv
<1> /\ pc \in [Procs -> Steps] /\ bytes \in [Procs -> Contents]
    /\ pending \in [Names -> Files] /\ pendingDisk \in [Names -> SUBSET Files]
    /\ output \in [Names -> Files] /\ outputDisk \in [Names -> SUBSET Files]
    /\ (\A q \in Procs : call[q].name \in Names)
  BY CallFields DEF TypeOK, name
<1>1. ASSUME NEW p \in Procs, Run(p) PROVE StepInv'
  <2> op(p) \in {"publish", "remove", "read"}
    BY CallFields
  <2> USE DEF Goto, dirVars
  <2>1. CASE OpenDirectory(p) BY <2>1 DEF OpenDirectory
  <2>2. CASE OpenFails(p) BY <2>2 DEF OpenFails
  <2>3. CASE AcquireLock(p) BY <2>3 DEF AcquireLock, FirstStep
  <2>4. CASE LockBusy(p) BY <2>4 DEF LockBusy
  <2>5. CASE LockGivenUp(p) BY <2>5 DEF LockGivenUp
  <2>6. CASE ParentMismatch(p) BY <2>6 DEF ParentMismatch
  <2>7. CASE RecoverPending(p) BY <2>7 DEF RecoverPending, SetPending
  <2>8. CASE CheckExisting(p) BY <2>8 DEF CheckExisting
  <2>9. CASE CreatePending(p) BY <2>9 DEF CreatePending, SetPending
  <2>10. CASE WritePending(p) BY <2>10 DEF WritePending
  <2>11. CASE LinkOutput(p) BY <2>11 DEF LinkOutput, SetOutput, PendingInv, OwnerSteps
  <2>12. CASE SyncPublication(p) BY <2>12 DEF SyncPublication, SyncDirectory
  <2>13. CASE VerifyPublished(p) BY <2>13 DEF VerifyPublished
  <2>14. CASE PublishFails(p) BY <2>14 DEF PublishFails
  <2>15. CASE Cleanup(p) BY <2>15 DEF Cleanup, SetPending
  <2>16. CASE CleanupFails(p) BY <2>16 DEF CleanupFails
  <2>17. CASE Peek(p) BY <2>17 DEF Peek
  <2>18. CASE RemoveCheck(p) BY <2>18 DEF RemoveCheck
  <2>19. CASE RemoveUnlink(p) BY <2>19 DEF RemoveUnlink, SetOutput
  <2>20. CASE RemoveSync(p) BY <2>20 DEF RemoveSync, SyncDirectory
  <2>21. CASE RemoveFails(p) BY <2>21 DEF RemoveFails
  <2>22. CASE ReadOutput(p) BY <2>22 DEF ReadOutput
  <2>23. CASE ReadFails(p) BY <2>23 DEF ReadFails
  <2>24. CASE Close(p) BY <2>24 DEF Close
  <2>25. CASE CloseFails(p) BY <2>25 DEF CloseFails
  <2> QED
    BY <1>1, <2>1, <2>2, <2>3, <2>4, <2>5, <2>6, <2>7, <2>8, <2>9, <2>10,
       <2>11, <2>12, <2>13, <2>14, <2>15, <2>16, <2>17, <2>18, <2>19, <2>20,
       <2>21, <2>22, <2>23, <2>24, <2>25 DEF Run, Publish
<1>2. ASSUME NEW p \in Procs, Crash(p) PROVE StepInv'
  BY <1>2 DEF Crash, Running, dirVars
<1>3. CASE PowerLoss BY <1>3 DEF PowerLoss, Running
<1>4. CASE Terminated BY <1>4 DEF Terminated, vars, dirVars
<1>5. CASE UNCHANGED vars BY <1>5 DEF vars, dirVars
<1> QED BY <1>1, <1>2, <1>3, <1>4, <1>5 DEF Next


LEMMA NextCreated == IInv /\ CreatedInv /\ [Next]_vars => CreatedInv'
<1> SUFFICES ASSUME IInv, CreatedInv, [Next]_vars PROVE CreatedInv'
  OBVIOUS
<1> USE DEF frame, memo, callVars, CreatedInv, name
<1> TypeOK /\ PendingInv /\ EntriesInv
    /\ (\A q \in Procs : pc[q] \in LockedSteps => lock = q)
  BY DEF IInv, LockInv
<1> /\ pc \in [Procs -> Steps] /\ created \in [Procs -> BOOLEAN]
    /\ verdict \in [Procs -> Outcomes \cup Failures \cup {"none"}]
    /\ pending \in [Names -> Files] /\ pendingDisk \in [Names -> SUBSET Files]
    /\ output \in [Names -> Files] /\ outputDisk \in [Names -> SUBSET Files]
    /\ (\A q \in Procs : call[q].name \in Names)
  BY CallFields DEF TypeOK, name
<1>1. ASSUME NEW p \in Procs, Run(p) PROVE CreatedInv'
  <2> op(p) \in {"publish", "remove", "read"}
    BY CallFields
  <2> USE DEF Goto, dirVars
  <2>1. CASE OpenDirectory(p) BY <2>1 DEF OpenDirectory
  <2>2. CASE OpenFails(p) BY <2>2 DEF OpenFails
  <2>3. CASE AcquireLock(p) BY <2>3 DEF AcquireLock
  <2>4. CASE LockBusy(p) BY <2>4 DEF LockBusy
  <2>5. CASE LockGivenUp(p) BY <2>5 DEF LockGivenUp
  <2>6. CASE ParentMismatch(p) BY <2>6 DEF ParentMismatch
  <2>7. CASE RecoverPending(p) BY <2>7 DEF RecoverPending, SetPending
  <2>8. CASE CheckExisting(p) BY <2>8 DEF CheckExisting
  <2>9. CASE CreatePending(p) BY <2>9 DEF CreatePending, SetPending
  <2>10. CASE WritePending(p) BY <2>10 DEF WritePending
  <2>11. CASE LinkOutput(p) BY <2>11 DEF LinkOutput, SetOutput, PendingInv, OwnerSteps
  <2>12. CASE SyncPublication(p) BY <2>12 DEF SyncPublication, SyncDirectory
  <2>13. CASE VerifyPublished(p) BY <2>13 DEF VerifyPublished
  <2>14. CASE PublishFails(p) BY <2>14 DEF PublishFails
  <2>15. CASE Cleanup(p) BY <2>15 DEF Cleanup, SetPending
  <2>16. CASE CleanupFails(p) BY <2>16 DEF CleanupFails
  <2>17. CASE Peek(p) BY <2>17 DEF Peek
  <2>18. CASE RemoveCheck(p) BY <2>18 DEF RemoveCheck
  <2>19. CASE RemoveUnlink(p) BY <2>19 DEF RemoveUnlink, SetOutput
  <2>20. CASE RemoveSync(p) BY <2>20 DEF RemoveSync, SyncDirectory
  <2>21. CASE RemoveFails(p) BY <2>21 DEF RemoveFails
  <2>22. CASE ReadOutput(p) BY <2>22 DEF ReadOutput
  <2>23. CASE ReadFails(p) BY <2>23 DEF ReadFails
  <2>24. CASE Close(p) BY <2>24 DEF Close
  <2>25. CASE CloseFails(p) BY <2>25 DEF CloseFails
  <2> QED
    BY <1>1, <2>1, <2>2, <2>3, <2>4, <2>5, <2>6, <2>7, <2>8, <2>9, <2>10,
       <2>11, <2>12, <2>13, <2>14, <2>15, <2>16, <2>17, <2>18, <2>19, <2>20,
       <2>21, <2>22, <2>23, <2>24, <2>25 DEF Run, Publish
<1>2. ASSUME NEW p \in Procs, Crash(p) PROVE CreatedInv'
  BY <1>2 DEF Crash, Running, dirVars
<1>3. CASE PowerLoss BY <1>3 DEF PowerLoss, Running
<1>4. CASE Terminated BY <1>4 DEF Terminated, vars, dirVars
<1>5. CASE UNCHANGED vars BY <1>5 DEF vars, dirVars
<1> QED BY <1>1, <1>2, <1>3, <1>4, <1>5 DEF Next

LEMMA NextResidue == IInv /\ ResidueInv /\ [Next]_vars => ResidueInv'
<1> SUFFICES ASSUME IInv, ResidueInv, [Next]_vars PROVE ResidueInv'
  OBVIOUS
<1> USE DEF frame, callVars, ResidueInv, EntriesInv, name, Files, OwnerSteps
<1> TypeOK /\ PendingInv /\ EntriesInv
    /\ (\A q \in Procs : pc[q] \in LockedSteps => lock = q)
  BY DEF IInv, LockInv
<1> /\ pc \in [Procs -> Steps] /\ created \in [Procs -> BOOLEAN]
    /\ verdict \in [Procs -> Outcomes \cup Failures \cup {"none"}]
    /\ pending \in [Names -> Files] /\ pendingDisk \in [Names -> SUBSET Files]
    /\ output \in [Names -> Files] /\ outputDisk \in [Names -> SUBSET Files]
    /\ (\A q \in Procs : call[q].name \in Names)
  BY CallFields DEF TypeOK, name
<1>1. ASSUME NEW p \in Procs, Run(p) PROVE ResidueInv'
  <2> op(p) \in {"publish", "remove", "read"}
    BY CallFields
  <2> USE DEF Goto, Decide, dirVars
  <2>1. CASE OpenDirectory(p) BY <2>1 DEF OpenDirectory
  <2>2. CASE OpenFails(p) BY <2>2 DEF OpenFails
  <2>3. CASE AcquireLock(p) BY <2>3 DEF AcquireLock, FirstStep
  <2>4. CASE LockBusy(p) BY <2>4 DEF LockBusy
  <2>5. CASE LockGivenUp(p) BY <2>5 DEF LockGivenUp
  <2>6. CASE ParentMismatch(p) BY <2>6 DEF ParentMismatch
  <2>7. CASE RecoverPending(p) BY <2>7 DEF RecoverPending, SetPending
  <2>8. CASE CheckExisting(p) BY <2>8 DEF CheckExisting
  <2>9. CASE CreatePending(p) BY <2>9 DEF CreatePending, SetPending
  <2>10. CASE WritePending(p) BY <2>10 DEF WritePending
  <2>11. CASE LinkOutput(p) BY <2>11 DEF LinkOutput, SetOutput
  <2>12. CASE SyncPublication(p) BY <2>12 DEF SyncPublication, SyncDirectory
  <2>13. CASE VerifyPublished(p) BY <2>13 DEF VerifyPublished
  <2>14. CASE PublishFails(p) BY <2>14 DEF PublishFails, PublishSteps
  <2>15. CASE Cleanup(p) BY <2>15 DEF Cleanup, SetPending
  <2>16. CASE CleanupFails(p) BY <2>16 DEF CleanupFails
  <2>17. CASE Peek(p) BY <2>17 DEF Peek
  <2>18. CASE RemoveCheck(p) BY <2>18 DEF RemoveCheck
  <2>19. CASE RemoveUnlink(p) BY <2>19 DEF RemoveUnlink, SetOutput
  <2>20. CASE RemoveSync(p) BY <2>20 DEF RemoveSync, SyncDirectory
  <2>21. CASE RemoveFails(p) BY <2>21 DEF RemoveFails, RemoveSteps
  <2>22. CASE ReadOutput(p) BY <2>22 DEF ReadOutput
  <2>23. CASE ReadFails(p) BY <2>23 DEF ReadFails
  <2>24. CASE Close(p) BY <2>24 DEF Close
  <2>25. CASE CloseFails(p) BY <2>25 DEF CloseFails
  <2> QED
    BY <1>1, <2>1, <2>2, <2>3, <2>4, <2>5, <2>6, <2>7, <2>8, <2>9, <2>10,
       <2>11, <2>12, <2>13, <2>14, <2>15, <2>16, <2>17, <2>18, <2>19, <2>20,
       <2>21, <2>22, <2>23, <2>24, <2>25 DEF Run, Publish
<1>2. ASSUME NEW p \in Procs, Crash(p) PROVE ResidueInv'
  BY <1>2 DEF Crash, Running, dirVars
<1>3. CASE PowerLoss
  <2>1. powerLosses' > 0
    BY <1>3 DEF PowerLoss, TypeOK
  <2> QED BY <2>1
<1>4. CASE Terminated BY <1>4 DEF Terminated, vars, dirVars
<1>5. CASE UNCHANGED vars BY <1>5 DEF vars, dirVars
<1> QED BY <1>1, <1>2, <1>3, <1>4, <1>5 DEF Next


LEMMA NextDurable == IInv /\ CallInv /\ StepInv /\ DurableInv /\ [Next]_vars => DurableInv'
<1> SUFFICES ASSUME IInv, CallInv, StepInv, DurableInv, [Next]_vars PROVE DurableInv'
  OBVIOUS
<1> USE DEF frame, memo, callVars, DurableInv, name, Kept, op, candidate
<1> TypeOK /\ EntriesInv
    /\ (\A q \in Procs : pc[q] \in LockedSteps => lock = q)
  BY DEF IInv, LockInv
<1> /\ pc \in [Procs -> Steps] /\ created \in [Procs -> BOOLEAN]
    /\ verdict \in [Procs -> Outcomes \cup Failures \cup {"none"}]
    /\ output \in [Names -> Files] /\ outputDisk \in [Names -> SUBSET Files]
    /\ (\A q \in Procs : call[q].name \in Names)
  BY CallFields DEF TypeOK, name
<1>1. ASSUME NEW p \in Procs, Run(p) PROVE DurableInv'
  <2> op(p) \in {"publish", "remove", "read"}
    BY CallFields
  <2> Existing(p) \in {"none", "matched-existing", "conflict"}
    BY ExistingType
  <2> USE DEF Goto, Decide, dirVars
  <2>1. CASE OpenDirectory(p) BY <2>1 DEF OpenDirectory
  <2>2. CASE OpenFails(p) BY <2>2 DEF OpenFails
  <2>3. CASE AcquireLock(p) BY <2>3 DEF AcquireLock
  <2>4. CASE LockBusy(p) BY <2>4 DEF LockBusy
  <2>5. CASE LockGivenUp(p) BY <2>5 DEF LockGivenUp
  <2>6. CASE ParentMismatch(p) BY <2>6 DEF ParentMismatch
  <2>7. CASE RecoverPending(p) BY <2>7 DEF RecoverPending
  <2>8. CASE CheckExisting(p) BY <2>8 DEF CheckExisting
  <2>9. CASE CreatePending(p) BY <2>9 DEF CreatePending
  <2>10. CASE WritePending(p) BY <2>10 DEF WritePending
  <2>11. CASE LinkOutput(p) BY <2>11 DEF LinkOutput, SetOutput
  <2>12. CASE SyncPublication(p) BY <2>12 DEF SyncPublication, SyncDirectory
  <2>13. CASE VerifyPublished(p)
    <3>1. pc[p] = "verify" /\ outputDisk[name(p)] = {p} /\ output[name(p)] = p
      BY <2>13 DEF VerifyPublished, StepInv
    <3> QED BY <2>13, <3>1 DEF VerifyPublished
  <2>14. CASE PublishFails(p) BY <2>14 DEF PublishFails
  <2>15. CASE Cleanup(p) BY <2>15 DEF Cleanup
  <2>16. CASE CleanupFails(p) BY <2>16 DEF CleanupFails
  <2>17. CASE Peek(p) BY <2>17 DEF Peek
  <2>18. CASE RemoveCheck(p) BY <2>18 DEF RemoveCheck
  <2>19. CASE RemoveUnlink(p)
    <3>1. /\ op(p) = "remove" /\ Content(output[name(p)]) = candidate(p)
          /\ UNCHANGED verdict /\ pc[p] = "rmUnlink"
      BY <2>19 DEF RemoveUnlink, CallInv, StepInv, RemoveSteps
    <3>2. ASSUME NEW q \in Procs, verdict[q] = "published", Kept(q)
          PROVE  name(q) # name(p)
      <4> SUFFICES ASSUME name(q) = name(p) PROVE FALSE
        OBVIOUS
      <4>1. output[name(p)] = q /\ q # NoFile
        BY <3>2
      <4>2. bytes[q] = candidate(q)
        BY <4>1 DEF EntriesInv
      <4> QED BY <3>1, <3>2, <4>1, <4>2 DEF Content
    <3> QED BY <2>19, <3>1, <3>2 DEF RemoveUnlink, SetOutput
  <2>20. CASE RemoveSync(p) BY <2>20 DEF RemoveSync, SyncDirectory
  <2>21. CASE RemoveFails(p) BY <2>21 DEF RemoveFails
  <2>22. CASE ReadOutput(p) BY <2>22 DEF ReadOutput
  <2>23. CASE ReadFails(p) BY <2>23 DEF ReadFails
  <2>24. CASE Close(p) BY <2>24 DEF Close
  <2>25. CASE CloseFails(p) BY <2>25 DEF CloseFails
  <2> QED
    BY <1>1, <2>1, <2>2, <2>3, <2>4, <2>5, <2>6, <2>7, <2>8, <2>9, <2>10,
       <2>11, <2>12, <2>13, <2>14, <2>15, <2>16, <2>17, <2>18, <2>19, <2>20,
       <2>21, <2>22, <2>23, <2>24, <2>25 DEF Run, Publish
<1>2. ASSUME NEW p \in Procs, Crash(p) PROVE DurableInv'
  BY <1>2 DEF Crash, Running, dirVars
<1>3. CASE PowerLoss BY <1>3 DEF PowerLoss, Running
<1>4. CASE Terminated BY <1>4 DEF Terminated, vars, dirVars
<1>5. CASE UNCHANGED vars BY <1>5 DEF vars, dirVars
<1> QED BY <1>1, <1>2, <1>3, <1>4, <1>5 DEF Next

WriterInv ==
  IInv /\ CallInv /\ StepInv /\ CreatedInv /\ ResidueInv /\ DurableInv

LEMMA InitWriterInv == Init => WriterInv
<1> SUFFICES ASSUME Init PROVE WriterInv
  OBVIOUS
<1>1. IInv
  BY InitIInv
<1>2. \A p \in Procs : pc[p] = "idle" /\ verdict[p] = "none" /\ ~created[p]
  BY DEF Init
<1>3. CallInv
  BY <1>2 DEF CallInv, PublishSteps, RemoveSteps
<1>4. StepInv /\ DurableInv
  BY <1>2 DEF StepInv, DurableInv
<1>5. CreatedInv
  BY DEF Init, CreatedInv
<1>6. ResidueInv
  BY DEF Init, ResidueInv
<1> QED BY <1>1, <1>3, <1>4, <1>5, <1>6 DEF WriterInv

LEMMA NextWriterInv == WriterInv /\ [Next]_vars => WriterInv'
BY NextIInv, NextCall, NextStep, NextCreated, NextResidue, NextDurable
   DEF WriterInv, IInv

LEMMA WriterInvariance == Spec => []WriterInv
<1> QED BY InitWriterInv, NextWriterInv, PTL DEF Spec

\* A file of the directory has one pending link, or it has one at its output
\* name, or both.
LEMMA LinksOf ==
  ASSUME IInv, NEW n \in Names, NEW f \in Procs, name(f) = n
  PROVE  /\ pending[n] = f /\ output[n] = f => Links(f) = 2
         /\ pending[n] = f /\ output[n] # f => Links(f) = 1
<1> DEFINE P == {m \in Names : pending[m] = f}
           O == {m \in Names : output[m] = f}
<1>1. \A m \in Names : (pending[m] = f => m = n) /\ (output[m] = f => m = n)
  BY DEF IInv, EntriesInv
<1>2. pending[n] = f => P = {n}
  BY <1>1
<1>3. (output[n] = f => O = {n}) /\ (output[n] # f => O = {})
  BY <1>1
<1>4. Cardinality({n}) = 1 /\ Cardinality({}) = 0
  BY FS_Singleton, FS_EmptySet
<1>5. Links(f) = Cardinality(P) + Cardinality(O)
  BY DEF Links
<1> HIDE DEF P, O
<1> QED BY <1>2, <1>3, <1>4, <1>5

\* Whatever is left at a pending name, the next publication can take it away.
THEOREM RecoveryNeverStuck == Spec => []RecoveryNeverRefuses
<1>1. IInv => RecoveryNeverRefuses
  <2> SUFFICES ASSUME IInv, NEW n \in Names, pending[n] # NoFile
               PROVE  Recoverable(n)
    BY DEF RecoveryNeverRefuses
  <2>1. pending[n] \in Procs /\ name(pending[n]) = n
    BY DEF IInv, TypeOK, Files, EntriesInv
  <2> QED BY <2>1, LinksOf DEF Recoverable
<1> QED BY <1>1, Invariance, PTL

\* A publication that comes to its readback passes it.
THEOREM ReadbackHoldsAlways == Spec => []ReadbackCannotFail
<1>1. WriterInv => ReadbackCannotFail
  <2> SUFFICES ASSUME WriterInv, NEW p \in Procs, pc[p] = "verify"
               PROVE  ReadbackHolds(p)
    BY DEF ReadbackCannotFail
  <2>1. output[name(p)] = p /\ pending[name(p)] = p /\ bytes[p] = candidate(p)
    BY DEF WriterInv, StepInv, IInv, PendingInv, OwnerSteps, CompleteInv
  <2>2. Links(p) = 2
    BY <2>1, CallFields, LinksOf DEF WriterInv, IInv
  <2>3. p # NoFile
    OBVIOUS
  <2> QED BY <2>1, <2>2, <2>3 DEF ReadbackHolds, Content
<1> QED BY <1>1, WriterInvariance, PTL

\* A call that does not say that it created an artifact left none, and one that
\* returns "published" says it.
THEOREM CreatedIsTrue == Spec => []CreatedIsTruthful
<1>1. WriterInv => CreatedIsTruthful
  BY DEF WriterInv, CallInv, CreatedInv, CreatedIsTruthful
<1> QED BY <1>1, WriterInvariance, PTL

\* No call that reported success leaves a pending name behind.
THEOREM ResidueHasAReason == Spec => []ResidueExplained
<1>1. WriterInv => ResidueExplained
  <2> SUFFICES ASSUME WriterInv, NEW n \in Names, pending[n] # NoFile
               PROVE  LET f == pending[n]
                      IN \/ powerLosses > 0
                         \/ pc[f] = "crashed"
                         \/ lock = f
                         \/ pc[f] \in {"close", "done"} /\ verdict[f] = "failed"
    BY DEF ResidueExplained
  <2>1. pending[n] \in Procs
    BY DEF WriterInv, IInv, TypeOK, Files
  <2>2. pc[pending[n]] \in OwnerSteps \cup {"cleanup"} => lock = pending[n]
    BY <2>1 DEF WriterInv, IInv, LockInv, OwnerSteps, LockedSteps, PublishSteps
  <2> QED BY <2>1, <2>2 DEF WriterInv, ResidueInv
<1> QED BY <1>1, WriterInvariance, PTL

\* No power loss takes back what was returned as published.
THEOREM PublishedStays == Spec => []PublishedIsDurable
<1>1. WriterInv => PublishedIsDurable
  BY DEF WriterInv, DurableInv, PublishedIsDurable
<1> QED BY <1>1, WriterInvariance, PTL

\* While a shared lock is held only a power loss changes the directory.
THEOREM ReadersSeeAStill == Spec => DirectoryStillForReaders
<1> DEFINE Still == readers # {} => \/ UNCHANGED <<pending, output>>
                                    \/ powerLosses' # powerLosses
<1>1. IInv /\ [Next]_vars => [Still]_vars
  <2> SUFFICES ASSUME IInv, [Next]_vars, readers # {} PROVE Still
    OBVIOUS
  <2> USE DEF frame, dirVars, Goto
  <2>1. \A p \in Procs : pc[p] \notin LockedSteps
    BY DEF IInv, LockInv
  <2>2. ASSUME NEW p \in Procs, Run(p) PROVE UNCHANGED <<pending, output>>
    BY <2>1, <2>2
       DEF Run, Publish, LockedSteps, PublishSteps, RemoveSteps, OpenDirectory,
           OpenFails, AcquireLock, LockBusy, LockGivenUp, ParentMismatch,
           RecoverPending, CheckExisting, CreatePending, WritePending, LinkOutput,
           SyncPublication, VerifyPublished, PublishFails, Cleanup, CleanupFails,
           Peek, RemoveCheck, RemoveUnlink, RemoveSync, RemoveFails, ReadOutput,
           ReadFails, Close, CloseFails
  <2>3. ASSUME NEW p \in Procs, Crash(p) PROVE UNCHANGED <<pending, output>>
    BY <2>3 DEF Crash
  <2>4. CASE PowerLoss
    BY <2>4 DEF PowerLoss, IInv, TypeOK
  <2>5. CASE UNCHANGED vars
    BY <2>5 DEF vars
  <2> QED BY <2>2, <2>3, <2>4, <2>5 DEF Next, Terminated
<1> QED BY <1>1, Invariance, PTL DEF Spec, DirectoryStillForReaders

-----------------------------------------------------------------------------
(* The refinement of WriteOnceStore: what a caller sees of the directory.     *)

\* Whatever is linked at an output name has a candidate's bytes.
LEMMA StoredValues ==
  ASSUME WriterInv, NEW n \in Names
  PROVE  /\ output[n] = NoFile => Stored(n) = NoFile
         /\ output[n] # NoFile => Stored(n) \in Candidates
         /\ \A f \in outputDisk[n] : Content(f) \in Candidates \cup {NoFile}
<1>1. \A f \in outputDisk[n] \cup {output[n]} :
        f # NoFile => f \in Procs /\ bytes[f] \in Candidates
  BY CallFields DEF WriterInv, IInv, TypeOK, EntriesInv, Files
<1> QED BY <1>1 DEF Stored, Content

\* What a caller cannot see of a step.
Unseen == UNCHANGED <<call, output, outputDisk, bytes, created, seen>>

LEMMA UnseenStep ==
  ASSUME Unseen
  PROVE  /\ UNCHANGED call /\ UNCHANGED seen
         /\ UNCHANGED [n \in Names |-> Stored(n)]
         /\ UNCHANGED [n \in Names |-> Surviving(n)]
         /\ UNCHANGED {p \in Procs : created[p]}
BY DEF Unseen, Stored, Surviving, Content

LEMMA StutterStep == Unseen /\ UNCHANGED verdict => UNCHANGED Store!svars
BY UnseenStep DEF Store!svars

LEMMA FailStep ==
  ASSUME NEW p \in Procs, Unseen, Decide(p, "failed") PROVE Store!Fail(p)
BY UnseenStep DEF Decide, Store!Fail

LEMMA HearStep ==
  ASSUME NEW p \in Procs, Unseen, verdict[p] = "none",
         NEW r \in {"published", "matched-existing", "conflict", "removed",
                    "mismatch", "busy"},
         Decide(p, r), Store!MayHear(p, r)
  PROVE  Store!Hear(p)
<1> HIDE DEF Store!MayHear
<1> QED BY UnseenStep DEF Decide, Store!Hear

\* What a publication hears of the name that it found.
LEMMA ExistingStep ==
  ASSUME WriterInv, NEW p \in Procs, Unseen, verdict[p] = "none",
         op(p) = "publish", Decide(p, Existing(p))
  PROVE  Store!Hear(p) \/ UNCHANGED Store!svars
<1> DEFINE n == name(p)
<1>1. n \in Names /\ candidate(p) \in Candidates /\ Stored(n) = Content(output[n])
  BY CallFields DEF WriterInv, IInv, Stored
<1>2. CASE Existing(p) = "none"
  <2>1. UNCHANGED verdict
    BY <1>2 DEF Decide, WriterInv, IInv, TypeOK
  <2> QED BY <2>1, StutterStep
<1>3. CASE Existing(p) = "matched-existing"
  <2>1. Stored(n) = candidate(p)
    BY <1>1, <1>3 DEF Existing
  <2>2. Store!MayHear(p, "matched-existing")
    BY <1>1, <2>1 DEF Store!MayHear, op, candidate, name
  <2> QED BY <1>3, <2>2, HearStep
<1>4. CASE Existing(p) = "conflict"
  <2>1. Stored(n) \notin {NoFile, candidate(p)}
    BY <1>1, <1>4 DEF Existing
  <2>2. Store!MayHear(p, "conflict")
    BY <1>1, <2>1 DEF Store!MayHear, op, candidate, name
  <2> QED BY <1>4, <2>2, HearStep
<1> QED BY <1>2, <1>3, <1>4, ExistingType

\* A written entry has its new value, which is one that may survive.
LEMMA WrittenValues ==
  ASSUME TypeOK, NEW n \in Names, NEW f \in Files, NEW v, v = Content(f),
         SetOutput(n, f), UNCHANGED bytes
  PROVE  Store!Write(n, v)
<1>1. /\ output'[n] = f /\ outputDisk'[n] = outputDisk[n] \cup {f}
      /\ \A m \in Names \ {n} : output'[m] = output[m] /\ outputDisk'[m] = outputDisk[m]
  BY DEF TypeOK, SetOutput
<1>2. /\ Stored(n)' = Content(f)
      /\ \A m \in Names \ {n} : Stored(m)' = Stored(m)
  BY <1>1 DEF Stored, Content
<1>3. Surviving(n)' = Surviving(n) \cup {Content(f)}
  <2>1. Surviving(n)' = {Content(g) : g \in outputDisk[n] \cup {f}}
    BY <1>1 DEF Surviving, Content
  <2> QED BY <2>1 DEF Surviving
<1>4. \A m \in Names \ {n} : Surviving(m)' = Surviving(m)
  BY <1>1 DEF Surviving, Content
<1>5. [m \in Names |-> Stored(m)]' = [[m \in Names |-> Stored(m)] EXCEPT ![n] = v]
  BY <1>2
<1>6. [m \in Names |-> Surviving(m)]'
        = [[m \in Names |-> Surviving(m)] EXCEPT ![n] = @ \cup {v}]
  BY <1>3, <1>4
<1> QED BY <1>5, <1>6 DEF Store!Write

\* The link is the moment at which the candidate is put.
LEMMA LinkRefines ==
  ASSUME WriterInv, NEW p \in Procs, LinkOutput(p)
  PROVE  Store!Next \/ UNCHANGED Store!svars
<1> DEFINE n == name(p)
<1> USE DEF frame, memo, callVars, dirVars
<1>1. /\ pc[p] = "link" /\ op(p) = "publish" /\ verdict[p] = "none" /\ ~created[p]
      /\ n \in Names /\ pending[n] = p /\ bytes[p] = candidate(p)
  BY CallFields DEF LinkOutput, Goto, WriterInv, CallInv, Unlinked, Undecided,
     PublishSteps, IInv, PendingInv, OwnerSteps, CompleteInv
<1>2. CASE output[n] = NoFile
  <2>1. /\ SetOutput(n, p) /\ created' = [created EXCEPT ![p] = TRUE]
        /\ UNCHANGED <<call, bytes, verdict, seen>>
    BY <1>1, <1>2 DEF LinkOutput
  <2>2. Content(p) = candidate(p)
    BY <1>1 DEF Content
  <2>3. TypeOK /\ p \in Files
    BY DEF WriterInv, IInv, Files
  <2>4. Store!Write(n, candidate(p))
    BY <1>1, <2>1, <2>2, <2>3, WrittenValues
  <2>5. {q \in Procs : created[q]}' = {q \in Procs : created[q]} \cup {p}
    BY <2>1 DEF WriterInv, IInv, TypeOK
  <2>6. Stored(n) = NoFile
    BY <1>2 DEF Stored, Content
  <2>7. Store!Put(p)
    BY <1>1, <2>1, <2>4, <2>5, <2>6 DEF Store!Put, op, name, candidate
  <2> QED BY <2>7 DEF Store!Next
<1>3. CASE output[n] # NoFile
  <2>1. Unseen /\ Decide(p, Existing(p))
    BY <1>3 DEF LinkOutput, Unseen
  <2> QED BY <1>1, <2>1, ExistingStep DEF Store!Next
<1> QED BY <1>2, <1>3

\* A removal takes away the candidate that it names.
LEMMA RemoveRefines ==
  ASSUME WriterInv, NEW p \in Procs, RemoveUnlink(p)
  PROVE  Store!Remove(p)
<1> DEFINE n == name(p)
<1> USE DEF frame, memo, callVars, dirVars
<1>1. /\ pc[p] = "rmUnlink" /\ op(p) = "remove" /\ verdict[p] = "none"
      /\ n \in Names /\ Stored(n) = candidate(p)
      /\ SetOutput(n, NoFile) /\ UNCHANGED <<call, bytes, verdict, created, seen>>
  BY CallFields DEF RemoveUnlink, Goto, WriterInv, CallInv, StepInv, Undecided,
     RemoveSteps, IInv, Stored
<1>2. Content(NoFile) = NoFile /\ NoFile \in Files /\ TypeOK
  BY DEF Content, Files, WriterInv, IInv
<1>3. Store!Write(n, NoFile)
  <2>1. SetOutput(n, NoFile) /\ UNCHANGED bytes /\ n \in Names
    BY <1>1
  <2> QED BY <1>2, <2>1, WrittenValues
<1> QED BY <1>1, <1>3 DEF Store!Remove, op, name, candidate

\* An fsync of the directory leaves the current values only.
LEMMA SyncedValues ==
  ASSUME SyncDirectory, UNCHANGED <<call, bytes, created, seen>>
  PROVE  /\ UNCHANGED call /\ UNCHANGED seen
         /\ UNCHANGED [n \in Names |-> Stored(n)]
         /\ [n \in Names |-> Surviving(n)]' = [n \in Names |-> {Stored(n)}]
         /\ UNCHANGED {p \in Procs : created[p]}
<1>1. \A n \in Names : Surviving(n)' = {Stored(n)}
  BY DEF SyncDirectory, Surviving, Stored, Content
<1> QED BY <1>1 DEF SyncDirectory, Stored, Content

LEMMA SyncRefines ==
  ASSUME WriterInv, NEW p \in Procs, SyncPublication(p) \/ RemoveSync(p)
  PROVE  Store!Sync
<1> USE DEF frame, memo, callVars
<1>1. SyncDirectory /\ UNCHANGED <<call, bytes, created, seen>>
  BY DEF SyncPublication, RemoveSync
<1>2. CASE SyncPublication(p)
  <2>1. UNCHANGED verdict
    BY <1>2 DEF SyncPublication
  <2> QED BY <1>1, <2>1, SyncedValues DEF Store!Sync
<1>3. CASE RemoveSync(p)
  <2>1. /\ op(p) = "remove" /\ verdict[p] = "none" /\ name(p) \in Names
        /\ Stored(name(p)) = NoFile /\ verdict' = [verdict EXCEPT ![p] = "removed"]
    BY <1>3, CallFields DEF RemoveSync, Goto, Decide, WriterInv, CallInv, StepInv,
       Undecided, RemoveSteps, IInv, Stored, Content
  <2> QED BY <1>1, <2>1, SyncedValues DEF Store!Sync, op, name
<1> QED BY <1>2, <1>3

\* The readback is heard when the link is there and on the disk.
LEMMA VerifyRefines ==
  ASSUME WriterInv, NEW p \in Procs, VerifyPublished(p)
  PROVE  Store!Next
<1> DEFINE n == name(p)
<1>1. /\ op(p) = "publish" /\ verdict[p] = "none" /\ created[p] /\ n \in Names
      /\ output[n] = p /\ outputDisk[n] = {p} /\ bytes[p] = candidate(p)
      /\ Unseen
  BY CallFields DEF VerifyPublished, Goto, WriterInv, CallInv, StepInv, Undecided,
     PublishSteps, IInv, CompleteInv, frame, memo, dirVars, Unseen
<1>2. CASE Decide(p, "failed")
  BY <1>1, <1>2, FailStep DEF Store!Next
<1>3. CASE Decide(p, "published")
  <2>1. Stored(n) = candidate(p) /\ Surviving(n) = {candidate(p)}
    BY <1>1 DEF Stored, Surviving, Content
  <2>2. Store!MayHear(p, "published")
    BY <1>1, <2>1 DEF Store!MayHear, op, name, candidate
  <2> QED BY <1>1, <1>3, <2>2, HearStep DEF Store!Next
<1> QED BY <1>2, <1>3 DEF VerifyPublished

LEMMA RemoveCheckRefines ==
  ASSUME WriterInv, NEW p \in Procs, RemoveCheck(p)
  PROVE  Store!Next \/ UNCHANGED Store!svars
<1> DEFINE n == name(p)
           content == Content(output[n])
<1>1. /\ op(p) = "remove" /\ verdict[p] = "none" /\ n \in Names /\ Unseen
      /\ Stored(n) = content /\ candidate(p) \in Candidates
  <2>1. pc[p] = "rmCheck"
    <3>1. content = NoFile \/ content = candidate(p)
          \/ (content # NoFile /\ content # candidate(p))
      OBVIOUS
    <3> QED BY <3>1 DEF RemoveCheck, Goto
  <2>2. Unseen
    BY DEF RemoveCheck, frame, memo, dirVars, Unseen
  <2> QED BY <2>1, <2>2, CallFields
          DEF WriterInv, CallInv, Undecided, RemoveSteps, IInv, Stored
<1>2. CASE content = NoFile
  <2>1. Decide(p, "removed")
    BY <1>1, <1>2 DEF RemoveCheck
  <2>2. Store!MayHear(p, "removed")
    BY <1>1, <1>2 DEF Store!MayHear, op, name
  <2> QED BY <1>1, <2>1, <2>2, HearStep DEF Store!Next
<1>3. CASE content = candidate(p)
  <2>1. UNCHANGED verdict
    BY <1>1, <1>3 DEF RemoveCheck
  <2> QED BY <1>1, <2>1, StutterStep
<1>4. CASE content \notin {NoFile, candidate(p)}
  <2>1. Decide(p, "mismatch")
    BY <1>4 DEF RemoveCheck
  <2>2. Store!MayHear(p, "mismatch")
    BY <1>1, <1>4 DEF Store!MayHear, op, name, candidate
  <2> QED BY <1>1, <2>1, <2>2, HearStep DEF Store!Next
<1> QED BY <1>2, <1>3, <1>4

\* The bytes of a file that is not linked are not seen.
LEMMA WriteRefines ==
  ASSUME WriterInv, NEW p \in Procs, WritePending(p)
  PROVE  UNCHANGED Store!svars
<1>1. /\ ~created[p] /\ bytes' = [bytes EXCEPT ![p] = candidate(p)]
      /\ UNCHANGED <<call, output, outputDisk, created, verdict, seen>>
  BY DEF WritePending, Goto, WriterInv, CallInv, Unlinked, frame, memo, callVars, dirVars
<1>2. ASSUME NEW n \in Names
      PROVE  Stored(n)' = Stored(n) /\ Surviving(n)' = Surviving(n)
  <2>1. output[n] # p /\ p \notin outputDisk[n]
    BY <1>1 DEF WriterInv, CreatedInv
  <2>2. \A f \in outputDisk[n] \cup {output[n]} : Content(f)' = Content(f)
    BY <1>1, <2>1 DEF Content, WriterInv, IInv, TypeOK, Files
  <2>3. Stored(n)' = Stored(n)
    BY <1>1, <2>2 DEF Stored
  <2>4. Surviving(n)' = Surviving(n)
    BY <1>1, <2>2 DEF Surviving
  <2> QED BY <2>3, <2>4
<1> QED BY <1>1, <1>2 DEF Store!svars

\* Without the lock a publication hears of what is there, or that it was busy.
LEMMA PeekRefines ==
  ASSUME WriterInv, NEW p \in Procs, Peek(p)
  PROVE  Store!Next \/ UNCHANGED Store!svars
<1>1. op(p) = "publish" /\ verdict[p] = "none" /\ ~created[p] /\ Unseen
  BY DEF Peek, Goto, WriterInv, CallInv, Undecided, Unlinked, frame, memo, dirVars, Unseen
<1>2. CASE Decide(p, "busy")
  <2>1. Store!MayHear(p, "busy")
    BY <1>1 DEF Store!MayHear
  <2> QED BY <1>1, <1>2, <2>1, HearStep DEF Store!Next
<1>3. CASE Decide(p, Existing(p))
  BY <1>1, <1>3, ExistingStep DEF Store!Next
<1> QED BY <1>2, <1>3 DEF Peek

LEMMA ReadRefines ==
  ASSUME WriterInv, NEW p \in Procs, ReadOutput(p)
  PROVE  Store!Read(p)
<1>1. /\ op(p) = "read" /\ verdict[p] = "none" /\ name(p) \in Names
      /\ seen' = [seen EXCEPT ![p] = Stored(name(p))]
      /\ verdict' = [verdict EXCEPT ![p] = "read"]
      /\ UNCHANGED <<call, output, outputDisk, bytes, created>>
  BY CallFields DEF ReadOutput, Goto, Decide, WriterInv, CallInv, Undecided, IInv, Stored,
     frame, dirVars
<1>2. /\ UNCHANGED [n \in Names |-> Stored(n)] /\ UNCHANGED {q \in Procs : created[q]}
      /\ UNCHANGED [n \in Names |-> Surviving(n)]
  BY <1>1 DEF Stored, Surviving, Content
<1> QED BY <1>1, <1>2 DEF Store!Read, op, name

\* A power loss takes the store to values that could survive it.
LEMMA PowerLossRefines ==
  ASSUME WriterInv, PowerLoss
  PROVE  Store!PowerLoss
<1>1. /\ UNCHANGED <<call, bytes, created, verdict, seen>>
      /\ \A n \in Names : output'[n] \in outputDisk[n] /\ outputDisk'[n] = {output'[n]}
  BY DEF PowerLoss, callVars, memo
<1>2. ASSUME NEW n \in Names
      PROVE  /\ Stored(n)' \in Candidates \cup {NoFile}
             /\ Stored(n)' \in Surviving(n)
             /\ Surviving(n)' = {Stored(n)'}
  <2>1. Stored(n)' = Content(output'[n])
    BY <1>1 DEF Stored, Content
  <2>2. Stored(n)' \in Surviving(n)
    BY <1>1, <2>1 DEF Surviving
  <2>3. Stored(n)' \in Candidates \cup {NoFile}
    BY <1>1, <2>1, StoredValues
  <2>4. Surviving(n)' = {Stored(n)'}
    BY <1>1 DEF Surviving, Stored
  <2> QED BY <2>2, <2>3, <2>4
<1> QED BY <1>1, <1>2 DEF Store!PowerLoss, Store!Values

LEMMA RunRefines ==
  ASSUME WriterInv, NEW p \in Procs, Run(p)
  PROVE  Store!Next \/ UNCHANGED Store!svars
<1> USE DEF frame, memo, callVars, dirVars
<1>1. ASSUME \/ OpenFails(p) \/ ParentMismatch(p) \/ PublishFails(p)
             \/ CleanupFails(p) \/ RemoveFails(p) \/ ReadFails(p) \/ CloseFails(p)
      PROVE  Store!Next
  <2>1. Unseen /\ Decide(p, "failed")
    BY <1>1 DEF OpenFails, ParentMismatch, PublishFails, CleanupFails, RemoveFails,
       ReadFails, CloseFails, Unseen
  <2> QED BY <2>1, FailStep DEF Store!Next
<1>2. ASSUME \/ OpenDirectory(p) \/ AcquireLock(p) \/ LockBusy(p)
             \/ Cleanup(p)
             \/ CreatePending(p) /\ UNCHANGED verdict
             \/ RecoverPending(p) /\ UNCHANGED verdict
             \/ LockGivenUp(p) /\ UNCHANGED verdict
      PROVE  UNCHANGED Store!svars
  <2>1. Unseen /\ UNCHANGED verdict
    BY <1>2 DEF OpenDirectory, AcquireLock, LockBusy, CreatePending, RecoverPending,
       Cleanup, LockGivenUp, Unseen
  <2> QED BY <2>1, StutterStep
<1>3. CASE LockGivenUp(p)
  <2>1. CASE op(p) = "publish"
    BY <1>2, <1>3, <2>1 DEF LockGivenUp
  <2>2. CASE op(p) # "publish"
    <3>1. Unseen /\ Decide(p, "busy") /\ verdict[p] = "none" /\ ~created[p]
      BY <1>3, <2>2 DEF LockGivenUp, Goto, Unseen, WriterInv, CallInv, Undecided, Unlinked
    <3>2. Store!MayHear(p, "busy")
      BY <3>1 DEF Store!MayHear
    <3> QED BY <3>1, <3>2, HearStep DEF Store!Next
  <2> QED BY <2>1, <2>2
<1>4. CASE RecoverPending(p) \/ CreatePending(p)
  <2>1. Unseen
    BY <1>4 DEF RecoverPending, CreatePending, Unseen
  <2>2. CASE UNCHANGED verdict
    BY <1>2, <1>4, <2>2
  <2>3. CASE Decide(p, "failed")
    BY <2>1, <2>3, FailStep DEF Store!Next
  <2> QED BY <1>4, <2>2, <2>3 DEF RecoverPending, CreatePending
<1>5. CASE CheckExisting(p)
  <2>1. Unseen /\ Decide(p, Existing(p)) /\ verdict[p] = "none" /\ op(p) = "publish"
    BY <1>5 DEF CheckExisting, Goto, Unseen, WriterInv, CallInv, Undecided, PublishSteps
  <2> QED BY <2>1, ExistingStep DEF Store!Next
<1>6. CASE Close(p)
  <2>1. Unseen
    BY <1>6 DEF Close, Unseen
  <2>2. CASE verdict[p] = "none"
    <3>1. Decide(p, "failed")
      BY <1>6, <2>2 DEF Close
    <3> QED BY <2>1, <3>1, FailStep DEF Store!Next
  <2>3. CASE verdict[p] # "none"
    <3>1. UNCHANGED verdict
      BY <1>6, <2>3 DEF Close, Decide, WriterInv, IInv, TypeOK
    <3> QED BY <2>1, <3>1, StutterStep
  <2> QED BY <2>2, <2>3
<1>7. CASE WritePending(p)
  BY <1>7, WriteRefines
<1>8. CASE SyncPublication(p) \/ RemoveSync(p)
  BY <1>8, SyncRefines DEF Store!Next
<1>9. CASE RemoveUnlink(p) \/ ReadOutput(p)
  BY <1>9, RemoveRefines, ReadRefines DEF Store!Next
<1> QED BY <1>1, <1>2, <1>3, <1>4, <1>5, <1>6, <1>7, <1>8, <1>9, PeekRefines,
           LinkRefines, VerifyRefines, RemoveCheckRefines DEF Run, Publish

\* Processes that race, crash and lose power are, to their callers, a store in
\* which a name is written once.
THEOREM WriterIsWriteOnceStore == Spec => ImplementsWriteOnceStore
<1>1. Init => Store!Init
  <2> SUFFICES ASSUME Init PROVE Store!Init
    OBVIOUS
  <2>1. \A n \in Names : Stored(n) = NoFile /\ Surviving(n) = {NoFile}
    BY DEF Init, Stored, Surviving, Content
  <2>2. {p \in Procs : created[p]} = {}
    BY DEF Init
  <2> QED BY <2>1, <2>2 DEF Init, Store!Init
<1>2. WriterInv /\ [Next]_vars => [Store!Next]_(Store!svars)
  <2> SUFFICES ASSUME WriterInv, [Next]_vars
               PROVE  Store!Next \/ UNCHANGED Store!svars
    OBVIOUS
  <2>1. ASSUME NEW p \in Procs, Crash(p) PROVE UNCHANGED Store!svars
    <3>1. Unseen /\ UNCHANGED verdict
      BY <2>1 DEF Crash, Unseen, dirVars, callVars, memo
    <3> QED BY <3>1, StutterStep
  <2>2. CASE UNCHANGED vars
    <3>1. Unseen /\ UNCHANGED verdict
      BY <2>2 DEF vars, Unseen, dirVars, callVars, memo
    <3> QED BY <3>1, StutterStep
  <2>3. CASE PowerLoss
    BY <2>3, PowerLossRefines DEF Store!Next
  <2> QED BY <2>1, <2>2, <2>3, RunRefines DEF Next, Terminated
<1> QED BY <1>1, <1>2, WriterInvariance, PTL
        DEF Spec, ImplementsWriteOnceStore, Store!Spec
=============================================================================
