-------------------------- MODULE AsyncControlPlane --------------------------
(***************************************************************************)
(* projectAsyncControl (async-control-plane.ts): one control plane after     *)
(* another looks at the run and says what is to be done about it.  It        *)
(* executes nothing: it publishes requests for workers in the queue.  It     *)
(* takes no lock.  It inspects the run, loads the progress records, looks    *)
(* for the result and then for the transaction, and publishes, while the     *)
(* workers go on; any exception ends the projection.                         *)
(***************************************************************************)
EXTENDS AsyncProgress

CONSTANTS
  FenceOf,       \* FenceOf[v]: the fencing token derived for version v
  Leases,        \* lease lengths that a projection may ask for
  MinimumLease   \* the reviewer's timeout and the finish budget

ASSUME FenceOfAssumption ==
  /\ DOMAIN FenceOf \subseteq Nat
  /\ \A v \in DOMAIN FenceOf : FenceOf[v] \in Fences
  /\ \A u, v \in DOMAIN FenceOf : FenceOf[u] = FenceOf[v] => u = v

ASSUME LeasesAssumption == Leases \subseteq Nat /\ MinimumLease \in Nat

VARIABLES
  queue,       \* queue/<run>.v<n>.json and queue/<run>.recover.v<n>.json
  projection   \* the projection in progress

controlVars == <<queue, projection>>

QueueRecord == [kind : {"dispatch", "recover"}, at : Nat,
                request : [version : Nat, fence : Fences], lease : Leases]

\* step: what comes next.  seen: the length of the log at the inspection; the
\* log only grows, so it says what was seen.  spared: the fence of the
\* transaction that a recovery is entitled to.
Projection == [step : {"idle", "load", "result", "transaction", "sweep"},
               seen : Nat, spared : SUBSET Fences]

NoProjection == [step |-> "idle", seen |-> 0, spared |-> {}]

ControlTypeOK == queue \subseteq QueueRecord /\ projection \in Projection

ControlInit == queue = {} /\ projection = NoProjection

Seen == projection.seen
SeenStatus == StatusAt(Seen)

\* Every exception ends the projection; what it published stays.
Throw == projection' = NoProjection /\ UNCHANGED queue

Goon(to) == projection' = [projection EXCEPT !.step = to] /\ UNCHANGED queue

-----------------------------------------------------------------------------
\* publishWorkerRequest: the record of a version is written once.
Enqueue(r, spared) ==
  IF \A q \in queue : q.kind = r.kind /\ q.at = r.at => q = r
  THEN /\ queue' = queue \cup {r}
       /\ projection' = [projection EXCEPT !.step = "sweep",
                                           !.spared = spared]
  ELSE Throw

\* projectDispatch: a token of its own for every version, and a lease that
\* fits into what the observed time leaves of the run.
ProjectDispatch ==
  \E lease, remaining \in Leases :
    IF MinimumLease <= lease /\ lease <= remaining /\ Seen \in DOMAIN FenceOf
    THEN Enqueue([kind |-> "dispatch", at |-> Seen, lease |-> lease,
                  request |-> [version |-> Seen, fence |-> FenceOf[Seen]]], {})
    ELSE Throw

\* Variant: the recovery names the version that the claim made.
ProjectRecovery_ClaimVersion ==
  \E lease \in Leases :
    IF MinimumLease <= lease
    THEN Enqueue([kind |-> "recover", at |-> Seen, lease |-> lease,
                  request |-> [version |-> Seen - 1,
                               fence |-> log[Seen].fence]],
                 {log[Seen].fence})
    ELSE Throw

\* projectRecovery: the request of the process that committed.
ProjectRecovery ==
  \E lease \in Leases :
    IF MinimumLease <= lease
    THEN Enqueue([kind |-> "recover", at |-> Seen, lease |-> lease,
                  request |-> [version |-> Seen - 2,
                               fence |-> log[Seen].fence]],
                 {log[Seen].fence})
    ELSE Throw

-----------------------------------------------------------------------------
\* inspectAsyncProductionRun.
Inspect ==
  /\ projection.step = "idle"
  /\ projection' = [NoProjection EXCEPT !.step = "load", !.seen = Len(log)]
  /\ UNCHANGED queue

\* loadProgressRecords and progressProjection; then classify.  The time is the
\* request's observed_at, which need not be the clock's.
Load ==
  /\ projection.step = "load"
  /\ CASE ~Projectable(Seen) -> Throw
       [] Projectable(Seen) /\ SeenStatus \in Finished -> Goon("result")
       [] Projectable(Seen) /\ SeenStatus = "cancelled" -> Goon("sweep")
       [] OTHER ->
            \/ Goon("sweep")    \* past the deadline, or to be awaited
            \/ ProjectDispatch  \* awaiting production, or lease expired

\* terminalDisposition: the public result is there and the run can be admitted,
\* or the transaction is looked for.
LookForResult ==
  /\ projection.step = "result"
  /\ CASE result = Absent -> Goon("transaction")
       [] result = log[Seen].result -> Goon("sweep")
       [] OTHER -> Throw

\* Variant: the transaction is looked for under the token of the first claim.
Pending_FirstClaim == transaction[log[1].fence]

\* What terminalDisposition finds second.  Without it, "repair-or-close".
Pending == transaction[log[Seen].fence]
RepairOrClose == projection.step = "transaction" /\ Pending = Absent

LookForTransaction ==
  /\ projection.step = "transaction"
  /\ CASE Pending = Absent -> Goon("sweep")
       [] Pending = log[Seen].result -> ProjectRecovery
       [] OTHER -> Throw

\* Variant: what is to be recovered is reported with the rest.
Orphans_All == {f \in Fences : transaction[f] # Absent}

\* classifyOrphans: the run's transactions but the one to be recovered.
Orphans == {f \in Fences : transaction[f] # Absent} \ projection.spared

\* The orphans are listed and the projection is published under its own name.
Sweep == projection.step = "sweep" /\ Throw

\* A record is unreadable, a directory busy, or the process dies.
ProjectionFails ==
  /\ "before" \in Failures
  /\ projection.step # "idle"
  /\ Throw

Project == Inspect \/ Load \/ LookForResult \/ LookForTransaction \/ Sweep

\* A dispatcher hands a worker the request of a queue record.
Queued(w) == \E q \in queue : q.request = request[w]
QueuedRecovery(w) ==
  \E q \in queue : q.kind = "recover" /\ q.request = request[w]
=============================================================================
