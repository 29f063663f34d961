--------------------------- MODULE AsyncLifecycle ---------------------------
(***************************************************************************)
(* The durable life of one asynchronous production run                      *)
(* (async-job-lifecycle.ts): a seal file and one event file per version,    *)
(* every file written once through publishWriterArtifact.  A transition     *)
(* inspects the run, checks its guards against what it saw, and publishes   *)
(* the event of version expectedVersion + 1; the file name is the           *)
(* compare-and-swap.  Clients (workers, the admission facade, the CLI) run  *)
(* these steps concurrently, may stop after any of them, and may fail after *)
(* the event is already in place.                                           *)
(*                                                                          *)
(* The writer is taken as WriteOnceStore: a put, a match of identical       *)
(* bytes, a conflict, or a failure before or after the put.                 *)
(***************************************************************************)
EXTENDS Naturals, FiniteSets

CONSTANTS
  Clients,       \* concurrent callers of the lifecycle
  Workers,       \* worker ids
  Fences,        \* fencing tokens
  Results,       \* result hashes
  Seals,         \* seal records that may be published for the run
  Deadline,      \* Deadline[s]: deadlineAt of seal s
  None,          \* a field that an event does not have
  MaxVersion,    \* bound on the number of events
  MaxTime        \* bound on the clock

ASSUME LifecycleAssumption ==
  /\ None \notin Workers \cup Fences \cup Results \cup Seals
  /\ Deadline \in [Seals -> Nat]
  /\ MaxVersion \in Nat \ {0}
  /\ MaxTime \in Nat

VARIABLES
  clock,   \* the time of day
  seal,    \* content of <run>.seal.json, or None
  events,  \* events[v]: content of <run>.event.<v>.json, or NoEvent
  pc,      \* pc[c]: the step client c takes next
  target,  \* target[c]: the version c publishes
  event,   \* event[c]: the record c publishes
  reply    \* reply[c]: how c's last call ended

vars == <<clock, seal, events, pc, target, event, reply>>

Versions == 1 .. MaxVersion
Times    == 0 .. MaxTime

Finished == {"verified", "failed", "stale"}
Terminal == Finished \cup {"cancelled"}

\* The stored event; the fields a status does not use hold None or 0.
Event == [status : {"running-production"} \cup Terminal,
          seal   : Seals,
          worker : Workers \cup {None},
          fence  : Fences \cup {None},
          lease  : Nat,
          at     : Nat,
          result : Results \cup {None}]

NoEvent == [status |-> "absent", seal |-> None, worker |-> None,
            fence |-> None, lease |-> 0, at |-> 0, result |-> None]

Replies == {"none", "ok", "refused", "conflict", "failed"}

TypeOK ==
  /\ clock \in Times
  /\ seal \in Seals \cup {None}
  /\ events \in [Versions -> Event \cup {NoEvent}]
  /\ pc \in [Clients -> {"idle", "publish", "reinspect"}]
  /\ target \in [Clients -> Nat]
  /\ event \in [Clients -> Event \cup {NoEvent}]
  /\ reply \in [Clients -> Replies]

Init ==
  /\ clock = 0
  /\ seal = None
  /\ events = [v \in Versions |-> NoEvent]
  /\ pc = [c \in Clients |-> "idle"]
  /\ target = [c \in Clients |-> 0]
  /\ event = [c \in Clients |-> NoEvent]
  /\ reply = [c \in Clients |-> "none"]

-----------------------------------------------------------------------------
(* Inspection. *)

\* readEvents accepts the log as having v events: names 1..v and no other.
IsVersion(v) == \A u \in Versions : events[u] # NoEvent <=> u <= v

Latest(v) == IF v = 0 THEN NoEvent ELSE events[v]

StatusAt(v) == IF v = 0 THEN "awaiting-production" ELSE events[v].status

\* Variant: any running event counts as expired.
Expired_Always(v, now) == StatusAt(v) = "running-production"

\* view's "expired": a running event whose lease has passed at time now.
Expired(v, now) ==
  /\ StatusAt(v) = "running-production"
  /\ now >= events[v].lease

\* inspectAsyncProductionRun followed by assertExpected.
Inspects(v) ==
  /\ seal # None
  /\ v \in 0 .. MaxVersion
  /\ IsVersion(v)
  /\ v > 0 => events[v].seal = seal

-----------------------------------------------------------------------------
(* Guards, in terms of the version that was inspected and the caller's      *)
(* request.                                                                 *)

ClaimAllowed(v, now, lease, s) ==
  /\ lease > now
  /\ s = seal
  /\ now < Deadline[seal]
  /\ lease <= Deadline[seal]
  /\ StatusAt(v) = "awaiting-production" \/ Expired(v, now)

\* Variant: the fencing token is not compared.
FinishAllowed_AnyFence(v, now, fence) ==
  /\ now < Deadline[seal]
  /\ StatusAt(v) = "running-production"
  /\ now < events[v].lease

FinishAllowed(v, now, fence) ==
  /\ now < Deadline[seal]
  /\ StatusAt(v) = "running-production"
  /\ events[v].fence = fence
  /\ now < events[v].lease

\* Variant: a run may be cancelled in any status.
CancelAllowed_Always(v) == StatusAt(v) # "unsealed"

CancelAllowed(v) ==
  StatusAt(v) \in {"awaiting-production", "running-production"}

ClaimEvent(worker, fence, lease, now) ==
  [NoEvent EXCEPT !.status = "running-production", !.seal = seal,
                  !.worker = worker, !.fence = fence, !.lease = lease,
                  !.at = now]

FinishEvent(status, fence, result, now) ==
  [NoEvent EXCEPT !.status = status, !.seal = seal, !.fence = fence,
                  !.result = result, !.at = now]

\* Variant: a status no reader knows.
CancelEvent_Misspelt(now) ==
  [NoEvent EXCEPT !.status = "canceled", !.seal = seal, !.at = now]

CancelEvent(now) ==
  [NoEvent EXCEPT !.status = "cancelled", !.seal = seal, !.at = now]

-----------------------------------------------------------------------------
(* The calls. *)

Idle(c) == pc[c] = "idle"

\* Variant: the event skips a version.
Proceed_SkipsVersion(c, v, e) ==
  /\ pc' = [pc EXCEPT ![c] = "publish"]
  /\ target' = [target EXCEPT ![c] = v + 2]
  /\ event' = [event EXCEPT ![c] = e]
  /\ reply' = [reply EXCEPT ![c] = "none"]
  /\ UNCHANGED <<clock, seal, events>>

\* The guards passed on what c inspected; what it publishes is now fixed.
Proceed(c, v, e) ==
  /\ pc' = [pc EXCEPT ![c] = "publish"]
  /\ target' = [target EXCEPT ![c] = v + 1]
  /\ event' = [event EXCEPT ![c] = e]
  /\ reply' = [reply EXCEPT ![c] = "none"]
  /\ UNCHANGED <<clock, seal, events>>

\* A call ends.  Only a successful caller remembers what it published.
Return(c, r) ==
  /\ pc' = [pc EXCEPT ![c] = "idle"]
  /\ reply' = [reply EXCEPT ![c] = r]
  /\ target' = [target EXCEPT ![c] = IF r = "ok" THEN @ ELSE 0]
  /\ event' = [event EXCEPT ![c] = IF r = "ok" THEN @ ELSE NoEvent]

\* sealAsyncProductionRun has nothing to inspect: the seal file is put,
\* matched or in conflict, and read back.
SealRun(c) ==
  /\ Idle(c)
  /\ \E s \in Seals :
       IF seal \in {None, s}
       THEN seal' = s /\ Return(c, "none")
       ELSE Return(c, "conflict") /\ UNCHANGED seal
  /\ UNCHANGED <<clock, events>>

\* claimAsyncProductionRun; its caller took now from the clock before the
\* call.
Claim(c) ==
  /\ Idle(c)
  /\ \E v \in 0 .. MaxVersion - 1, s \in Seals, w \in Workers, f \in Fences,
        now \in 0 .. clock, lease \in Times :
       /\ Inspects(v)
       /\ ClaimAllowed(v, now, lease, s)
       /\ Proceed(c, v, ClaimEvent(w, f, lease, now))

\* finishAsyncProductionRun; the CLI passes any time its request names.
Finish(c) ==
  /\ Idle(c)
  /\ \E v \in 0 .. MaxVersion - 1, f \in Fences, now \in Times,
        status \in Finished, r \in Results :
       /\ Inspects(v)
       /\ FinishAllowed(v, now, f)
       /\ Proceed(c, v, FinishEvent(status, f, r, now))

Cancel(c) ==
  /\ Idle(c)
  /\ \E v \in 0 .. MaxVersion - 1, now \in Times :
       /\ Inspects(v)
       /\ CancelAllowed(v)
       /\ Proceed(c, v, CancelEvent(now))

\* Any request whose expected version or other guard does not hold of what
\* the inspection finds, an unreadable log included, throws before it writes.
Refuse(c) ==
  /\ Idle(c)
  /\ Return(c, "refused")
  /\ UNCHANGED <<clock, seal, events>>

\* Variant: a conflict is taken for a match.
PublishEvent_ConflictIsMatch(c) ==
  /\ pc[c] = "publish"
  /\ events' = [events EXCEPT ![target[c]] = IF @ = NoEvent THEN event[c] ELSE @]
  /\ pc' = [pc EXCEPT ![c] = "reinspect"]
  /\ UNCHANGED <<clock, seal, target, event, reply>>

\* publishEvent's put-if-absent of the event file.
PublishEvent(c) ==
  LET v == target[c] IN
  /\ pc[c] = "publish"
  /\ IF events[v] \in {NoEvent, event[c]}
     THEN /\ events' = [events EXCEPT ![v] = event[c]]
          /\ pc' = [pc EXCEPT ![c] = "reinspect"]
          /\ UNCHANGED <<target, event, reply>>
     ELSE Return(c, "conflict") /\ UNCHANGED events
  /\ UNCHANGED <<clock, seal>>

\* publishEvent's second inspection: the log must still read as one.
Reinspect(c) ==
  /\ pc[c] = "reinspect"
  /\ Return(c, IF \E v \in Versions : Inspects(v) THEN "ok" ELSE "failed")
  /\ UNCHANGED <<clock, seal, events>>

\* A busy directory, an I/O error or the end of the process: the call fails,
\* before the event is in place or after it.
CallFails(c) ==
  /\ pc[c] \in {"publish", "reinspect"}
  /\ Return(c, "failed")
  /\ UNCHANGED <<clock, seal, events>>

Tick ==
  /\ clock < MaxTime
  /\ clock' = clock + 1
  /\ UNCHANGED <<seal, events, pc, target, event, reply>>

Next ==
  \/ \E c \in Clients : \/ SealRun(c) \/ Claim(c) \/ Finish(c) \/ Cancel(c)
                        \/ Refuse(c) \/ PublishEvent(c) \/ Reinspect(c)
                        \/ CallFails(c)
  \/ Tick

Spec == Init /\ [][Next]_vars
-----------------------------------------------------------------------------
(* Properties. *)

\* The event names are contiguous whatever the clients do and wherever they
\* stop: readEvents never finds a non-monotonic log.
LogReadable == \E v \in 0 .. MaxVersion : IsVersion(v)

Prior(v) == Latest(v - 1)

\* e may be the event of version v: it directly follows the seal or a claim.
LegalAt(v, e) ==
  /\ e.seal = seal
  /\ StatusAt(v - 1) \in {"awaiting-production", "running-production"}
  /\ e.status = "running-production" =>
       /\ Expired(v - 1, e.at) \/ v = 1
       /\ e.at < e.lease /\ e.lease <= Deadline[seal]
  /\ e.status \in Finished =>
       /\ v > 1
       /\ e.fence = Prior(v).fence
       /\ e.at < Prior(v).lease /\ e.at < Deadline[seal]

\* Every event is a legal successor of the one before it, though it was
\* checked against an inspection that other clients may have outrun: a claim
\* follows the seal or a lapsed lease, a finish carries the fence of the
\* claim it directly follows and was asked for inside its lease, a
\* cancellation follows no terminal event.
LogLegal ==
  \A v \in Versions : events[v] # NoEvent => LegalAt(v, events[v])

\* Two leases of a run never overlap, also when claims lie between them.
LeasesDisjoint ==
  \A u, v \in Versions :
    /\ u < v
    /\ events[u].status = "running-production"
    /\ events[v].status = "running-production"
    => events[u].lease <= events[v].at

\* A client that was told its transition succeeded finds its own event in
\* the log, then and later: no two different transitions both win a version.
SuccessMeansMine ==
  \A c \in Clients : reply[c] = "ok" => events[target[c]] = event[c]

\* The cancel/finish race has one winner: of all the clients that were told
\* they ended the run, none published another end.
OneEnd ==
  \A c, d \in Clients :
    /\ reply[c] = "ok" /\ event[c].status \in Terminal
    /\ reply[d] = "ok" /\ event[d].status \in Terminal
    => event[c] = event[d]

\* A transition never rewrites an earlier event, nor the seal.
LogAppendOnly ==
  [][/\ \A v \in Versions : events[v] # NoEvent => events'[v] = events[v]
     /\ seal # None => seal' = seal]_vars

\* "a stale worker fails twice over -- wrong token, or right token but lapsed
\* lease.  Neither can publish a terminal event" (openwiki/terminal-operator/
\* async-lifecycle.md:131-132): when a finish becomes an event, the lease of the
\* claim it ends has not passed.
LapsedLeaseNeverFinishes ==
  [][\A v \in Versions :
       events[v] = NoEvent /\ events'[v].status \in Finished =>
         clock < Prior(v).lease]_vars

(* What the run is to its callers: the documented state machine. *)

Version == CHOOSE v \in 0 .. MaxVersion : IsVersion(v)

\* The last claim of the log, 0 when there is none.
LastClaim ==
  IF events[1].status # "running-production" THEN 0
  ELSE CHOOSE v \in Versions :
         /\ events[v].status = "running-production"
         /\ \A u \in Versions : u > v => events[u].status # "running-production"

Machine == INSTANCE RunStateMachine WITH
  status   <- IF seal = None THEN "unsealed" ELSE StatusAt(Version),
  version  <- Version,
  fence    <- Latest(LastClaim).fence,
  lease    <- Latest(LastClaim).lease,
  deadline <- IF seal = None THEN 0 ELSE Deadline[seal]

\* However the clients interleave, fail and stop, the run goes through the
\* documented state machine.
ImplementsRunStateMachine == Machine!Spec
=============================================================================
