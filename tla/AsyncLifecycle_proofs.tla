----------------------- MODULE AsyncLifecycle_proofs -----------------------
(* Proofs about AsyncLifecycle for any set of clients, fences, results and  *)
(* seals, any deadlines and any bound on versions and time.                 *)
EXTENDS AsyncLifecycle, TLAPS

USE LifecycleAssumption

\* No version is missing below one that is there.
Contiguous ==
  \A u, v \in Versions : u < v /\ events[v] # NoEvent => events[u] # NoEvent

\* What a client is about to publish was legal when it inspected the run, and
\* stays so: everything below its version is there and is never rewritten.
PublishInv ==
  \A c \in Clients : pc[c] = "publish" =>
    /\ target[c] \in Versions
    /\ event[c] \in Event
    /\ seal # None
    /\ \A u \in Versions : u < target[c] => events[u] # NoEvent
    /\ LegalAt(target[c], event[c])
    /\ event[c].status = "running-production" =>
         \A u \in Versions :
           u < target[c] /\ events[u].status = "running-production"
             => events[u].lease <= event[c].at

\* What a client has published is what it finds.
DoneInv ==
  \A c \in Clients : pc[c] = "reinspect" \/ reply[c] = "ok" =>
    /\ target[c] \in Versions
    /\ events[target[c]] = event[c]
    /\ event[c] # NoEvent

IInv == /\ TypeOK /\ Contiguous /\ LogLegal /\ LeasesDisjoint
        /\ PublishInv /\ DoneInv

LEMMA NoEventIsNoEvent == NoEvent \notin Event
BY DEF NoEvent, Event, Terminal, Finished

LEMMA Init_IInv == Init => IInv
BY NoEventIsNoEvent
   DEF Init, IInv, TypeOK, Contiguous, LogLegal, LeasesDisjoint, PublishInv,
       DoneInv, Times, Versions, Replies, NoEvent

\* The records the calls build are events.
LEMMA BuiltEvents ==
  ASSUME seal \in Seals, NEW now \in Nat
  PROVE  /\ \A w \in Workers, f \in Fences, l \in Nat :
              ClaimEvent(w, f, l, now) \in Event
         /\ \A s \in Finished, f \in Fences, r \in Results :
              FinishEvent(s, f, r, now) \in Event
         /\ CancelEvent(now) \in Event
BY DEF ClaimEvent, FinishEvent, CancelEvent, NoEvent, Event, Terminal

\* A call that passed its guards: its event is legal at the version after the
\* inspected one.
LEMMA ProceedStep ==
  ASSUME IInv, NEW c \in Clients, NEW v \in 0 .. MaxVersion - 1, NEW e \in Event,
         Inspects(v), Proceed(c, v, e), LegalAt(v + 1, e),
         e.status = "running-production" =>
           \A u \in Versions :
             u < v + 1 /\ events[u].status = "running-production"
               => events[u].lease <= e.at
  PROVE  IInv'
<1> v + 1 \in Versions /\ v + 1 \in Nat
  BY DEF Versions
<1> USE DEF Proceed, IInv, TypeOK
<1>1. TypeOK'
  BY DEF Replies, Event
<1>2. Contiguous' /\ LogLegal' /\ LeasesDisjoint'
  BY DEF Contiguous, LogLegal, LeasesDisjoint, LegalAt, StatusAt, Expired,
         Prior, Latest
<1>3. PublishInv'
  <2>1. \A u \in Versions : u < v + 1 => events[u] # NoEvent
    BY DEF Inspects, IsVersion, Versions
  <2> SUFFICES ASSUME NEW d \in Clients, pc'[d] = "publish"
               PROVE  /\ target'[d] \in Versions
                      /\ event'[d] \in Event
                      /\ seal # None
                      /\ \A u \in Versions : u < target'[d] => events[u] # NoEvent
                      /\ LegalAt(target'[d], event'[d])
                      /\ event'[d].status = "running-production" =>
                           \A u \in Versions :
                             u < target'[d] /\ events[u].status = "running-production"
                               => events[u].lease <= event'[d].at
    BY DEF PublishInv, LegalAt, StatusAt, Expired, Prior, Latest
  <2>2. CASE d = c
    BY <2>1, <2>2 DEF Inspects
  <2>3. CASE d # c
    BY <2>3 DEF PublishInv
  <2> QED BY <2>2, <2>3
<1>4. DoneInv'
  BY DEF DoneInv
<1> QED BY <1>1, <1>2, <1>3, <1>4

LEMMA ReturnStep ==
  ASSUME IInv, NEW c \in Clients, NEW r \in Replies, Return(c, r),
         r = "ok" => pc[c] = "reinspect",
         UNCHANGED <<clock, seal, events>>
  PROVE  IInv'
<1> USE DEF Return, IInv, TypeOK
<1>1. TypeOK'
  BY NoEventIsNoEvent
<1>2. Contiguous' /\ LogLegal' /\ LeasesDisjoint'
  BY DEF Contiguous, LogLegal, LeasesDisjoint, LegalAt, StatusAt, Expired,
         Prior, Latest
<1>3. PublishInv'
  BY DEF PublishInv, LegalAt, StatusAt, Expired, Prior, Latest
<1>4. DoneInv'
  BY DEF DoneInv
<1> QED BY <1>1, <1>2, <1>3, <1>4

\* Sealing happens before any event: an event would carry a seal that is not
\* there.
LEMMA SealStep == ASSUME IInv, NEW c \in Clients, SealRun(c) PROVE IInv'
<1> USE DEF IInv
<1>1. CASE UNCHANGED seal
  BY <1>1, ReturnStep DEF SealRun, Replies
<1>2. CASE seal = None /\ seal' \in Seals /\ Return(c, "none")
  <2> USE DEF Return, Idle
  <2>1. \A v \in Versions : events[v] = NoEvent
    BY <1>2 DEF LogLegal, LegalAt, TypeOK, Event
  <2>2. \A d \in Clients : pc[d] # "publish"
    BY <1>2 DEF PublishInv
  <2>3. TypeOK'
    BY <1>2, NoEventIsNoEvent DEF TypeOK, SealRun, Replies
  <2>4. Contiguous' /\ LogLegal' /\ LeasesDisjoint'
    BY <1>2, <2>1 DEF SealRun, Contiguous, LogLegal, LeasesDisjoint, NoEvent
  <2>5. PublishInv'
    BY <1>2, <2>2 DEF SealRun, PublishInv, TypeOK
  <2>6. DoneInv'
    BY <1>2 DEF SealRun, DoneInv, TypeOK
  <2> QED BY <2>3, <2>4, <2>5, <2>6
<1> QED BY <1>1, <1>2 DEF SealRun

\* The bound on leases: the latest running event's lease bounds all earlier
\* ones.
LEMMA EarlierLeases ==
  ASSUME IInv, NEW v \in 0 .. MaxVersion - 1, NEW now \in Nat,
         StatusAt(v) = "awaiting-production" \/ Expired(v, now), Inspects(v)
  PROVE  \A u \in Versions :
           u < v + 1 /\ events[u].status = "running-production"
             => events[u].lease <= now
<1> USE DEF IInv, TypeOK, StatusAt, Expired, Inspects, IsVersion
<1>1. CASE v = 0
  BY <1>1 DEF Versions
<1>2. CASE v # 0
  <2>1. v \in Versions /\ events[v] # NoEvent /\ events[v] \in Event
    BY <1>2 DEF Versions
  <2>2. StatusAt(v) = "running-production" /\ events[v].lease <= now
    BY <1>2, <2>1 DEF Event, Terminal, Finished
  <2>3. events[v].at < events[v].lease
    BY <1>2, <2>1, <2>2 DEF LogLegal, LegalAt
  <2> SUFFICES ASSUME NEW u \in Versions, u < v + 1,
                      events[u].status = "running-production"
               PROVE  events[u].lease <= now
    OBVIOUS
  <2>4. events[u] \in Event
    BY DEF NoEvent
  <2>5. CASE u = v BY <2>2, <2>5
  <2>6. CASE u # v
    <3>1. u < v BY <2>1, <2>6 DEF Versions
    <3>2. events[u].lease <= events[v].at
      BY <1>2, <2>1, <2>2, <3>1 DEF LeasesDisjoint
    <3> QED BY <2>1, <2>2, <2>3, <2>4, <3>2 DEF Event
  <2> QED BY <2>5, <2>6
<1> QED BY <1>1, <1>2

LEMMA ClaimStep == ASSUME IInv, NEW c \in Clients, Claim(c) PROVE IInv'
<1> PICK v \in 0 .. MaxVersion - 1, s \in Seals, w \in Workers, f \in Fences,
         now \in 0 .. clock, lease \in Times :
       /\ Inspects(v)
       /\ ClaimAllowed(v, now, lease, s)
       /\ Proceed(c, v, ClaimEvent(w, f, lease, now))
  BY DEF Claim
<1> DEFINE e == ClaimEvent(w, f, lease, now)
<1>1. now \in Nat /\ lease \in Nat /\ seal \in Seals
  BY DEF IInv, TypeOK, Times, ClaimAllowed
<1>2. e \in Event
  BY <1>1, BuiltEvents
<1>3. /\ e.status = "running-production" /\ e.seal = seal
      /\ e.at = now /\ e.lease = lease
  BY DEF ClaimEvent, NoEvent
<1>4. LegalAt(v + 1, e)
  <2> (v + 1) - 1 = v
    OBVIOUS
  <2> StatusAt(v) \in {"awaiting-production", "running-production"}
    BY DEF ClaimAllowed, Expired
  <2> Expired(v, now) \/ v + 1 = 1
    <3>1. v # 0 => events[v] \in Event
      BY DEF Inspects, IsVersion, Versions, IInv, TypeOK
    <3> QED BY <3>1 DEF ClaimAllowed, StatusAt, Event, Terminal, Finished
  <2> QED BY <1>1, <1>3 DEF LegalAt, ClaimAllowed, Finished
<1>5. \A u \in Versions : u < v + 1 /\ events[u].status = "running-production"
                            => events[u].lease <= e.at
  BY <1>1, <1>3, EarlierLeases DEF ClaimAllowed
<1> HIDE DEF e
<1> QED BY <1>2, <1>4, <1>5, ProceedStep DEF e

LEMMA FinishStep == ASSUME IInv, NEW c \in Clients, Finish(c) PROVE IInv'
<1> PICK v \in 0 .. MaxVersion - 1, f \in Fences, now \in Times,
         status \in Finished, r \in Results :
       /\ Inspects(v)
       /\ FinishAllowed(v, now, f)
       /\ Proceed(c, v, FinishEvent(status, f, r, now))
  BY DEF Finish
<1> DEFINE e == FinishEvent(status, f, r, now)
<1>1. now \in Nat /\ seal \in Seals
  BY DEF IInv, TypeOK, Times, Inspects
<1>2. e \in Event
  BY <1>1, BuiltEvents
<1>3. /\ e.status = status /\ e.seal = seal /\ e.at = now /\ e.fence = f
      /\ e.status # "running-production"
  BY DEF FinishEvent, NoEvent, Finished
<1>4. LegalAt(v + 1, e)
  <2> (v + 1) - 1 = v /\ v # 0
    BY DEF FinishAllowed, StatusAt
  <2> QED BY <1>1, <1>3 DEF LegalAt, FinishAllowed, StatusAt, Prior, Latest
<1> HIDE DEF e
<1> QED BY <1>2, <1>3, <1>4, ProceedStep DEF e

LEMMA CancelStep == ASSUME IInv, NEW c \in Clients, Cancel(c) PROVE IInv'
<1> PICK v \in 0 .. MaxVersion - 1, now \in Times :
       Inspects(v) /\ CancelAllowed(v) /\ Proceed(c, v, CancelEvent(now))
  BY DEF Cancel
<1>1. now \in Nat /\ seal \in Seals
  BY DEF IInv, TypeOK, Times, Inspects
<1>2. CancelEvent(now) \in Event
  BY <1>1, BuiltEvents
<1>3. CancelEvent(now).status = "cancelled" /\ CancelEvent(now).seal = seal
  BY DEF CancelEvent, NoEvent
<1>4. LegalAt(v + 1, CancelEvent(now))
  <2> (v + 1) - 1 = v
    OBVIOUS
  <2> QED BY <1>3 DEF LegalAt, CancelAllowed, Finished
<1> QED BY <1>2, <1>3, <1>4, ProceedStep

\* The put: no other event changes, and nobody's inspected prefix does.
LEMMA PublishStep == ASSUME IInv, NEW c \in Clients, PublishEvent(c) PROVE IInv'
<1> DEFINE t == target[c]
<1> USE DEF IInv
<1>1. CASE UNCHANGED events /\ Return(c, "conflict")
  BY <1>1, ReturnStep DEF PublishEvent, Replies
<1>2. CASE /\ events[t] \in {NoEvent, event[c]}
           /\ events' = [events EXCEPT ![t] = event[c]]
           /\ pc' = [pc EXCEPT ![c] = "reinspect"]
           /\ UNCHANGED <<target, event, reply, clock, seal>>
  <2>0. /\ pc[c] = "publish" /\ t \in Versions /\ event[c] \in Event
        /\ event[c] # NoEvent
        /\ LegalAt(t, event[c])
        /\ \A u \in Versions : u < t => events[u] # NoEvent
    BY NoEventIsNoEvent DEF PublishEvent, PublishInv
  <2>1. TypeOK'
    BY <1>2, <2>0 DEF TypeOK
  <2>2. events'[t] = event[c] /\ \A v \in Versions : v # t => events'[v] = events[v]
    BY <1>2, <2>0 DEF TypeOK
  <2>3. \A v \in Versions : events[v] # NoEvent => events'[v] = events[v]
    BY <1>2, <2>2
  <2>4. Contiguous'
    BY <2>0, <2>2 DEF Contiguous, Versions
  <2>5. \A v \in Versions, e \in Event :
          /\ LegalAt(v, e)
          /\ \A u \in Versions : u < v => events[u] # NoEvent
          => LegalAt(v, e)'
    <3> SUFFICES ASSUME NEW v \in Versions, NEW e \in Event, LegalAt(v, e),
                        \A u \in Versions : u < v => events[u] # NoEvent
                 PROVE  LegalAt(v, e)'
      OBVIOUS
    <3> v - 1 = 0 \/ (v - 1 \in Versions /\ events'[v - 1] = events[v - 1])
      BY <2>3 DEF Versions
    <3> QED BY <1>2 DEF LegalAt, StatusAt, Expired, Prior, Latest
  <2>6. LogLegal'
    <3> SUFFICES ASSUME NEW v \in Versions, events'[v] # NoEvent
                 PROVE  LegalAt(v, events[v])'
      BY DEF LogLegal
    <3>1. events'[v] \in Event
      BY <2>1 DEF TypeOK
    <3>2. LegalAt(v, events'[v]) /\ \A u \in Versions : u < v => events[u] # NoEvent
      BY <2>0, <2>2 DEF LogLegal, Contiguous
    <3>3. ASSUME NEW e \in Event, e = events'[v], LegalAt(v, e)'
          PROVE  LegalAt(v, events[v])'
      BY <3>3 DEF LegalAt
    <3> QED BY <2>5, <3>1, <3>2, <3>3
  <2>7. LeasesDisjoint'
    <3> SUFFICES ASSUME NEW u \in Versions, NEW v \in Versions, u < v,
                        events'[u].status = "running-production",
                        events'[v].status = "running-production"
                 PROVE  events'[u].lease <= events'[v].at
      BY DEF LeasesDisjoint
    <3>1. events'[v] # NoEvent
      BY DEF NoEvent
    <3>2. u # t \/ events[u] # NoEvent
      BY <2>0, <2>4, <2>2, <3>1 DEF Contiguous
    <3>3. events[u] # NoEvent /\ events'[u] = events[u]
      BY <2>0, <2>2, <2>3, <3>1, <3>2 DEF Contiguous
    <3>4. CASE v = t
      BY <2>0, <2>2, <3>3, <3>4 DEF PublishInv
    <3>5. CASE v # t
      BY <2>2, <3>3, <3>5 DEF LeasesDisjoint
    <3> QED BY <3>4, <3>5
  <2>8. PublishInv'
    <3> SUFFICES ASSUME NEW d \in Clients, pc'[d] = "publish"
                 PROVE  /\ target[d] \in Versions
                        /\ event[d] \in Event
                        /\ seal # None
                        /\ \A u \in Versions : u < target[d] => events'[u] # NoEvent
                        /\ LegalAt(target[d], event[d])'
                        /\ event[d].status = "running-production" =>
                             \A u \in Versions :
                               u < target[d] /\ events'[u].status = "running-production"
                                 => events'[u].lease <= event[d].at
      BY <1>2 DEF PublishInv, LegalAt, StatusAt, Expired, Prior, Latest
    <3>1. pc[d] = "publish" /\ d # c
      BY <1>2 DEF TypeOK
    <3>2. /\ target[d] \in Versions /\ event[d] \in Event /\ seal # None
          /\ \A u \in Versions : u < target[d] => events[u] # NoEvent
          /\ LegalAt(target[d], event[d])
      BY <3>1 DEF PublishInv
    <3>3. \A u \in Versions : u < target[d] => events'[u] = events[u]
      BY <2>3, <3>2
    <3>4. LegalAt(target[d], event[d])'
      <4>1. ASSUME NEW v \in Versions, NEW e \in Event, v = target[d], e = event[d]
            PROVE  LegalAt(v, e)' <=> LegalAt(target[d], event[d])'
        BY <1>2, <4>1 DEF LegalAt, StatusAt, Expired, Prior, Latest
      <4> QED BY <2>5, <3>2, <4>1
    <3> QED BY <3>1, <3>2, <3>3, <3>4 DEF PublishInv
  <2>9. DoneInv'
    BY <1>2, <2>0, <2>2, <2>3, NoEventIsNoEvent DEF DoneInv, TypeOK
  <2> QED BY <2>1, <2>4, <2>6, <2>7, <2>8, <2>9
<1> QED BY <1>1, <1>2 DEF PublishEvent

LEMMA TickStep == ASSUME IInv, Tick PROVE IInv'
BY DEF Tick, IInv, TypeOK, Times, Contiguous, LogLegal, LeasesDisjoint,
       PublishInv, DoneInv, LegalAt, StatusAt, Expired, Prior, Latest

LEMMA StutterStep == ASSUME IInv, UNCHANGED vars PROVE IInv'
BY DEF vars, IInv, TypeOK, Contiguous, LogLegal, LeasesDisjoint,
       PublishInv, DoneInv, LegalAt, StatusAt, Expired, Prior, Latest

LEMMA Next_IInv == IInv /\ [Next]_vars => IInv'
<1> SUFFICES ASSUME IInv, [Next]_vars PROVE IInv'
  OBVIOUS
<1>1. ASSUME NEW c \in Clients, Refuse(c) PROVE IInv'
  BY <1>1, ReturnStep DEF Refuse, Replies
<1>2. ASSUME NEW c \in Clients, Reinspect(c) PROVE IInv'
  BY <1>2, ReturnStep DEF Reinspect, Replies
<1>3. ASSUME NEW c \in Clients, CallFails(c) PROVE IInv'
  BY <1>3, ReturnStep DEF CallFails, Replies
<1> QED
  BY <1>1, <1>2, <1>3, SealStep, ClaimStep, FinishStep, CancelStep,
     PublishStep, TickStep, StutterStep DEF Next

LEMMA Invariance == Spec => []IInv
<1> QED BY Init_IInv, Next_IInv, PTL DEF Spec

\* Every variable keeps its type.
THEOREM TypeCorrect == Spec => []TypeOK
<1>1. IInv => TypeOK BY DEF IInv
<1> QED BY <1>1, Invariance, PTL

\* Every event in the log is a legal successor of the one before it.
THEOREM LogIsLegal == Spec => []LogLegal
<1>1. IInv => LogLegal BY DEF IInv
<1> QED BY <1>1, Invariance, PTL

\* The leases of a run never overlap.
THEOREM LeasesNeverOverlap == Spec => []LeasesDisjoint
<1>1. IInv => LeasesDisjoint BY DEF IInv
<1> QED BY <1>1, Invariance, PTL

\* A successful client's event is in the log.
THEOREM SuccessIsMine == Spec => []SuccessMeansMine
<1>1. IInv => SuccessMeansMine BY DEF IInv, DoneInv, SuccessMeansMine
<1> QED BY <1>1, Invariance, PTL

\* The cancel/finish race has one winner: two ends of a run would each forbid
\* a later event, so they are the same version.
THEOREM RaceHasOneWinner == Spec => []OneEnd
<1>1. IInv => OneEnd
  <2> SUFFICES ASSUME IInv, NEW c \in Clients, NEW d \in Clients,
                      reply[c] = "ok", event[c].status \in Terminal,
                      reply[d] = "ok", event[d].status \in Terminal
               PROVE  event[c] = event[d]
    BY DEF OneEnd
  <2> DEFINE u == target[c]
             v == target[d]
  <2>1. /\ u \in Versions /\ events[u] = event[c] /\ event[c] # NoEvent
        /\ v \in Versions /\ events[v] = event[d] /\ event[d] # NoEvent
    BY DEF IInv, DoneInv
  <2>2. ASSUME NEW a \in Versions, NEW b \in Versions, a < b,
               events[a].status \in Terminal, events[b] # NoEvent
        PROVE  FALSE
    <3>1. /\ a + 1 \in Versions /\ (a + 1) - 1 = a /\ a # 0
          /\ a + 1 = b \/ a + 1 < b
      BY <2>2 DEF Versions
    <3>2. events[a + 1] # NoEvent
      BY <2>2, <3>1 DEF IInv, Contiguous
    <3>3. events[a].status \in {"awaiting-production", "running-production"}
      BY <3>1, <3>2 DEF IInv, LogLegal, LegalAt, StatusAt
    <3> QED BY <2>2, <3>3 DEF Terminal, Finished
  <2> QED BY <2>1, <2>2 DEF Versions
<1> QED BY <1>1, Invariance, PTL

\* No step rewrites an event or the seal.
THEOREM AppendOnly == Spec => LogAppendOnly
<1>1. IInv /\ [Next]_vars => 
        [/\ \A v \in Versions : events[v] # NoEvent => events'[v] = events[v]
         /\ seal # None => seal' = seal]_vars
  BY DEF IInv, TypeOK, PublishInv, Next, SealRun, Claim, Finish, Cancel, Refuse,
         PublishEvent, Reinspect, CallFails, Tick, Proceed, Return, vars
<1> QED BY <1>1, Invariance, PTL DEF Spec, LogAppendOnly

-----------------------------------------------------------------------------
(* The log as a whole: it always has a version, and what happens to it is    *)
(* the documented state machine.                                             *)

\* A claim names a fencing token, before and after it is in the log.
ClaimFences ==
  /\ \A v \in Versions :
       events[v].status = "running-production" => events[v].fence \in Fences
  /\ \A c \in Clients :
       pc[c] = "publish" /\ event[c].status = "running-production" =>
         event[c].fence \in Fences

LogInv == IInv /\ LogReadable /\ ClaimFences

\* The steps that write, and what they write.
LEMMA Effects ==
  ASSUME IInv, [Next]_vars
  PROVE  \/ UNCHANGED <<seal, events>>
         \/ seal = None /\ seal' \in Seals /\ events' = events
         \/ \E c \in Clients :
              /\ pc[c] = "publish"
              /\ events[target[c]] \in {NoEvent, event[c]}
              /\ events' = [events EXCEPT ![target[c]] = event[c]]
              /\ seal' = seal
<1>1. ASSUME NEW c \in Clients, SealRun(c)
      PROVE  \/ UNCHANGED <<seal, events>>
             \/ seal = None /\ seal' \in Seals /\ events' = events
  BY <1>1 DEF SealRun
<1>2. ASSUME NEW c \in Clients, PublishEvent(c)
      PROVE  \/ UNCHANGED <<seal, events>>
             \/ /\ pc[c] = "publish"
                /\ events[target[c]] \in {NoEvent, event[c]}
                /\ events' = [events EXCEPT ![target[c]] = event[c]]
                /\ seal' = seal
  BY <1>2 DEF PublishEvent
<1>3. ASSUME NEW c \in Clients,
             \/ Claim(c) \/ Finish(c) \/ Cancel(c) \/ Refuse(c) \/ Reinspect(c)
             \/ CallFails(c)
      PROVE  UNCHANGED <<seal, events>>
  BY <1>3 DEF Claim, Finish, Cancel, Refuse, Reinspect, CallFails, Proceed
<1>4. ASSUME Tick \/ UNCHANGED vars PROVE UNCHANGED <<seal, events>>
  BY <1>4 DEF Tick, vars
<1> QED BY <1>1, <1>2, <1>3, <1>4 DEF Next

\* An event is put behind the last one, or was there before.
LEMMA PutsNext ==
  ASSUME IInv, [Next]_vars, NEW v \in 0 .. MaxVersion, IsVersion(v)
  PROVE  \/ events' = events
         \/ /\ seal # None /\ seal' = seal /\ v + 1 \in Versions
            /\ IsVersion(v + 1)'
            /\ \E c \in Clients :
                 /\ pc[c] = "publish" /\ target[c] = v + 1
                 /\ events' = [events EXCEPT ![v + 1] = event[c]]
                 /\ event[c] \in Event /\ LegalAt(v + 1, event[c])
<1>1. CASE events' = events
  BY <1>1
<1>2. ASSUME NEW c \in Clients, pc[c] = "publish",
             events[target[c]] \in {NoEvent, event[c]},
             events' = [events EXCEPT ![target[c]] = event[c]],
             seal' = seal, events' # events
      PROVE  /\ seal # None /\ v + 1 \in Versions /\ IsVersion(v + 1)'
             /\ target[c] = v + 1 /\ event[c] \in Event
             /\ LegalAt(v + 1, event[c])
  <2> DEFINE t == target[c]
  <2>1. /\ t \in Versions /\ event[c] \in Event /\ seal # None
        /\ \A u \in Versions : u < t => events[u] # NoEvent
        /\ LegalAt(t, event[c])
    BY <1>2 DEF IInv, PublishInv
  <2>2. events[t] = NoEvent
    BY <1>2, <2>1 DEF IInv, TypeOK
  <2>3. t = v + 1
    <3>1. v < t
      BY <2>1, <2>2 DEF IsVersion, Versions
    <3>2. ~ (v + 1 < t)
      <4>1. v + 1 < t => v + 1 \in Versions /\ ~ (v + 1 <= v)
        BY <2>1 DEF Versions
      <4> QED BY <2>1, <4>1 DEF IsVersion
    <3> QED BY <2>1, <3>1, <3>2 DEF Versions
  <2>4. \A u \in Versions : events'[u] # NoEvent <=> u <= v + 1
    <3>1. event[c] # NoEvent
      BY <2>1, NoEventIsNoEvent
    <3>2. \A u \in Versions :
            events'[u] = IF u = v + 1 THEN event[c] ELSE events[u]
      BY <1>2, <2>3 DEF IInv, TypeOK
    <3> QED BY <3>1, <3>2 DEF IsVersion, Versions
  <2> QED BY <2>1, <2>3, <2>4 DEF IsVersion
<1> QED BY <1>1, <1>2, Effects

LEMMA ClaimFencesStep ==
  ASSUME IInv, ClaimFences, [Next]_vars PROVE ClaimFences'
<1>1. \A v \in Versions :
        events'[v].status = "running-production" => events'[v].fence \in Fences
  BY Effects DEF ClaimFences, IInv, TypeOK, PublishInv
<1>2. ASSUME NEW c \in Clients,
             pc'[c] = "publish" /\ event'[c].status = "running-production"
      PROVE  event'[c].fence \in Fences
  <2> USE DEF IInv, TypeOK
  <2>1. ASSUME pc'[c] = pc[c], event'[c] = event[c]
        PROVE  event'[c].fence \in Fences
    BY <1>2, <2>1 DEF ClaimFences
  <2>2. ASSUME NEW d \in Clients, Claim(d) PROVE event'[c].fence \in Fences
    BY <1>2, <2>1, <2>2 DEF Claim, Proceed, ClaimEvent, NoEvent
  <2>3. ASSUME NEW d \in Clients, Finish(d) \/ Cancel(d)
        PROVE  event'[c].fence \in Fences
    <3>1. PICK e, v : Proceed(d, v, e) /\ e.status # "running-production"
      <4>1. CASE Finish(d)
        <5>1. PICK v \in 0 .. MaxVersion - 1, f \in Fences, now \in Times,
                   status \in Finished, r \in Results :
                Proceed(d, v, FinishEvent(status, f, r, now))
          BY <4>1 DEF Finish
        <5>2. FinishEvent(status, f, r, now).status = status
          BY DEF FinishEvent, NoEvent
        <5> QED BY <5>1, <5>2 DEF Finished
      <4>2. CASE Cancel(d)
        <5>1. PICK v \in 0 .. MaxVersion - 1, now \in Times :
                Proceed(d, v, CancelEvent(now))
          BY <4>2 DEF Cancel
        <5>2. CancelEvent(now).status = "cancelled"
          BY DEF CancelEvent, NoEvent
        <5> QED BY <5>1, <5>2
      <4> QED BY <2>3, <4>1, <4>2
    <3>2. d # c
      BY <1>2, <3>1 DEF Proceed
    <3> QED BY <2>1, <3>1, <3>2 DEF Proceed
  <2>4. ASSUME NEW d \in Clients, NEW r, Return(d, r)
        PROVE  event'[c].fence \in Fences
    BY <1>2, <2>1, <2>4 DEF Return
  <2>5. ASSUME NEW d \in Clients, PublishEvent(d)
        PROVE  event'[c].fence \in Fences
    BY <1>2, <2>1, <2>4, <2>5 DEF PublishEvent
  <2>6. ASSUME Tick \/ UNCHANGED vars PROVE event'[c].fence \in Fences
    BY <2>1, <2>6 DEF Tick, vars
  <2> QED BY <2>2, <2>3, <2>4, <2>5, <2>6
          DEF Next, SealRun, Refuse, Reinspect, CallFails
<1> QED BY <1>1, <1>2 DEF ClaimFences

LEMMA LogInvariance == Spec => []LogInv
<1>1. Init => LogInv
  <2> SUFFICES ASSUME Init PROVE LogReadable /\ ClaimFences
    BY Init_IInv DEF LogInv
  <2>1. IsVersion(0)
    BY DEF Init, IsVersion, Versions
  <2>2. ClaimFences
    BY DEF Init, ClaimFences, NoEvent
  <2> QED BY <2>1, <2>2 DEF LogReadable
<1>2. LogInv /\ [Next]_vars => LogInv'
  <2> SUFFICES ASSUME LogInv, [Next]_vars PROVE LogInv'
    OBVIOUS
  <2>1. PICK v \in 0 .. MaxVersion : IsVersion(v)
    BY DEF LogInv, LogReadable
  <2>2. LogReadable'
    <3>1. CASE events' = events
      BY <2>1, <3>1 DEF LogReadable, IsVersion
    <3>2. CASE v + 1 \in Versions /\ IsVersion(v + 1)'
      <4>1. v + 1 \in 0 .. MaxVersion
        BY <3>2 DEF Versions
      <4> QED BY <3>2, <4>1 DEF LogReadable
    <3> QED BY <2>1, <3>1, <3>2, PutsNext DEF LogInv
  <2> QED BY <2>2, Next_IInv, ClaimFencesStep DEF LogInv
<1> QED BY <1>1, <1>2, PTL DEF Spec

\* Wherever clients stop, the names of the events are 1 to some version and no
\* others, so that readEvents accepts the log.
THEOREM LogIsReadable == Spec => []LogReadable
<1>1. LogInv => LogReadable BY DEF LogInv
<1> QED BY <1>1, LogInvariance, PTL

-----------------------------------------------------------------------------
\* The log has one version, and is the run's claims up to its last event.
LEMMA VersionIs ==
  ASSUME NEW v \in 0 .. MaxVersion, IsVersion(v) PROVE Version = v
<1>1. ASSUME NEW u \in 0 .. MaxVersion, IsVersion(u) PROVE u = v
  <2>1. ~ (u < v)
    BY <1>1 DEF IsVersion, Versions
  <2>2. ~ (v < u)
    BY <1>1 DEF IsVersion, Versions
  <2> QED BY <2>1, <2>2
<1> QED BY <1>1 DEF Version

LEMMA LastClaimIs ==
  ASSUME IInv, NEW v \in 0 .. MaxVersion, IsVersion(v)
  PROVE  /\ v > 0 /\ events[v].status = "running-production" => LastClaim = v
         /\ v > 0 /\ events[v].status # "running-production" => LastClaim = v - 1
         /\ v = 0 => LastClaim = 0
<1>1. \A u \in Versions : u < v => events[u].status = "running-production"
  <2> SUFFICES ASSUME NEW u \in Versions, u < v
               PROVE  events[u].status = "running-production"
    OBVIOUS
  <2>1. u + 1 \in Versions /\ u + 1 <= v /\ (u + 1) - 1 = u /\ u # 0
    BY DEF Versions
  <2>2. events[u + 1] # NoEvent
    BY <2>1 DEF IsVersion
  <2>3. LegalAt(u + 1, events[u + 1])
    BY <2>1, <2>2 DEF IInv, LogLegal
  <2>4. StatusAt(u) \in {"awaiting-production", "running-production"}
    BY <2>1, <2>3 DEF LegalAt
  <2>5. events[u].status # "awaiting-production"
    <3>1. events[u] \in Event \cup {NoEvent}
      BY DEF IInv, TypeOK
    <3> QED BY <3>1 DEF Event, NoEvent, Terminal, Finished
  <2> QED BY <2>1, <2>4, <2>5 DEF StatusAt
<1>2. \A u \in Versions : u > v => events[u].status = "absent"
  BY DEF IsVersion, Versions, NoEvent
<1>3. 1 \in Versions
  BY DEF Versions
<1>4. ASSUME NEW n \in Versions, events[n].status = "running-production",
             events[1].status = "running-production",
             \A u \in Versions : u > n => events[u].status # "running-production"
      PROVE  LastClaim = n
  <2>1. ASSUME NEW m \in Versions, events[m].status = "running-production",
               \A u \in Versions : u > m => events[u].status # "running-production"
        PROVE  m = n
    BY <1>4, <2>1 DEF Versions
  <2> QED BY <1>4, <2>1 DEF LastClaim
<1>5. CASE v = 0
  BY <1>2, <1>3, <1>5 DEF LastClaim
<1>6. CASE v > 0 /\ events[v].status = "running-production"
  <2>1. v \in Versions /\ events[1].status = "running-production"
    BY <1>1, <1>3, <1>6 DEF Versions
  <2> QED BY <1>2, <1>4, <1>6, <2>1
<1>7. CASE v = 1 /\ events[v].status # "running-production"
  BY <1>7 DEF LastClaim
<1>8. CASE v > 1 /\ events[v].status # "running-production"
  <2>1. /\ v - 1 \in Versions /\ events[v - 1].status = "running-production"
        /\ events[1].status = "running-production"
    BY <1>1, <1>3, <1>8 DEF Versions
  <2>2. \A u \in Versions : u > v - 1 => u = v \/ u > v
    BY DEF Versions
  <2> QED BY <1>2, <1>4, <1>8, <2>1, <2>2
<1> QED BY <1>5, <1>6, <1>7, <1>8

\* What the log says of the run, as one formula of a state.
LogFacts ==
  \A v \in 0 .. MaxVersion : IsVersion(v) =>
    /\ Version = v
    /\ v > 0 /\ events[v].status = "running-production" => LastClaim = v
    /\ v > 0 /\ events[v].status # "running-production" => LastClaim = v - 1
    /\ v = 0 => LastClaim = 0

LEMMA LogFactsHold == IInv => LogFacts
BY VersionIs, LastClaimIs DEF LogFacts

LEMMA LogFactsHoldNext == IInv' => LogFacts'
BY LogFactsHold, PTL

\* Before the seal there is no event: it would carry a seal that is not there.
LEMMA NoEventBeforeSeal ==
  ASSUME IInv, seal = None, NEW v \in Versions PROVE events[v] = NoEvent
<1> SUFFICES ASSUME events[v] # NoEvent PROVE FALSE
  OBVIOUS
<1>1. events[v].seal = None
  BY DEF IInv, LogLegal, LegalAt
<1>2. events[v] \in Event
  BY DEF IInv, TypeOK
<1> QED BY <1>1, <1>2 DEF Event

\* Sealing the run is the machine's Seal.
LEMMA SealRefines ==
  ASSUME LogInv, LogInv', seal = None, seal' \in Seals, events' = events
  PROVE  Machine!Seal
<1>1. IsVersion(0) /\ IsVersion(0)' /\ 0 \in 0 .. MaxVersion
  <2>1. \A v \in Versions : events[v] = NoEvent /\ events'[v] = NoEvent
    BY NoEventBeforeSeal DEF LogInv
  <2> QED BY <2>1 DEF IsVersion, Versions
<1>2. Version = 0 /\ LastClaim = 0 /\ Version' = 0 /\ LastClaim' = 0
  BY <1>1, LogFactsHold, LogFactsHoldNext DEF LogFacts, LogInv
<1> QED BY <1>2 DEF Machine!Seal, StatusAt, Latest

\* An event put behind the last one is the machine's transition of its status.
LEMMA PutRefines ==
  ASSUME LogInv, LogInv', NEW v \in 0 .. MaxVersion, NEW e \in Event,
         IsVersion(v), v + 1 \in Versions, IsVersion(v + 1)',
         seal # None, seal' = seal,
         events' = [events EXCEPT ![v + 1] = e],
         LegalAt(v + 1, e),
         e.status = "running-production" => e.fence \in Fences
  PROVE  Machine!Claim \/ Machine!Finish \/ Machine!Cancel
<1> DEFINE s == StatusAt(v)
<1>1. /\ Version = v
      /\ s = "running-production" => LastClaim = v /\ v > 0
      /\ Version' = v + 1
      /\ e.status = "running-production" => LastClaim' = v + 1
      /\ e.status # "running-production" => LastClaim' = v
  <2>1. v + 1 \in 0 .. MaxVersion /\ v + 1 > 0
    BY DEF Versions
  <2>2. events'[v + 1] = e
    BY DEF LogInv, IInv, TypeOK
  <2>3. LogFacts /\ LogFacts'
    BY LogFactsHold, LogFactsHoldNext DEF LogInv
  <2> QED BY <2>1, <2>2, <2>3 DEF LogFacts, StatusAt
<1>2. s \in {"awaiting-production", "running-production"}
  BY DEF LegalAt
<1>3. seal \in Seals /\ Deadline[seal] \in Nat
  BY DEF LogInv, IInv, TypeOK
<1>4. StatusAt(v + 1)' = e.status
  BY DEF LogInv, IInv, TypeOK, StatusAt
<1>5. events' \in [Versions -> Event \cup {NoEvent}]
      /\ events \in [Versions -> Event \cup {NoEvent}]
  BY DEF LogInv, IInv, TypeOK
<1>6. v + 1 \in Versions /\ (v + 1) - 1 = v /\ v + 1 > 0 /\ (v > 0 => v \in Versions)
  BY DEF Versions
<1>7. /\ events'[v + 1] = e
      /\ v > 0 => events'[v] = events[v]
      /\ v > 0 => events[v].status # "awaiting-production"
  <2>1. v > 0 => events[v] \in Event \cup {NoEvent}
    BY <1>5, <1>6
  <2>2. v > 0 => events[v].status # "awaiting-production"
    BY <2>1 DEF Event, NoEvent, Terminal, Finished
  <2> QED BY <1>5, <1>6, <2>2
<1>8. s = "awaiting-production" <=> v = 0
  BY <1>2, <1>7 DEF StatusAt
<1>9. /\ Latest(v + 1)' = e
      /\ Latest(v)' = Latest(v)
  BY <1>6, <1>7 DEF Latest
<1>10. LegalAt(v + 1, e)
  OBVIOUS
<1>11. CASE e.status = "running-production"
  <2>1. /\ s = "running-production" =>
             /\ LastClaim = v /\ Latest(v) = events[v]
             /\ events[v].lease <= e.at
        /\ e.at < e.lease /\ e.lease <= Deadline[seal]
    BY <1>1, <1>6, <1>8, <1>10, <1>11 DEF LegalAt, Expired, Latest
  <2>2. e.at \in Nat /\ e.lease \in Nat /\ Deadline[seal] \in Nat
    BY <1>3 DEF Event
  <2>3. e.at \in 0 .. Deadline[seal]
    BY <2>1, <2>2
  <2>4. Latest(LastClaim)' = e
    BY <1>1, <1>9, <1>11
  <2> QED BY <1>1, <1>2, <1>4, <1>11, <2>1, <2>3, <2>4 DEF Machine!Claim
<1>12. CASE e.status # "running-production"
  <2>1. Latest(LastClaim)' = Latest(LastClaim)
    <3>1. v = 0 => LastClaim = 0
      BY LogFactsHold DEF LogFacts, LogInv
    <3> QED BY <1>1, <1>2, <1>8, <1>9, <1>12, <3>1
  <2>2. CASE e.status \in Finished
    <3>1. s = "running-production"
      BY <1>2, <1>8, <1>10, <2>2 DEF LegalAt
    <3> QED BY <1>1, <1>4, <2>1, <2>2, <3>1 DEF Machine!Finish, Finished
  <2>3. CASE e.status = "cancelled"
    BY <1>1, <1>2, <1>4, <2>1, <2>3 DEF Machine!Cancel
  <2> QED BY <1>12, <2>2, <2>3 DEF Event, Terminal
<1> QED BY <1>11, <1>12

LEMMA StepRefines == LogInv /\ LogInv' /\ [Next]_vars => [Machine!Next]_(Machine!rvars)
<1> SUFFICES ASSUME LogInv, LogInv', [Next]_vars
             PROVE  Machine!Next \/ UNCHANGED Machine!rvars
  OBVIOUS
<1>1. CASE UNCHANGED <<seal, events>>
  <2>1. \A v : IsVersion(v)' <=> IsVersion(v)
    BY <1>1 DEF IsVersion
  <2>2. PICK v \in 0 .. MaxVersion : IsVersion(v)
    BY DEF LogInv, LogReadable
  <2>3. Version = v /\ Version' = v /\ LastClaim' = LastClaim
    BY <1>1, <2>1, <2>2, LogFactsHold, LogFactsHoldNext DEF LogFacts, LogInv
  <2> QED BY <1>1, <2>3 DEF Machine!rvars, StatusAt, Latest
<1>2. CASE seal = None /\ seal' \in Seals /\ events' = events
  BY <1>2, SealRefines DEF Machine!Next
<1>3. CASE seal' = seal /\ events' # events
  <2>1. PICK v \in 0 .. MaxVersion : IsVersion(v)
    BY DEF LogInv, LogReadable
  <2>2. PICK c \in Clients :
          /\ pc[c] = "publish"
          /\ events' = [events EXCEPT ![v + 1] = event[c]]
          /\ event[c] \in Event /\ LegalAt(v + 1, event[c])
    BY <1>3, <2>1, PutsNext DEF LogInv
  <2>3. v + 1 \in Versions /\ IsVersion(v + 1)' /\ seal # None
    BY <1>3, <2>1, PutsNext DEF LogInv
  <2>4. event[c].status = "running-production" => event[c].fence \in Fences
    BY <2>2 DEF LogInv, ClaimFences
  <2> QED BY <1>3, <2>1, <2>2, <2>3, <2>4, PutRefines DEF Machine!Next
<1> QED BY <1>1, <1>2, <1>3, Effects DEF LogInv

\* However the clients interleave, fail and stop, what the callers see of the
\* run is the documented state machine: one seal, claims only over lapsed
\* leases, one end by the holder of the current fence or a cancellation.
THEOREM LifecycleIsMachine == Spec => ImplementsRunStateMachine
<1>1. Init => Machine!Init
  <2> SUFFICES ASSUME Init PROVE Machine!Init
    OBVIOUS
  <2>1. IsVersion(0) /\ 0 \in 0 .. MaxVersion
    BY DEF Init, IsVersion, Versions
  <2>2. Version = 0 /\ LastClaim = 0
    BY <2>1, Init_IInv, LogFactsHold DEF LogFacts
  <2> QED BY <2>2 DEF Init, Machine!Init, Latest, NoEvent
<1> QED BY <1>1, StepRefines, LogInvariance, PTL
        DEF Spec, ImplementsRunStateMachine, Machine!Spec
=============================================================================
