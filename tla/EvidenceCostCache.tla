-------------------------- MODULE EvidenceCostCache --------------------------
(***************************************************************************)
(* evidence-cost-cache.ts: callers project request files on one state root.  *)
(* A projection publishes the canonical form of its request, then looks up   *)
(* or creates the cache entry of every use of a stage, in the canonical      *)
(* order, and at last publishes a ledger under the request's id.  Nothing is *)
(* ever removed or replaced, no lock is held from one file to the next, and  *)
(* a publication that fails is judged by what is on the disk.                *)
(***************************************************************************)
EXTENDS Naturals, Sequences, FiniteSets, SequencesExt

CONSTANTS
  Callers,      \* processes
  RequestFiles, \* request files: their lists are in the order of the file
  CostOf,       \* CostOf[o]: the wall time of the readable observation o
  MaxFaults,    \* bound on the failing publications and dying processes
  Absent        \* no such file

ASSUME MaxFaultsAssumption == MaxFaults \in Nat

\* A request file has the fields of its schema, with lists where it has lists.
IsList(list) == list \in Seq(Range(list))

ASSUME RequestFilesAssumption ==
  \A file \in RequestFiles :
    /\ file = [request_id |-> file.request_id, plan |-> file.plan,
               source_inputs |-> file.source_inputs,
               combinations |-> file.combinations]
    /\ IsList(file.combinations)
    /\ \A c \in Range(file.combinations) :
         /\ c = [combination_id |-> c.combination_id, stages |-> c.stages]
         /\ IsList(c.stages)

VARIABLES
  requests,   \* requests/<sha256>.json: canonical requests
  cache,      \* cache/<key>.json
  ledgers,    \* ledgers/<request_id>.json
  caller,     \* caller[c]: the progress of process c
  faults      \* how many there were

cacheVars == <<requests, cache, ledgers, caller, faults>>

-----------------------------------------------------------------------------
(* parseEvidenceCostCacheRequest.  Ids are numbers, whose order stands for   *)
(* that of the names; the types of the other fields are left out.            *)

\* The ids that the members of a list have are all different.
Distinct(list, ids) == Cardinality(ids) = Len(list)

UsedSources(file) ==
  UNION {UNION {s.source_input_ids : s \in Range(c.stages)} :
           c \in Range(file.combinations)}

Accepted(file) ==
  LET sourceIds == {s.input_id : s \in Range(file.source_inputs)}
  IN /\ file.source_inputs # <<>> /\ file.combinations # <<>>
     /\ Distinct(file.source_inputs, sourceIds)
     /\ Distinct(file.combinations,
                 {c.combination_id : c \in Range(file.combinations)})
     /\ \A c \in Range(file.combinations) :
          /\ c.stages # <<>>
          /\ Distinct(c.stages, {s.stage_id : s \in Range(c.stages)})
     /\ UsedSources(file) = sourceIds

\* The lists are sorted by their ids, which are unique: sets.
Canonical(file) ==
  [file EXCEPT
     !.source_inputs = Range(@),
     !.combinations = {[c EXCEPT !.stages = Range(@)] : c \in Range(@)}]

UsesOf(combination) ==
  {[in |-> combination.combination_id, stage |-> s] : s \in combination.stages}

\* The uses of stages of a request, in the order of the canonical lists: a use
\* is in the place that is left by those before it.
Uses(r) ==
  LET uses == UNION {UsesOf(c) : c \in r.combinations}
      Before(u, v) ==
        \/ u.in < v.in
        \/ u.in = v.in /\ u.stage.stage_id < v.stage.stage_id
  IN [n \in 1 .. Cardinality(uses) |->
        CHOOSE u \in uses : Cardinality({v \in uses : Before(v, u)}) = n - 1]

-----------------------------------------------------------------------------
\* Variant: the sources are bound by their ids.
CacheIdentity_SourceIds(r, s) ==
  [stage |-> s, cost |-> CostOf[s.cost_observation], plan |-> r.plan,
   source_inputs |-> s.source_input_ids]

\* cacheIdentity, of which the key is the hash: the whole stage, with the cost
\* read from its observation, the plan, and the sources that the stage uses.
CacheIdentity(r, s) ==
  [stage |-> s, cost |-> CostOf[s.cost_observation], plan |-> r.plan,
   source_inputs |->
     {i \in r.source_inputs : i.input_id \in s.source_input_ids}]

\* materializeStage, and the evidence is a passing receipt.
Materializable(s) == s.cost_observation \in DOMAIN CostOf

\* The file of an entry is named by its identity alone.
EntryOf(identity, r) ==
  [identity |-> identity, created_by |-> r]

Cached(identity) == \E e \in cache : e.identity = identity
Entry(identity) == CHOOSE e \in cache : e.identity = identity

Idle == [step |-> "idle", request |-> Absent, statuses |-> <<>>,
         reply |-> "none"]

CacheInit ==
  /\ requests = {} /\ cache = {}
  /\ ledgers = [f \in {file.request_id : file \in RequestFiles} |-> Absent]
  /\ caller = [c \in Callers |-> Idle]
  /\ faults = 0

\* The use that caller c has come to, and the identities it has passed.
At(c) == Uses(caller[c].request)[Len(caller[c].statuses) + 1].stage
IdentityAt(c) == CacheIdentity(caller[c].request, At(c))
Passed(c) ==
  LET r == caller[c].request
  IN {CacheIdentity(r, Uses(r)[i].stage) : i \in DOMAIN caller[c].statuses}

Answer(c, reply) ==
  caller' = [caller EXCEPT ![c].step = "done", ![c].reply = reply]

Refuse(c) == Answer(c, "error") /\ UNCHANGED <<requests, cache, ledgers>>

\* The use is counted; after the last one comes the ledger.
Count(c, status) ==
  LET n == Len(caller[c].statuses) + 1
  IN caller' = [caller EXCEPT
       ![c].statuses = Append(@, status),
       ![c].step = IF n = Len(Uses(caller[c].request)) THEN "ledger"
                   ELSE "look"]

\* By whom the entry on the disk was made, not by whether it was there.
StatusOf(c, entry) ==
  IF entry.created_by = caller[c].request THEN "miss" ELSE "persistent-hit"

-----------------------------------------------------------------------------
\* The file is parsed, plan and sources are there, and the canonical request
\* is published under its hash.
Open(c) ==
  \E file \in RequestFiles :
    /\ caller[c].step = "idle"
    /\ IF ~Accepted(file)
       THEN Refuse(c)
       ELSE /\ requests' = requests \cup {Canonical(file)}
            /\ caller' = [caller EXCEPT ![c].step = "look",
                                        ![c].request = Canonical(file)]
            /\ UNCHANGED <<cache, ledgers>>

\* Variant: what is there already is a hit.
Look_ByPresence(c) ==
  /\ caller[c].step = "look"
  /\ IF ~Materializable(At(c))
     THEN Refuse(c)
     ELSE /\ IF ~Cached(IdentityAt(c))
             THEN caller' = [caller EXCEPT ![c].step = "put"]
             ELSE Count(c, IF IdentityAt(c) \in Passed(c)
                           THEN "cross-combination-hit" ELSE "persistent-hit")
          /\ UNCHANGED <<requests, cache, ledgers>>

\* The stage is materialized and its entry read.
Look(c) ==
  /\ caller[c].step = "look"
  /\ IF ~Materializable(At(c))
     THEN Refuse(c)
     ELSE /\ CASE IdentityAt(c) \in Passed(c) ->
                    Count(c, "cross-combination-hit")
               [] IdentityAt(c) \notin Passed(c) /\ Cached(IdentityAt(c)) ->
                    Count(c, StatusOf(c, Entry(IdentityAt(c))))
               [] OTHER -> caller' = [caller EXCEPT ![c].step = "put"]
          /\ UNCHANGED <<requests, cache, ledgers>>

\* Variant: what this process meant to write is what is there.
Put_Unread(c) ==
  /\ caller[c].step = "put"
  /\ IF ~Cached(IdentityAt(c))
     THEN cache' = cache \cup {EntryOf(IdentityAt(c), caller[c].request)}
     ELSE UNCHANGED cache
  /\ Count(c, "miss")
  /\ UNCHANGED <<requests, ledgers>>

\* publishAndReopen, the status by what was reopened: another request may have
\* made the entry since it was looked for.
Put(c) ==
  LET identity == IdentityAt(c)
      mine == EntryOf(identity, caller[c].request)
  IN /\ caller[c].step = "put"
     /\ IF Cached(identity)
        THEN UNCHANGED cache /\ Count(c, StatusOf(c, Entry(identity)))
        ELSE cache' = cache \cup {mine} /\ Count(c, StatusOf(c, mine))
     /\ UNCHANGED <<requests, ledgers>>

\* The cost of the stages used, and of the entries behind them.
Observed(r) ==
  FoldSeq(LAMBDA u, total : CostOf[u.stage.cost_observation] + total, 0, Uses(r))
Unique(r) ==
  FoldSet(LAMBDA i, total : i.cost + total, 0,
          {CacheIdentity(r, Uses(r)[n].stage) : n \in DOMAIN Uses(r)})

LedgerOf(c) ==
  LET r == caller[c].request
  IN [request |-> r, statuses |-> caller[c].statuses,
      avoided_wall_ms |-> Observed(r) - Unique(r)]

\* The ledger is published and reopened: it is there, or another one is.
PutLedger(c) ==
  LET id == caller[c].request.request_id
  IN /\ caller[c].step = "ledger"
     /\ IF ledgers[id] \in {Absent, LedgerOf(c)}
        THEN /\ ledgers' = [ledgers EXCEPT ![id] = LedgerOf(c)]
             /\ Answer(c, "projected")
        ELSE Answer(c, "conflict") /\ UNCHANGED ledgers
     /\ UNCHANGED <<requests, cache>>

Project(c) == Open(c) \/ Look(c) \/ Put(c) \/ PutLedger(c)

\* A publication fails and what it was to write is not there, or the process
\* dies.  A publication that fails with effect is a success here.
ProjectFails(c) == caller[c].step \notin {"idle", "done"} /\ Refuse(c)

CacheNext ==
  \E c \in Callers :
    \/ Project(c) /\ UNCHANGED faults
    \/ ProjectFails(c) /\ faults < MaxFaults /\ faults' = faults + 1

CacheSpec == CacheInit /\ [][CacheNext]_cacheVars

-----------------------------------------------------------------------------
(* Properties. *)

\* Keys separate what they must: an entry that a projection reuses is for the
\* same stage and the same plan, and its sources are the same ones with the same
\* content, in the request that made it and in the one that reuses it.  And the
\* request that made it can be reopened, also if its projection went no further.
ReuseIsSound ==
  \A c \in Callers : \A n \in DOMAIN caller[c].statuses :
    LET r == caller[c].request
        s == Uses(r)[n].stage
        Trace(q) == {i \in q.source_inputs : i.input_id \in s.source_input_ids}
        maker == Entry(CacheIdentity(r, s)).created_by
    IN /\ \E u \in Range(Uses(maker)) : u.stage = s
       /\ maker.plan = r.plan /\ Trace(maker) = Trace(r)
       /\ maker \in requests

\* A ledger says which entries on the disk are the work of its request, each of
\* them once, also when several processes project the request, one after a crash
\* of another, while other requests create some of the same entries.
LedgerMatchesStore ==
  \A id \in DOMAIN ledgers : ledgers[id] # Absent =>
    LET r == ledgers[id].request
        Of(status) == {n \in DOMAIN Uses(r) : ledgers[id].statuses[n] = status}
        Made(n) == CacheIdentity(r, Uses(r)[n].stage)
    IN /\ Len(ledgers[id].statuses) = Len(Uses(r))
       /\ Cardinality(Of("miss")) = Cardinality({Made(n) : n \in Of("miss")})
       /\ {Made(n) : n \in Of("miss")}
            = {e.identity : e \in {f \in cache : f.created_by = r}}

\* The ledger of a request is the same whoever computes it, from whichever
\* order of the lists, whenever and after which crashes: a projection finds a
\* ledger that is not its own only where another request has the id.
LedgerIsDetermined ==
  \A c \in Callers :
    caller[c].reply = "conflict" =>
      ledgers[caller[c].request.request_id].request # caller[c].request

\* "Note what is not in the identity: the request id, the observation, the
\* toolchain, and the cost values" (openwiki/terminal-operator/
\* evidence-cost.md:62-63): the same work over the same inputs has one entry.
OneEntryPerWork ==
  LET Work(e) == [e.identity EXCEPT !.cost = 0,
                                    !.stage.cost_observation = Absent]
  IN \A d, e \in cache : Work(d) = Work(e) => d = e
=============================================================================
