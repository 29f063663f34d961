---------------------------- MODULE EvidenceCost ----------------------------
(***************************************************************************)
(* Projections (EvidenceCostCache) and collectors (EvidenceCostCollector) on *)
(* one state root.  A collector needs the canonical request that a           *)
(* projection published; nothing it publishes is read by a projection.       *)
(***************************************************************************)
EXTENDS EvidenceCostCollector

evidenceVars == <<cacheVars, collectorVars>>

EvidenceInit == CacheInit /\ CollectorInit

Fault == faults < MaxFaults /\ faults' = faults + 1

EvidenceNext ==
  \/ CacheNext /\ UNCHANGED collectorVars
  \/ /\ UNCHANGED <<requests, cache, ledgers, caller>>
     /\ \/ \E k \in Collectors :
             \/ Collect(k) /\ UNCHANGED <<head, readable, faults>>
             \/ CollectFails(k) /\ Fault /\ UNCHANGED <<head, readable>>
             \/ Signal(k) /\ UNCHANGED <<head, readable, faults>>
        \/ (HeadMoves \/ RequestSpoils) /\ UNCHANGED faults

EvidenceSpec == EvidenceInit /\ [][EvidenceNext]_evidenceVars
=============================================================================
