----------------------------- MODULE GitHandoff -----------------------------
(***************************************************************************)
(* executeForgejoGitHandoff (forgejo-git-handoff.ts): processes push a       *)
(* commit to main, or create a branch for a pull request, through a remote   *)
(* that they add if it is missing.  Every step is one bounded git process,   *)
(* and nothing is locked in between.                                         *)
(***************************************************************************)
EXTENDS Repository

CONSTANTS
  Handoffs,      \* processes
  Handoff,       \* Handoff[p]: the target ref and the expected head
  Absent,        \* no such remote or ref
  MaxGitFaults   \* bound on the git processes that fail or are killed

ASSUME HandoffAssumption ==
  /\ Handoff \in [Handoffs -> [target : {"main", "pr"}, head : Heads]]
  /\ Absent \notin Heads
  /\ MaxGitFaults \in Nat

VARIABLES
  configured,  \* the URL of the remote "forgejo" before the first handoff
  remote,      \* and now: Absent, "ours" or "other"
  origin,      \* the URL of the remote "origin"
  refs,        \* refs[t]: the remote repository's ref
  handoff,     \* handoff[p]: the progress of process p
  gitFaults    \* how many there were

handoffVars == <<configured, remote, origin, refs, handoff, gitFaults>>

NewHandoff ==
  [step |-> "head-before", added |-> FALSE, origin |-> 0, residue |-> FALSE]

HandoffInit ==
  /\ configured \in {Absent, "ours", "other"} /\ remote = configured
  /\ origin = 1
  /\ refs = [t \in {"main", "pr"} |-> Absent]
  /\ handoff = [p \in Handoffs |-> NewHandoff]
  /\ gitFaults = 0

At(p, step) == handoff[p].step = step
Goto(p, step) == handoff' = [handoff EXCEPT ![p].step = step]
Target(p) == Handoff[p].target
Expected(p) == Handoff[p].head

\* Variant: whoever fails cleans up.
Rollback_Anyway(p) == "rollback"

\* Where a failure leads after the remote is settled: an added one is removed.
Rollback(p) == IF handoff[p].added THEN "rollback" ELSE "failed"

\* git finds what it has to find, or the handoff fails.
Check(p, from, holds, to, else) ==
  At(p, from) /\ Goto(p, IF holds THEN to ELSE else)

Reading == UNCHANGED <<configured, remote, origin, refs, gitFaults>>

-----------------------------------------------------------------------------
HeadBefore(p) ==
  Check(p, "head-before", head = Expected(p), "remote-list", "failed") /\ Reading

\* Is the remote there, and where does origin point?
RemoteList(p) ==
  /\ At(p, "remote-list")
  /\ handoff' = [handoff EXCEPT
       ![p].origin = origin,
       ![p].step = IF remote = Absent THEN "remote-add" ELSE "forgejo-before"]
  /\ Reading

\* A remote that is reused must be the right one.
ForgejoBefore(p) ==
  Check(p, "forgejo-before", remote = "ours", "head-before-push", "failed")
    /\ Reading

RemoteAdd(p) ==
  /\ At(p, "remote-add")
  /\ IF remote = Absent
     THEN /\ remote' = "ours"
          /\ handoff' = [handoff EXCEPT ![p].step = "head-before-push",
                                        ![p].added = TRUE]
     ELSE Goto(p, "failed") /\ UNCHANGED remote
  /\ UNCHANGED <<configured, origin, refs, gitFaults>>

HeadBeforePush(p) ==
  Check(p, "head-before-push", head = Expected(p),
        IF Target(p) = "pr" THEN "target-read-before" ELSE "push", Rollback(p))
    /\ Reading

\* Another handoff may have removed the remote: then git fails.
TargetReadBefore(p) ==
  Check(p, "target-read-before", remote # Absent /\ refs["pr"] = Absent,
        "push", Rollback(p)) /\ Reading

\* Variant: the branch was found to be absent, so that a plain push will do.
Pushable_NoLease(p) ==
  remote # Absent /\ (refs[Target(p)] = Absent \/ refs[Target(p)] <= Expected(p))

\* forgejoPushArgs: an empty lease creates the branch of a pull request; main
\* is pushed without force, to a descendant.  A ref that is there already is up
\* to date for git, before it looks at the lease.
Pushable(p) ==
  /\ remote # Absent
  /\ \/ refs[Target(p)] \in {Absent, Expected(p)}
     \/ Target(p) = "main" /\ refs["main"] <= Expected(p)

Push(p) ==
  /\ Check(p, "push", Pushable(p), "remote-readback", Rollback(p))
  /\ refs' = IF Pushable(p) THEN [refs EXCEPT ![Target(p)] = Expected(p)]
             ELSE refs
  /\ UNCHANGED <<configured, remote, origin, gitFaults>>

RemoteReadback(p) ==
  Check(p, "remote-readback",
        remote # Absent /\ refs[Target(p)] = Expected(p),
        "head-after", Rollback(p)) /\ Reading

HeadAfter(p) ==
  Check(p, "head-after", head = Expected(p), "origin-after", Rollback(p))
    /\ Reading

OriginAfter(p) ==
  Check(p, "origin-after", origin = handoff[p].origin, "passed", Rollback(p))
    /\ Reading

RemoteRemove(p) ==
  /\ At(p, "rollback")
  /\ Goto(p, "failed")
  /\ remote' = Absent
  /\ UNCHANGED <<configured, origin, refs, gitFaults>>

ExecuteHandoff(p) ==
  \/ HeadBefore(p) \/ RemoteList(p) \/ ForgejoBefore(p) \/ RemoteAdd(p)
  \/ HeadBeforePush(p) \/ TargetReadBefore(p) \/ Push(p) \/ RemoteReadback(p)
  \/ HeadAfter(p) \/ OriginAfter(p) \/ RemoteRemove(p)

\* git fails or is killed, before or after it has done its work.  When it was to
\* add or to remove the remote, nothing is tried any more: there is a residue.
GitFails(p) ==
  /\ handoff[p].step \notin {"passed", "failed"}
  /\ gitFaults < MaxGitFaults
  /\ gitFaults' = gitFaults + 1
  /\ LET step == handoff[p].step
         settling == step \in {"head-before", "remote-list", "forgejo-before",
                               "remote-add", "rollback"}
     IN /\ handoff' = [handoff EXCEPT
             ![p].step = IF settling THEN "failed" ELSE Rollback(p),
             ![p].residue = step \in {"remote-add", "rollback"}]
        /\ remote' \in {remote} \cup
             CASE step = "remote-add" /\ remote = Absent -> {"ours"}
               [] step = "rollback" -> {Absent}
               [] OTHER -> {}
        /\ refs' \in {refs} \cup
             IF step = "push" /\ Pushable(p)
             THEN {[refs EXCEPT ![Target(p)] = Expected(p)]} ELSE {}
  /\ UNCHANGED <<configured, origin>>

\* Somebody points origin elsewhere.
OriginMoves ==
  origin = 1 /\ origin' = 2 /\ UNCHANGED <<configured, remote, refs, handoff, gitFaults>>

-----------------------------------------------------------------------------
(* Properties. *)

\* What a receipt says was handed off stays so, although other handoffs to the
\* same ref run at the same time and retry: the branch of a pull request is the
\* expected head, "create-only" (openwiki/terminal-operator/
\* production-profiles-and-handoff.md:80), and main has it in its history.
PassedHandoffHolds ==
  \A p \in Handoffs : At(p, "passed") =>
    /\ refs[Target(p)] # Absent
    /\ Target(p) = "pr" => refs["pr"] = Expected(p)
    /\ Target(p) = "main" => refs["main"] >= Expected(p)

\* A remote that was there is still the same, and one that was not is there only
\* for a handoff that added it and has not failed, unless git failed to add or to
\* remove it: a failed handoff takes back what it added and nothing else.
RemoteRestored ==
  \/ remote = configured
  \/ /\ configured = Absent /\ remote = "ours"
     /\ \E p \in Handoffs : handoff[p].added /\ ~At(p, "failed")
  \/ \E p \in Handoffs : handoff[p].residue
=============================================================================
