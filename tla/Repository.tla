----------------------------- MODULE Repository -----------------------------
(***************************************************************************)
(* The workspace's Git repository as the delivery programs see it.  They     *)
(* read HEAD and never move it; everybody else may, at any time, any number  *)
(* of times and back again.  Commits are numbers: each descends from the     *)
(* smaller ones.                                                             *)
(***************************************************************************)
EXTENDS Naturals

CONSTANTS
  Heads,         \* commits that HEAD can be at
  ExpectedHead   \* the commit that a terminal packet was made for

ASSUME HeadsAssumption == Heads \subseteq Nat /\ ExpectedHead \in Heads

VARIABLE head

HeadMoves == \E h \in Heads \ {head} : head' = h
=============================================================================
