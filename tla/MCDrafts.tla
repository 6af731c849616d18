------------------------------- MODULE MCDrafts -------------------------------
(***************************************************************************)
(* Instances of Drafts for TLC.                                            *)
(***************************************************************************)
EXTENDS Drafts, TLC

DraftSymmetry == Permutations(Context) \cup Permutations(Text) \cup Permutations(Session)
=============================================================================
