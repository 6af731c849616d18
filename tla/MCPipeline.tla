------------------------------ MODULE MCPipeline ------------------------------
(***************************************************************************)
(* Instances of Pipeline for TLC.                                          *)
(***************************************************************************)
EXTENDS Pipeline, TLC

\* Engines are interchangeable, and so are the keys of admitted prompts.
PSymmetry == Permutations(Engine) \cup Permutations(Key \ (Refused \cup Resubmittable))
=============================================================================
