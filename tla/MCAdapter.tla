------------------------------- MODULE MCAdapter -------------------------------
(***************************************************************************)
(* Instances of Adapter for TLC.                                           *)
(***************************************************************************)
EXTENDS Adapter, Families

CONSTANTS vllm, diffusers, demucs, f1, f2

\* One model per order of the transform.
ShapeOf ==
  [m \in Model |-> CASE m = vllm -> Vllm
                     [] m = diffusers -> Diffusers
                     [] m = demucs -> Demucs]

\* The pipeline of a diffuser is two files.
FilesOfFamily == [m \in Model |-> IF m = diffusers THEN {f1, f2} ELSE {f1}]
=============================================================================
