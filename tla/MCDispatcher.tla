---------------------------- MODULE MCDispatcher ----------------------------
(***************************************************************************)
(* Instances of Dispatcher, with the prefix check its requests meet, for   *)
(* TLC.                                                                    *)
(***************************************************************************)
EXTENDS PrefixVerification, TLC

\* Client keys are interchangeable except for the ones that may be resubmitted.
KeySymmetry == Permutations(Key \ Resubmittable)

\* So are the replicas.
Symmetry == KeySymmetry \cup Permutations(Replica)
=============================================================================
