----------------------------- MODULE CacheContract -----------------------------
(***************************************************************************)
(* What an adapter is promised by its model cache (the contract of         *)
(* get_model_path in src/python/adapters/model_cache.py): the directory it *)
(* is handed holds every file of the model and keeps them while it is      *)
(* used.  The promise can lapse for a model whose directory was left half  *)
(* written or half removed; this module says how far that may reach.       *)
(***************************************************************************)
CONSTANTS Model, NoModel

VARIABLES
  present,   \* models with a complete and marked directory
  lapsed,    \* models the promise does not cover now
  serving    \* the model whose directory is in use

cvars == <<present, lapsed, serving>>

CInit == present = {} /\ lapsed = {} /\ serving = NoModel

Fill(m) ==
  /\ serving = NoModel /\ m \notin present
  /\ present' = present \cup {m}
  /\ lapsed' \in {lapsed, lapsed \ {m}}
  /\ UNCHANGED serving

Drop(m) ==
  /\ serving = NoModel /\ m \in present
  /\ present' = present \ {m}
  /\ UNCHANGED <<lapsed, serving>>

Lapse(m) ==
  /\ serving = NoModel
  /\ lapsed' = lapsed \cup {m}
  /\ UNCHANGED <<present, serving>>

\* The promise covers the model again: its directory is made anew.
Mend(m) ==
  /\ serving = NoModel
  /\ lapsed' = lapsed \ {m}
  /\ UNCHANGED <<present, serving>>

Serve(m) ==
  /\ serving = NoModel /\ m \in present \cup lapsed
  /\ serving' = m
  /\ lapsed' \in {lapsed, IF m \in present THEN lapsed \ {m} ELSE lapsed}
  /\ UNCHANGED present

Release ==
  /\ serving # NoModel
  /\ serving' = NoModel
  /\ UNCHANGED <<present, lapsed>>

CNext ==
  \/ \E m \in Model : Fill(m) \/ Drop(m) \/ Lapse(m) \/ Mend(m) \/ Serve(m)
  \/ Release

CSpec == CInit /\ [][CNext]_cvars
=============================================================================
