----------------------------- MODULE SetupManifest -----------------------------
(***************************************************************************)
(* The bootstrap manifest of an engine (run_setup_bootstrap in             *)
(* src/python/adapters/common.py): written to a staging file, synced,      *)
(* renamed, and its directory synced, on a host that may lose power.       *)
(***************************************************************************)
EXTENDS Naturals

CONSTANT MaxCrashes  \* bound on power losses

ASSUME SetupAssumption == MaxCrashes \in Nat

VARIABLES
  setup,      \* where the setup run is
  staging,    \* whether the staging file is synced
  manifest,   \* bootstrap.json as the host shows it
  survivors,  \* what a power loss now could leave of it
  crashes     \* power losses so far

setupVars == <<setup, staging, manifest, survivors, crashes>>

SetupInit ==
  /\ setup = "start" /\ staging = "none"
  /\ manifest = "none" /\ survivors = {"none"}
  /\ crashes = 0

\* The staging file is truncated and written.
WriteStaging ==
  /\ setup = "start"
  /\ setup' = "written" /\ staging' = "cached"
  /\ UNCHANGED <<manifest, survivors, crashes>>

\* Slip: the data is not synced before the rename.
SkipSync ==
  /\ setup = "written"
  /\ setup' = "synced"
  /\ UNCHANGED <<staging, manifest, survivors, crashes>>

SyncStaging ==
  /\ setup = "written"
  /\ setup' = "synced" /\ staging' = "durable"
  /\ UNCHANGED <<manifest, survivors, crashes>>

\* Until the directory is synced either name may survive; data that is not
\* synced may survive in part.
ReplaceManifest ==
  /\ setup = "synced"
  /\ setup' = "replaced" /\ staging' = "none"
  /\ manifest' = "whole"
  /\ survivors' = survivors \cup (IF staging = "durable" THEN {"whole"} ELSE {"part", "whole"})
  /\ UNCHANGED crashes

SyncDirectory ==
  /\ setup = "replaced"
  /\ setup' = "ready"
  /\ survivors' = IF "part" \in survivors THEN {"part", "whole"} ELSE {manifest}
  /\ crashes' = 0  \* the bound has done its work
  /\ UNCHANGED <<staging, manifest>>

\* Power is lost while setup runs; it is run again.
PowerLoss ==
  /\ setup # "ready" /\ crashes < MaxCrashes
  /\ manifest' \in survivors
  /\ survivors' = {manifest'}
  /\ setup' = "start" /\ staging' = "none"
  /\ crashes' = crashes + 1

SetupStep ==
  \/ WriteStaging \/ SyncStaging \/ ReplaceManifest \/ SyncDirectory \/ PowerLoss

-----------------------------------------------------------------------------
\* A host that comes back finds the manifest whole or not at all, and once
\* setup has said it is ready, whole.
ManifestIsDurable ==
  /\ manifest # "part"
  /\ setup = "ready" => survivors = {"whole"}
=============================================================================
