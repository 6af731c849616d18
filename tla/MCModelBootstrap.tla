--------------------------- MODULE MCModelBootstrap ---------------------------
(***************************************************************************)
(* Instances of ModelBootstrap for TLC.                                    *)
(***************************************************************************)
EXTENDS ModelBootstrap

CONSTANTS weights, index

\* The snapshot index is put after the files it names; a payload has none.
LayoutOf ==
  [k \in Kind |-> CASE k \in {"mt3", "unmix", "snapshot"} -> <<weights, index>>
                  [] k = "payload" -> <<weights>>
                  [] k = "package" -> <<>>]
=============================================================================
