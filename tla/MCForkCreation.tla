--------------------------- MODULE MCForkCreation ---------------------------
(***************************************************************************)
(* Instances of ForkCreation for TLC.                                      *)
(***************************************************************************)
EXTENDS ForkCreation

CONSTANTS n1, n2, n3,         \* nodes
          single, list, none  \* chains: with one URL, with several, unsupported

MCChains == {single, list, none}
MCNetworks ==
  [c \in MCChains |-> CASE c = single -> <<n1>>
                        [] c = list -> <<n1, n2, n3>>
                        [] c = none -> <<>>]

=============================================================================
