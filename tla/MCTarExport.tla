---------------------------- MODULE MCTarExport ----------------------------
(***************************************************************************)
(* An image and an index of an index with one image: the two images share  *)
(* a layer, and one of them has a layer that may not be distributed.       *)
(***************************************************************************)
EXTENDS TarExport

CONSTANTS img, idx, sub, arm, l1, l2, l3, n1

MCNode     == {img, idx, sub, arm}
MCMembers  == [n \in {idx, sub} |-> IF n = idx THEN {sub} ELSE {arm}]
MCLayersOf == [n \in {img, arm} |-> IF n = img THEN {l1, l3, n1} ELSE {l1, l2}]
MCOrder    == <<l1, n1, l2, l3>>
================================================================================
