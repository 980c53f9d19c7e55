------------------------------ MODULE MCPullBundle ------------------------------
(***************************************************************************)
(* A diamond: bundle R lists bundles B1 and B2; both list bundle S, and B1 *)
(* lists it once more from repository ext; S lists the plain image W.      *)
(***************************************************************************)
EXTENDS PullBundle, TLC

CONSTANTS dst, src, ext, t

MCList == "R" :> << <<src, "B1">>, <<src, "B2">> >> @@ "B1" :> << <<src, "S">>, <<ext, "S">> >>
            @@ "B2" :> << <<src, "S">> >> @@ "S" :> << <<src, "W">> >>
MCBundle == DOMAIN MCList
MCImage == MCBundle \cup {"W"}
MCClosure == "R" :> MCImage @@ "B1" :> {"B1", "S", "W"} @@ "B2" :> {"B2", "S", "W"}
               @@ "S" :> {"S", "W"} @@ "W" :> {"W"}
MCElsewhere == dst :> {} @@ src :> MCImage @@ ext :> {"S"}
MCLocatedElsewhere == dst :> {} @@ src :> {"S"} @@ ext :> {}

\* A locations image has one record for each digest.
MCMarked == [b \in MCBundle |-> {MCList[b][1], MCList[b][Len(MCList[b])]} \ {<<ext, "S">>}]
================================================================================
