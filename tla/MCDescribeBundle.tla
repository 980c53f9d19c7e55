---------------------------- MODULE MCDescribeBundle ----------------------------
(***************************************************************************)
(* The root R lists bundles A and B and image Y; A and B list bundle S,    *)
(* which lists image X.  The walk found S twice.                           *)
(***************************************************************************)
EXTENDS DescribeBundle, TLC

CONSTANTS r, a, b, s

MCList == <<r, a, s, b, s>>
MCSelf == r :> "R" @@ a :> "A" @@ b :> "B" @@ s :> "S"
MCContents == r :> {"A", "B", "Y"} @@ a :> {"S"} @@ b :> {"S"} @@ s :> {"X"}
MCImage == {"R", "A", "B", "S", "X", "Y", "sigR", "sigX", "locS"}
MCSigOf == [i \in MCImage |-> IF i = "R" THEN "sigR" ELSE IF i = "X" THEN "sigX" ELSE None]
MCLocationsOf == [o \in {r, a, b, s} |-> IF o = s THEN "locS" ELSE None]
================================================================================
