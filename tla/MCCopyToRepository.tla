--------------------------- MODULE MCCopyToRepository ---------------------------
(***************************************************************************)
(* Run fromRepo copies bundle R with tag latest: R lists bundle B, and B lists    *)
(* image X. Run fromTar copies bundle B from a tar under the same tag.           *)
(***************************************************************************)
EXTENDS CopyToRepository, TLC

CONSTANTS fromRepo, fromTar

MCItem == {"r", "b", "x", "b2", "x2"}
MCItems == fromRepo :> {"r", "b", "x"} @@ fromTar :> {"b2", "x2"}
MCImage == {"R", "B", "X"}
MCDigest == "r" :> "R" @@ "b" :> "B" @@ "x" :> "X" @@ "b2" :> "B" @@ "x2" :> "X"
MCBundle == {"R", "B"}
MCContents == "R" :> {"B"} @@ "B" :> {"X"}
MCClosure == "R" :> {"R", "B", "X"} @@ "B" :> {"B", "X"} @@ "X" :> {"X"}
MCOrder == fromRepo :> <<"R", "B">> @@ fromTar :> <<"B">>
MCUserTag == {"latest"}
MCTag == MCUserTag \cup MCImage
MCWantTag == [i \in MCItem |-> IF i \in {"r", "b2"} THEN "latest" ELSE None]
================================================================================
