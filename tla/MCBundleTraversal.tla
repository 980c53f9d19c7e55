--------------------------- MODULE MCBundleTraversal ---------------------------
(***************************************************************************)
(* A diamond: the root lists bundles b1 and b2, both list bundle s, which  *)
(* lists the plain image W.  The ImagesLock of b2 lists the plain image X  *)
(* twice, from repository ext (y) and from src (z), and names s in ext.    *)
(***************************************************************************)
EXTENDS BundleTraversal, TLC

CONSTANTS root, b1, b2, s1, s2, x1, x2, y, z, dst, src, ext

MCTask == {root, b1, b2, s1, s2, x1, x2, y, z}
MCParent == b1 :> root @@ b2 :> root @@ s1 :> b1 @@ s2 :> b2 @@ x1 :> s1 @@ x2 :> s2 @@ y :> b2 @@ z :> b2
MCKids == root :> <<b1, b2>> @@ b1 :> <<s1>> @@ b2 :> <<y, z, s2>> @@ s1 :> <<x1>> @@ s2 :> <<x2>>
            @@ x1 :> <<>> @@ x2 :> <<>> @@ y :> <<>> @@ z :> <<>>
MCBelow == root :> MCTask \ {root} @@ b1 :> {s1, x1} @@ b2 :> {s2, x2, y, z} @@ s1 :> {x1}
            @@ s2 :> {x2} @@ x1 :> {} @@ x2 :> {} @@ y :> {} @@ z :> {}

MCImage == {"R", "B1", "B2", "S", "W", "X"}
MCBundleImage == {"R", "B1", "B2", "S"}
MCDigest == root :> "R" @@ b1 :> "B1" @@ b2 :> "B2" @@ s1 :> "S" @@ s2 :> "S"
              @@ x1 :> "W" @@ x2 :> "W" @@ y :> "X" @@ z :> "X"

MCRepo == {dst, src, ext}
MCOrigin == [t \in MCTask |-> IF t \in {y, s2} THEN ext ELSE src]

\* All but W was copied to dst; src and ext still hold the originals.
MCStored == dst :> MCImage \ {"W"} @@ src :> MCImage @@ ext :> {"X", "S"}

\* The copy of b2 in dst has a locations image: one record per digest, so it
\* names X by the first of its two references only.
MCKnownContent == [l \in MCRepo \X MCImage |->
                      IF l = <<dst, "B2">> THEN {<<ext, "X">>} ELSE {}]
================================================================================
