------------------------------ MODULE TrustedRepo ------------------------------
(***************************************************************************)
(* What every reader of a destination repository relies on, whoever copies *)
(* into it: a locations image is a promise that the bundle and all images  *)
(* of its ImagesLock are in the repository (UpdateRelativeToRepo and       *)
(* findCachedImageRef look no further once they find one), and a tag of a  *)
(* user names something that is there with all it refers to.               *)
(***************************************************************************)
CONSTANTS Image,     \* digests
          Bundle,    \* the digests that are bundles
          Contents,  \* Contents[b]: the digests in the ImagesLock of bundle b
          Closure,   \* Closure[d]: d and all it refers to, at any depth
          UserTag,   \* the tags users give
          None

VARIABLES manifests, \* the digests the repository stores
          locations, \* the bundles with a locations image
          published  \* published[t]: the digest tag t names, or None

vars == <<manifests, locations, published>>

Init == /\ manifests = {} /\ locations = {}
        /\ published = [t \in UserTag |-> None]

StoreImage(d) == /\ manifests' = manifests \cup {d}
                 /\ UNCHANGED <<locations, published>>

NoteBundle(b) == /\ {b} \cup Contents[b] \subseteq manifests
                 /\ locations' = locations \cup {b}
                 /\ UNCHANGED <<manifests, published>>

Publish(t, d) == /\ Closure[d] \subseteq manifests
                 /\ Closure[d] \cap Bundle \subseteq locations
                 /\ published' = [published EXCEPT ![t] = d]
                 /\ UNCHANGED <<manifests, locations>>

Next == \/ \E d \in Image : StoreImage(d)
        \/ \E b \in Bundle : NoteBundle(b)
        \/ \E t \in UserTag, d \in Image : Publish(t, d)

Spec == Init /\ [][Next]_vars
================================================================================
