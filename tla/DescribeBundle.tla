----------------------------- MODULE DescribeBundle -----------------------------
(***************************************************************************)
(* imgpkg describe, after the walk that BundleTraversal models:            *)
(*   Bundle.FetchAllImagesRefs       pkg/imgpkg/bundle/fetch_images.go     *)
(*   Signatures.FetchForImageRefs    pkg/imgpkg/signature/fetch_signatures.go *)
(*   describeBundleRec               pkg/imgpkg/v1/describe.go             *)
(* The list of bundles that the walk returns names a *Bundle object once   *)
(* for each path that leads to it, and the object keeps in one             *)
(* imageRefCache what every pass over it finds.                            *)
(***************************************************************************)
EXTENDS Naturals, Sequences, FiniteSets

CONSTANTS Object,       \* the *Bundle objects
          Image,        \* digests
          Self,         \* Self[o]: the digest of bundle o
          List,         \* what AllImagesLockRefs returned
          Contents,     \* Contents[o]: the digests in the ImagesLock of o
          SigOf,        \* SigOf[i]: the signature of image i, or None
          Hideable,     \* the images whose signature the registry may refuse to show
          LocationsOf,  \* LocationsOf[o]: the locations image of o, or None
          Concurrency,  \* --concurrency
          MaxFaults,    \* bound on registry calls that fail for another reason
          None

Listed == {List[n] : n \in DOMAIN List}
Bundles == {Self[o] : o \in Object}

ASSUME ListAssumption ==
    /\ List \in Seq(Object) /\ Listed = Object /\ List # <<>>
    /\ Self \in [Object -> Image]
    /\ \A o, q \in Object : Self[o] = Self[q] => o = q
    /\ Contents \in [Object -> SUBSET Image] /\ IsFiniteSet(Image)

\* A signature and a locations image are in no ImagesLock, are no bundles and differ.
ASSUME RegistryAssumption ==
    /\ None \notin Image
    /\ SigOf \in [Image -> Image \cup {None}] /\ LocationsOf \in [Object -> Image \cup {None}]
    /\ \A o \in Object, i \in Image : {SigOf[i], LocationsOf[o]} \cap (Bundles \cup UNION {Contents[q] : q \in Object}) = {}
    /\ \A o \in Object, i \in Image : SigOf[i] = LocationsOf[o] => SigOf[i] = None
    /\ Hideable \subseteq Image
    /\ Concurrency \in Nat \ {0} /\ MaxFaults \in Nat

VARIABLES hidden,   \* the images for which it answers 403
          pc,       \* where FetchAllImagesRefs or its caller is
          pos,      \* position in List
          typ,      \* typ[o][i]: the entry of image i in the imageRefCache of o
          denied,   \* denied[o]: the images for which that cache holds an error entry
          waiting,  \* goroutines of FetchForImageRefs before Throttle.Take
          asking,   \* those that look up a signature
          tokens,
          found,    \* the signatures they found
          refused,  \* the images whose signature was refused
          broken,   \* whether the errgroup has another error
          faults

cacheVars == <<typ, denied>>
fetchVars == <<waiting, asking, tokens, found, refused, broken>>
vars      == <<hidden, pc, pos, cacheVars, fetchVars, faults>>

Kind == {"absent", "bundle", "content", "signature", "internal"}

Init ==
    /\ hidden \in SUBSET Hideable
    /\ pc = "next" /\ pos = 1
    /\ typ = [o \in Object |-> [i \in Image |->
                 IF i \notin Contents[o] THEN "absent" ELSE IF i \in Bundles THEN "bundle" ELSE "content"]]
    /\ denied = [o \in Object |-> {}]
    /\ waiting = {} /\ asking = {} /\ tokens = Concurrency
    /\ found = {} /\ refused = {} /\ broken = FALSE
    /\ faults = 0

Current   == List[pos]
Cached(o) == {i \in Image : typ[o][i] # "absent"}
Fault     == faults < MaxFaults /\ faults' = faults + 1
--------------------------------------------------------------------------------
\* cachedImageRefs.All() of the next bundle, then a goroutine and a new throttle for
\* the bundle and each image of it.
Open ==
    /\ pc = "next" /\ pos <= Len(List) /\ denied[Current] = {}
    /\ waiting' = {Self[Current]} \cup Cached(Current)
    /\ tokens' = Concurrency
    /\ found' = {} /\ refused' = {} /\ broken' = FALSE
    /\ pc' = "fetch"
    /\ UNCHANGED <<hidden, pos, cacheVars, asking, faults>>

\* All() panics on an entry with an error.
OpenPanics ==
    /\ pc = "next" /\ pos <= Len(List) /\ denied[Current] # {}
    /\ pc' = "panic"
    /\ UNCHANGED <<hidden, pos, cacheVars, fetchVars, faults>>

Take(i) ==
    /\ i \in waiting /\ tokens > 0
    /\ waiting' = waiting \ {i} /\ asking' = asking \cup {i}
    /\ tokens' = tokens - 1
    /\ UNCHANGED <<hidden, pc, pos, cacheVars, found, refused, broken, faults>>

\* Mutants: the deferred Throttle.Done is missing; it is made twice.
LeaveTwice(i) == asking' = asking \ {i} /\ tokens' = tokens + 2
LeaveHolding(i) == asking' = asking \ {i} /\ UNCHANGED tokens
Leave(i) == asking' = asking \ {i} /\ tokens' = tokens + 1

Answer(i) ==
    /\ i \in asking
    /\ Leave(i)
    /\ IF i \in hidden
       THEN refused' = refused \cup {i} /\ UNCHANGED found
       ELSE found' = found \cup ({SigOf[i]} \ {None}) /\ UNCHANGED refused
    /\ UNCHANGED <<hidden, pc, pos, cacheVars, waiting, broken, faults>>

LookupFails(i) ==
    /\ i \in asking /\ Fault
    /\ Leave(i)
    /\ broken' = TRUE
    /\ UNCHANGED <<hidden, pc, pos, cacheVars, waiting, found, refused>>

\* Mutant: errgroup.Wait is missing.
WaitForNone == TRUE
Waited == waiting \cup asking = {}

StoreErrors == denied' = [denied EXCEPT ![Current] = @ \cup refused]

\* Mutant: NewImageRefWithType is given the wrong type.
SignatureAsBundle == "bundle"
SignatureKind == "signature"

\* errgroup.Wait, then the entries for what was refused and what was found.
Close ==
    /\ pc = "fetch" /\ Waited /\ ~broken
    /\ StoreErrors
    /\ typ' = [typ EXCEPT ![Current] =
                 [i \in Image |-> IF i \in found THEN SignatureKind ELSE typ[Current][i]]]
    /\ pc' = "locations"
    /\ UNCHANGED <<hidden, pos, fetchVars, faults>>

CloseFails ==
    /\ pc = "fetch" /\ Waited /\ broken
    /\ pc' = "failed"
    /\ UNCHANGED <<hidden, pos, cacheVars, fetchVars, faults>>

\* LocationsImageDigest; a bundle without a locations image is skipped.
Locations ==
    /\ pc = "locations"
    /\ typ' = IF LocationsOf[Current] = None THEN typ
              ELSE [typ EXCEPT ![Current][LocationsOf[Current]] = "internal"]
    /\ pos' = pos + 1
    /\ pc' = "next"
    /\ UNCHANGED <<hidden, denied, fetchVars, faults>>

LocationsFails ==
    /\ pc = "locations" /\ Fault
    /\ pc' = "failed"
    /\ UNCHANGED <<hidden, pos, cacheVars, fetchVars>>

\* describeBundleRec: it looks for each image typed as a bundle in the list.
Describable ==
    \A o \in Listed, i \in Image : typ[o][i] = "bundle" => \E q \in Listed : Self[q] = i

Describe ==
    /\ pc = "next" /\ pos > Len(List)
    /\ pc' = IF Describable THEN "ok" ELSE "failed"
    /\ UNCHANGED <<hidden, pos, cacheVars, fetchVars, faults>>
--------------------------------------------------------------------------------
Ends == {"ok", "failed", "panic"}

Lookup == \E i \in Image : Take(i) \/ Answer(i) \/ LookupFails(i)

Main == Open \/ OpenPanics \/ Close \/ CloseFails \/ Locations \/ LocationsFails \/ Describe

Terminated == pc \in Ends /\ UNCHANGED vars

Next == Main \/ Lookup \/ Terminated

Spec == Init /\ [][Next]_vars

\* The Go scheduler runs the goroutines that can run.
FairSpec == Spec /\ WF_vars(Main) /\ \A i \in Image :
                WF_vars(Take(i)) /\ WF_vars(Answer(i) \/ LookupFails(i))
--------------------------------------------------------------------------------
\* Each variable has its type.
TypeOK ==
    /\ hidden \subseteq Image
    /\ pc \in {"next", "fetch", "locations"} \cup Ends
    /\ pos \in 1..Len(List) + 1 /\ (pc \in {"fetch", "locations", "panic"} => pos <= Len(List))
    /\ typ \in [Object -> [Image -> Kind]] /\ denied \in [Object -> SUBSET Image]
    /\ waiting \subseteq Image /\ asking \subseteq Image /\ tokens \in 0..Concurrency
    /\ found \subseteq Image /\ refused \subseteq Image /\ broken \in BOOLEAN
    /\ faults \in 0..MaxFaults

(* Safety *)

\* imageRefCache.All says of itself that it panics on an entry with an error and that
\* its caller "Should call AllImagesWithErrors instead": FetchAllImagesRefs never
\* gets there.  The code breaks this property.
NeverPanics == pc # "panic"

\* describe panics only on a bundle that it went over before, by another path, when
\* the signature of one of its images was refused.
PanicMeansShared ==
    pc = "panic" => \E n \in 1..(pos - 1) : List[n] = Current /\ denied[Current] # {}

\* Whatever order the lookups end in, and however often a bundle is gone over, its
\* description holds its images, their signatures and its locations image, each of
\* its kind, and an error for each image whose signature is hidden.  (A second pass
\* adds the signatures of signatures, of which there are none here.)
DescriptionComplete ==
    pc = "ok" => \A o \in Object :
        LET images == {Self[o]} \cup Contents[o]
            signed == {SigOf[i] : i \in images \ hidden} \ {None}
        IN  /\ denied[o] = images \cap hidden
            /\ {i \in Image : typ[o][i] \in {"bundle", "content"}} = Contents[o]
            /\ {i \in Image : typ[o][i] = "bundle"} = Contents[o] \cap Bundles
            /\ {i \in Image : typ[o][i] = "signature"} = signed
            /\ {i \in Image : typ[o][i] = "internal"} = {LocationsOf[o]} \ {None}

\* describe fails only because a call did, never on "could not be found in list of
\* bundles".
FailureHasACause == pc = "failed" => faults > 0

(* Liveness *)

\* describe ends, one way or another.
DescribeEnds == <>(pc \in Ends)

================================================================================
