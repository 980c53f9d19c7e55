-------------------------- MODULE DescribeBundleProofs --------------------------
(***************************************************************************)
(* Safety of describe for every list of bundles and every registry.  An    *)
(* error entry lies behind the cursor of the loop over the list (Behind),  *)
(* so a panic needs a bundle that the list names twice.  What is behind it *)
(* is also complete (Gone), which makes the description complete.          *)
(***************************************************************************)
EXTENDS DescribeBundle, FiniteSetTheorems, TLAPS

\* The tokens are in the channel or with goroutines that look up a signature, and
\* the loop goes on only when these have ended.
ThrottleKept ==
    /\ IsFiniteSet(asking) /\ tokens + Cardinality(asking) = Concurrency
    /\ waiting \cap asking = {}
    /\ pc # "fetch" => asking = {} /\ waiting = {}

\* Only a bundle that the loop has been at has error entries.
Behind ==
    \A o \in Object : denied[o] # {} =>
        \E n \in DOMAIN List : /\ List[n] = o
                               /\ n < pos \/ (n = pos /\ pc \in {"locations", "failed"})

\* What a cache calls a bundle is one, and only a failing call breaks the errgroup.
Causes ==
    /\ \A o \in Object, i \in Image : typ[o][i] = "bundle" => i \in Bundles
    /\ broken => faults > 0

Inv == TypeOK /\ ThrottleKept /\ Behind /\ Causes /\ PanicMeansShared /\ FailureHasACause
--------------------------------------------------------------------------------
\* The loop stands at a bundle of the list until its end.
LEMMA CurrentIsListed ==
    ASSUME TypeOK, pos <= Len(List)
    PROVE  pos \in DOMAIN List /\ Current \in Object
  BY ListAssumption DEF TypeOK, Current

\* The walk leaves what describe starts from in the invariant.
LEMMA InitInv ==
    ASSUME Init
    PROVE  Inv
  <1>1. Len(List) \in Nat /\ Len(List) >= 1
    BY ListAssumption
  <1>2. typ \in [Object -> [Image -> Kind]]
    BY DEF Init, Kind
  <1>3. TypeOK
    <2>1. hidden \subseteq Image /\ pos \in 1..Len(List) + 1 /\ tokens \in 0..Concurrency
      BY <1>1, RegistryAssumption DEF Init
    <2>2. faults \in 0..MaxFaults /\ denied \in [Object -> SUBSET Image]
      BY RegistryAssumption DEF Init
    <2>3. QED
      BY <1>2, <2>1, <2>2 DEF Init, TypeOK, Ends
  <1>4. ThrottleKept
    BY FS_EmptySet, RegistryAssumption DEF Init, ThrottleKept
  <1>5. Behind /\ PanicMeansShared /\ FailureHasACause
    BY DEF Init, Behind, PanicMeansShared, FailureHasACause
  <1>6. Causes
    BY DEF Init, Causes
  <1>7. QED
    BY <1>3, <1>4, <1>5, <1>6 DEF Inv

\* Throttle.Take moves a token to the goroutine of image i.
LEMMA TakeThrottle ==
    ASSUME TypeOK, ThrottleKept, NEW i \in Image, Take(i)
    PROVE  ThrottleKept' /\ tokens' \in 0..Concurrency
  <1>1. tokens \in Nat /\ tokens > 0 /\ Concurrency \in Nat /\ tokens <= Concurrency
    BY RegistryAssumption DEF TypeOK, Take
  <1>2. pc = "fetch" /\ pc' = pc /\ i \notin asking
    BY DEF Take, ThrottleKept
  <1>3. IsFiniteSet(asking') /\ Cardinality(asking') = Cardinality(asking) + 1
    BY <1>2, FS_AddElement DEF Take, ThrottleKept
  <1>4. Cardinality(asking) \in Nat
    BY FS_CardinalityType DEF ThrottleKept
  <1>5. waiting' \cap asking' = {}
    BY DEF Take, ThrottleKept
  <1>6. QED
    BY <1>1, <1>2, <1>3, <1>4, <1>5 DEF ThrottleKept, Take

\* The deferred Done gives back the token of the goroutine of image i.
LEMMA LeaveThrottle ==
    ASSUME TypeOK, ThrottleKept, NEW i \in asking, Leave(i), pc' = pc, waiting' = waiting
    PROVE  ThrottleKept' /\ tokens' \in 0..Concurrency
  <1>1. tokens \in Nat /\ Concurrency \in Nat
    BY RegistryAssumption DEF TypeOK
  <1>2. pc = "fetch"
    BY DEF ThrottleKept
  <1>3. IsFiniteSet(asking') /\ Cardinality(asking') = Cardinality(asking) - 1
    BY FS_RemoveElement DEF Leave, ThrottleKept
  <1>4. Cardinality(asking) \in Nat /\ Cardinality(asking') \in Nat
    BY <1>3, FS_CardinalityType DEF ThrottleKept
  <1>5. waiting' \cap asking' = {}
    BY DEF Leave, ThrottleKept
  <1>6. QED
    BY <1>1, <1>2, <1>3, <1>4, <1>5 DEF ThrottleKept, Leave

\* Every step keeps the tokens and the types.
LEMMA TypeStep ==
    ASSUME Inv, [Next]_vars
    PROVE  TypeOK' /\ ThrottleKept'
  <1> USE DEF Inv
  <1>1. /\ Len(List) \in Nat /\ Concurrency \in Nat \ {0} /\ MaxFaults \in Nat
        /\ None \notin Image /\ SigOf \in [Image -> Image \cup {None}]
        /\ LocationsOf \in [Object -> Image \cup {None}]
    BY ListAssumption, RegistryAssumption
  <1>2. CASE UNCHANGED vars
    BY <1>2 DEF vars, cacheVars, fetchVars, TypeOK, ThrottleKept
  <1>3. CASE Open
    <2>1. Current \in Object /\ Self[Current] \in Image /\ Cached(Current) \subseteq Image
      BY <1>3, CurrentIsListed, ListAssumption DEF Open, Cached
    <2>2. asking = {} /\ asking' = {}
      BY <1>3 DEF Open, ThrottleKept
    <2>3. ThrottleKept'
      BY <1>1, <1>3, <2>2, FS_EmptySet DEF Open, ThrottleKept
    <2>4. waiting' \subseteq Image
      BY <1>3, <2>1 DEF Open
    <2>5. /\ tokens' \in 0..Concurrency /\ found' = {} /\ refused' = {}
          /\ broken' \in BOOLEAN
      <3>1. broken' = FALSE
        BY <1>3, Zenon DEF Open
      <3>2. broken' \in BOOLEAN
        BY <3>1, Zenon
      <3>3. tokens' \in 0..Concurrency /\ found' = {} /\ refused' = {}
        BY <1>1, <1>3 DEF Open
      <3>4. QED
        BY <3>2, <3>3
    <2>6. pc' = "fetch" /\ pos' = pos /\ pos <= Len(List)
      BY <1>3 DEF Open
    <2>7. UNCHANGED <<hidden, typ, denied, faults>>
      BY <1>3 DEF Open, cacheVars
    <2>8. TypeOK'
      BY <2>2, <2>4, <2>5, <2>6, <2>7 DEF TypeOK
    <2>9. QED
      BY <2>3, <2>8
  <1>4. CASE OpenPanics
    BY <1>1, <1>4 DEF OpenPanics, TypeOK, ThrottleKept, cacheVars, fetchVars, Ends
  <1>5. ASSUME NEW i \in Image, Take(i)
        PROVE  TypeOK' /\ ThrottleKept'
    <2>1. ThrottleKept' /\ tokens' \in 0..Concurrency
      BY <1>5, TakeThrottle
    <2>2. QED
      BY <1>5, <2>1 DEF Take, TypeOK, cacheVars
  <1>6. ASSUME NEW i \in Image, Answer(i)
        PROVE  TypeOK' /\ ThrottleKept'
    <2>1. ThrottleKept' /\ tokens' \in 0..Concurrency
      BY <1>6, LeaveThrottle DEF Answer
    <2>2. found' \subseteq Image /\ refused' \subseteq Image
      BY <1>1, <1>6 DEF Answer, TypeOK
    <2>3. QED
      BY <1>6, <2>1, <2>2 DEF Answer, Leave, TypeOK, cacheVars
  <1>7. ASSUME NEW i \in Image, LookupFails(i)
        PROVE  TypeOK' /\ ThrottleKept'
    <2>1. ThrottleKept' /\ tokens' \in 0..Concurrency
      BY <1>7, LeaveThrottle DEF LookupFails
    <2>2. faults' \in 0..MaxFaults
      BY <1>1, <1>7 DEF LookupFails, Fault, TypeOK
    <2>3. QED
      BY <1>7, <2>1, <2>2 DEF LookupFails, Leave, TypeOK, cacheVars
  <1>8. CASE Close
    <2>1. Current \in Object /\ pos <= Len(List)
      BY <1>8, CurrentIsListed DEF Close, TypeOK
    <2>2. [i \in Image |-> IF i \in found THEN SignatureKind ELSE typ[Current][i]] \in [Image -> Kind]
      BY <2>1 DEF TypeOK, Kind, SignatureKind
    <2>3. typ' \in [Object -> [Image -> Kind]]
      BY <1>8, <2>1, <2>2 DEF Close, TypeOK
    <2>4. denied' \in [Object -> SUBSET Image]
      BY <1>8, <2>1 DEF Close, StoreErrors, TypeOK
    <2>5. ThrottleKept'
      BY <1>8 DEF Close, Waited, ThrottleKept, fetchVars
    <2>6. QED
      BY <1>8, <2>1, <2>3, <2>4, <2>5 DEF Close, TypeOK, fetchVars
  <1>9. CASE CloseFails
    <2>1. ThrottleKept'
      BY <1>9 DEF CloseFails, Waited, ThrottleKept, fetchVars
    <2>2. QED
      BY <1>9, <2>1 DEF CloseFails, TypeOK, cacheVars, fetchVars, Ends
  <1>10. CASE Locations
    <2>1. Current \in Object /\ pos <= Len(List)
      BY <1>10, CurrentIsListed DEF Locations, TypeOK
    <2>2. ASSUME LocationsOf[Current] # None
          PROVE  [typ EXCEPT ![Current][LocationsOf[Current]] = "internal"] \in [Object -> [Image -> Kind]]
      <3>1. LocationsOf[Current] \in Image /\ typ[Current] \in [Image -> Kind]
        BY <1>1, <2>1, <2>2 DEF TypeOK
      <3>2. [typ[Current] EXCEPT ![LocationsOf[Current]] = "internal"] \in [Image -> Kind]
        BY <3>1 DEF Kind
      <3>3. QED
        BY <2>1, <3>2 DEF TypeOK
    <2>3. typ' \in [Object -> [Image -> Kind]]
      BY <1>10, <2>2 DEF Locations, TypeOK
    <2>4. pos' \in 1..Len(List) + 1
      BY <1>1, <1>10, <2>1 DEF Locations, TypeOK
    <2>5. ThrottleKept'
      BY <1>10 DEF Locations, ThrottleKept, fetchVars
    <2>6. QED
      BY <1>10, <2>3, <2>4, <2>5 DEF Locations, TypeOK, fetchVars
  <1>11. CASE LocationsFails
    BY <1>1, <1>11 DEF LocationsFails, Fault, TypeOK, ThrottleKept, cacheVars, fetchVars, Ends
  <1>12. CASE Describe
    BY <1>1, <1>12 DEF Describe, TypeOK, ThrottleKept, cacheVars, fetchVars, Ends
  <1>13. QED
    BY <1>2, <1>3, <1>4, <1>5, <1>6, <1>7, <1>8, <1>9, <1>10, <1>11, <1>12
       DEF Next, Main, Lookup, Terminated

\* Every step keeps the error entries behind the loop.
LEMMA BehindStep ==
    ASSUME Inv, [Next]_vars
    PROVE  Behind'
  <1> SUFFICES ASSUME NEW o \in Object, denied'[o] # {}
               PROVE  \E n \in DOMAIN List : /\ List[n] = o
                                             /\ \/ n < pos'
                                                \/ n = pos' /\ pc' \in {"locations", "failed"}
    BY DEF Behind
  <1> USE DEF Inv
  <1>1. pos \in Nat
    BY ListAssumption DEF TypeOK
  <1>2. CASE Close
    <2>1. pos \in DOMAIN List /\ pos' = pos /\ pc' = "locations"
      BY <1>2, CurrentIsListed DEF Close, TypeOK
    <2>2. o = Current \/ denied'[o] = denied[o]
      BY <1>2 DEF Close, StoreErrors, TypeOK
    <2>3. CASE o = Current
      BY <2>1, <2>3 DEF Current
    <2>4. CASE denied'[o] = denied[o]
      BY <1>2, <2>1, <2>4 DEF Behind, Close
    <2>5. QED
      BY <2>2, <2>3, <2>4
  <1>3. CASE Locations
    <2>1. pos' = pos + 1 /\ denied' = denied
      BY <1>3 DEF Locations
    <2>2. PICK n \in DOMAIN List : List[n] = o /\ (n < pos \/ n = pos)
      BY <2>1 DEF Behind
    <2>3. n \in Nat
      BY ListAssumption
    <2>4. QED
      BY <1>1, <2>1, <2>2, <2>3
  <1>4. CASE LocationsFails
    BY <1>4 DEF LocationsFails, Behind, cacheVars
  <1>5. CASE /\ UNCHANGED <<denied, pos>>
             /\ pc' = pc \/ (pc \notin {"locations", "failed"})
    BY <1>5 DEF Behind
  <1>6. QED
    BY <1>2, <1>3, <1>4, <1>5
       DEF Next, Main, Lookup, Terminated, Open, OpenPanics, Take, Answer, LookupFails,
           CloseFails, Describe, vars, cacheVars

\* Every step keeps the kinds, and fails or breaks the errgroup only for a reason.
LEMMA CausesStep ==
    ASSUME Inv, [Next]_vars
    PROVE  Causes' /\ FailureHasACause'
  <1> USE DEF Inv
  <1>1. faults \in Nat /\ (faults' = faults \/ faults' = faults + 1)
    BY RegistryAssumption
       DEF TypeOK, Next, Main, Lookup, Terminated, Open, OpenPanics, Take, Answer, LookupFails,
           Close, CloseFails, Locations, LocationsFails, Describe, Fault, vars
  <1>2. \A o \in Object, i \in Image : typ'[o][i] = "bundle" => typ[o][i] = "bundle"
    <2>1. CASE Close
      BY <2>1 DEF Close, SignatureKind, TypeOK
    <2>2. CASE Locations
      BY <2>2 DEF Locations, TypeOK
    <2>3. CASE UNCHANGED typ
      BY <2>3
    <2>4. QED
      BY <2>1, <2>2, <2>3
         DEF Next, Main, Lookup, Terminated, Open, OpenPanics, Take, Answer, LookupFails,
             CloseFails, LocationsFails, Describe, vars, cacheVars
  <1>3. broken' = broken \/ broken' = FALSE \/ faults' = faults + 1
    BY DEF Next, Main, Lookup, Terminated, Open, OpenPanics, Take, Answer, LookupFails, Fault,
           Close, CloseFails, Locations, LocationsFails, Describe, vars, fetchVars
  <1>4. Causes'
    <2>1. broken' => faults' > 0
      <3>1. CASE broken' = broken
        <4>1. broken => faults > 0
          BY DEF Causes
        <4>2. faults > 0 => faults' > 0
          BY <1>1
        <4>3. QED
          BY <3>1, <4>1, <4>2, Zenon
      <3>2. CASE faults' = faults + 1
        BY <1>1, <3>2
      <3>3. QED
        BY <1>3, <3>1, <3>2, Zenon
    <2>2. QED
      BY <1>2, <2>1, Zenon DEF Causes, Bundles
  <1>5. Describable
    <2>1. ASSUME NEW o \in Object, NEW i \in Image, typ[o][i] = "bundle"
          PROVE  \E q \in Listed : Self[q] = i
      BY <2>1, ListAssumption DEF Causes, Bundles
    <2>2. QED
      BY <2>1, ListAssumption DEF Describable
  <1>6. pc' = "failed" => pc = "failed" \/ broken \/ faults' = faults + 1
    BY <1>5
       DEF Next, Main, Lookup, Terminated, Open, OpenPanics, Take, Answer, LookupFails, Fault,
           Close, CloseFails, Locations, LocationsFails, Describe, vars
  <1>7. FailureHasACause'
    BY <1>1, <1>6 DEF FailureHasACause, Causes
  <1>8. QED
    BY <1>4, <1>7

\* A step that panics has met the error entry of an earlier pass.
LEMMA PanicStep ==
    ASSUME Inv, [Next]_vars
    PROVE  PanicMeansShared'
  <1> USE DEF Inv
  <1>1. CASE OpenPanics
    <2>1. Current \in Object /\ denied[Current] # {} /\ pc = "next"
      BY <1>1, CurrentIsListed DEF OpenPanics
    <2>2. PICK n \in DOMAIN List : List[n] = Current /\ n < pos
      BY <2>1 DEF Behind
    <2>3. n \in 1..(pos - 1)
      BY <2>2, ListAssumption DEF TypeOK
    <2>4. QED
      BY <1>1, <2>1, <2>2, <2>3 DEF OpenPanics, PanicMeansShared, cacheVars, Current
  <1>2. CASE UNCHANGED vars
    BY <1>2 DEF vars, cacheVars, PanicMeansShared, Current
  <1>3. CASE pc' # "panic"
    BY <1>3 DEF PanicMeansShared
  <1>4. QED
    <2>1. pc = "panic" => asking = {} /\ waiting = {}
      BY DEF ThrottleKept
    <2>2. QED
      BY <1>1, <1>2, <1>3, <2>1
         DEF Next, Main, Lookup, Terminated, Open, Take, Answer, LookupFails, Close, CloseFails,
             Locations, LocationsFails, Describe

\* The invariant holds in every state of describe.
LEMMA Invariance == Spec => []Inv
  <1>1. Inv /\ [Next]_vars => Inv'
    <2> SUFFICES ASSUME Inv, [Next]_vars
                 PROVE  Inv'
      OBVIOUS
    <2>1. TypeOK' /\ ThrottleKept'
      BY TypeStep
    <2>2. QED
      BY <2>1, BehindStep, CausesStep, PanicStep DEF Inv
  <1>2. QED
    BY InitInv, <1>1, PTL DEF Spec
--------------------------------------------------------------------------------
\* FetchAllImagesRefs and the lookups keep their types, and the throttle its tokens.
THEOREM TypesCorrect == Spec => []TypeOK
  <1>1. Inv => TypeOK
    BY DEF Inv
  <1>2. QED
    BY <1>1, Invariance, PTL

\* FetchAllImagesRefs panics only on a bundle that it went over before.
THEOREM PanicNeedsSharing == Spec => []PanicMeansShared
  <1>1. Inv => PanicMeansShared
    BY DEF Inv
  <1>2. QED
    BY <1>1, Invariance, PTL

\* describe fails only because a call did: describeBundleRec finds every bundle.
THEOREM FailureNeedsAFault == Spec => []FailureHasACause
  <1>1. Inv => FailureHasACause
    BY DEF Inv
  <1>2. QED
    BY <1>1, Invariance, PTL

\* When no bundle can be reached by two paths, describe never panics, whatever the
\* registry refuses.
THEOREM NoPanicWithoutSharing ==
    ASSUME \A m, n \in DOMAIN List : List[m] = List[n] => m = n
    PROVE  Spec => []NeverPanics
  <1>1. Inv => NeverPanics
    <2> SUFFICES ASSUME Inv, pc = "panic"
                 PROVE  FALSE
      BY DEF NeverPanics
    <2>1. PICK n \in 1..(pos - 1) : List[n] = Current
      BY DEF Inv, PanicMeansShared
    <2>2. pos \in DOMAIN List /\ n \in DOMAIN List /\ n # pos
      BY ListAssumption DEF Inv, TypeOK
    <2>3. QED
      BY <2>1, <2>2 DEF Current
  <1>2. QED
    BY <1>1, Invariance, PTL
--------------------------------------------------------------------------------
(* Descriptions *)

\* What the walk put into the cache of a bundle, with the bundle; the signatures the
\* registry shows of these; and all that describe may add to the cache.
Images(o) == {Self[o]} \cup Contents[o]
Signed(o) == {SigOf[i] : i \in Images(o) \ hidden} \ {None}
Added(o)  == ({SigOf[i] : i \in Images(o)} \cup {LocationsOf[o]}) \ {None}

\* describe goes over each bundle once, or what it adds has no signature, hidden or not.
NothingToAdd ==
    \A o \in Object :
        \/ \A m, n \in DOMAIN List : List[m] = o /\ List[n] = o => m = n
        \/ \A i \in Added(o) : SigOf[i] = None /\ i \notin Hideable

\* No entry is there that does not belong there.
Sorted ==
    /\ hidden \subseteq Hideable
    /\ \A o \in Object :
          /\ denied[o] \subseteq Images(o) \cap hidden
          /\ \A i \in Image :
                /\ typ[o][i] = "bundle" <=> i \in Contents[o] \cap Bundles
                /\ typ[o][i] = "content" <=> i \in Contents[o] \ Bundles
                /\ typ[o][i] = "signature" => i \in Signed(o)
                /\ typ[o][i] = "internal" => i = LocationsOf[o]

\* Before the loop is at a bundle, its cache holds what the walk put there.
Visited(o) == \E n \in DOMAIN List : List[n] = o /\ (n < pos \/ (n = pos /\ pc \in {"locations", "failed"}))
Fresh      == \A o \in Object : ~Visited(o) => Cached(o) \subseteq Contents[o]

\* What has been looked up.
Asked == {Self[Current]} \cup Cached(Current)
Asking ==
    pc = "fetch" =>
        /\ waiting \cup asking \subseteq Asked
        /\ refused \subseteq Asked \cap hidden /\ found \subseteq {SigOf[i] : i \in Asked \ hidden} \ {None}
        /\ ~broken => \A i \in Asked \ (waiting \cup asking) :
                          IF i \in hidden THEN i \in refused ELSE SigOf[i] \in found \cup {None}

\* Behind the loop all entries are there.
Closed(o)  == Images(o) \cap hidden \subseteq denied[o] /\ \A i \in Signed(o) : typ[o][i] = "signature"
Placed(o)  == LocationsOf[o] # None => typ[o][LocationsOf[o]] = "internal"
Gone       == /\ \A n \in DOMAIN List : n < pos => Closed(List[n]) /\ Placed(List[n])
              /\ pc = "locations" => Closed(Current)
              /\ pc = "ok" => pos > Len(List)

Described == Sorted /\ Fresh /\ Asking /\ Gone

\* Signatures and locations images are apart from all that the walk finds.
LEMMA AddedApart ==
    ASSUME NEW o \in Object, NEW i \in Image
    PROVE  /\ SigOf[i] # None => /\ SigOf[i] \in Image /\ SigOf[i] \notin Bundles
                                 /\ SigOf[i] \notin Contents[o] /\ SigOf[i] # LocationsOf[o]
           /\ LocationsOf[o] # None => /\ LocationsOf[o] \in Image /\ LocationsOf[o] \notin Bundles
                                       /\ LocationsOf[o] \notin Contents[o]
  <1>1. SigOf[i] \in Image \cup {None} /\ LocationsOf[o] \in Image \cup {None}
    BY RegistryAssumption
  <1>2. {SigOf[i], LocationsOf[o]} \cap (Bundles \cup UNION {Contents[q] : q \in Object}) = {}
    BY RegistryAssumption
  <1>3. SigOf[i] \notin Bundles /\ LocationsOf[o] \notin Bundles
    BY <1>2
  <1>4. \A d \in Contents[o] : d \in UNION {Contents[q] : q \in Object}
    OBVIOUS
  <1>5. SigOf[i] \notin Contents[o] /\ LocationsOf[o] \notin Contents[o]
    BY <1>2, <1>4
  <1>6. SigOf[i] = LocationsOf[o] => SigOf[i] = None
    BY RegistryAssumption
  <1>7. QED
    BY <1>1, <1>3, <1>5, <1>6

\* What a bundle is described by.
LEMMA ImagesTyped ==
    ASSUME NEW o \in Object
    PROVE  Images(o) \subseteq Image /\ Contents[o] \subseteq Image /\ Self[o] \in Bundles
  BY ListAssumption DEF Images, Bundles

\* However often describe was at the bundle before, it finds what it would find at first.
LEMMA AskedFacts ==
    ASSUME NothingToAdd, TypeOK, Sorted, Fresh, pc = "fetch"
    PROVE  /\ Current \in Object /\ Asked \subseteq Image
           /\ Asked \cap hidden = Images(Current) \cap hidden
           /\ {SigOf[i] : i \in Asked \ hidden} \ {None} = Signed(Current)
  <1>1. Current \in Object /\ pos \in DOMAIN List /\ List[pos] = Current
    BY CurrentIsListed DEF TypeOK, Current
  <1>2. Images(Current) \subseteq Image /\ Contents[Current] \subseteq Image
    BY <1>1, ImagesTyped
  <1>3. Contents[Current] \subseteq Cached(Current)
    BY <1>1, <1>2 DEF Sorted, Cached
  <1>4. Asked = Images(Current) \cup Cached(Current) /\ Images(Current) \subseteq Asked /\ Asked \subseteq Image
    BY <1>2, <1>3 DEF Asked, Images, Cached
  <1>5. ASSUME NEW i \in Asked, i \notin Images(Current)
        PROVE  SigOf[i] = None /\ i \notin hidden
    <2>1. i \in Image /\ i \in Cached(Current) /\ i \notin Contents[Current]
      BY <1>4, <1>5 DEF Images
    <2>2. ~(\A m, n \in DOMAIN List : List[m] = Current /\ List[n] = Current => m = n)
      <3> SUFFICES ASSUME \A n \in DOMAIN List : List[n] = Current => n = pos
                   PROVE  FALSE
        BY <1>1
      <3>1. ~Visited(Current)
        <4>1. pos \in Nat
          BY ListAssumption DEF TypeOK
        <4>2. QED
          BY <4>1 DEF Visited
      <3>2. QED
        BY <1>1, <2>1, <3>1 DEF Fresh
    <2>3. i \in Added(Current)
      <3>1. typ[Current][i] \in Kind \ {"absent", "bundle", "content"}
        BY <1>1, <2>1 DEF TypeOK, Sorted, Cached
      <3>2. i \in Signed(Current) \/ i = LocationsOf[Current]
        BY <1>1, <2>1, <3>1 DEF Sorted, Kind
      <3>3. i # None
        BY <2>1, RegistryAssumption
      <3>4. QED
        BY <3>2, <3>3 DEF Signed, Added
    <2>4. QED
      BY <1>1, <2>2, <2>3 DEF NothingToAdd, Sorted
  <1>6. Asked \cap hidden = Images(Current) \cap hidden
    BY <1>4, <1>5
  <1>7. {SigOf[i] : i \in Asked \ hidden} \ {None} = Signed(Current)
    <2>1. \A s \in {SigOf[i] : i \in Asked \ hidden} \ {None} : s \in Signed(Current)
      BY <1>5 DEF Signed
    <2>2. \A s \in Signed(Current) : s \in {SigOf[i] : i \in Asked \ hidden} \ {None}
      BY <1>4 DEF Signed
    <2>3. QED
      BY <2>1, <2>2
  <1>8. QED
    BY <1>1, <1>4, <1>6, <1>7

\* When the lookups of a bundle are over, all were answered.
LEMMA CloseFacts ==
    ASSUME NothingToAdd, TypeOK, Described, Close
    PROVE  /\ Current \in Object /\ UNCHANGED <<hidden, pos>> /\ pc = "fetch" /\ pc' = "locations"
           /\ denied' = [denied EXCEPT ![Current] = @ \cup (Images(Current) \cap hidden)]
           /\ \A o \in Object, i \in Image :
                 typ'[o][i] = IF o = Current /\ i \in Signed(Current) THEN "signature" ELSE typ[o][i]
  <1>1. pc = "fetch" /\ pc' = "locations" /\ waiting \cup asking = {} /\ ~broken /\ UNCHANGED <<hidden, pos>>
    BY DEF Close, Waited
  <1>2. /\ Current \in Object /\ Asked \subseteq Image
        /\ Asked \cap hidden = Images(Current) \cap hidden
        /\ {SigOf[i] : i \in Asked \ hidden} \ {None} = Signed(Current)
    BY <1>1, AskedFacts DEF Described
  <1>3. /\ refused \subseteq Asked \cap hidden /\ found \subseteq {SigOf[i] : i \in Asked \ hidden} \ {None}
        /\ \A i \in Asked : IF i \in hidden THEN i \in refused ELSE SigOf[i] \in found \cup {None}
    BY <1>1 DEF Described, Asking
  <1>4. refused = Images(Current) \cap hidden
    BY <1>2, <1>3
  <1>5. found = Signed(Current)
    <2>1. \A s \in {SigOf[i] : i \in Asked \ hidden} \ {None} : s \in found
      BY <1>3
    <2>2. QED
      BY <1>2, <1>3, <2>1
  <1>6. denied' = [denied EXCEPT ![Current] = @ \cup (Images(Current) \cap hidden)]
    BY <1>4 DEF Close, StoreErrors
  <1>7. typ' = [typ EXCEPT ![Current] =
                  [i \in Image |-> IF i \in Signed(Current) THEN "signature" ELSE typ[Current][i]]]
    BY <1>5 DEF Close, SignatureKind
  <1>8. \A o \in Object, i \in Image :
            typ'[o][i] = IF o = Current /\ i \in Signed(Current) THEN "signature" ELSE typ[o][i]
    BY <1>2, <1>7 DEF TypeOK
  <1>9. QED
    BY <1>1, <1>2, <1>6, <1>8

\* What the step on a locations image assigns.
LEMMA LocationsFacts ==
    ASSUME TypeOK, Locations
    PROVE  /\ Current \in Object /\ UNCHANGED <<hidden, denied>>
           /\ pos' = pos + 1 /\ pc = "locations" /\ pc' = "next" /\ pos \in DOMAIN List
           /\ \A o \in Object, i \in Image :
                 typ'[o][i] = IF o = Current /\ i = LocationsOf[o] THEN "internal" ELSE typ[o][i]
  <1>1. /\ pc = "locations" /\ pos' = pos + 1 /\ pc' = "next" /\ UNCHANGED <<hidden, denied>>
        /\ typ' = IF LocationsOf[Current] = None THEN typ
                  ELSE [typ EXCEPT ![Current][LocationsOf[Current]] = "internal"]
    BY DEF Locations
  <1>2. Current \in Object /\ pos \in DOMAIN List
    BY <1>1, CurrentIsListed DEF TypeOK
  <1>3. None \notin Image /\ LocationsOf[Current] \in Image \cup {None}
    BY <1>2, RegistryAssumption
  <1>4. ASSUME NEW o \in Object, NEW i \in Image
        PROVE  typ'[o][i] = IF o = Current /\ i = LocationsOf[o] THEN "internal" ELSE typ[o][i]
    <2>1. CASE LocationsOf[Current] = None
      BY <1>1, <1>3, <2>1
    <2>2. CASE LocationsOf[Current] # None
      BY <1>1, <1>2, <1>3, <2>2 DEF TypeOK
    <2>3. QED
      BY <2>1, <2>2
  <1>5. QED
    BY <1>1, <1>2, <1>4

\* Every step keeps the entries of the caches apart.
LEMMA SortedStep ==
    ASSUME NothingToAdd, TypeOK, Described, [Next]_vars
    PROVE  Sorted'
  <1>1. Sorted
    BY DEF Described
  <1>2. CASE Close
    <2>1. /\ Current \in Object /\ UNCHANGED <<hidden, pos>>
          /\ denied' = [denied EXCEPT ![Current] = @ \cup (Images(Current) \cap hidden)]
          /\ \A o \in Object, i \in Image :
                 typ'[o][i] = IF o = Current /\ i \in Signed(Current) THEN "signature" ELSE typ[o][i]
      BY <1>2, CloseFacts
    <2>2. \A o \in Object : denied'[o] \subseteq Images(o) \cap hidden
      BY <1>1, <2>1 DEF Sorted, TypeOK
    <2>3. \A i \in Signed(Current) : i \notin Contents[Current]
      BY <2>1, AddedApart, ImagesTyped DEF Signed
    <2>4. \A o \in Object : Signed(o)' = Signed(o)
      BY <2>1 DEF Signed
    <2>5. ASSUME NEW o \in Object, NEW i \in Image
          PROVE  /\ typ'[o][i] = "bundle" <=> i \in Contents[o] \cap Bundles
                 /\ typ'[o][i] = "content" <=> i \in Contents[o] \ Bundles
                 /\ typ'[o][i] = "signature" => i \in Signed(o)
                 /\ typ'[o][i] = "internal" => i = LocationsOf[o]
      BY <1>1, <2>1, <2>3 DEF Sorted
    <2>6. QED
      BY <1>1, <2>1, <2>2, <2>4, <2>5 DEF Sorted
  <1>3. CASE Locations
    <2>1. /\ Current \in Object /\ UNCHANGED <<hidden, denied>>
          /\ \A o \in Object, i \in Image :
                 typ'[o][i] = IF o = Current /\ i = LocationsOf[o] THEN "internal" ELSE typ[o][i]
      BY <1>3, LocationsFacts
    <2>2. \A o \in Object, i \in Image : i = LocationsOf[o] => i \notin Contents[o]
      BY AddedApart, RegistryAssumption
    <2>3. \A o \in Object : Signed(o)' = Signed(o)
      BY <2>1 DEF Signed
    <2>4. ASSUME NEW o \in Object, NEW i \in Image
          PROVE  /\ typ'[o][i] = "bundle" <=> i \in Contents[o] \cap Bundles
                 /\ typ'[o][i] = "content" <=> i \in Contents[o] \ Bundles
                 /\ typ'[o][i] = "signature" => i \in Signed(o)
                 /\ typ'[o][i] = "internal" => i = LocationsOf[o]
      BY <1>1, <2>1, <2>2 DEF Sorted
    <2>5. QED
      BY <1>1, <2>1, <2>3, <2>4 DEF Sorted
  <1>4. CASE ~Close /\ ~Locations
    <2>1. UNCHANGED <<hidden, typ, denied>>
      BY <1>4 DEF Next, Main, Lookup, Terminated, Open, OpenPanics, Take, Answer, LookupFails,
                  CloseFails, LocationsFails, Describe, vars, cacheVars
    <2>2. QED
      BY <1>1, <2>1 DEF Sorted, Signed
  <1>5. QED
    BY <1>2, <1>3, <1>4

\* Every step leaves the caches of the bundles ahead as they were.
LEMMA FreshStep ==
    ASSUME NothingToAdd, TypeOK, Described, [Next]_vars
    PROVE  Fresh'
  <1> SUFFICES ASSUME NEW o \in Object, ~Visited(o)' PROVE Cached(o)' \subseteq Contents[o]
    BY DEF Fresh
  <1>1. Fresh /\ pos \in Nat
    BY ListAssumption DEF Described, TypeOK
  <1>2. CASE Close
    <2>1. Current \in Object /\ UNCHANGED pos /\ pc = "fetch" /\ pc' = "locations" /\ pos \in DOMAIN List
      BY <1>2, CloseFacts, CurrentIsListed DEF TypeOK
    <2>2. o # Current /\ ~Visited(o)
      BY <2>1 DEF Visited, Current
    <2>3. Cached(o)' = Cached(o)
      BY <1>2, <2>2, CloseFacts DEF Cached
    <2>4. QED
      BY <1>1, <2>2, <2>3 DEF Fresh
  <1>3. CASE Locations
    <2>1. pos' = pos + 1 /\ pc = "locations" /\ pc' = "next" /\ pos \in DOMAIN List /\ Current \in Object
      BY <1>3, LocationsFacts
    <2>2. \A n \in DOMAIN List : n < pos \/ n = pos => n < pos'
      BY <1>1, <2>1, ListAssumption
    <2>3. ~Visited(o) /\ o # Current
      BY <2>1, <2>2 DEF Visited, Current
    <2>4. Cached(o)' = Cached(o)
      BY <1>3, <2>3, LocationsFacts DEF Cached
    <2>5. QED
      BY <1>1, <2>3, <2>4 DEF Fresh
  <1>4. CASE ~Close /\ ~Locations
    <2>1. UNCHANGED <<typ, pos>> /\ (pc \in {"locations", "failed"} => pc' \in {"locations", "failed"})
      BY <1>4 DEF Next, Main, Lookup, Terminated, Open, OpenPanics, Take, Answer, LookupFails,
                  CloseFails, LocationsFails, Describe, vars, cacheVars
    <2>2. ~Visited(o) /\ Cached(o)' = Cached(o)
      BY <2>1 DEF Visited, Cached
    <2>3. QED
      BY <1>1, <2>2 DEF Fresh
  <1>5. QED
    BY <1>2, <1>3, <1>4

\* Every step keeps account of the lookups.
LEMMA AskingStep ==
    ASSUME TypeOK, ThrottleKept, Described, [Next]_vars
    PROVE  Asking'
  <1> SUFFICES ASSUME pc' = "fetch"
               PROVE  /\ waiting' \cup asking' \subseteq Asked'
                      /\ refused' \subseteq Asked' \cap hidden'
                      /\ found' \subseteq {SigOf[i] : i \in Asked' \ hidden'} \ {None}
                      /\ ~broken' => \A i \in Asked' \ (waiting' \cup asking') :
                             IF i \in hidden' THEN i \in refused' ELSE SigOf[i] \in found' \cup {None}
    BY DEF Asking
  <1>1. Asking
    BY DEF Described
  <1>2. UNCHANGED <<hidden, pos, typ>>
    BY DEF Next, Main, Lookup, Terminated, Open, OpenPanics, Take, Answer, LookupFails, Close,
           CloseFails, Locations, LocationsFails, Describe, vars, cacheVars, Ends
  <1>3. Asked' = Asked
    BY <1>2 DEF Asked, Current, Cached
  <1>4. CASE Open
    <2>1. asking' = {}
      BY <1>4 DEF Open, ThrottleKept
    <2>2. waiting' = Asked /\ refused' = {} /\ found' = {}
      BY <1>4 DEF Open, Asked
    <2>3. QED
      BY <1>3, <2>1, <2>2
  <1>5. ASSUME NEW i \in Image, Take(i)
        PROVE  /\ pc = "fetch" /\ waiting' \cup asking' = waiting \cup asking
               /\ UNCHANGED <<refused, found, broken>>
    BY <1>5 DEF Take
  <1>6. ASSUME NEW i \in Image, Answer(i)
        PROVE  /\ pc = "fetch" /\ i \in asking /\ asking' = asking \ {i} /\ UNCHANGED <<waiting, broken>>
               /\ i \in hidden => refused' = refused \cup {i} /\ UNCHANGED found
               /\ i \notin hidden => found' = found \cup ({SigOf[i]} \ {None}) /\ UNCHANGED refused
    BY <1>6 DEF Answer, Leave
  <1>7. ASSUME NEW i \in Image, LookupFails(i)
        PROVE  /\ pc = "fetch" /\ asking' \subseteq asking /\ UNCHANGED <<waiting, refused, found>>
               /\ broken' = TRUE
    BY <1>7 DEF LookupFails, Leave
  <1>8. CASE \E i \in Image : Take(i)
    BY <1>1, <1>2, <1>3, <1>5, <1>8 DEF Asking
  <1>9. CASE \E i \in Image : Answer(i)
    <2>1. PICK i \in Image : Answer(i)
      BY <1>9
    <2>2. /\ pc = "fetch" /\ i \in asking /\ asking' = asking \ {i} /\ UNCHANGED <<waiting, broken>>
          /\ i \in hidden => refused' = refused \cup {i} /\ UNCHANGED found
          /\ i \notin hidden => found' = found \cup ({SigOf[i]} \ {None}) /\ UNCHANGED refused
      BY <1>6, <2>1
    <2>3. i \in Asked
      BY <1>1, <2>2 DEF Asking
    <2>4. refused' \subseteq Asked \cap hidden
      BY <1>1, <2>2, <2>3 DEF Asking
    <2>5. found' \subseteq {SigOf[j] : j \in Asked \ hidden} \ {None}
      BY <1>1, <2>2, <2>3 DEF Asking
    <2>6. ASSUME ~broken, NEW j \in Asked \ (waiting' \cup asking')
          PROVE  IF j \in hidden THEN j \in refused' ELSE SigOf[j] \in found' \cup {None}
      <3>1. CASE j = i
        BY <2>2, <3>1
      <3>2. CASE j # i
        <4>1. j \in Asked \ (waiting \cup asking)
          BY <2>2, <2>6, <3>2
        <4>2. IF j \in hidden THEN j \in refused ELSE SigOf[j] \in found \cup {None}
          BY <1>1, <2>2, <2>6, <4>1 DEF Asking
        <4>3. QED
          BY <2>2, <4>2
      <3>3. QED
        BY <3>1, <3>2
    <2>7. waiting' \cup asking' \subseteq Asked
      BY <1>1, <2>2 DEF Asking
    <2>8. QED
      BY <1>2, <1>3, <2>2, <2>4, <2>5, <2>6, <2>7
  <1>10. CASE \E i \in Image : LookupFails(i)
    BY <1>1, <1>2, <1>3, <1>7, <1>10 DEF Asking
  <1>11. CASE UNCHANGED vars
    BY <1>1, <1>2, <1>3, <1>11 DEF vars, fetchVars, Asking
  <1>12. QED
    BY <1>4, <1>8, <1>9, <1>10, <1>11
       DEF Next, Main, Lookup, Terminated, OpenPanics, Close, CloseFails, Locations,
           LocationsFails, Describe, Ends

\* Every step keeps the entries of the bundles behind the loop.
LEMMA GoneStep ==
    ASSUME NothingToAdd, TypeOK, ThrottleKept, Described, [Next]_vars
    PROVE  Gone'
  <1>1. Sorted /\ Gone /\ pos \in Nat /\ Len(List) \in Nat
    BY ListAssumption DEF Described, TypeOK
  <1>2. CASE Close
    <2>1. /\ Current \in Object /\ UNCHANGED <<hidden, pos>> /\ pc' = "locations"
          /\ denied' = [denied EXCEPT ![Current] = @ \cup (Images(Current) \cap hidden)]
          /\ \A o \in Object, i \in Image :
                 typ'[o][i] = IF o = Current /\ i \in Signed(Current) THEN "signature" ELSE typ[o][i]
      BY <1>2, CloseFacts
    <2>2. \A o \in Object : denied[o] \subseteq denied'[o]
      BY <2>1 DEF TypeOK
    <2>3. Images(Current) \cap hidden \subseteq denied'[Current]
      BY <2>1 DEF TypeOK
    <2>4. \A o \in Object : Signed(o)' = Signed(o) /\ Signed(o) \subseteq Image
      BY <2>1, AddedApart, ImagesTyped DEF Signed
    <2>5. Closed(Current)'
      <3>1. \A i \in Signed(Current) : typ'[Current][i] = "signature"
        BY <2>1, <2>4
      <3>2. Current' = Current
        BY <2>1 DEF Current
      <3>3. QED
        BY <2>1, <2>3, <2>4, <3>1, <3>2 DEF Closed
    <2>6. ASSUME NEW n \in DOMAIN List, n < pos
          PROVE  Closed(List[n])' /\ Placed(List[n])'
      <3>1. List[n] \in Object /\ Closed(List[n]) /\ Placed(List[n])
        BY <1>1, <2>6, ListAssumption DEF Gone
      <3>2. Closed(List[n])'
        BY <2>1, <2>2, <2>4, <3>1 DEF Closed
      <3>3. LocationsOf[List[n]] \notin Signed(Current) \/ LocationsOf[List[n]] = None
        BY <2>1, <3>1, AddedApart, ImagesTyped DEF Signed
      <3>4. LocationsOf[List[n]] # None => LocationsOf[List[n]] \in Image
        BY <3>1, RegistryAssumption
      <3>5. Placed(List[n])'
        BY <2>1, <3>1, <3>3, <3>4 DEF Placed
      <3>6. QED
        BY <3>2, <3>5
    <2>7. QED
      BY <2>1, <2>5, <2>6 DEF Gone
  <1>3. CASE Locations
    <2>1. /\ Current \in Object /\ UNCHANGED <<hidden, denied>>
          /\ pos' = pos + 1 /\ pc = "locations" /\ pc' = "next"
          /\ \A o \in Object, i \in Image :
                 typ'[o][i] = IF o = Current /\ i = LocationsOf[o] THEN "internal" ELSE typ[o][i]
      BY <1>3, LocationsFacts
    <2>2. \A o \in Object : Signed(o)' = Signed(o) /\ Signed(o) \subseteq Image
      BY <2>1, AddedApart, ImagesTyped DEF Signed
    <2>3. \A o \in Object : LocationsOf[o] \notin Signed(o)
      BY AddedApart, ImagesTyped DEF Signed
    <2>4. ASSUME NEW o \in Object, Closed(o) PROVE Closed(o)'
      BY <2>1, <2>2, <2>3, <2>4 DEF Closed
    <2>5. ASSUME NEW o \in Object, Placed(o) \/ o = Current PROVE Placed(o)'
      <3>1. LocationsOf[o] # None => LocationsOf[o] \in Image
        BY RegistryAssumption
      <3>2. QED
        BY <2>1, <2>5, <3>1 DEF Placed
    <2>6. ASSUME NEW n \in DOMAIN List, n < pos'
          PROVE  Closed(List[n])' /\ Placed(List[n])'
      <3>1. List[n] \in Object /\ n \in Nat
        BY ListAssumption
      <3>2. CASE n < pos
        BY <1>1, <2>4, <2>5, <3>1, <3>2 DEF Gone
      <3>3. CASE n = pos
        BY <1>1, <2>1, <2>4, <2>5, <3>1, <3>3 DEF Gone, Current
      <3>4. QED
        BY <1>1, <2>1, <2>6, <3>1, <3>2, <3>3
    <2>7. QED
      BY <2>1, <2>6 DEF Gone
  <1>4. CASE ~Close /\ ~Locations
    <2>1. UNCHANGED <<hidden, typ, denied, pos>> /\ (pc' = "locations" => pc = "locations")
      BY <1>4 DEF Next, Main, Lookup, Terminated, Open, OpenPanics, Take, Answer, LookupFails,
                  CloseFails, LocationsFails, Describe, vars, cacheVars
    <2>2. pc' = "ok" => pc = "ok" \/ pos > Len(List)
      BY <1>4 DEF Next, Main, Lookup, Terminated, Open, OpenPanics, Take, Answer, LookupFails,
                  CloseFails, LocationsFails, Describe, vars
    <2>3. QED
      BY <1>1, <2>1, <2>2 DEF Gone, Closed, Placed, Signed, Current
  <1>5. QED
    BY <1>2, <1>3, <1>4

\* The walk leaves the caches so.
LEMMA InitDescribed == Init => Described
  <1> SUFFICES ASSUME Init PROVE Described
    OBVIOUS
  <1>1. /\ pc = "next" /\ pos = 1 /\ denied = [o \in Object |-> {}] /\ hidden \subseteq Hideable
        /\ typ = [o \in Object |-> [i \in Image |->
                 IF i \notin Contents[o] THEN "absent" ELSE IF i \in Bundles THEN "bundle" ELSE "content"]]
    BY DEF Init
  <1>2. ASSUME NEW o \in Object, NEW i \in Image
        PROVE  typ[o][i] = IF i \notin Contents[o] THEN "absent"
                           ELSE IF i \in Bundles THEN "bundle" ELSE "content"
    BY <1>1
  <1>3. Sorted
    BY <1>1, <1>2 DEF Sorted
  <1>4. Fresh
    BY <1>2 DEF Fresh, Cached
  <1>5. \A n \in DOMAIN List : ~(n < pos)
    BY <1>1, ListAssumption
  <1>6. Asking /\ Gone
    BY <1>1, <1>5 DEF Asking, Gone
  <1>7. QED
    BY <1>3, <1>4, <1>6 DEF Described

\* For every list and registry, whatever order the lookups end in: a description that is
\* given holds all that the walk and the registry have, of its kind.  When a bundle is
\* reached by two paths, the second pass also asks for the signatures of the signatures
\* that the first one found, so that these must have none.
THEOREM DescriptionsAreComplete ==
    ASSUME NothingToAdd
    PROVE  Spec => []DescriptionComplete
  <1>1. Inv /\ Described => DescriptionComplete
    <2> SUFFICES ASSUME Inv, Described, pc = "ok", NEW o \in Object
                 PROVE  /\ denied[o] = Images(o) \cap hidden
                        /\ {i \in Image : typ[o][i] \in {"bundle", "content"}} = Contents[o]
                        /\ {i \in Image : typ[o][i] = "bundle"} = Contents[o] \cap Bundles
                        /\ {i \in Image : typ[o][i] = "signature"} = Signed(o)
                        /\ {i \in Image : typ[o][i] = "internal"} = {LocationsOf[o]} \ {None}
      BY DEF DescriptionComplete, Images, Signed
    <2>1. Closed(o) /\ Placed(o)
      <3>1. PICK n \in DOMAIN List : List[n] = o
        BY ListAssumption DEF Listed
      <3>2. n < pos
        BY ListAssumption DEF Described, Gone, Inv, TypeOK
      <3>3. QED
        BY <3>1, <3>2 DEF Described, Gone
    <2>2. Sorted
      BY DEF Described
    <2>3. Contents[o] \subseteq Image /\ Signed(o) \subseteq Image
      BY AddedApart, ImagesTyped DEF Signed
    <2>4. LocationsOf[o] \in Image \cup {None} /\ None \notin Image
      BY RegistryAssumption
    <2>5. denied[o] = Images(o) \cap hidden
      BY <2>1, <2>2 DEF Closed, Sorted
    <2>6. {i \in Image : typ[o][i] \in {"bundle", "content"}} = Contents[o]
      BY <2>2, <2>3 DEF Sorted
    <2>7. {i \in Image : typ[o][i] = "bundle"} = Contents[o] \cap Bundles
      BY <2>2, <2>3 DEF Sorted
    <2>8. {i \in Image : typ[o][i] = "signature"} = Signed(o)
      BY <2>1, <2>2, <2>3 DEF Closed, Sorted
    <2>9. {i \in Image : typ[o][i] = "internal"} = {LocationsOf[o]} \ {None}
      BY <2>1, <2>2, <2>4 DEF Placed, Sorted
    <2>10. QED
      BY <2>5, <2>6, <2>7, <2>8, <2>9
  <1>2. Inv /\ Described /\ [Next]_vars => Described'
    <2> SUFFICES ASSUME Inv, Described, [Next]_vars PROVE Described'
      OBVIOUS
    <2>1. TypeOK /\ ThrottleKept
      BY DEF Inv
    <2>2. QED
      BY <2>1, SortedStep, FreshStep, AskingStep, GoneStep DEF Described
  <1>3. QED
    BY <1>1, <1>2, Invariance, InitDescribed, PTL DEF Spec

================================================================================
