---------------------------- MODULE BundleTraversal ----------------------------
(***************************************************************************)
(* The concurrent walk over a graph of nested bundles:                     *)
(*   Bundle.buildAllImagesLock   pkg/imgpkg/bundle/bundle_images_lock.go   *)
(*   RegistryFetcher.Bundle      pkg/imgpkg/bundle/fetch_bundle.go         *)
(*   imageRefCache               pkg/imgpkg/bundle/bundle.go               *)
(*   keyLock, Throttle           lock_with_key.go, internal/util           *)
(*                                                                         *)
(* A task is one activation of imagesLockIfIsBundle: the goroutine started *)
(* for one entry of one ImagesLock, reached along one path from the root.  *)
(* When the entry is a bundle the same goroutine walks that bundle in      *)
(* turn, so a task is also the activation of buildAllImagesLock for it.    *)
(* The root task is the call of AllImagesLockRefs itself.                  *)
(***************************************************************************)
EXTENDS Naturals, Sequences, FiniteSets

CONSTANTS Task,         \* occurrences of references in the graph, the root included
          Root,
          Parent,       \* Parent[t]: the task whose ImagesLock lists t
          Kids,         \* Kids[t]: what the ImagesLock of t lists, in order
          Below,        \* Below[t]: every task under t, at any depth
          Image,        \* digests
          Digest,       \* Digest[t]
          BundleImage,  \* the digests that carry the bundle label
          Repo,         \* repositories
          Origin,       \* Origin[t]: the repository named in the ImagesLock entry
          RootRepo,     \* the repository the root bundle was read from
          Stored,       \* Stored[r]: the digests repository r holds
          KnownContent, \* KnownContent[r, d]: the <<origin, digest>> names that the
                        \* locations image of bundle d in r marks as plain images
          Concurrency,  \* --concurrency
          MaxFaults,    \* bound on registry calls that fail though they need not
          None

KidSet(t) == {Kids[t][i] : i \in DOMAIN Kids[t]}

ASSUME TaskAssumption ==
    /\ IsFiniteSet(Task) /\ Root \in Task /\ None \notin Task
    /\ Parent \in [Task \ {Root} -> Task]
    /\ Kids \in [Task -> Seq(Task)]
    /\ \A t \in Task : KidSet(t) = {k \in Task \ {Root} : Parent[k] = t}
    /\ \A t \in Task : \A i, j \in DOMAIN Kids[t] : Kids[t][i] = Kids[t][j] => i = j

\* A digest determines its content, so a bundle never contains itself, and two
\* tasks with one digest list the same entries.
ASSUME GraphAssumption ==
    /\ Below \in [Task -> SUBSET Task]
    /\ \A t \in Task : Below[t] = KidSet(t) \cup UNION {Below[k] : k \in KidSet(t)}
    /\ Below[Root] = Task \ {Root}
    /\ Digest \in [Task -> Image] /\ BundleImage \subseteq Image
    /\ \A t \in Task : Digest[t] \notin BundleImage => Kids[t] = <<>>
    /\ Origin \in [Task -> Repo]
    /\ \A t, u \in Task : Digest[t] = Digest[u] =>
           {<<Origin[k], Digest[k]>> : k \in KidSet(t)} = {<<Origin[k], Digest[k]>> : k \in KidSet(u)}
    /\ Digest[Root] \in BundleImage

ASSUME RegistryAssumption ==
    /\ RootRepo \in Repo /\ Stored \in [Repo -> SUBSET Image]
    /\ KnownContent \in [Repo \X Image -> SUBSET (Repo \X (Image \ BundleImage))]
    /\ Concurrency \in Nat \ {0}
    /\ MaxFaults \in Nat

VARIABLES pc,       \* where each task is
          tokens,   \* what is left in the channel of Throttle
          holder,   \* holder[l]: the task inside keyLock l
          entry,    \* entry[l]: RegistryFetcher.cache, the task that built the entry
          object,   \* object[t]: the *Bundle t was given, named by the task that built it
          repo,     \* repo[t]: the repository the object built by t is read from
          cached,   \* cached[o][d]: imageRefCache of object o
          cursor,   \* cursor[t]: position of t in its loop over the ImagesLock
          errChan,  \* errChan[t]: the tasks whose report waits in the channel of t
          heard,    \* heard[t]: the tasks whose report t has received
          bundles,  \* bundles[t]: the objects t returns
          refs,     \* refs[t]: the names in processedImageRefs of t
          faults

vars == <<pc, tokens, holder, entry, object, repo, cached, cursor, errChan, heard,
          bundles, refs, faults>>

fetcherVars == <<tokens, holder, entry>>
walkVars    == <<cached, cursor, errChan, heard, bundles, refs>>

Probing   == {"locate", "probe"}
Critical  == {"take1", "take2"} \cup Probing
Walking   == {"read", "walk"}
Finished  == {"done", "failed"}
Step      == {"idle", "lock", "merge", "error"} \cup Critical \cup Walking \cup Finished
RefState  == {"absent", "untyped", "bundle", "content"}
Location  == Repo \X Image
Name      == Repo \X Image

NameOf(t) == <<Origin[t], Digest[t]>>

\* ImageRef.PrimaryLocation after LocalizeToRepo: the repository of the bundle
\* that lists t, with the digest of t.
PrimaryLocation(t) == <<repo[object[Parent[t]]], Digest[t]>>

\* The name Bundle returns for t: a cache hit brings the reference of the task that
\* made the entry, which may come from another ImagesLock and name another repository.
FetchedName(t) == NameOf(object[t])

\* Mutants: the bundle itself is not counted; the reference is stored untyped.
TypeOfNested(t) == IF Cardinality(bundles[t]) > 1 THEN "bundle" ELSE "content"
TypeOfNone(t) == "untyped"
TypeOf(t) == IF bundles[t] # {} THEN "bundle" ELSE "content"

\* An error ends the root call; any other task still has to report it.
Goto(t, s) == pc' = [pc EXCEPT ![t] = s]
Abandon(t) == Goto(t, IF t = Root THEN "failed" ELSE "error")

ErrChanCapacity(t) == Len(Kids[t])
--------------------------------------------------------------------------------
Init ==
    /\ pc = [t \in Task |-> IF t = Root THEN "read" ELSE "idle"]
    /\ tokens = Concurrency
    /\ holder = [l \in Location |-> None]
    /\ entry = [l \in Location |-> None]
    /\ object = [t \in Task |-> IF t = Root THEN Root ELSE None]
    /\ repo = [t \in Task |-> RootRepo]
    /\ cached = [o \in Task |-> [d \in Image |-> "absent"]]
    /\ cursor = [t \in Task |-> 1]
    /\ errChan = [t \in Task |-> <<>>]
    /\ heard = [t \in Task |-> {}]
    /\ bundles = [t \in Task |-> {}]
    /\ refs = [t \in Task |-> {}]
    /\ faults = 0
--------------------------------------------------------------------------------
(* RegistryFetcher.Bundle *)

\* Mutant: the cache is never looked up.
NeverCached(l) == FALSE
IsCached(l) == entry[l] # None

\* Mutant: a bundle that another task has fetched is not walked again.
AfterFetchOnce(t) ==
    IF Digest[t] \in BundleImage /\ ~IsCached(PrimaryLocation(t)) THEN "read" ELSE "merge"
AfterFetch(t) == IF Digest[t] \in BundleImage THEN "read" ELSE "merge"

\* The location was fetched before: its entry is returned under the lock.
UseEntry(t) ==
    LET l == PrimaryLocation(t) IN
    /\ pc[t] = "lock" /\ holder[l] = None /\ IsCached(l)
    /\ object' = [object EXCEPT ![t] = entry[l]]
    /\ Goto(t, AfterFetch(t))
    /\ UNCHANGED <<fetcherVars, repo, walkVars, faults>>

LockLocation(t) ==
    LET l == PrimaryLocation(t) IN
    /\ pc[t] = "lock" /\ holder[l] = None /\ ~IsCached(l)
    /\ holder' = [holder EXCEPT ![l] = t]
    /\ Goto(t, "take1")
    /\ UNCHANGED <<tokens, entry, object, repo, walkVars, faults>>

\* Mutant: Take does not wait.
TakeTokenAlways(t) == tokens' = tokens - 1
TakeToken(t) == tokens > 0 /\ tokens' = tokens - 1

Take(t) ==
    /\ pc[t] \in {"take1", "take2"}
    /\ TakeToken(t)
    /\ Goto(t, IF pc[t] = "take1" THEN "locate" ELSE "probe")
    /\ UNCHANGED <<holder, entry, object, repo, walkVars, faults>>

\* Throttle.Done and the deferred Unlock, on every return of Bundle.
\* Mutant: only the first of the two is called.
ReleaseTokenOnly(t) == tokens' = tokens + 1 /\ UNCHANGED holder
Release(t) ==
    /\ holder' = [holder EXCEPT ![PrimaryLocation(t)] = None]
    /\ tokens' = tokens + 1

\* FirstImageExists(imgRef.Locations()): the repository of the parent bundle is
\* asked first, then the original one; any error on the first moves on to the
\* second, so a fault is spent only on a repository that holds the image.
Near(t) == repo[object[Parent[t]]]

\* Mutant: only the repository of the parent bundle is asked.
LocationsNear(t) == {Near(t)}
Locations(t) == {Near(t), Origin[t]}
Holds(r, t) == Digest[t] \in Stored[r]

Locate(t) ==
    /\ pc[t] = "locate"
    /\ \E r \in Locations(t) :
        LET skipped == IF r # Near(t) /\ Holds(Near(t), t) THEN 1 ELSE 0 IN
        /\ Holds(r, t)
        /\ faults + skipped <= MaxFaults
        /\ faults' = faults + skipped
        /\ repo' = [repo EXCEPT ![t] = r]
    /\ tokens' = tokens + 1
    /\ Goto(t, "take2")
    /\ UNCHANGED <<holder, entry, object, walkVars>>

LocateFails(t) ==
    LET refused == Cardinality({r \in Locations(t) : Holds(r, t)}) IN
    /\ pc[t] = "locate"
    /\ faults + refused <= MaxFaults
    /\ faults' = faults + refused
    /\ Release(t)
    /\ Abandon(t)
    /\ UNCHANGED <<entry, object, repo, walkVars>>

\* bundle.IsBundle(), then storeLocationEntry and the deferred Unlock.
Probe(t) ==
    /\ pc[t] = "probe"
    /\ Release(t)
    /\ entry' = [entry EXCEPT ![PrimaryLocation(t)] = t]
    /\ object' = [object EXCEPT ![t] = t]
    /\ Goto(t, AfterFetch(t))
    /\ UNCHANGED <<repo, walkVars, faults>>

ProbeFails(t) ==
    /\ pc[t] = "probe" /\ faults < MaxFaults
    /\ faults' = faults + 1
    /\ Release(t)
    /\ Abandon(t)
    /\ UNCHANGED <<entry, object, repo, walkVars>>
--------------------------------------------------------------------------------
(* Bundle.buildAllImagesLock *)

\* checkedImage and fetchImagesRef: the image, its ImagesLock and its locations
\* image, none of them under the throttle.
ReadImagesLock(t) ==
    /\ pc[t] = "read"
    /\ bundles' = [bundles EXCEPT ![t] = {object[t]}]
    /\ Goto(t, "walk")
    /\ UNCHANGED <<fetcherVars, object, repo, cached, cursor, errChan, heard, refs, faults>>

ReadFails(t) ==
    /\ pc[t] = "read" /\ faults < MaxFaults
    /\ faults' = faults + 1
    /\ Abandon(t)
    /\ UNCHANGED <<fetcherVars, object, repo, walkVars>>

IsKnownContent(t) ==
    LET o == object[Parent[t]] IN NameOf(t) \in KnownContent[repo[o], Digest[o]]

Store(o, d, s) == cached' = [cached EXCEPT ![o][d] = s]

\* The next entry of the ImagesLock starts a goroutine.
StartTask(t) ==
    /\ pc[t] = "walk" /\ cursor[t] <= Len(Kids[t])
    /\ LET k == Kids[t][cursor[t]] IN
        /\ ~IsKnownContent(k)
        /\ Store(object[t], Digest[k], "untyped")
        /\ Goto(k, "lock")
    /\ cursor' = [cursor EXCEPT ![t] = @ + 1]
    /\ UNCHANGED <<fetcherVars, object, repo, errChan, heard, bundles, refs, faults>>

\* The next entry is known not to be a bundle: it is recorded and reported in place.
RecordContent(t) ==
    /\ pc[t] = "walk" /\ cursor[t] <= Len(Kids[t])
    /\ Len(errChan[t]) < ErrChanCapacity(t)
    /\ LET k == Kids[t][cursor[t]] IN
        /\ IsKnownContent(k)
        /\ Store(object[t], Digest[k], "content")
        /\ refs' = [refs EXCEPT ![t] = @ \cup {NameOf(k)}]
        /\ errChan' = [errChan EXCEPT ![t] = Append(@, k)]
        /\ Goto(k, "done")
    /\ cursor' = [cursor EXCEPT ![t] = @ + 1]
    /\ UNCHANGED <<fetcherVars, object, repo, heard, bundles, faults>>

\* The goroutine, under the mutex of its parent's activation: adds what it found,
\* stores the typed reference and reports no error.
Merge(t) ==
    LET p == Parent[t] IN
    /\ pc[t] = "merge"
    /\ Len(errChan[p]) < ErrChanCapacity(p)
    /\ bundles' = [bundles EXCEPT ![p] = @ \cup bundles[t]]
    /\ Store(object[p], Digest[t], TypeOf(t))
    /\ refs' = [refs EXCEPT ![p] = @ \cup {FetchedName(t)} \cup refs[t]]
    /\ errChan' = [errChan EXCEPT ![p] = Append(@, t)]
    /\ Goto(t, "done")
    /\ UNCHANGED <<fetcherVars, object, repo, cursor, heard, faults>>

ReportError(t) ==
    LET p == Parent[t] IN
    /\ pc[t] = "error"
    /\ Len(errChan[p]) < ErrChanCapacity(p)
    /\ errChan' = [errChan EXCEPT ![p] = Append(@, t)]
    /\ Goto(t, "failed")
    /\ UNCHANGED <<fetcherVars, object, repo, cached, cursor, heard, bundles, refs, faults>>

\* Mutant: the error of a nested bundle is dropped.
NeverError(t) == FALSE
IsError(t) == pc[t] = "failed"

\* The loop over errChan: the first error ends the activation.
Receive(t) ==
    /\ pc[t] = "walk" /\ cursor[t] > Len(Kids[t]) /\ errChan[t] # <<>>
    /\ errChan' = [errChan EXCEPT ![t] = Tail(@)]
    /\ heard' = [heard EXCEPT ![t] = @ \cup {Head(errChan[t])}]
    /\ IF IsError(Head(errChan[t])) THEN Abandon(t) ELSE UNCHANGED pc
    /\ UNCHANGED <<fetcherVars, object, repo, cached, cursor, bundles, refs, faults>>

\* Mutant: the loop ends one report early.
HeardAlmostAll(t) == Cardinality(heard[t]) + 1 >= Len(Kids[t])
HeardAll(t) == Cardinality(heard[t]) = Len(Kids[t])

Return(t) ==
    /\ pc[t] = "walk" /\ cursor[t] > Len(Kids[t])
    /\ HeardAll(t)
    /\ Goto(t, IF t = Root THEN "done" ELSE "merge")
    /\ UNCHANGED <<fetcherVars, object, repo, walkVars, faults>>
--------------------------------------------------------------------------------
Fetch(t) == \/ UseEntry(t) \/ LockLocation(t) \/ Take(t)
            \/ Locate(t) \/ LocateFails(t) \/ Probe(t) \/ ProbeFails(t)

Walk(t) == \/ ReadImagesLock(t) \/ ReadFails(t) \/ StartTask(t) \/ RecordContent(t)
           \/ Receive(t) \/ Return(t)

Run(t) == Walk(t) \/ (t # Root /\ (Fetch(t) \/ Merge(t) \/ ReportError(t)))

AllFinished == \A t \in Task : pc[t] \in Finished \cup {"idle"}

Terminated == AllFinished /\ pc[Root] \in Finished /\ UNCHANGED vars

Next == Terminated \/ \E t \in Task : Run(t)

Spec == Init /\ [][Next]_vars

\* The Go scheduler runs every goroutine that can run.
FairSpec == Spec /\ \A t \in Task : WF_vars(Run(t))
--------------------------------------------------------------------------------
\* Each variable has its type; the channel of the throttle never holds more than
\* Concurrency tokens.
TypeOK ==
    /\ pc \in [Task -> Step]
    /\ tokens \in 0..Concurrency
    /\ holder \in [Location -> Task \cup {None}]
    /\ entry \in [Location -> Task \cup {None}]
    /\ object \in [Task -> Task \cup {None}]
    /\ repo \in [Task -> Repo]
    /\ cached \in [Task -> [Image -> RefState]]
    /\ cursor \in [Task -> Nat \ {0}]
    /\ errChan \in [Task -> Seq(Task)]
    /\ heard \in [Task -> SUBSET Task]
    /\ bundles \in [Task -> SUBSET Task]
    /\ refs \in [Task -> SUBSET Name]
    /\ faults \in 0..MaxFaults

(* Safety *)

\* The throttle: every token is in the channel or with one of the tasks inside a
\* registry call of RegistryFetcher.Bundle, so at most Concurrency of these calls
\* are in flight and no exit path of Bundle leaks a token.
TokensConserved ==
    tokens + Cardinality({t \in Task : pc[t] \in Probing}) = Concurrency

\* keyLock: a task is between Lock and Unlock of a location exactly while the lock
\* is its own; two tasks never look up one location at the same time, and no
\* return of Bundle, with an error or without, leaves a location locked.
LocationLocked ==
    \A l \in Location, t \in Task :
        holder[l] = t <=> (pc[t] \in Critical /\ PrimaryLocation(t) = l)

\* A location that was looked up keeps the *Bundle object it got: tasks that meet
\* the location later share that object and its imageRefCache.
EntriesNeverReplaced ==
    [][\A l \in Location : entry[l] # None => entry'[l] = entry[l]]_vars

\* An entry of an imageRefCache is without a type only while some task that will
\* store the typed one is still on its way, or has failed: also when two tasks
\* walk one shared object and the second stores untyped references again.
UntypedIsPending ==
    \A o \in Task, d \in Image :
        cached[o][d] = "untyped" =>
            \E k \in Task \ {Root} :
                /\ Digest[k] = d /\ object[Parent[k]] = o
                /\ pc[k] \notin {"idle", "done"}

\* buildAllImagesLock types a reference by whether nested bundles came back
\* (len(nestedBundles) > 0): that is the type of the image.
TypesAreRight ==
    \A o \in Task, d \in Image :
        /\ cached[o][d] = "bundle" => d \in BundleImage
        /\ cached[o][d] = "content" => d \notin BundleImage

\* When AllImagesLockRefs returns no error, it returns every image of the graph
\* under a name that some ImagesLock gives it: nothing is lost between goroutines,
\* and every goroutine has ended.
WalkIsComplete ==
    pc[Root] = "done" =>
        /\ \A t \in Task : pc[t] = "done"
        /\ refs[Root] \subseteq {NameOf(t) : t \in Task \ {Root}}
        /\ {n[2] : n \in refs[Root]} = {Digest[t] : t \in Task \ {Root}}
        /\ {Digest[o] : o \in bundles[Root]} = {Digest[t] : t \in Task} \cap BundleImage

\* The comment on AllImagesLockRefs says that it returns every image reference. Of
\* two references to one image that are fetched at one location only the first comes
\* back, for the second finds the entry of the first: the code breaks this property.
EveryReferenceReturned ==
    pc[Root] = "done" => refs[Root] = {NameOf(t) : t \in Task \ {Root}}

\* What NoteCopy (*ref.IsBundle) and describe need of the result: each returned
\* bundle has a typed entry for every image of its ImagesLock, and no other.
NoteCopyReady ==
    pc[Root] = "done" =>
        \A o \in bundles[Root], d \in Image :
            cached[o][d] = IF d \notin {Digest[k] : k \in KidSet(o)} THEN "absent"
                           ELSE IF d \in BundleImage THEN "bundle" ELSE "content"

\* The walk fails only because a registry call failed, or because a task found its
\* image neither near the bundle that lists it nor where the ImagesLock says it is.
FailureHasACause ==
    pc[Root] = "failed" =>
        \/ faults > 0
        \/ \E t \in Task \ {Root} :
              /\ pc[t] \in {"error", "failed"}
              /\ \A r \in {Near(t), Origin[t]} : ~Holds(r, t)

(* Liveness and refinement *)

\* Every goroutine ends, also those still running when an activation has already
\* returned its first error: no send on errChan is left without room, and no
\* task waits for a token or a lock held by a task that waits for it.
EveryTaskEnds == <>[]AllFinished

Abstract == INSTANCE ImagesWalk WITH
    Under   <- [t \in Task |-> KidSet(t)],
    walked  <- {t \in Task : pc[t] = "done"},
    outcome <- CASE pc[Root] = "done" -> "ok" [] pc[Root] = "failed" -> "failed"
                 [] OTHER -> "running"

\* The concurrent walk implements the sequential promise.
ImplementsWalk == Abstract!Spec

================================================================================
