------------------------- MODULE BundleTraversalProofs -------------------------
(***************************************************************************)
(* Safety of the concurrent bundle walk for every graph of bundles, every  *)
(* content of the registries, every concurrency and any number of failing  *)
(* calls.  One inductive invariant, Inv, carries the theorems:             *)
(* types first, then which tasks have built or hold an object, then the    *)
(* locks and tokens that depend on it.                                     *)
(***************************************************************************)
EXTENDS BundleTraversal, FiniteSetTheorems, TLAPS

\* Before these steps are over, a task has no object and no task under it runs.
Unbuilt == {"idle", "lock"} \cup Critical

\* Only the root starts at "read"; no other task is before its fetch once the root is.
RootWalks == pc[Root] \in Walking \cup Finished

\* Walking and merging tasks hold an object.
WalkersHaveObjects ==
    \A t \in Task : pc[t] \in Walking \cup {"merge"} => object[t] # None

\* Objects and cache entries name tasks that finished building them, so the
\* repository of an object in use is fixed.
ObjectsAreBuilt ==
    /\ \A t \in Task : object[t] # None => pc[object[t]] \notin Unbuilt
    /\ \A l \in Location : entry[l] # None => pc[entry[l]] \notin Unbuilt

\* A task runs only under a parent that holds an object and reads its ImagesLock.
ParentsWalk ==
    \A t \in Task \ {Root} : pc[t] # "idle" =>
        pc[Parent[t]] \notin Unbuilt \cup {"read"} /\ object[Parent[t]] # None

\* What the loop over the ImagesLock has not reached has not started.
BeyondCursorIdle ==
    \A t \in Task : \A i \in DOMAIN Kids[t] : i >= cursor[t] => pc[Kids[t][i]] = "idle"

Structure == /\ RootWalks /\ WalkersHaveObjects /\ ObjectsAreBuilt
             /\ ParentsWalk /\ BeyondCursorIdle

Inv == TypeOK /\ Structure /\ LocationLocked /\ TokensConserved
--------------------------------------------------------------------------------
(* Facts about the constants *)

\* What an ImagesLock lists is run by tasks under the one that reads it.
LEMMA KidFacts ==
    ASSUME NEW t \in Task, NEW i \in DOMAIN Kids[t]
    PROVE  Kids[t][i] \in Task \ {Root} /\ Parent[Kids[t][i]] = t
  BY TaskAssumption DEF KidSet

\* While the loop over the ImagesLock goes on, its cursor is at an entry.
LEMMA CursorInLoop ==
    ASSUME TypeOK, NEW t \in Task, cursor[t] <= Len(Kids[t])
    PROVE  cursor[t] \in DOMAIN Kids[t]
  BY TaskAssumption DEF TypeOK

\* Where a running task looks first is a location.
LEMMA LocationFacts ==
    ASSUME Inv, NEW t \in Task \ {Root}, pc[t] # "idle"
    PROVE  PrimaryLocation(t) \in Location /\ Near(t) \in Repo /\ object[Parent[t]] \in Task
  <1>1. Parent[t] \in Task /\ Digest[t] \in Image
    BY TaskAssumption, GraphAssumption
  <1>2. object[Parent[t]] \in Task
    BY <1>1 DEF Inv, Structure, ParentsWalk, TypeOK
  <1>3. QED
    BY <1>1, <1>2 DEF Inv, TypeOK, PrimaryLocation, Near, Location

--------------------------------------------------------------------------------
(* The throttle *)

Probers == {t \in Task : pc[t] \in Probing}

\* The tasks inside a registry call can be counted.
LEMMA ProbersFinite == IsFiniteSet(Probers) /\ Cardinality(Probers) \in Nat
  BY TaskAssumption, FS_Subset, FS_CardinalityType DEF Probers

\* A task that leaves its registry call puts back the token it holds.
LEMMA TokenReturned ==
    ASSUME Inv, NEW t \in Task, NEW s \in Step \ Probing,
           pc[t] \in Probing, pc' = [pc EXCEPT ![t] = s], tokens' = tokens + 1
    PROVE  TokensConserved' /\ tokens' \in 0..Concurrency
  <1>1. Probers' = Probers \ {t} /\ t \in Probers
    BY DEF Inv, TypeOK, Probers
  <1>2. Cardinality(Probers') = Cardinality(Probers) - 1
    BY <1>1, ProbersFinite, FS_RemoveElement
  <1>3. Cardinality(Probers') \in Nat
    BY <1>1, ProbersFinite, FS_RemoveElement, FS_CardinalityType
  <1>4. QED
    BY <1>2, <1>3, ProbersFinite, RegistryAssumption
    DEF Inv, TypeOK, TokensConserved, Probers

\* Take moves one token from the channel to a task that enters a registry call.
LEMMA TokenTaken ==
    ASSUME Inv, NEW t \in Task, NEW s \in Probing,
           pc[t] \notin Probing, pc' = [pc EXCEPT ![t] = s],
           tokens > 0, tokens' = tokens - 1
    PROVE  TokensConserved' /\ tokens' \in 0..Concurrency
  <1>1. Probers' = Probers \cup {t} /\ t \notin Probers
    BY DEF Inv, TypeOK, Probers
  <1>2. Cardinality(Probers') = Cardinality(Probers) + 1
    BY <1>1, ProbersFinite, FS_AddElement
  <1>3. QED
    BY <1>2, ProbersFinite, RegistryAssumption
    DEF Inv, TypeOK, TokensConserved, Probers

\* Any other step: no task enters or leaves a registry call.
LEMMA TokensUntouched ==
    ASSUME Inv, UNCHANGED tokens,
           \A t \in Task : pc'[t] \in Probing <=> pc[t] \in Probing
    PROVE  TokensConserved' /\ tokens' \in 0..Concurrency
  <1>1. Probers' = Probers
    BY DEF Probers
  <1>2. QED
    BY <1>1 DEF Inv, TypeOK, TokensConserved, Probers

\* No step of the walk makes or loses a token of the throttle.
LEMMA TokenStep ==
    ASSUME Inv, [Next]_vars
    PROVE  TokensConserved' /\ tokens' \in 0..Concurrency
  <1> USE DEF Goto, Abandon, AfterFetch, Step, Critical, Probing, Walking, Finished,
             fetcherVars, walkVars
  <1>1. pc \in [Task -> Step]
    BY DEF Inv, TypeOK
  <1>2. ASSUME NEW t \in Task, Take(t)
        PROVE  TokensConserved' /\ tokens' \in 0..Concurrency
    BY <1>2, TokenTaken DEF Take, TakeToken
  <1>3. ASSUME NEW t \in Task, Locate(t)
        PROVE  TokensConserved' /\ tokens' \in 0..Concurrency
    BY <1>3, TokenReturned DEF Locate
  <1>4. ASSUME NEW t \in Task, t # Root, LocateFails(t) \/ ProbeFails(t)
        PROVE  TokensConserved' /\ tokens' \in 0..Concurrency
    BY <1>4, TokenReturned DEF LocateFails, ProbeFails, Release
  <1>5. ASSUME NEW t \in Task, Probe(t)
        PROVE  TokensConserved' /\ tokens' \in 0..Concurrency
    <2>1. AfterFetch(t) \in Step \ Probing
      OBVIOUS
    <2> HIDE DEF AfterFetch, Step
    <2>2. QED
      BY <1>5, <2>1, TokenReturned DEF Probe, Release, Probing
  <1>6. ASSUME NEW t \in Task, UseEntry(t) \/ LockLocation(t)
        PROVE  TokensConserved' /\ tokens' \in 0..Concurrency
    BY <1>1, <1>6, TokensUntouched DEF UseEntry, LockLocation
  <1>7. ASSUME NEW t \in Task, ReadImagesLock(t) \/ ReadFails(t) \/ Receive(t) \/ Return(t)
        PROVE  TokensConserved' /\ tokens' \in 0..Concurrency
    BY <1>1, <1>7, TokensUntouched DEF ReadImagesLock, ReadFails, Receive, Return
  <1>8. ASSUME NEW t \in Task, Merge(t) \/ ReportError(t)
        PROVE  TokensConserved' /\ tokens' \in 0..Concurrency
    BY <1>1, <1>8, TokensUntouched DEF Merge, ReportError
  <1>9. ASSUME NEW t \in Task, StartTask(t) \/ RecordContent(t)
        PROVE  TokensConserved' /\ tokens' \in 0..Concurrency
    <2> DEFINE k == Kids[t][cursor[t]]
    <2>1. k \in Task /\ pc[k] = "idle" /\ UNCHANGED tokens
      BY <1>9, CursorInLoop, KidFacts
      DEF StartTask, RecordContent, Inv, Structure, BeyondCursorIdle, TypeOK
    <2>2. pc' = [pc EXCEPT ![k] = "lock"] \/ pc' = [pc EXCEPT ![k] = "done"]
      BY <1>9 DEF StartTask, RecordContent
    <2>3. QED
      BY <1>1, <2>1, <2>2, TokensUntouched
  <1>10. ASSUME UNCHANGED vars
         PROVE  TokensConserved' /\ tokens' \in 0..Concurrency
    BY <1>10, TokensUntouched DEF vars
  <1>11. QED
    BY <1>2, <1>3, <1>4, <1>5, <1>6, <1>7, <1>8, <1>9, <1>10
    DEF Next, Terminated, Run, Walk, Fetch
--------------------------------------------------------------------------------
(* Types *)

\* The program points that the actions name are program points.
LEMMA StepFacts ==
    /\ {"lock", "merge", "walk", "error", "failed", "done", "take1", "take2"} \subseteq Step
    /\ \A t \in Task : AfterFetch(t) \in Step
  BY DEF Step, AfterFetch, Walking, Finished, Critical

\* Moving one task to a program point, or giving up, keeps pc well typed.
LEMMA GotoTyped ==
    ASSUME TypeOK, NEW t \in Task,
           \/ UNCHANGED pc
           \/ Abandon(t)
           \/ \E s \in Step : Goto(t, s)
    PROVE  pc' \in [Task -> Step]
  BY StepFacts DEF TypeOK, Goto, Abandon

\* Every step of the walk keeps the types.
LEMMA TypeStep ==
    ASSUME Inv, [Next]_vars
    PROVE  TypeOK'
  <1> USE StepFacts DEF fetcherVars, walkVars
  <1>1. tokens' \in 0..Concurrency /\ MaxFaults \in Nat
    BY TokenStep, RegistryAssumption
  <1>2. TypeOK /\ \A t \in Task \ {Root} : pc[t] # "idle" =>
            PrimaryLocation(t) \in Location /\ Near(t) \in Repo
    BY LocationFacts DEF Inv
  <1>3. ASSUME NEW t \in Task \ {Root}, UseEntry(t) \/ LockLocation(t)
        PROVE  TypeOK'
    <2>1. pc' \in [Task -> Step]
      BY <1>2, <1>3, GotoTyped DEF UseEntry, LockLocation
    <2>2. object' \in [Task -> Task \cup {None}] /\ holder' \in [Location -> Task \cup {None}]
      BY <1>2, <1>3 DEF UseEntry, LockLocation, IsCached, TypeOK
    <2>3. QED
      BY <1>1, <1>2, <1>3, <2>1, <2>2 DEF UseEntry, LockLocation, TypeOK
  <1>4. ASSUME NEW t \in Task \ {Root}, Take(t)
        PROVE  TypeOK'
    <2>1. pc' \in [Task -> Step]
      BY <1>2, <1>4, GotoTyped DEF Take, Step, Critical, Probing
    <2>2. QED
      BY <1>1, <1>2, <1>4, <2>1 DEF Take, TypeOK
  <1>5. ASSUME NEW t \in Task \ {Root}, Locate(t)
        PROVE  TypeOK'
    <2>1. PICK r \in Locations(t) :
              LET skipped == IF r # Near(t) /\ Holds(Near(t), t) THEN 1 ELSE 0 IN
              /\ faults + skipped <= MaxFaults
              /\ faults' = faults + skipped
              /\ repo' = [repo EXCEPT ![t] = r]
      BY <1>5 DEF Locate
    <2>2. r \in Repo
      BY <1>2, <1>5, <2>1, GraphAssumption DEF Locations, Locate
    <2>3. faults' \in 0..MaxFaults
      BY <1>1, <1>2, <2>1 DEF TypeOK
    <2>4. pc' \in [Task -> Step]
      BY <1>2, <1>5, GotoTyped DEF Locate
    <2>5. repo' \in [Task -> Repo]
      BY <1>2, <2>1, <2>2 DEF TypeOK
    <2>6. QED
      BY <1>1, <1>2, <1>5, <2>3, <2>4, <2>5 DEF Locate, TypeOK
  <1>6. ASSUME NEW t \in Task \ {Root}, LocateFails(t)
        PROVE  TypeOK'
    <2> DEFINE refused == {r \in Locations(t) : Holds(r, t)}
    <2>1. Cardinality(refused) \in Nat
      <3>1. IsFiniteSet({Near(t)} \cup {Origin[t]})
        BY FS_Singleton, FS_AddElement
      <3>2. refused \subseteq {Near(t)} \cup {Origin[t]}
        BY DEF Locations
      <3>3. QED
        BY <3>1, <3>2, FS_Subset, FS_CardinalityType
    <2>2. faults' \in 0..MaxFaults
      BY <1>1, <1>2, <1>6, <2>1 DEF LocateFails, TypeOK
    <2>3. pc' \in [Task -> Step]
      BY <1>2, <1>6, GotoTyped DEF LocateFails
    <2>4. holder' \in [Location -> Task \cup {None}]
      BY <1>2, <1>6 DEF LocateFails, Release, TypeOK
    <2>5. QED
      BY <1>1, <1>2, <1>6, <2>2, <2>3, <2>4 DEF LocateFails, TypeOK
  <1>7. ASSUME NEW t \in Task \ {Root}, Probe(t) \/ ProbeFails(t)
        PROVE  TypeOK'
    <2>1. pc' \in [Task -> Step]
      BY <1>2, <1>7, GotoTyped DEF Probe, ProbeFails
    <2>2. holder' \in [Location -> Task \cup {None}]
      BY <1>2, <1>7 DEF Probe, ProbeFails, Release, TypeOK
    <2>3. entry' \in [Location -> Task \cup {None}] /\ object' \in [Task -> Task \cup {None}]
      <3>1. \/ UNCHANGED <<entry, object>>
            \/ /\ entry' = [entry EXCEPT ![PrimaryLocation(t)] = t]
               /\ object' = [object EXCEPT ![t] = t]
        BY <1>7 DEF Probe, ProbeFails
      <3>2. entry' \in [Location -> Task \cup {None}]
        BY <1>2, <3>1 DEF TypeOK
      <3>3. object' \in [Task -> Task \cup {None}]
        BY <1>2, <3>1 DEF TypeOK
      <3>4. QED
        BY <3>2, <3>3
    <2>4. faults' \in 0..MaxFaults
      <3>1. faults' = faults \/ (faults < MaxFaults /\ faults' = faults + 1)
        BY <1>7 DEF Probe, ProbeFails
      <3>2. QED
        BY <1>1, <1>2, <3>1 DEF TypeOK
    <2>5. QED
      BY <1>1, <1>2, <1>7, <2>1, <2>2, <2>3, <2>4 DEF Probe, ProbeFails, TypeOK
  <1>8. ASSUME NEW t \in Task, ReadImagesLock(t) \/ ReadFails(t)
        PROVE  TypeOK'
    <2>1. pc' \in [Task -> Step]
      BY <1>2, <1>8, GotoTyped DEF ReadImagesLock, ReadFails
    <2>2. object[t] \in Task
      BY <1>2, <1>8 DEF ReadImagesLock, ReadFails, Inv, Structure, WalkersHaveObjects, Walking,
                        TypeOK
    <2>3. bundles' \in [Task -> SUBSET Task] /\ faults' \in 0..MaxFaults
      <3>1. CASE ReadImagesLock(t)
        BY <1>1, <1>2, <2>2, <3>1 DEF ReadImagesLock, TypeOK
      <3>2. CASE ReadFails(t)
        BY <1>1, <1>2, <3>2 DEF ReadFails, TypeOK
      <3>3. QED
        BY <1>8, <3>1, <3>2
    <2>4. QED
      BY <1>1, <1>2, <1>8, <2>1, <2>3 DEF ReadImagesLock, ReadFails, TypeOK
  <1>9. ASSUME NEW t \in Task, StartTask(t) \/ RecordContent(t)
        PROVE  TypeOK'
    <2> DEFINE k == Kids[t][cursor[t]]
    <2>1. k \in Task /\ Digest[k] \in Image /\ Origin[k] \in Repo /\ object[t] \in Task
      BY <1>2, <1>9, CursorInLoop, KidFacts, GraphAssumption
      DEF StartTask, RecordContent, Inv, Structure, WalkersHaveObjects, Walking, TypeOK
    <2>2. pc' \in [Task -> Step]
      BY <1>2, <1>9, <2>1, GotoTyped DEF StartTask, RecordContent
    <2>3. cached' \in [Task -> [Image -> RefState]]
      <3>1. \A d \in {"untyped", "content"} : d \in RefState
        BY DEF RefState
      <3>2. CASE Store(object[t], Digest[k], "untyped")
        BY <1>2, <2>1, <3>1, <3>2 DEF Store, TypeOK
      <3>3. CASE Store(object[t], Digest[k], "content")
        BY <1>2, <2>1, <3>1, <3>3 DEF Store, TypeOK
      <3>4. QED
        BY <1>9, <3>2, <3>3 DEF StartTask, RecordContent
    <2>4. cursor' = [cursor EXCEPT ![t] = @ + 1]
      BY <1>9 DEF StartTask, RecordContent
    <2>5. cursor' \in [Task -> Nat \ {0}]
      BY <1>2, <2>4 DEF TypeOK
    <2>6. errChan' \in [Task -> Seq(Task)] /\ refs' \in [Task -> SUBSET Name]
      <3>1. CASE StartTask(t)
        BY <1>2, <3>1 DEF StartTask, TypeOK
      <3>2. CASE RecordContent(t)
        <4>1. Append(errChan[t], k) \in Seq(Task) /\ NameOf(k) \in Name
          BY <1>2, <2>1 DEF TypeOK, NameOf, Name
        <4>2. QED
          BY <1>2, <3>2, <4>1 DEF RecordContent, TypeOK
      <3>3. QED
        BY <1>9, <3>1, <3>2
    <2>7. QED
      BY <1>1, <1>2, <1>9, <2>2, <2>3, <2>5, <2>6 DEF StartTask, RecordContent, TypeOK
  <1>10. ASSUME NEW t \in Task \ {Root}, Merge(t)
         PROVE  TypeOK'
    <2>1. Parent[t] \in Task /\ object[Parent[t]] \in Task
          /\ Digest[t] \in Image /\ Origin[t] \in Repo
      BY <1>10, LocationFacts, TaskAssumption, GraphAssumption DEF Merge
    <2>2. pc' \in [Task -> Step]
      BY <1>2, <1>10, GotoTyped DEF Merge
    <2>3. cached' \in [Task -> [Image -> RefState]]
      BY <1>2, <1>10, <2>1 DEF Merge, Store, TypeOf, RefState, TypeOK
    <2>4. errChan' \in [Task -> Seq(Task)] /\ refs' \in [Task -> SUBSET Name]
      <3>1. object[t] \in Task
        BY <1>2, <1>10 DEF Merge, Inv, Structure, WalkersHaveObjects, TypeOK
      <3>2. FetchedName(t) \in Name
        BY <3>1, GraphAssumption DEF FetchedName, NameOf, Name
      <3>3. refs' \in [Task -> SUBSET Name]
        BY <1>2, <1>10, <2>1, <3>2 DEF Merge, TypeOK
      <3>4. errChan' \in [Task -> Seq(Task)]
        BY <1>2, <1>10, <2>1 DEF Merge, TypeOK
      <3>5. QED
        BY <3>3, <3>4
    <2>5. bundles' \in [Task -> SUBSET Task]
      BY <1>2, <1>10, <2>1 DEF Merge, TypeOK
    <2>6. QED
      BY <1>1, <1>2, <1>10, <2>2, <2>3, <2>4, <2>5 DEF Merge, TypeOK
  <1>11. ASSUME NEW t \in Task \ {Root}, ReportError(t)
         PROVE  TypeOK'
    <2>1. pc' \in [Task -> Step]
      BY <1>2, <1>11, GotoTyped DEF ReportError
    <2>2. errChan' \in [Task -> Seq(Task)]
      <3>1. Parent[t] \in Task /\ Append(errChan[Parent[t]], t) \in Seq(Task)
        BY <1>2, TaskAssumption DEF TypeOK
      <3>2. QED
        BY <1>2, <1>11, <3>1 DEF ReportError, TypeOK
    <2>3. QED
      BY <1>1, <1>2, <1>11, <2>1, <2>2 DEF ReportError, TypeOK
  <1>12. ASSUME NEW t \in Task, Receive(t)
         PROVE  TypeOK'
    <2>1. pc' \in [Task -> Step]
      BY <1>2, <1>12, GotoTyped DEF Receive
    <2>2. errChan' \in [Task -> Seq(Task)] /\ heard' \in [Task -> SUBSET Task]
      <3>1. errChan[t] \in Seq(Task) /\ errChan[t] # <<>>
        BY <1>2, <1>12 DEF Receive, TypeOK
      <3>2. Head(errChan[t]) \in Task /\ Tail(errChan[t]) \in Seq(Task)
        BY <3>1
      <3>3. QED
        BY <1>2, <1>12, <3>2 DEF Receive, TypeOK
    <2>3. QED
      BY <1>1, <1>2, <1>12, <2>1, <2>2 DEF Receive, TypeOK
  <1>13. ASSUME NEW t \in Task, Return(t)
         PROVE  TypeOK'
    <2>1. pc' \in [Task -> Step]
      BY <1>2, <1>13, GotoTyped DEF Return
    <2>2. QED
      BY <1>1, <1>2, <1>13, <2>1 DEF Return, TypeOK
  <1>14. ASSUME UNCHANGED vars
         PROVE  TypeOK'
    BY <1>1, <1>2, <1>14 DEF vars, TypeOK
  <1>15. QED
    BY <1>3, <1>4, <1>5, <1>6, <1>7, <1>8, <1>9, <1>10, <1>11, <1>12, <1>13, <1>14
    DEF Next, Terminated, Run, Walk, Fetch
--------------------------------------------------------------------------------
(* Which tasks run, and who built what *)

\* The root task never fetches itself, merges or reports to a parent.
LEMMA RootIsApart ==
    ASSUME Inv
    PROVE  pc[Root] \in {"read", "walk", "done", "failed"} /\ Root \in Task
  BY TaskAssumption DEF Inv, Structure, RootWalks, Walking, Finished

\* A task between its fetch and its end moves on; nothing is started or built.
LEMMA StructureMove ==
    ASSUME Inv, NEW t \in Task, NEW s \in Step \ (Unbuilt \cup {"read"}),
           t = Root => s \in Walking \cup Finished,
           s \in Walking \cup {"merge"} => object[t] # None,
           pc[t] \notin Unbuilt, pc' = [pc EXCEPT ![t] = s],
           UNCHANGED <<object, entry, cursor>>
    PROVE  Structure'
  <1> USE TaskAssumption
  <1>1. TypeOK /\ Structure
    BY DEF Inv
  <1>2. \A u \in Task : u # t => pc'[u] = pc[u]
    BY <1>1 DEF TypeOK
  <1>3. pc'[t] = s /\ s \notin Unbuilt /\ s # "idle" /\ s # "read"
    BY <1>1 DEF TypeOK, Unbuilt
  <1>4. RootWalks'
    BY <1>1, <1>2, <1>3 DEF Structure, RootWalks
  <1>5. WalkersHaveObjects'
    BY <1>1, <1>2, <1>3 DEF Structure, WalkersHaveObjects
  <1>6. ObjectsAreBuilt'
    BY <1>1, <1>2, <1>3 DEF Structure, ObjectsAreBuilt, TypeOK
  <1>7. ParentsWalk'
    BY <1>1, <1>2, <1>3 DEF Structure, ParentsWalk, TypeOK, Unbuilt
  <1>8. BeyondCursorIdle'
    BY <1>1, <1>2, <1>3, KidFacts DEF Structure, BeyondCursorIdle, TypeOK, Unbuilt
  <1>9. QED
    BY <1>4, <1>5, <1>6, <1>7, <1>8 DEF Structure

\* A task on its way through RegistryFetcher.Bundle: nothing under it runs, and no
\* object or cache entry names it.
LEMMA StructureFetch ==
    ASSUME Inv, NEW t \in Task \ {Root}, NEW s \in Step \ {"idle"},
           pc[t] \in Unbuilt \ {"idle"}, pc' = [pc EXCEPT ![t] = s], UNCHANGED cursor,
           s \in Walking \cup {"merge"} => object'[t] # None,
           \A u \in Task : u # t => object'[u] = object[u],
           object'[t] # None => pc'[object'[t]] \notin Unbuilt,
           \A l \in Location : entry'[l] # None => pc'[entry'[l]] \notin Unbuilt
    PROVE  Structure'
  <1> USE TaskAssumption
  <1>1. TypeOK /\ Structure
    BY DEF Inv
  <1>2. pc'[t] = s /\ \A u \in Task : u # t => pc'[u] = pc[u]
    BY <1>1 DEF TypeOK
  <1>3. RootWalks'
    BY <1>1, <1>2 DEF Structure, RootWalks
  <1>4. WalkersHaveObjects'
    <2> SUFFICES ASSUME NEW u \in Task, pc'[u] \in Walking \cup {"merge"}
                 PROVE  object'[u] # None
      BY DEF WalkersHaveObjects
    <2>1. CASE u = t
      BY <1>2, <2>1
    <2>2. CASE u # t
      <3>1. pc'[u] = pc[u] /\ object'[u] = object[u]
        BY <1>2, <2>2
      <3>2. QED
        BY <1>1, <3>1 DEF Structure, WalkersHaveObjects
    <2>3. QED
      BY <2>1, <2>2
  <1>5. ObjectsAreBuilt'
    <2>1. ASSUME NEW u \in Task, object'[u] # None
          PROVE  pc'[object'[u]] \notin Unbuilt
      <3>1. CASE u = t
        BY <2>1, <3>1
      <3>2. CASE u # t
        <4>1. object'[u] = object[u] /\ object[u] \in Task /\ pc[object[u]] \notin Unbuilt
          BY <1>1, <2>1, <3>2 DEF Structure, ObjectsAreBuilt, TypeOK
        <4>2. QED
          BY <1>2, <4>1
      <3>3. QED
        BY <3>1, <3>2
    <2>2. QED
      BY <2>1 DEF ObjectsAreBuilt
  <1>6. ParentsWalk'
    <2>1. \A u \in Task \ {Root} : Parent[u] = t => pc[u] = "idle" /\ u # t
      BY <1>1 DEF Structure, ParentsWalk
    <2>2. QED
      BY <1>1, <1>2, <2>1 DEF Structure, ParentsWalk
  <1>7. BeyondCursorIdle'
    BY <1>1, <1>2, KidFacts DEF Structure, BeyondCursorIdle
  <1>8. QED
    BY <1>3, <1>4, <1>5, <1>6, <1>7 DEF Structure

\* The loop over the ImagesLock starts, or records, the task at its cursor.
LEMMA StructureStart ==
    ASSUME Inv, NEW t \in Task, pc[t] = "walk", cursor[t] <= Len(Kids[t]),
           NEW s \in {"lock", "done"}, pc' = [pc EXCEPT ![Kids[t][cursor[t]]] = s],
           cursor' = [cursor EXCEPT ![t] = @ + 1], UNCHANGED <<object, entry>>
    PROVE  Structure'
  <1> DEFINE k == Kids[t][cursor[t]]
  <1>1. TypeOK /\ Structure
    BY DEF Inv
  <1>2. cursor[t] \in DOMAIN Kids[t] /\ k \in Task \ {Root} /\ Parent[k] = t /\ pc[k] = "idle"
    BY <1>1, CursorInLoop, KidFacts DEF Structure, BeyondCursorIdle, TypeOK
  <1>3. k # t
    BY <1>2
  <1>4. pc'[k] = s /\ \A u \in Task : u # k => pc'[u] = pc[u]
    BY <1>1, <1>2 DEF TypeOK
  <1> HIDE DEF k
  <1>5. RootWalks'
    BY <1>1, <1>2, <1>4, TaskAssumption DEF Structure, RootWalks
  <1>6. WalkersHaveObjects'
    BY <1>1, <1>2, <1>4 DEF Structure, WalkersHaveObjects, Walking
  <1>7. ObjectsAreBuilt'
    <2>1. "idle" \in Unbuilt
      BY DEF Unbuilt
    <2>2. ASSUME NEW u \in Task \cup {None}, u # None, pc[u] \notin Unbuilt
          PROVE  pc'[u] \notin Unbuilt
      BY <1>2, <1>4, <2>1, <2>2
    <2>3. \A u \in Task : object[u] \in Task \cup {None}
      BY <1>1 DEF TypeOK
    <2>4. \A l \in Location : entry[l] \in Task \cup {None}
      BY <1>1 DEF TypeOK
    <2>5. QED
      BY <1>1, <2>2, <2>3, <2>4 DEF Structure, ObjectsAreBuilt
  <1>8. ParentsWalk'
    <2>1. object[t] # None /\ "walk" \notin Unbuilt \cup {"read"}
      BY <1>1 DEF Structure, WalkersHaveObjects, Walking, Unbuilt, Critical, Probing
    <2>2. \A u \in Task \ {Root} : u # k /\ pc[u] # "idle" => Parent[u] # k
      BY <1>1, <1>2 DEF Structure, ParentsWalk, Unbuilt
    <2>3. QED
      BY <1>1, <1>2, <1>3, <1>4, <2>1, <2>2, TaskAssumption DEF Structure, ParentsWalk
  <1>9. BeyondCursorIdle'
    <2> SUFFICES ASSUME NEW u \in Task, NEW i \in DOMAIN Kids[u], i >= cursor'[u]
                 PROVE  pc'[Kids[u][i]] = "idle"
      BY DEF BeyondCursorIdle
    <2>1. i \in Nat /\ cursor[u] \in Nat /\ cursor[t] \in Nat
      <3>1. Kids[u] \in Seq(Task)
        BY TaskAssumption
      <3>2. i \in Nat
        BY <3>1
      <3>3. cursor \in [Task -> Nat \ {0}]
        BY <1>1 DEF TypeOK
      <3>4. QED
        BY <3>2, <3>3
    <2>2. i >= cursor[u] /\ (u = t => i # cursor[t])
      <3>1. cursor'[u] = IF u = t THEN cursor[t] + 1 ELSE cursor[u]
        <4>1. cursor' = [cursor EXCEPT ![t] = cursor[t] + 1]
          OBVIOUS
        <4>2. DOMAIN cursor = Task
          BY <1>1 DEF TypeOK
        <4>3. QED
          BY <4>1, <4>2
      <3>2. QED
        BY <2>1, <3>1
    <2>3. Kids[u][i] # k
      BY <1>2, <2>2, KidFacts, TaskAssumption DEF k
    <2>4. Kids[u][i] \in Task
      BY KidFacts
    <2>5. QED
      BY <1>1, <1>4, <2>2, <2>3, <2>4 DEF Structure, BeyondCursorIdle
  <1>10. QED
    BY <1>5, <1>6, <1>7, <1>8, <1>9 DEF Structure

\* Every step keeps the facts on which task has built, holds or needs an object.
LEMMA StructureStep ==
    ASSUME Inv, [Next]_vars
    PROVE  Structure'
  <1> USE DEF fetcherVars, walkVars, Goto, Abandon
  <1>1. TypeOK /\ Structure
    BY DEF Inv
  <1>2. /\ {"lock"} \cup Critical \subseteq Unbuilt \ {"idle"}
        /\ {"read", "walk", "merge", "error", "done", "failed"} \cap Unbuilt = {}
        /\ Critical \cap (Walking \cup {"merge"}) = {}
        /\ {"merge", "error", "done", "failed"} \cup Critical \cup Walking \subseteq Step
        /\ {"take1", "take2", "locate", "probe"} = Critical
        /\ {"read", "walk"} = Walking /\ {"done", "failed"} = Finished
    BY DEF Unbuilt, Critical, Probing, Walking, Finished, Step
  <1>3. \A t \in Task : AfterFetch(t) \in {"read", "merge"}
    BY DEF AfterFetch
  <1>4. /\ \A t \in Task : object[t] # None => pc[object[t]] \notin Unbuilt
        /\ \A l \in Location : entry[l] # None => pc[entry[l]] \notin Unbuilt
    BY <1>1 DEF Structure, ObjectsAreBuilt
  <1>5. ASSUME NEW t \in Task \ {Root}, UseEntry(t)
        PROVE  Structure'
    <2> DEFINE l == PrimaryLocation(t)
    <2>1. l \in Location /\ pc[t] = "lock" /\ entry[l] \in Task /\ entry[l] # None
      BY <1>1, <1>5, LocationFacts DEF UseEntry, IsCached, TypeOK
    <2>2. pc[entry[l]] \notin Unbuilt /\ entry[l] # t
      BY <1>2, <1>4, <2>1
    <2>3. /\ pc' = [pc EXCEPT ![t] = AfterFetch(t)]
          /\ object' = [object EXCEPT ![t] = entry[l]]
          /\ UNCHANGED <<entry, cursor>>
      BY <1>5 DEF UseEntry
    <2> HIDE DEF l
    <2>4. object'[t] # None /\ pc'[object'[t]] \notin Unbuilt
      BY <1>1, <2>1, <2>2, <2>3 DEF TypeOK
    <2>5. \A k \in Location : entry'[k] # None => pc'[entry'[k]] \notin Unbuilt
      BY <1>1, <1>2, <1>4, <2>1, <2>3 DEF TypeOK
    <2>6. \A u \in Task : u # t => object'[u] = object[u]
      BY <1>1, <2>3 DEF TypeOK
    <2>7. QED
      BY <1>2, <1>3, <2>1, <2>3, <2>4, <2>5, <2>6, StructureFetch
  <1>6. ASSUME NEW t \in Task \ {Root}, Probe(t)
        PROVE  Structure'
    <2> DEFINE l == PrimaryLocation(t)
    <2>1. l \in Location /\ pc[t] = "probe"
      BY <1>6, LocationFacts DEF Probe
    <2>2. /\ pc' = [pc EXCEPT ![t] = AfterFetch(t)]
          /\ object' = [object EXCEPT ![t] = t]
          /\ entry' = [entry EXCEPT ![l] = t]
          /\ UNCHANGED cursor
      BY <1>6 DEF Probe
    <2> HIDE DEF l
    <2>3. pc'[t] \notin Unbuilt /\ object'[t] = t /\ t # None
      BY <1>1, <1>2, <1>3, <2>2, TaskAssumption DEF TypeOK
    <2>4. \A u \in Task : u # t => object'[u] = object[u]
      BY <1>1, <2>2 DEF TypeOK
    <2>5. ASSUME NEW k \in Location, entry'[k] # None
          PROVE  pc'[entry'[k]] \notin Unbuilt
      <3>1. CASE k = l
        BY <1>1, <2>1, <2>2, <2>3, <3>1 DEF TypeOK
      <3>2. CASE k # l
        <4>1. entry'[k] = entry[k] /\ entry[k] \in Task
          BY <1>1, <2>2, <2>5, <3>2 DEF TypeOK
        <4>2. QED
          BY <1>1, <1>4, <2>2, <2>3, <2>5, <4>1 DEF TypeOK
      <3>3. QED
        BY <3>1, <3>2
    <2>6. QED
      BY <1>2, <1>3, <2>1, <2>2, <2>3, <2>4, <2>5, StructureFetch
  <1>7. ASSUME NEW t \in Task \ {Root},
               LockLocation(t) \/ Take(t) \/ Locate(t) \/ LocateFails(t) \/ ProbeFails(t)
        PROVE  Structure'
    <2>1. PICK s \in Critical \cup {"error"} : pc' = [pc EXCEPT ![t] = s]
      BY <1>2, <1>7 DEF LockLocation, Take, Locate, LocateFails, ProbeFails
    <2>2. pc[t] \in {"lock"} \cup Critical /\ UNCHANGED <<object, entry, cursor>>
      BY <1>2, <1>7 DEF LockLocation, Take, Locate, LocateFails, ProbeFails
    <2>3. object[t] = None \/ object[t] \in Task
      BY <1>1 DEF TypeOK
    <2>4. \A u \in Task : pc[u] \notin Unbuilt => pc'[u] \notin Unbuilt
      BY <1>1, <1>2, <2>1, <2>2 DEF TypeOK
    <2>5. \A l \in Location : entry[l] = None \/ entry[l] \in Task
      BY <1>1 DEF TypeOK
    <2>6. "error" \notin Walking \cup {"merge"} /\ s \in Step \ {"idle"}
      BY <1>2
    <2>7. QED
      BY <1>2, <1>4, <2>1, <2>2, <2>3, <2>4, <2>5, <2>6, StructureFetch
  <1>8. ASSUME NEW t \in Task, StartTask(t) \/ RecordContent(t)
        PROVE  Structure'
    BY <1>8, StructureStart DEF StartTask, RecordContent
  <1>9. ASSUME NEW t \in Task, ReadImagesLock(t) \/ ReadFails(t) \/ Return(t)
        PROVE  Structure'
    <2>1. PICK s \in {"walk", "done", "failed", "merge", "error"} :
              /\ pc' = [pc EXCEPT ![t] = s]
              /\ t = Root => s \in {"walk", "done", "failed"}
      BY <1>9 DEF ReadImagesLock, ReadFails, Return
    <2>2. pc[t] \in Walking /\ UNCHANGED <<object, entry, cursor>>
      BY <1>2, <1>9 DEF ReadImagesLock, ReadFails, Return
    <2>3. object[t] # None
      BY <1>1, <2>2 DEF Structure, WalkersHaveObjects
    <2>4. s \in Step \ (Unbuilt \cup {"read"}) /\ pc[t] \notin Unbuilt
      BY <1>2, <2>2
    <2>5. QED
      BY <1>2, <2>1, <2>2, <2>3, <2>4, StructureMove
  <1>10. ASSUME NEW t \in Task \ {Root}, Merge(t) \/ ReportError(t)
         PROVE  Structure'
    <2>1. PICK s \in {"done", "failed"} : pc' = [pc EXCEPT ![t] = s]
      BY <1>10 DEF Merge, ReportError
    <2>2. pc[t] \in {"merge", "error"} /\ UNCHANGED <<object, entry, cursor>>
      BY <1>10 DEF Merge, ReportError
    <2>3. s \in Step \ (Unbuilt \cup {"read"} \cup Walking \cup {"merge"}) /\ pc[t] \notin Unbuilt
      BY <1>2, <2>2
    <2>4. QED
      BY <2>1, <2>2, <2>3, StructureMove
  <1>11. ASSUME NEW t \in Task, Receive(t)
         PROVE  Structure'
    <2>1. pc[t] = "walk" /\ UNCHANGED <<object, entry, cursor>>
      BY <1>11 DEF Receive
    <2>2. CASE UNCHANGED pc
      BY <1>1, <2>1, <2>2
      DEF Structure, RootWalks, WalkersHaveObjects, ObjectsAreBuilt, ParentsWalk, BeyondCursorIdle
    <2>3. CASE Abandon(t)
      <3>1. PICK s \in {"failed", "error"} :
                pc' = [pc EXCEPT ![t] = s] /\ (t = Root => s = "failed")
        BY <2>3
      <3>2. s \in Step \ (Unbuilt \cup {"read"} \cup Walking \cup {"merge"})
            /\ pc[t] \notin Unbuilt /\ (t = Root => s \in Finished)
        BY <1>2, <2>1, <3>1
      <3>3. QED
        BY <2>1, <3>1, <3>2, StructureMove
    <2>4. QED
      BY <1>11, <2>2, <2>3 DEF Receive
  <1>12. ASSUME UNCHANGED vars
         PROVE  Structure'
    BY <1>1, <1>12
    DEF vars, Structure, RootWalks, WalkersHaveObjects, ObjectsAreBuilt, ParentsWalk,
        BeyondCursorIdle
  <1>13. QED
    BY <1>5, <1>6, <1>7, <1>8, <1>9, <1>10, <1>11, <1>12
    DEF Next, Terminated, Run, Walk, Fetch
--------------------------------------------------------------------------------
(* The locks *)

\* A started task looks at one location for as long as it runs: the object of its
\* parent and the repository of that object are settled.
LEMMA LocationFixed ==
    ASSUME Inv, [Next]_vars, NEW u \in Task \ {Root}, pc[u] # "idle"
    PROVE  PrimaryLocation(u)' = PrimaryLocation(u)
  <1> DEFINE p == Parent[u]
             o == object[p]
  <1> USE DEF fetcherVars, walkVars
  <1>1. TypeOK /\ p \in Task /\ o \in Task
    BY LocationFacts, TaskAssumption DEF Inv
  <1>2. pc[p] \notin Unbuilt /\ pc[o] \notin Unbuilt
    BY TaskAssumption DEF Inv, Structure, ParentsWalk, ObjectsAreBuilt
  <1> HIDE DEF p, o
  <1>3. \A t \in Task : pc[t] \in {"lock", "probe", "locate"} => t # p /\ t # o
    BY <1>2 DEF Unbuilt, Critical, Probing
  <1>4. object'[p] = o
    <2>1. ASSUME NEW t \in Task, UseEntry(t) \/ Probe(t)
          PROVE  object'[p] = object[p]
      BY <1>1, <1>3, <2>1 DEF UseEntry, Probe, TypeOK
    <2>2. ASSUME NEW t \in Task, Fetch(t), ~UseEntry(t), ~Probe(t)
          PROVE  UNCHANGED object
      BY <2>2 DEF Fetch, LockLocation, Take, Locate, LocateFails, ProbeFails
    <2>3. ASSUME NEW t \in Task, Walk(t) \/ Merge(t) \/ ReportError(t)
          PROVE  UNCHANGED object
      BY <2>3 DEF Walk, ReadImagesLock, ReadFails, StartTask, RecordContent, Receive, Return,
                  Merge, ReportError
    <2>4. QED
      BY <2>1, <2>2, <2>3 DEF Next, Terminated, Run, vars, o
  <1>5. repo'[o] = repo[o]
    <2>1. ASSUME NEW t \in Task, Locate(t)
          PROVE  repo'[o] = repo[o]
      BY <1>1, <1>3, <2>1 DEF Locate, TypeOK
    <2>2. ASSUME NEW t \in Task, Fetch(t), ~Locate(t)
          PROVE  UNCHANGED repo
      BY <2>2 DEF Fetch, LockLocation, Take, UseEntry, Probe, LocateFails, ProbeFails
    <2>3. ASSUME NEW t \in Task, Walk(t) \/ Merge(t) \/ ReportError(t)
          PROVE  UNCHANGED repo
      BY <2>3 DEF Walk, ReadImagesLock, ReadFails, StartTask, RecordContent, Receive, Return,
                  Merge, ReportError
    <2>4. QED
      BY <2>1, <2>2, <2>3 DEF Next, Terminated, Run, vars
  <1>6. QED
    BY <1>4, <1>5 DEF PrimaryLocation, p, o

\* LocationLocked for one task.
HoldsItsLock(t) ==
    \A l \in Location : holder[l] = t <=> (pc[t] \in Critical /\ PrimaryLocation(t) = l)

\* A step that enters or leaves no critical section.
LEMMA LocksUntouched ==
    ASSUME Inv, [Next]_vars, UNCHANGED holder,
           \A t \in Task : pc'[t] \in Critical <=> pc[t] \in Critical
    PROVE  LocationLocked'
  <1>1. \A t \in Task : pc[t] \in Critical => t # Root /\ pc[t] # "idle"
    BY RootIsApart DEF Critical, Probing
  <1>2. \A t \in Task : pc[t] \in Critical => PrimaryLocation(t)' = PrimaryLocation(t)
    BY <1>1, LocationFixed
  <1>3. QED
    BY <1>2 DEF Inv, LocationLocked

\* A task that leaves its critical section has unlocked its own location.
LEMMA LockReleased ==
    ASSUME Inv, [Next]_vars, NEW t \in Task \ {Root}, pc[t] \in Critical,
           holder' = [holder EXCEPT ![PrimaryLocation(t)] = None],
           NEW s \in Step \ Critical, pc' = [pc EXCEPT ![t] = s]
    PROVE  LocationLocked'
  <1>1. TypeOK /\ LocationLocked /\ None \notin Task
    BY TaskAssumption DEF Inv
  <1>2. pc'[t] = s /\ \A u \in Task : u # t => pc'[u] = pc[u]
    BY <1>1 DEF TypeOK
  <1>3. PrimaryLocation(t) \in Location
    BY LocationFacts DEF Critical, Probing
  <1>4. \A u \in Task : pc[u] \in Critical => PrimaryLocation(u)' = PrimaryLocation(u)
    BY RootIsApart, LocationFixed DEF Critical, Probing
  <1>5. \A l \in Location : holder'[l] = IF l = PrimaryLocation(t) THEN None ELSE holder[l]
    BY <1>1 DEF TypeOK
  <1>6. \A l \in Location : holder[l] = t <=> PrimaryLocation(t) = l
    BY <1>1 DEF LocationLocked
  <1>7. ASSUME NEW u \in Task, NEW l \in Location
        PROVE  holder'[l] = u <=> pc'[u] \in Critical /\ PrimaryLocation(u)' = l
    <2>1. CASE u = t
      BY <1>1, <1>2, <1>5, <1>6, <2>1
    <2>2. CASE u # t
      <3>1. holder'[l] = u <=> holder[l] = u
        BY <1>1, <1>5, <1>6, <2>2
      <3>2. QED
        BY <1>1, <1>2, <1>4, <2>2, <3>1 DEF LocationLocked
    <2>3. QED
      BY <2>1, <2>2
  <1>8. QED
    BY <1>7 DEF LocationLocked

\* Lock gives a free location to one task and disturbs no other.
LEMMA LockTaken ==
    ASSUME Inv, [Next]_vars, NEW t \in Task \ {Root}, LockLocation(t)
    PROVE  LocationLocked'
  <1> DEFINE m == PrimaryLocation(t)
  <1>1. TypeOK /\ LocationLocked /\ None \notin Task
    BY TaskAssumption DEF Inv
  <1>2. pc[t] = "lock" /\ holder[m] = None /\ pc' = [pc EXCEPT ![t] = "take1"]
        /\ holder' = [holder EXCEPT ![m] = t]
    BY DEF LockLocation, Goto
  <1>3. pc'[t] \in Critical /\ pc[t] \notin Critical /\ \A u \in Task : u # t => pc'[u] = pc[u]
    BY <1>1, <1>2 DEF TypeOK, Critical, Probing
  <1>4. m \in Location /\ m' = m
    BY <1>2, LocationFacts, LocationFixed
  <1>5. \A u \in Task : pc[u] \in Critical => PrimaryLocation(u)' = PrimaryLocation(u)
    BY RootIsApart, LocationFixed DEF Critical, Probing
  <1> HIDE DEF m
  <1>6. \A l \in Location : holder'[l] = IF l = m THEN t ELSE holder[l]
    BY <1>1, <1>2 DEF TypeOK
  <1>7. ASSUME NEW u \in Task, NEW l \in Location
        PROVE  holder'[l] = u <=> pc'[u] \in Critical /\ PrimaryLocation(u)' = l
    <2>1. CASE u = t
      <3>1. holder[l] # t
        BY <1>1, <1>3 DEF LocationLocked
      <3>2. QED
        BY <1>3, <1>4, <1>6, <2>1, <3>1 DEF m
    <2>2. CASE u # t
      <3>1. holder'[l] = u <=> holder[l] = u
        BY <1>1, <1>2, <1>4, <1>6, <2>2
      <3>2. QED
        BY <1>1, <1>3, <1>5, <2>2, <3>1 DEF LocationLocked
    <2>3. QED
      BY <2>1, <2>2
  <1>8. QED
    BY <1>7 DEF LocationLocked

\* Every step keeps the locks with the tasks between Lock and Unlock.
LEMMA LockStep ==
    ASSUME Inv, [Next]_vars
    PROVE  LocationLocked'
  <1> USE DEF fetcherVars, walkVars, Goto, Abandon
  <1>1. TypeOK /\ \A t \in Task : AfterFetch(t) \in {"read", "merge"}
    BY DEF Inv, AfterFetch
  <1>2. /\ {"take1", "take2", "locate", "probe"} = Critical
        /\ {"read", "merge", "error"} \subseteq Step \ Critical
        /\ {"idle", "lock", "read", "walk", "merge", "error", "done", "failed"} \cap Critical = {}
    BY DEF Critical, Probing, Step, Walking, Finished
  <1>3. ASSUME NEW t \in Task \ {Root}, Probe(t) \/ LocateFails(t) \/ ProbeFails(t)
        PROVE  LocationLocked'
    <2>1. pc[t] \in Critical /\ holder' = [holder EXCEPT ![PrimaryLocation(t)] = None]
      BY <1>2, <1>3 DEF Probe, LocateFails, ProbeFails, Release
    <2>2. PICK s \in Step \ Critical : pc' = [pc EXCEPT ![t] = s]
      BY <1>1, <1>2, <1>3 DEF Probe, LocateFails, ProbeFails
    <2>3. QED
      BY <2>1, <2>2, LockReleased
  <1>4. ASSUME NEW t \in Task, UseEntry(t) \/ Take(t) \/ Locate(t)
        PROVE  LocationLocked'
    <2>1. UNCHANGED holder
      BY <1>4 DEF UseEntry, Take, TakeToken, Locate
    <2>2. \A u \in Task : pc'[u] \in Critical <=> pc[u] \in Critical
      BY <1>1, <1>2, <1>4 DEF UseEntry, Take, Locate, TypeOK
    <2>3. QED
      BY <2>1, <2>2, LocksUntouched
  <1>5. ASSUME NEW t \in Task, StartTask(t) \/ RecordContent(t)
        PROVE  LocationLocked'
    <2> DEFINE k == Kids[t][cursor[t]]
    <2>1. k \in Task /\ pc[k] = "idle" /\ UNCHANGED holder
      BY <1>5, CursorInLoop, KidFacts
      DEF StartTask, RecordContent, Inv, Structure, BeyondCursorIdle, TypeOK
    <2>2. pc' = [pc EXCEPT ![k] = "lock"] \/ pc' = [pc EXCEPT ![k] = "done"]
      BY <1>5 DEF StartTask, RecordContent
    <2> HIDE DEF k
    <2>3. \A u \in Task : pc'[u] \in Critical <=> pc[u] \in Critical
      BY <1>1, <1>2, <2>1, <2>2 DEF TypeOK
    <2>4. QED
      BY <2>1, <2>3, LocksUntouched
  <1>6. ASSUME NEW t \in Task, ReadImagesLock(t) \/ ReadFails(t) \/ Receive(t) \/ Return(t)
        PROVE  LocationLocked'
    <2>1. UNCHANGED holder /\ pc[t] \in {"read", "walk"}
      BY <1>6 DEF ReadImagesLock, ReadFails, Receive, Return
    <2>2. UNCHANGED pc \/ \E s \in {"walk", "done", "merge", "error", "failed"} :
              pc' = [pc EXCEPT ![t] = s]
      BY <1>6 DEF ReadImagesLock, ReadFails, Receive, Return
    <2>3. \A u \in Task : pc'[u] \in Critical <=> pc[u] \in Critical
      BY <1>1, <1>2, <2>1, <2>2 DEF TypeOK
    <2>4. QED
      BY <2>1, <2>3, LocksUntouched
  <1>7. ASSUME NEW t \in Task, Merge(t) \/ ReportError(t)
        PROVE  LocationLocked'
    <2>1. UNCHANGED holder /\ pc[t] \in {"merge", "error"}
      BY <1>7 DEF Merge, ReportError
    <2>2. \E s \in {"done", "failed"} : pc' = [pc EXCEPT ![t] = s]
      BY <1>7 DEF Merge, ReportError
    <2>3. \A u \in Task : pc'[u] \in Critical <=> pc[u] \in Critical
      BY <1>1, <1>2, <2>1, <2>2 DEF TypeOK
    <2>4. QED
      BY <2>1, <2>3, LocksUntouched
  <1>8. ASSUME UNCHANGED vars
        PROVE  LocationLocked'
    BY <1>8, LocksUntouched DEF vars
  <1>9. QED
    BY <1>3, <1>4, <1>5, <1>6, <1>7, <1>8, LockTaken
    DEF Next, Terminated, Run, Walk, Fetch
--------------------------------------------------------------------------------
(* The theorems *)

\* The call of AllImagesLockRefs starts in the invariant.
LEMMA InitInv == Init => Inv
  <1> SUFFICES ASSUME Init PROVE Inv
    OBVIOUS
  <1> USE TaskAssumption, RegistryAssumption DEF Init
  <1>1. TypeOK
    <2>1. {"read", "idle"} \subseteq Step /\ "absent" \in RefState /\ <<>> \in Seq(Task)
      BY DEF Step, Walking, RefState
    <2>2. cached \in [Task -> [Image -> RefState]]
      BY <2>1
    <2>3. pc \in [Task -> Step] /\ errChan \in [Task -> Seq(Task)]
      BY <2>1
    <2>4. tokens \in 0..Concurrency /\ faults \in 0..MaxFaults /\ cursor \in [Task -> Nat \ {0}]
      OBVIOUS
    <2>5. QED
      BY <2>2, <2>3, <2>4 DEF TypeOK
  <1>2. \A t \in Task : pc[t] = IF t = Root THEN "read" ELSE "idle"
    OBVIOUS
  <1>3. Structure
    <2>1. RootWalks /\ WalkersHaveObjects /\ ParentsWalk
      BY <1>2 DEF RootWalks, WalkersHaveObjects, ParentsWalk, Walking
    <2>2. ObjectsAreBuilt
      BY <1>2 DEF ObjectsAreBuilt, Unbuilt, Critical, Probing
    <2>3. BeyondCursorIdle
      BY <1>2, KidFacts DEF BeyondCursorIdle
    <2>4. QED
      BY <2>1, <2>2, <2>3 DEF Structure
  <1>4. LocationLocked
    BY <1>2 DEF LocationLocked, Critical, Probing
  <1>5. TokensConserved
    <2>1. Probers = {}
      BY <1>2 DEF Probers, Probing
    <2>2. tokens = Concurrency /\ Cardinality(Probers) = 0
      BY <2>1, FS_EmptySet
    <2> HIDE DEF Init
    <2>3. QED
      BY <2>2 DEF TokensConserved, Probers
  <1>6. QED
    BY <1>1, <1>3, <1>4, <1>5 DEF Inv

\* The invariant holds in every state of the walk.
LEMMA Invariance == Spec => []Inv
  <1>1. Inv /\ [Next]_vars => Inv'
    BY TypeStep, StructureStep, LockStep, TokenStep DEF Inv
  <1>2. QED
    BY InitInv, <1>1, PTL DEF Spec

\* Every variable keeps its type: no index of a cache or a channel leaves the graph,
\* the throttle's channel never holds more than Concurrency or less than no tokens.
THEOREM TypesCorrect == Spec => []TypeOK
  BY Invariance, PTL DEF Inv

\* At most Concurrency lookups are in flight and no return of RegistryFetcher.Bundle
\* leaks a token, for every graph and every concurrency.
THEOREM ThrottleCorrect == Spec => []TokensConserved
  BY Invariance, PTL DEF Inv

\* A location is looked up by one task at a time and never stays locked.
THEOREM KeyLockCorrect == Spec => []LocationLocked
  BY Invariance, PTL DEF Inv
--------------------------------------------------------------------------------
(* The cache of bundles *)

\* Who holds the lock of a location is the first to look it up.
LookupsComeFirst ==
    \A t \in Task : pc[t] \in Critical => entry[PrimaryLocation(t)] = None

\* Only Probe writes the cache, at the location whose lock the task holds.
LEMMA EntryWrites ==
    ASSUME Inv, [Next]_vars
    PROVE  \/ UNCHANGED entry
           \/ \E t \in Task \ {Root} :
                 /\ pc[t] \in Critical
                 /\ entry' = [entry EXCEPT ![PrimaryLocation(t)] = t]
                 /\ pc' = [pc EXCEPT ![t] = AfterFetch(t)]
  <1> USE DEF fetcherVars, walkVars
  <1>1. ASSUME NEW t \in Task, Fetch(t), ~Probe(t)
        PROVE  UNCHANGED entry
    BY <1>1 DEF Fetch, UseEntry, LockLocation, Take, Locate, LocateFails, ProbeFails
  <1>2. ASSUME NEW t \in Task, Walk(t) \/ Merge(t) \/ ReportError(t)
        PROVE  UNCHANGED entry
    BY <1>2 DEF Walk, ReadImagesLock, ReadFails, StartTask, RecordContent, Receive, Return,
                Merge, ReportError
  <1>3. ASSUME NEW t \in Task \ {Root}, Probe(t)
        PROVE  /\ pc[t] \in Critical
               /\ entry' = [entry EXCEPT ![PrimaryLocation(t)] = t]
               /\ pc' = [pc EXCEPT ![t] = AfterFetch(t)]
    BY <1>3 DEF Probe, Goto, Critical, Probing
  <1>4. QED
    BY <1>1, <1>2, <1>3 DEF Next, Terminated, Run, vars

\* Two tasks between Lock and Unlock are at different locations.
LEMMA CriticalApart ==
    ASSUME Inv, NEW t \in Task, NEW u \in Task, t # u,
           pc[t] \in Critical, pc[u] \in Critical
    PROVE  PrimaryLocation(t) # PrimaryLocation(u) /\ PrimaryLocation(t) \in Location
  <1>1. PrimaryLocation(t) \in Location /\ PrimaryLocation(u) \in Location
    BY RootIsApart, LocationFacts DEF Critical, Probing
  <1>2. holder[PrimaryLocation(t)] = t /\ holder[PrimaryLocation(u)] = u
    BY <1>1 DEF Inv, LocationLocked
  <1>3. QED
    BY <1>1, <1>2

\* A task that is in its critical section after a step was in it before, or has
\* just found its location unlocked and not cached.
LEMMA CriticalBefore ==
    ASSUME Inv, [Next]_vars, NEW u \in Task, pc'[u] \in Critical
    PROVE  /\ u # Root /\ PrimaryLocation(u)' = PrimaryLocation(u)
           /\ \/ pc[u] \in Critical
              \/ entry[PrimaryLocation(u)] = None /\ UNCHANGED entry
  <1> USE DEF fetcherVars, walkVars, Goto, Abandon, Critical, Probing
  <1>1. TypeOK /\ \A t \in Task : AfterFetch(t) \in {"read", "merge"}
    BY DEF Inv, AfterFetch
  <1>2. pc[u] \in Critical \/ (pc[u] = "lock" /\ entry[PrimaryLocation(u)] = None /\ UNCHANGED entry)
    <2>1. ASSUME NEW t \in Task, LockLocation(t)
          PROVE  pc[u] \in Critical \/ (u = t /\ pc[t] = "lock" /\ ~IsCached(PrimaryLocation(t))
                                        /\ UNCHANGED entry)
      BY <1>1, <2>1 DEF LockLocation, TypeOK
    <2>2. ASSUME NEW t \in Task, Fetch(t), ~LockLocation(t)
          PROVE  pc[u] \in Critical
      BY <1>1, <2>2 DEF Fetch, UseEntry, Take, Locate, LocateFails, Probe, ProbeFails, TypeOK
    <2>3. ASSUME NEW t \in Task, Walk(t) \/ Merge(t) \/ ReportError(t)
          PROVE  pc[u] \in Critical
      <3>1. CASE ReadImagesLock(t) \/ ReadFails(t) \/ Receive(t) \/ Return(t)
        BY <1>1, <3>1 DEF ReadImagesLock, ReadFails, Receive, Return, TypeOK
      <3>2. CASE StartTask(t) \/ RecordContent(t)
        <4>1. Kids[t][cursor[t]] \in Task
          BY <1>1, <3>2, CursorInLoop, KidFacts DEF StartTask, RecordContent
        <4>2. QED
          BY <1>1, <3>2, <4>1 DEF StartTask, RecordContent, TypeOK
      <3>3. CASE Merge(t) \/ ReportError(t)
        BY <1>1, <3>3 DEF Merge, ReportError, TypeOK
      <3>4. QED
        BY <2>3, <3>1, <3>2, <3>3 DEF Walk
    <2>4. QED
      BY <1>1, <2>1, <2>2, <2>3 DEF Next, Terminated, Run, vars, IsCached
  <1>3. QED
    BY <1>2, RootIsApart, LocationFixed

\* Every step keeps it so that a location being looked up has no entry yet.
LEMMA LookupsStep ==
    ASSUME Inv, LookupsComeFirst, [Next]_vars
    PROVE  LookupsComeFirst'
  <1> SUFFICES ASSUME NEW u \in Task, pc'[u] \in Critical
               PROVE  entry'[PrimaryLocation(u)] = None
    BY CriticalBefore DEF LookupsComeFirst
  <1>1. CASE UNCHANGED entry
    BY <1>1, CriticalBefore DEF LookupsComeFirst
  <1>2. ASSUME NEW t \in Task \ {Root}, pc[t] \in Critical,
               entry' = [entry EXCEPT ![PrimaryLocation(t)] = t],
               pc' = [pc EXCEPT ![t] = AfterFetch(t)]
        PROVE  entry'[PrimaryLocation(u)] = None
    <2>1. TypeOK /\ AfterFetch(t) \notin Critical
      BY DEF Inv, AfterFetch, Critical, Probing
    <2>2. u # t
      BY <1>2, <2>1 DEF TypeOK
    <2>3. pc[u] \in Critical
      BY <1>2, <2>1, <2>2 DEF TypeOK
    <2>4. PrimaryLocation(u) # PrimaryLocation(t) /\ PrimaryLocation(u) \in Location
      BY <1>2, <2>2, <2>3, CriticalApart
    <2>5. entry'[PrimaryLocation(u)] = entry[PrimaryLocation(u)]
      BY <1>2, <2>1, <2>4 DEF TypeOK
    <2>6. QED
      BY <2>3, <2>5 DEF LookupsComeFirst
  <1>3. QED
    BY <1>1, <1>2, EntryWrites

\* One *Bundle object per location, for as long as the fetcher lives.
LEMMA EntryKept ==
    ASSUME Inv, LookupsComeFirst, [Next]_vars
    PROVE  \A l \in Location : entry[l] # None => entry'[l] = entry[l]
  <1> SUFFICES ASSUME NEW l \in Location, entry[l] # None
               PROVE  entry'[l] = entry[l]
    OBVIOUS
  <1>1. ASSUME NEW t \in Task, pc[t] \in Critical,
               entry' = [entry EXCEPT ![PrimaryLocation(t)] = t]
        PROVE  entry'[l] = entry[l]
    <2>1. PrimaryLocation(t) # l
      BY <1>1 DEF LookupsComeFirst
    <2>2. QED
      BY <1>1, <2>1 DEF Inv, TypeOK
  <1>2. QED
    BY <1>1, EntryWrites

\* A location that was looked up is never looked up again, whatever the schedule:
\* all tasks that meet it share the object built first.
THEOREM CacheCorrect == Spec => EntriesNeverReplaced
  <1>1. Init => LookupsComeFirst
    BY DEF Init, LookupsComeFirst, Critical, Probing
  <1>2. Inv /\ LookupsComeFirst /\ [Next]_vars => LookupsComeFirst'
    BY LookupsStep
  <1>3. Inv /\ LookupsComeFirst /\ [Next]_vars =>
            [\A l \in Location : entry[l] # None => entry'[l] = entry[l]]_vars
    BY EntryKept
  <1>4. QED
    BY Invariance, <1>1, <1>2, <1>3, PTL DEF Spec, EntriesNeverReplaced
--------------------------------------------------------------------------------
(* The cache of references *)

\* Task k is on its way to store the type of image d in the cache of object o.
WillType(k, o, d) ==
    /\ k \in Task \ {Root} /\ Digest[k] = d /\ object[Parent[k]] = o
    /\ pc[k] \notin {"idle", "done"}

\* A task that stays on its way, under a parent whose object is settled.
LEMMA StillTyping ==
    ASSUME Inv, [Next]_vars, NEW k, NEW o, NEW d, WillType(k, o, d), pc'[k] \notin {"idle", "done"}
    PROVE  WillType(k, o, d)'
  <1> USE DEF fetcherVars, walkVars, WillType
  <1>1. TypeOK /\ Parent[k] \in Task /\ pc[Parent[k]] \notin Unbuilt
    BY TaskAssumption DEF Inv, Structure, ParentsWalk
  <1>2. object'[Parent[k]] = object[Parent[k]]
    <2>1. ASSUME NEW t \in Task, UseEntry(t) \/ Probe(t)
          PROVE  object'[Parent[k]] = object[Parent[k]]
      <3>1. t # Parent[k]
        BY <1>1, <2>1 DEF UseEntry, Probe, Unbuilt, Critical, Probing
      <3>2. QED
        BY <1>1, <2>1, <3>1 DEF UseEntry, Probe, TypeOK
    <2>2. ASSUME NEW t \in Task, Fetch(t), ~UseEntry(t), ~Probe(t)
          PROVE  UNCHANGED object
      BY <2>2 DEF Fetch, LockLocation, Take, Locate, LocateFails, ProbeFails
    <2>3. ASSUME NEW t \in Task, Walk(t) \/ Merge(t) \/ ReportError(t)
          PROVE  UNCHANGED object
      BY <2>3 DEF Walk, ReadImagesLock, ReadFails, StartTask, RecordContent, Receive, Return,
                  Merge, ReportError
    <2>4. QED
      BY <2>1, <2>2, <2>3 DEF Next, Terminated, Run, vars
  <1>3. QED
    BY <1>2

\* UntypedIsPending in these words.
LEMMA PendingMeans ==
    UntypedIsPending <=>
        \A o \in Task, d \in Image : cached[o][d] = "untyped" => \E k : WillType(k, o, d)
  BY DEF UntypedIsPending, WillType

\* Every step keeps a task on its way for each reference without a type.
LEMMA PendingStep ==
    ASSUME Inv, UntypedIsPending, [Next]_vars
    PROVE  UntypedIsPending'
  <1> USE DEF fetcherVars, walkVars, Goto, Abandon
  <1>1. TypeOK /\ \A t \in Task : AfterFetch(t) \in {"read", "merge"}
    BY DEF Inv, AfterFetch
  <1> SUFFICES ASSUME NEW o \in Task, NEW d \in Image, cached'[o][d] = "untyped"
               PROVE  \E k : WillType(k, o, d)'
    BY DEF UntypedIsPending, WillType
  <1>2. ASSUME cached[o][d] = "untyped"
        PROVE  \E k : WillType(k, o, d)
    BY <1>2, PendingMeans
  <1>3. ASSUME NEW t \in Task, StartTask(t)
        PROVE  \E k : WillType(k, o, d)'
    <2> DEFINE n == Kids[t][cursor[t]]
    <2>1. /\ n \in Task \ {Root} /\ Parent[n] = t /\ pc[n] = "idle"
          /\ object[t] \in Task /\ Digest[n] \in Image
      <3>1. cursor[t] \in DOMAIN Kids[t] /\ pc[t] = "walk" /\ cursor[t] \in Nat
        BY <1>1, <1>3, CursorInLoop DEF StartTask, TypeOK
      <3>2. n \in Task \ {Root} /\ Parent[n] = t /\ Digest[n] \in Image
        BY <3>1, KidFacts, GraphAssumption
      <3>3. pc[n] = "idle"
        BY <3>1 DEF Inv, Structure, BeyondCursorIdle
      <3>4. object[t] \in Task
        BY <1>1, <3>1 DEF Inv, Structure, WalkersHaveObjects, Walking, TypeOK
      <3>5. QED
        BY <3>2, <3>3, <3>4
    <2>2. /\ pc' = [pc EXCEPT ![n] = "lock"] /\ UNCHANGED object
          /\ cached' = [cached EXCEPT ![object[t]][Digest[n]] = "untyped"]
      BY <1>3 DEF StartTask, Store
    <2> HIDE DEF n
    <2>3. CASE o = object[t] /\ d = Digest[n]
      BY <1>1, <2>1, <2>2, <2>3 DEF WillType, TypeOK
    <2>4. CASE ~(o = object[t] /\ d = Digest[n])
      <3>1. cached[o][d] = "untyped"
        BY <1>1, <2>1, <2>2, <2>4 DEF TypeOK
      <3>2. PICK k : WillType(k, o, d)
        BY <1>2, <3>1
      <3>3. pc'[k] = pc[k]
        BY <1>1, <2>1, <2>2, <3>2 DEF WillType, TypeOK
      <3>4. QED
        BY <3>2, <3>3, StillTyping DEF WillType
    <2>5. QED
      BY <2>3, <2>4
  <1>4. ASSUME NEW t \in Task, RecordContent(t)
        PROVE  \E k : WillType(k, o, d)'
    <2> DEFINE n == Kids[t][cursor[t]]
    <2>1. n \in Task \ {Root} /\ pc[n] = "idle" /\ object[t] \in Task
      <3>1. cursor[t] \in DOMAIN Kids[t] /\ pc[t] = "walk" /\ cursor[t] \in Nat
        BY <1>1, <1>4, CursorInLoop DEF RecordContent, TypeOK
      <3>2. n \in Task \ {Root}
        BY <3>1, KidFacts
      <3>3. pc[n] = "idle"
        BY <3>1 DEF Inv, Structure, BeyondCursorIdle
      <3>4. object[t] \in Task
        BY <1>1, <3>1 DEF Inv, Structure, WalkersHaveObjects, Walking, TypeOK
      <3>5. QED
        BY <3>2, <3>3, <3>4
    <2>2. /\ pc' = [pc EXCEPT ![n] = "done"]
          /\ cached' = [cached EXCEPT ![object[t]][Digest[n]] = "content"]
      BY <1>4 DEF RecordContent, Store
    <2> HIDE DEF n
    <2>3. cached[o][d] = "untyped"
      BY <1>1, <2>1, <2>2 DEF TypeOK
    <2>4. PICK k : WillType(k, o, d)
      BY <1>2, <2>3
    <2>5. pc'[k] = pc[k]
      BY <1>1, <2>1, <2>2, <2>4 DEF WillType, TypeOK
    <2>6. QED
      BY <2>4, <2>5, StillTyping DEF WillType
  <1>5. ASSUME NEW t \in Task \ {Root}, Merge(t)
        PROVE  \E k : WillType(k, o, d)'
    <2> DEFINE p == Parent[t]
    <2>1. p \in Task /\ object[p] \in Task /\ Digest[t] \in Image
      BY <1>5, LocationFacts, TaskAssumption, GraphAssumption DEF Merge
    <2>2. /\ pc' = [pc EXCEPT ![t] = "done"]
          /\ cached' = [cached EXCEPT ![object[p]][Digest[t]] = TypeOf(t)]
      BY <1>5 DEF Merge, Store
    <2>3. TypeOf(t) # "untyped"
      BY DEF TypeOf
    <2>4. cached[o][d] = "untyped" /\ ~(o = object[p] /\ d = Digest[t])
      BY <1>1, <2>1, <2>2, <2>3 DEF TypeOK
    <2>5. PICK k : WillType(k, o, d)
      BY <1>2, <2>4
    <2>6. k # t /\ pc'[k] = pc[k]
      BY <1>1, <2>2, <2>4, <2>5 DEF WillType, TypeOK
    <2>7. QED
      BY <2>5, <2>6, StillTyping DEF WillType
  <1>6. ASSUME UNCHANGED cached,
               \A k \in Task \ {Root} :
                   pc[k] \notin {"idle", "done"} => pc'[k] \notin {"idle", "done"}
        PROVE  \E k : WillType(k, o, d)'
    BY <1>2, <1>6, StillTyping DEF WillType
  <1>7. ASSUME NEW t \in Task, Walk(t), ~StartTask(t), ~RecordContent(t)
        PROVE  \E k : WillType(k, o, d)'
    <2>1. UNCHANGED cached /\ pc[t] \in {"read", "walk"}
      BY <1>7 DEF Walk, ReadImagesLock, ReadFails, Receive, Return
    <2>2. \/ UNCHANGED pc
          \/ \E s \in {"walk", "done", "failed", "merge", "error"} :
                pc' = [pc EXCEPT ![t] = s] /\ (t # Root => s # "done")
      BY <1>7 DEF Walk, ReadImagesLock, ReadFails, Receive, Return
    <2>3. \A k \in Task \ {Root} :
              pc[k] \notin {"idle", "done"} => pc'[k] \notin {"idle", "done"}
      BY <1>1, <2>2 DEF TypeOK
    <2>4. QED
      BY <1>6, <2>1, <2>3
  <1>8. ASSUME NEW t \in Task \ {Root}, Fetch(t) \/ ReportError(t)
        PROVE  \E k : WillType(k, o, d)'
    <2>1. UNCHANGED cached
      BY <1>8 DEF Fetch, UseEntry, LockLocation, Take, Locate, LocateFails, Probe, ProbeFails,
                  ReportError
    <2>2. \E s \in Step \ {"idle", "done"} : pc' = [pc EXCEPT ![t] = s]
      <3>1. {"take1", "take2", "locate", "probe", "read", "merge", "error", "failed"}
                \subseteq Step \ {"idle", "done"}
        BY DEF Step, Critical, Probing, Walking, Finished
      <3>2. QED
        BY <1>1, <1>8, <3>1 DEF Fetch, UseEntry, LockLocation, Take, Locate, LocateFails, Probe,
                                ProbeFails, ReportError
    <2>3. \A k \in Task \ {Root} :
              pc[k] \notin {"idle", "done"} => pc'[k] \notin {"idle", "done"}
      BY <1>1, <2>2 DEF TypeOK
    <2>4. QED
      BY <1>6, <2>1, <2>3
  <1>9. CASE UNCHANGED vars
    BY <1>6, <1>9 DEF vars
  <1>10. QED
    BY <1>3, <1>4, <1>5, <1>7, <1>8, <1>9 DEF Next, Terminated, Run

\* No reference is left without a type when no task is left to give it one: what
\* NoteCopy reads through a nil pointer (*ref.IsBundle), also for a *Bundle that two
\* parents share and walk at the same time.
THEOREM TypesArrive == Spec => []UntypedIsPending
  <1>1. Init => UntypedIsPending
    BY DEF Init, UntypedIsPending
  <1>2. Inv /\ UntypedIsPending /\ [Next]_vars => UntypedIsPending'
    BY PendingStep
  <1>3. QED
    BY Invariance, <1>1, <1>2, PTL DEF Spec
================================================================================
