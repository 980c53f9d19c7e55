--------------------------- MODULE ImagesWalkProofs ---------------------------
(***************************************************************************)
(* What the concurrent walk returns, for every graph of bundles, every     *)
(* content of the registries and any number of failing calls: what each    *)
(* task hands to its parent accounts for exactly the part of the graph     *)
(* under it, and the walk implements the abstract one of ImagesWalk.       *)
(* It rests on the invariant Inv of BundleTraversalProofs.                 *)
(***************************************************************************)
EXTENDS BundleTraversalProofs

\* A task has no object before its fetch is over; an object is of the image it was
\* fetched for, and of no image of another digest; nobody is handed the root's object.
ObjectsMatch ==
    /\ \A t \in Task \ {Root} : pc[t] \in Unbuilt => object[t] = None
    /\ object[Root] = Root
    /\ \A t \in Task : object[t] # None =>
           /\ object[object[t]] = object[t]
           /\ Digest[object[t]] = Digest[t]
           /\ t # Root => object[t] # Root
    /\ \A l \in Location : entry[l] # None =>
           /\ object[entry[l]] = entry[l]
           /\ Digest[entry[l]] = l[2]
           /\ entry[l] # Root

\* The tasks that have reported to t, whether t has received it or not.
Queued(t) == {errChan[t][i] : i \in DOMAIN errChan[t]}

\* Only ended kids report; an activation goes on, and returns, after good news only.
ReportsAreTrue ==
    \A t \in Task :
        /\ heard[t] \cup Queued(t) \subseteq KidSet(t)
        /\ \A k \in heard[t] \cup Queued(t) : pc[k] \in Finished
        /\ pc[t] \in {"walk", "merge", "done"} => \A k \in heard[t] : pc[k] = "done"

\* A task that returns what it found leaves nothing unfinished under it.
BelowIsDone ==
    \A t \in Task : pc[t] \in {"merge", "done"} => \A u \in Below[t] : pc[u] = "done"

\* The part of the graph under t that has been merged into the activation of t.
DoneKids(t) == {k \in KidSet(t) : pc[k] = "done"}
Covered(t)  == DoneKids(t) \cup UNION {Below[k] : k \in DoneKids(t)}

\* The names an activation has collected: all that the ImagesLocks give, and one at
\* least for every image it covers.
RefsMatch ==
    \A t \in Task :
        /\ refs[t] \subseteq {NameOf(u) : u \in Task \ {Root}}
        /\ {n[2] : n \in refs[t]} = {Digest[u] : u \in Covered(t)}

\* The bundles an activation has collected: one object at least for every bundle it
\* covers, its own included.
BundlesMatch ==
    \A t \in Task :
        /\ \A o \in bundles[t] : object[o] = o
        /\ pc[t] \in Unbuilt \cup {"read"} => bundles[t] = {}
        /\ pc[t] \in Walking => Digest[t] \in BundleImage
        /\ pc[t] \in {"walk", "merge", "done"} =>
               {Digest[o] : o \in bundles[t]} = {Digest[u] : u \in {t} \cup Covered(t)} \cap BundleImage

\* An imageRefCache holds an entry for every task started from its ImagesLock, and
\* for nothing that the ImagesLock does not list.
CachesMatch ==
    /\ \A t \in Task \ {Root} : pc[t] # "idle" =>
           cached[object[Parent[t]]][Digest[t]] # "absent"
    /\ \A o \in Task, d \in Image : cached[o][d] # "absent" =>
           d \in {Digest[k] : k \in KidSet(o)}

\* A task that gives up has a reason.
NotFound(t) == /\ t # Root /\ pc[t] \in {"error", "failed"}
               /\ \A r \in {Near(t), Origin[t]} : ~Holds(r, t)
GivingUpHasACause ==
    (\E t \in Task : pc[t] \in {"error", "failed"}) => faults > 0 \/ \E t \in Task : NotFound(t)

Result == /\ ObjectsMatch /\ ReportsAreTrue /\ BelowIsDone /\ RefsMatch /\ BundlesMatch
          /\ CachesMatch /\ TypesAreRight /\ GivingUpHasACause
--------------------------------------------------------------------------------
(* What the steps do *)

\* The task at the cursor of a loop has not started.
LEMMA AtCursor ==
    ASSUME Inv, NEW t \in Task, pc[t] = "walk", cursor[t] <= Len(Kids[t]),
           NEW k, k = Kids[t][cursor[t]]
    PROVE  /\ k \in Task \ {Root} /\ k \in KidSet(t) /\ Parent[k] = t /\ pc[k] = "idle" /\ k # t
           /\ object[t] \in Task /\ object[t] # None /\ Digest[k] \in Image
  <1>1. cursor[t] \in DOMAIN Kids[t]
    BY CursorInLoop DEF Inv
  <1>2. k \in Task \ {Root} /\ Parent[k] = t /\ k \in KidSet(t)
    BY <1>1, KidFacts DEF KidSet
  <1>3. pc[k] = "idle"
    <2>1. cursor[t] >= cursor[t]
      BY DEF Inv, TypeOK
    <2>2. QED
      BY <1>1, <2>1 DEF Inv, Structure, BeyondCursorIdle
  <1>4. object[t] \in Task /\ object[t] # None
    BY DEF Inv, TypeOK, Structure, WalkersHaveObjects, Walking
  <1>5. QED
    BY <1>2, <1>3, <1>4, GraphAssumption

\* A step of RegistryFetcher.Bundle moves its task on and leaves the walk alone.
LEMMA FetchEffect ==
    ASSUME Inv, NEW t \in Task \ {Root}, Fetch(t)
    PROVE  /\ pc[t] \in {"lock"} \cup Critical
           /\ \E s \in Critical \cup {AfterFetch(t), "error"} : pc' = [pc EXCEPT ![t] = s]
           /\ UNCHANGED <<cached, cursor, errChan, heard, bundles, refs>>
  <1> USE DEF fetcherVars, walkVars, Goto, Abandon, Critical, Probing
  <1>1. CASE UseEntry(t)
    BY <1>1 DEF UseEntry
  <1>2. CASE LockLocation(t)
    BY <1>2 DEF LockLocation
  <1>3. CASE Take(t)
    BY <1>3 DEF Take
  <1>4. CASE Locate(t)
    BY <1>4 DEF Locate
  <1>5. CASE LocateFails(t) \/ ProbeFails(t)
    BY <1>5 DEF LocateFails, ProbeFails
  <1>6. CASE Probe(t)
    BY <1>6 DEF Probe
  <1>7. QED
    BY <1>1, <1>2, <1>3, <1>4, <1>5, <1>6 DEF Fetch

\* Only a fetch that succeeds gives its task an object, and only Probe a new one.
LEMMA ObjectEffect ==
    ASSUME Inv, [Next]_vars
    PROVE  \/ UNCHANGED <<object, entry>>
           \/ \E t \in Task \ {Root} : UseEntry(t) \/ Probe(t)
  <1> USE DEF fetcherVars, walkVars
  <1>1. ASSUME NEW t \in Task, LockLocation(t) \/ Take(t) \/ Locate(t) \/ LocateFails(t) \/ ProbeFails(t)
        PROVE  UNCHANGED <<object, entry>>
    BY <1>1 DEF LockLocation, Take, Locate, LocateFails, ProbeFails
  <1>2. ASSUME NEW t \in Task, Walk(t) \/ Merge(t) \/ ReportError(t)
        PROVE  UNCHANGED <<object, entry>>
    BY <1>2 DEF Walk, ReadImagesLock, ReadFails, StartTask, RecordContent, Receive, Return,
                Merge, ReportError
  <1>3. QED
    BY <1>1, <1>2 DEF Next, Terminated, Run, Fetch, vars

\* A task that is not fetching yet, or still, was so before the step.
LEMMA UnbuiltBefore ==
    ASSUME Inv, [Next]_vars, NEW u \in Task, pc'[u] \in Unbuilt
    PROVE  pc[u] \in Unbuilt
  <1> USE DEF fetcherVars, walkVars, Goto, Abandon, Unbuilt, Critical, Probing
  <1>1. pc \in [Task -> Step]
    BY DEF Inv, TypeOK
  <1>2. ASSUME NEW t \in Task \ {Root}, Fetch(t)
        PROVE  pc[u] \in Unbuilt
    BY <1>1, <1>2, FetchEffect
  <1>3. ASSUME NEW t \in Task, ReadImagesLock(t) \/ ReadFails(t) \/ Receive(t) \/ Return(t)
        PROVE  pc[u] \in Unbuilt
    BY <1>1, <1>3 DEF ReadImagesLock, ReadFails, Receive, Return
  <1>4. ASSUME NEW t \in Task, StartTask(t) \/ RecordContent(t)
        PROVE  pc[u] \in Unbuilt
    <2>1. Kids[t][cursor[t]] \in Task /\ pc[Kids[t][cursor[t]]] = "idle"
      BY <1>4, AtCursor DEF StartTask, RecordContent
    <2>2. QED
      BY <1>1, <1>4, <2>1 DEF StartTask, RecordContent
  <1>5. ASSUME NEW t \in Task, Merge(t) \/ ReportError(t)
        PROVE  pc[u] \in Unbuilt
    BY <1>1, <1>5 DEF Merge, ReportError
  <1>6. QED
    BY <1>2, <1>3, <1>4, <1>5 DEF Next, Terminated, Run, Walk, vars
--------------------------------------------------------------------------------
(* Objects are of the image they were fetched for *)

\* A fetch that ends gives its task an object of the right image.
LEMMA ObjectGiven ==
    ASSUME Inv, ObjectsMatch, NEW t \in Task \ {Root}, NEW o \in Task \ {Root},
           object[t] = None, object' = [object EXCEPT ![t] = o],
           o = t \/ object[o] = o, Digest[o] = Digest[t],
           \/ UNCHANGED entry
           \/ /\ o = t /\ PrimaryLocation(t) \in Location
              /\ entry' = [entry EXCEPT ![PrimaryLocation(t)] = t],
           pc'[t] \notin Unbuilt,
           \A u \in Task : pc'[u] \in Unbuilt => pc[u] \in Unbuilt
    PROVE  ObjectsMatch'
  <1> USE TaskAssumption
  <1>1. TypeOK /\ None \notin Task
    BY DEF Inv
  <1>2. object'[t] = o /\ \A u \in Task : u # t => object'[u] = object[u]
    BY <1>1 DEF TypeOK
  <1>3. object'[o] = o /\ \A u \in Task : object[u] = u => object'[u] = u
    BY <1>1, <1>2
  <1>4. ASSUME NEW u \in Task \ {Root}, pc'[u] \in Unbuilt
        PROVE  object'[u] = None
    BY <1>2, <1>4 DEF ObjectsMatch
  <1>5. object'[Root] = Root
    BY <1>2 DEF ObjectsMatch
  <1>6. ASSUME NEW u \in Task, object'[u] # None
        PROVE  /\ object'[object'[u]] = object'[u]
               /\ Digest[object'[u]] = Digest[u]
               /\ u # Root => object'[u] # Root
    <2>1. CASE u = t
      BY <1>2, <1>3, <2>1
    <2>2. CASE u # t
      <3>1. object'[u] = object[u] /\ object[u] \in Task /\ object[u] # None
        BY <1>1, <1>2, <1>6, <2>2 DEF TypeOK
      <3>2. object[object[u]] = object[u] /\ Digest[object[u]] = Digest[u]
            /\ (u # Root => object[u] # Root)
        BY <3>1 DEF ObjectsMatch
      <3>3. QED
        BY <1>3, <3>1, <3>2
    <2>3. QED
      BY <2>1, <2>2
  <1>7. ASSUME NEW l \in Location, entry'[l] # None
        PROVE  object'[entry'[l]] = entry'[l] /\ Digest[entry'[l]] = l[2] /\ entry'[l] # Root
    <2>1. CASE entry'[l] = entry[l]
      <3>1. entry[l] \in Task /\ object[entry[l]] = entry[l] /\ Digest[entry[l]] = l[2]
            /\ entry[l] # Root
        BY <1>1, <1>7, <2>1 DEF TypeOK, ObjectsMatch
      <3>2. QED
        BY <1>3, <2>1, <3>1
    <2>2. CASE entry'[l] # entry[l]
      <3>1. l = PrimaryLocation(t) /\ entry'[l] = t /\ o = t
        BY <1>1, <2>2 DEF TypeOK
      <3>2. QED
        BY <1>3, <3>1 DEF PrimaryLocation
    <2>3. QED
      BY <2>1, <2>2
  <1>8. QED
    BY <1>4, <1>5, <1>6, <1>7 DEF ObjectsMatch

\* Every step keeps the objects with their images.
LEMMA ObjectsStep ==
    ASSUME Inv, ObjectsMatch, [Next]_vars
    PROVE  ObjectsMatch'
  <1>1. \A u \in Task : pc'[u] \in Unbuilt => pc[u] \in Unbuilt
    BY UnbuiltBefore
  <1>2. CASE UNCHANGED <<object, entry>>
    BY <1>1, <1>2 DEF ObjectsMatch
  <1>3. ASSUME NEW t \in Task \ {Root}, UseEntry(t) \/ Probe(t)
        PROVE  ObjectsMatch'
    <2> DEFINE l == PrimaryLocation(t)
    <2>1. TypeOK /\ pc[t] \in Unbuilt \ {"idle"}
      BY <1>3 DEF Inv, UseEntry, Probe, Unbuilt, Critical, Probing
    <2>2. l \in Location /\ object[t] = None
      BY <2>1, LocationFacts DEF ObjectsMatch
    <2>3. pc'[t] = AfterFetch(t) /\ AfterFetch(t) \notin Unbuilt
      BY <1>3, <2>1 DEF UseEntry, Probe, Goto, AfterFetch, Unbuilt, Critical, Probing, TypeOK
    <2>4. CASE UseEntry(t)
      <3>1. entry[l] \in Task /\ entry[l] # None
        BY <2>1, <2>2, <2>4 DEF UseEntry, IsCached, TypeOK
      <3>2. entry[l] # Root /\ object[entry[l]] = entry[l] /\ Digest[entry[l]] = l[2]
        BY <2>2, <3>1 DEF ObjectsMatch
      <3>3. l[2] = Digest[t]
        BY DEF PrimaryLocation
      <3>4. object' = [object EXCEPT ![t] = entry[l]] /\ UNCHANGED entry
        BY <2>4 DEF UseEntry, fetcherVars
      <3>5. QED
        BY <1>1, <2>2, <2>3, <3>1, <3>2, <3>3, <3>4, ObjectGiven
    <2>5. CASE Probe(t)
      BY <1>1, <2>2, <2>3, <2>5, ObjectGiven DEF Probe
    <2>6. QED
      BY <1>3, <2>4, <2>5
  <1>4. QED
    BY <1>2, <1>3, ObjectEffect

\* Once a task has its object it keeps it.
LEMMA ObjectKept ==
    ASSUME Inv, ObjectsMatch, [Next]_vars, NEW u \in Task, object[u] # None
    PROVE  object'[u] = object[u]
  <1>1. ASSUME NEW t \in Task \ {Root}, UseEntry(t) \/ Probe(t)
        PROVE  object'[u] = object[u]
    <2>1. t # u
      BY <1>1 DEF UseEntry, Probe, Unbuilt, Critical, Probing, ObjectsMatch
    <2>2. QED
      BY <1>1, <2>1 DEF UseEntry, Probe, Inv, TypeOK
  <1>2. QED
    BY <1>1, ObjectEffect
--------------------------------------------------------------------------------
(* Reports *)

\* What has ended stays ended, and who gives up does nothing else.
LEMMA EndsAreFinal ==
    ASSUME Inv, [Next]_vars, NEW u \in Task
    PROVE  /\ pc[u] \in Finished => pc'[u] = pc[u]
           /\ pc[u] \in {"error", "failed"} => pc'[u] \in {"error", "failed"}
  <1> USE DEF fetcherVars, walkVars, Goto, Abandon, Finished
  <1>1. pc \in [Task -> Step] /\ pc[Root] # "error"
    BY RootIsApart DEF Inv, TypeOK
  <1>2. ASSUME NEW t \in Task \ {Root}, Fetch(t)
        PROVE  pc[u] \in {"error"} \cup Finished => pc'[u] = pc[u]
    BY <1>1, <1>2, FetchEffect DEF Critical, Probing
  <1>3. ASSUME NEW t \in Task, ReadImagesLock(t) \/ ReadFails(t) \/ Receive(t) \/ Return(t)
        PROVE  pc[u] \in {"error"} \cup Finished => pc'[u] = pc[u]
    BY <1>1, <1>3 DEF ReadImagesLock, ReadFails, Receive, Return
  <1>4. ASSUME NEW t \in Task, StartTask(t) \/ RecordContent(t)
        PROVE  pc[u] \in {"error"} \cup Finished => pc'[u] = pc[u]
    <2>1. Kids[t][cursor[t]] \in Task /\ pc[Kids[t][cursor[t]]] = "idle"
      BY <1>4, AtCursor DEF StartTask, RecordContent
    <2>2. QED
      BY <1>1, <1>4, <2>1 DEF StartTask, RecordContent
  <1>5. ASSUME NEW t \in Task, Merge(t)
        PROVE  pc[u] \in {"error"} \cup Finished => pc'[u] = pc[u]
    BY <1>1, <1>5 DEF Merge
  <1>6. ASSUME NEW t \in Task, ReportError(t)
        PROVE  /\ pc[u] \in Finished => pc'[u] = pc[u]
               /\ pc[u] = "error" => pc'[u] \in {"error", "failed"}
    BY <1>1, <1>6 DEF ReportError
  <1>7. QED
    BY <1>2, <1>3, <1>4, <1>5, <1>6 DEF Next, Terminated, Run, Walk, vars

\* Before a task reads its ImagesLock nothing has been reported to it.
LEMMA NoReportsYet ==
    ASSUME Inv, ReportsAreTrue, NEW t \in Task, pc[t] \in Unbuilt \cup {"read"}
    PROVE  heard[t] = {} /\ Queued(t) = {}
  <1>1. \A k \in KidSet(t) : k \in Task \ {Root} /\ Parent[k] = t
    BY TaskAssumption
  <1>2. \A k \in KidSet(t) : pc[k] = "idle"
    BY <1>1 DEF Inv, Structure, ParentsWalk
  <1>3. QED
    BY <1>2 DEF ReportsAreTrue, Finished

\* A report is sent by a task that ends with it; only Receive takes one out.
LEMMA ReportEffect ==
    ASSUME Inv, [Next]_vars
    PROVE  \/ UNCHANGED <<errChan, heard>>
           \/ \E t \in Task : Receive(t)
           \/ \E k \in Task \ {Root} :
                 /\ errChan' = [errChan EXCEPT ![Parent[k]] = Append(@, k)]
                 /\ UNCHANGED heard /\ pc'[k] \in Finished
  <1> USE DEF fetcherVars, walkVars, Goto, Finished
  <1>1. pc \in [Task -> Step]
    BY DEF Inv, TypeOK
  <1>2. ASSUME NEW t \in Task \ {Root}, Fetch(t)
        PROVE  UNCHANGED <<errChan, heard>>
    BY <1>2, FetchEffect
  <1>3. ASSUME NEW t \in Task, ReadImagesLock(t) \/ ReadFails(t) \/ StartTask(t) \/ Return(t)
        PROVE  UNCHANGED <<errChan, heard>>
    BY <1>3 DEF ReadImagesLock, ReadFails, StartTask, Return
  <1>4. ASSUME NEW t \in Task, RecordContent(t)
        PROVE  \E k \in Task \ {Root} :
                 /\ errChan' = [errChan EXCEPT ![Parent[k]] = Append(@, k)]
                 /\ UNCHANGED heard /\ pc'[k] \in Finished
    <2> DEFINE k == Kids[t][cursor[t]]
    <2>1. k \in Task \ {Root} /\ Parent[k] = t
      BY <1>4, AtCursor DEF RecordContent
    <2>2. errChan' = [errChan EXCEPT ![t] = Append(@, k)] /\ UNCHANGED heard
          /\ pc' = [pc EXCEPT ![k] = "done"]
      BY <1>4 DEF RecordContent
    <2> HIDE DEF k
    <2>3. QED
      BY <1>1, <2>1, <2>2
  <1>5. ASSUME NEW t \in Task \ {Root}, Merge(t) \/ ReportError(t)
        PROVE  /\ errChan' = [errChan EXCEPT ![Parent[t]] = Append(@, t)]
               /\ UNCHANGED heard /\ pc'[t] \in Finished
    BY <1>1, <1>5 DEF Merge, ReportError
  <1>6. QED
    BY <1>2, <1>3, <1>4, <1>5 DEF Next, Terminated, Run, Walk, vars

\* Every step keeps the reports true.
LEMMA ReportsStep ==
    ASSUME Inv, ReportsAreTrue, [Next]_vars
    PROVE  ReportsAreTrue'
  <1>1. TypeOK /\ \A t \in Task : KidSet(t) \subseteq Task
    BY TaskAssumption DEF Inv
  <1>2. \A k \in Task : pc[k] \in Finished => pc'[k] = pc[k]
    BY EndsAreFinal
  <1>3. ASSUME NEW t \in Task, pc'[t] \in {"walk", "merge", "done"}, NEW k \in heard[t]
        PROVE  pc'[k] = "done"
    <2>1. pc[t] \in Step /\ pc[t] \notin {"error", "failed"}
      BY <1>1, <1>3, EndsAreFinal DEF TypeOK
    <2>2. pc[t] \in {"walk", "merge", "done"}
      BY <1>3, <2>1, NoReportsYet DEF Step, Unbuilt, Critical, Walking, Finished
    <2>3. k \in Task /\ pc[k] = "done"
      BY <1>1, <1>3, <2>2 DEF ReportsAreTrue
    <2>4. QED
      BY <1>2, <2>3 DEF Finished
  <1>4. ASSUME NEW t \in Task, NEW K, K \subseteq KidSet(t), \A k \in K : pc[k] \in Finished
        PROVE  \A k \in K : pc'[k] \in Finished
    BY <1>1, <1>2, <1>4
  <1>5. CASE UNCHANGED <<errChan, heard>>
    BY <1>1, <1>2, <1>3, <1>5 DEF ReportsAreTrue, Queued
  <1>6. ASSUME NEW r \in Task, Receive(r)
        PROVE  ReportsAreTrue'
    <2> DEFINE h == Head(errChan[r])
    <2>1. errChan[r] \in Seq(Task) /\ errChan[r] # <<>>
      BY <1>1, <1>6 DEF Receive, TypeOK
    <2>2. h \in Queued(r) /\ {Tail(errChan[r])[i] : i \in DOMAIN Tail(errChan[r])} \subseteq Queued(r)
      <3>1. 1 \in DOMAIN errChan[r] /\ h = errChan[r][1]
        BY <2>1
      <3>2. \A i \in DOMAIN Tail(errChan[r]) :
                i + 1 \in DOMAIN errChan[r] /\ Tail(errChan[r])[i] = errChan[r][i + 1]
        BY <2>1
      <3>3. QED
        BY <3>1, <3>2 DEF Queued
    <2>3. /\ errChan' = [errChan EXCEPT ![r] = Tail(@)]
          /\ heard' = [heard EXCEPT ![r] = @ \cup {h}]
          /\ pc[h] = "failed" => pc'[r] \in {"error", "failed"}
      BY <1>1, <1>6 DEF Receive, IsError, Abandon, Goto, TypeOK
    <2>4. h \in KidSet(r) /\ pc[h] \in Finished
      BY <2>2 DEF ReportsAreTrue
    <2> HIDE DEF h
    <2>5. ASSUME NEW t \in Task
          PROVE  /\ Queued(t)' \subseteq Queued(t)
                 /\ heard'[t] = IF t = r THEN heard[t] \cup {h} ELSE heard[t]
      <3>1. errChan'[t] = IF t = r THEN Tail(errChan[r]) ELSE errChan[t]
        BY <1>1, <2>3 DEF TypeOK
      <3>2. Queued(t)' \subseteq Queued(t)
        BY <2>2, <3>1 DEF Queued
      <3>3. heard'[t] = IF t = r THEN heard[t] \cup {h} ELSE heard[t]
        BY <1>1, <2>3 DEF TypeOK
      <3>4. QED
        BY <3>2, <3>3
    <2>6. ASSUME NEW t \in Task
          PROVE  /\ heard'[t] \cup Queued(t)' \subseteq KidSet(t)
                 /\ \A k \in heard'[t] \cup Queued(t)' : pc'[k] \in Finished
      BY <1>1, <1>2, <2>4, <2>5 DEF ReportsAreTrue
    <2>7. ASSUME NEW t \in Task, pc'[t] \in {"walk", "merge", "done"}, NEW k \in heard'[t]
          PROVE  pc'[k] = "done"
      <3>1. CASE k \in heard[t]
        BY <1>3, <2>7, <3>1
      <3>2. CASE k \notin heard[t]
        <4>1. t = r /\ k = h
          BY <2>5, <2>7, <3>2
        <4>2. pc[h] = "done" /\ h \in Task
          BY <1>1, <2>3, <2>4, <2>7, <4>1 DEF Finished
        <4>3. QED
          BY <1>2, <4>1, <4>2 DEF Finished
      <3>3. QED
        BY <3>1, <3>2
    <2>8. QED
      BY <2>6, <2>7 DEF ReportsAreTrue
  <1>7. ASSUME NEW k \in Task \ {Root},
               errChan' = [errChan EXCEPT ![Parent[k]] = Append(@, k)],
               UNCHANGED heard, pc'[k] \in Finished
        PROVE  ReportsAreTrue'
    <2>1. Parent[k] \in Task /\ k \in KidSet(Parent[k])
      BY TaskAssumption
    <2>2. errChan[Parent[k]] \in Seq(Task)
      BY <1>1, <2>1 DEF TypeOK
    <2>3. \A i \in DOMAIN Append(errChan[Parent[k]], k) :
              \/ Append(errChan[Parent[k]], k)[i] = k
              \/ i \in DOMAIN errChan[Parent[k]]
                 /\ Append(errChan[Parent[k]], k)[i] = errChan[Parent[k]][i]
      BY <2>2
    <2>4. ASSUME NEW t \in Task
          PROVE  Queued(t)' \subseteq Queued(t) \cup (IF t = Parent[k] THEN {k} ELSE {})
      BY <1>1, <1>7, <2>1, <2>3 DEF Queued, TypeOK
    <2>5. ASSUME NEW t \in Task
          PROVE  /\ heard'[t] \cup Queued(t)' \subseteq KidSet(t)
                 /\ \A u \in heard'[t] \cup Queued(t)' : pc'[u] \in Finished
      BY <1>1, <1>2, <1>7, <2>1, <2>4 DEF ReportsAreTrue
    <2>6. QED
      BY <1>3, <1>7, <2>5 DEF ReportsAreTrue
  <1>8. QED
    BY <1>5, <1>6, <1>7, ReportEffect
--------------------------------------------------------------------------------
(* A task that returns has everything under it behind it *)

\* What the locations image marks as content is none of the bundles.
LEMMA ContentIsNoBundle ==
    ASSUME Inv, NEW t \in Task, pc[t] = "walk", cursor[t] <= Len(Kids[t]),
           IsKnownContent(Kids[t][cursor[t]])
    PROVE  Digest[Kids[t][cursor[t]]] \notin BundleImage
  <1> DEFINE k == Kids[t][cursor[t]]
             o == object[t]
  <1>1. k \in Task \ {Root} /\ Parent[k] = t /\ o \in Task
    BY AtCursor
  <1>2. NameOf(k) \in KnownContent[repo[o], Digest[o]]
    BY <1>1 DEF IsKnownContent
  <1>3. repo[o] \in Repo /\ Digest[o] \in Image
    BY <1>1, GraphAssumption DEF Inv, TypeOK
  <1>4. KnownContent[repo[o], Digest[o]] \subseteq Repo \X (Image \ BundleImage)
    BY <1>3, RegistryAssumption
  <1>5. QED
    BY <1>2, <1>4 DEF NameOf

\* An image that is no bundle has nothing under it.
LEMMA NothingUnderContent ==
    ASSUME NEW t \in Task, Digest[t] \notin BundleImage
    PROVE  KidSet(t) = {} /\ Below[t] = {}
  <1>1. Kids[t] = <<>>
    BY GraphAssumption
  <1>2. KidSet(t) = {}
    BY <1>1 DEF KidSet
  <1>3. QED
    BY <1>2, GraphAssumption

\* The loop over errChan ends when every task it started has ended well: counting
\* the reports is enough.
LEMMA CountingIsEnough ==
    ASSUME Inv, ReportsAreTrue, NEW t \in Task, pc[t] = "walk", HeardAll(t)
    PROVE  \A k \in KidSet(t) : pc[k] = "done"
  <1> DEFINE n == Len(Kids[t])
  <1>1. Kids[t] \in Seq(Task) /\ n \in Nat /\ DOMAIN Kids[t] = 1..n
    BY TaskAssumption
  <1>2. IsFiniteSet(1..n) /\ Cardinality(1..n) = n
    BY <1>1, FS_Interval
  <1>3. KidSet(t) = {Kids[t][i] : i \in 1..n}
    BY <1>1 DEF KidSet
  <1>4. IsFiniteSet(KidSet(t)) /\ Cardinality(KidSet(t)) <= n
    <2> DEFINE f == [i \in 1..n |-> Kids[t][i]]
    <2>1. f \in Surjection(1..n, KidSet(t))
      BY <1>3 DEF Surjection
    <2> HIDE DEF f
    <2>2. QED
      BY <1>2, <2>1, FS_Surjection
  <1>5. heard[t] \subseteq KidSet(t) /\ Cardinality(heard[t]) = n
    BY DEF ReportsAreTrue, HeardAll
  <1>6. heard[t] = KidSet(t)
    <2>1. Cardinality(KidSet(t)) \in Nat
      BY <1>4, FS_CardinalityType
    <2>2. Cardinality(heard[t]) <= Cardinality(KidSet(t))
          /\ (Cardinality(heard[t]) = Cardinality(KidSet(t)) => heard[t] = KidSet(t))
      BY <1>4, <1>5, FS_Subset
    <2>3. QED
      BY <1>1, <1>4, <1>5, <2>1, <2>2
  <1>7. QED
    BY <1>6 DEF ReportsAreTrue

\* How a task comes to return what it found: it is no bundle, or it heard everything.
LEMMA HowTasksReturn ==
    ASSUME Inv, [Next]_vars, NEW u \in Task, pc'[u] \in {"merge", "done"},
           pc[u] \notin {"merge", "done"}
    PROVE  \/ Digest[u] \notin BundleImage /\ pc[u] \in Unbuilt
           \/ pc[u] = "walk" /\ HeardAll(u) /\ (pc'[u] = "done" <=> u = Root)
  <1> USE DEF fetcherVars, walkVars, Goto, Abandon
  <1>1. pc \in [Task -> Step]
    BY DEF Inv, TypeOK
  <1>2. ASSUME NEW t \in Task \ {Root}, Fetch(t)
        PROVE  Digest[u] \notin BundleImage /\ pc[u] \in Unbuilt
    <2>1. PICK s \in Critical \cup {AfterFetch(t), "error"} : pc' = [pc EXCEPT ![t] = s]
      BY <1>2, FetchEffect
    <2>2. u = t /\ s \in {"merge", "done"}
      BY <1>1, <2>1
    <2>3. s = AfterFetch(t)
      BY <2>2 DEF Critical, Probing
    <2>4. pc[t] \in Unbuilt
      BY <1>2, FetchEffect DEF Unbuilt
    <2>5. QED
      BY <2>2, <2>3, <2>4 DEF AfterFetch
  <1>3. ASSUME NEW t \in Task, ReadImagesLock(t) \/ ReadFails(t) \/ Receive(t) \/ StartTask(t)
        PROVE  FALSE
    <2>1. CASE StartTask(t)
      <3>1. Kids[t][cursor[t]] \in Task
        BY <2>1, AtCursor DEF StartTask
      <3>2. QED
        BY <1>1, <2>1, <3>1 DEF StartTask
    <2>2. CASE ReadImagesLock(t) \/ ReadFails(t) \/ Receive(t)
      BY <1>1, <2>2 DEF ReadImagesLock, ReadFails, Receive
    <2>3. QED
      BY <1>3, <2>1, <2>2
  <1>4. ASSUME NEW t \in Task, RecordContent(t)
        PROVE  Digest[u] \notin BundleImage /\ pc[u] \in Unbuilt
    <2>1. u = Kids[t][cursor[t]] /\ pc[u] = "idle"
      BY <1>1, <1>4, AtCursor DEF RecordContent
    <2>2. QED
      BY <1>4, <2>1, ContentIsNoBundle DEF RecordContent, Unbuilt
  <1>5. ASSUME NEW t \in Task, Return(t)
        PROVE  pc[u] = "walk" /\ HeardAll(u) /\ (pc'[u] = "done" <=> u = Root)
    BY <1>1, <1>5 DEF Return
  <1>6. ASSUME NEW t \in Task, Merge(t) \/ ReportError(t)
        PROVE  FALSE
    BY <1>1, <1>6 DEF Merge, ReportError
  <1>7. QED
    BY <1>2, <1>3, <1>4, <1>5, <1>6 DEF Next, Terminated, Run, Walk, vars

\* Every step keeps returned tasks with nothing unfinished under them.
LEMMA BelowStep ==
    ASSUME Inv, ReportsAreTrue, BelowIsDone, [Next]_vars
    PROVE  BelowIsDone'
  <1> SUFFICES ASSUME NEW t \in Task, pc'[t] \in {"merge", "done"}
               PROVE  \A u \in Below[t] : pc'[u] = "done"
    BY DEF BelowIsDone
  <1>1. \A u \in Below[t] : u \in Task
    BY GraphAssumption
  <1>2. CASE \A u \in Below[t] : pc[u] = "done"
    BY <1>1, <1>2, EndsAreFinal DEF Finished
  <1>3. CASE pc[t] \in {"merge", "done"}
    BY <1>2, <1>3 DEF BelowIsDone
  <1>4. CASE Digest[t] \notin BundleImage
    BY <1>4, NothingUnderContent
  <1>5. CASE pc[t] = "walk" /\ HeardAll(t)
    <2>1. \A k \in KidSet(t) : k \in Task /\ pc[k] = "done"
      BY <1>5, CountingIsEnough, TaskAssumption
    <2>2. \A k \in KidSet(t) : \A u \in Below[k] : pc[u] = "done"
      BY <2>1 DEF BelowIsDone
    <2>3. Below[t] = KidSet(t) \cup UNION {Below[k] : k \in KidSet(t)}
      BY GraphAssumption
    <2>4. QED
      BY <1>2, <2>1, <2>2, <2>3
  <1>6. QED
    BY <1>3, <1>4, <1>5, HowTasksReturn
--------------------------------------------------------------------------------
(* Names *)

\* The images of a set of tasks.
Images(S) == {Digest[u] : u \in S}

\* A task of which every kid is done covers all that is under it.
LEMMA AllCovered ==
    ASSUME NEW t \in Task, \A u \in Below[t] : pc[u] = "done"
    PROVE  Covered(t) = Below[t]
  <1>1. Below[t] = KidSet(t) \cup UNION {Below[k] : k \in KidSet(t)}
    BY GraphAssumption
  <1>2. DoneKids(t) = KidSet(t)
    BY <1>1 DEF DoneKids
  <1>3. QED
    BY <1>1, <1>2 DEF Covered

\* When one task other than the root is done, its parent covers it and what is under it.
LEMMA CoverGrows ==
    ASSUME TypeOK, NEW k \in Task \ {Root}, pc' = [pc EXCEPT ![k] = "done"], NEW t \in Task
    PROVE  Covered(t)' = IF t = Parent[k] THEN Covered(t) \cup {k} \cup Below[k] ELSE Covered(t)
  <1>1. \A u \in Task : pc'[u] = IF u = k THEN "done" ELSE pc[u]
    BY DEF TypeOK
  <1>2. KidSet(t) \subseteq Task /\ (k \in KidSet(t) <=> t = Parent[k])
    BY TaskAssumption
  <1>3. DoneKids(t)' = IF t = Parent[k] THEN DoneKids(t) \cup {k} ELSE DoneKids(t)
    BY <1>1, <1>2 DEF DoneKids
  <1>4. QED
    BY <1>3 DEF Covered

\* A step after which the same kids are done covers the same.
LEMMA CoverStays ==
    ASSUME \A u \in Task \ {Root} : pc'[u] = "done" <=> pc[u] = "done", NEW t \in Task
    PROVE  Covered(t)' = Covered(t)
  <1>1. DoneKids(t)' = DoneKids(t)
    BY TaskAssumption DEF DoneKids
  <1>2. QED
    BY <1>1 DEF Covered

\* Only two actions add to what a parent has collected, and they end a task.
LEMMA CollectEffect ==
    ASSUME Inv, [Next]_vars
    PROVE  \/ /\ UNCHANGED refs
              /\ \A u \in Task \ {Root} : pc'[u] = "done" <=> pc[u] = "done"
           \/ \E t \in Task \ {Root} : Merge(t)
           \/ \E t \in Task : RecordContent(t)
  <1> USE DEF fetcherVars, walkVars, Goto, Abandon
  <1>1. pc \in [Task -> Step]
    BY DEF Inv, TypeOK
  <1>2. ASSUME NEW t \in Task \ {Root}, Fetch(t)
        PROVE  /\ UNCHANGED refs
               /\ \A u \in Task \ {Root} : pc'[u] = "done" <=> pc[u] = "done"
    BY <1>1, <1>2, FetchEffect DEF AfterFetch, Critical, Probing
  <1>3. ASSUME NEW t \in Task, ReadImagesLock(t) \/ ReadFails(t) \/ Receive(t) \/ Return(t)
        PROVE  /\ UNCHANGED refs
               /\ \A u \in Task \ {Root} : pc'[u] = "done" <=> pc[u] = "done"
    BY <1>1, <1>3 DEF ReadImagesLock, ReadFails, Receive, Return
  <1>4. ASSUME NEW t \in Task, StartTask(t) \/ (t # Root /\ ReportError(t))
        PROVE  /\ UNCHANGED refs
               /\ \A u \in Task \ {Root} : pc'[u] = "done" <=> pc[u] = "done"
    <2>1. CASE StartTask(t)
      <3>1. Kids[t][cursor[t]] \in Task /\ pc[Kids[t][cursor[t]]] = "idle"
        BY <2>1, AtCursor DEF StartTask
      <3>2. QED
        BY <1>1, <2>1, <3>1 DEF StartTask
    <2>2. CASE ReportError(t)
      BY <1>1, <2>2 DEF ReportError
    <2>3. QED
      BY <1>4, <2>1, <2>2
  <1>5. QED
    BY <1>2, <1>3, <1>4 DEF Next, Terminated, Run, Walk, vars

\* A parent that collects the names of a task, and of what is under it, stays matched.
LEMMA NamesCollected ==
    ASSUME Inv, RefsMatch, NEW k \in Task \ {Root}, pc' = [pc EXCEPT ![k] = "done"],
           NEW R, R \subseteq {NameOf(u) : u \in Task \ {Root}},
           {n[2] : n \in R} = Images({k} \cup Below[k]),
           refs' = [refs EXCEPT ![Parent[k]] = @ \cup R]
    PROVE  RefsMatch'
  <1> SUFFICES ASSUME NEW t \in Task
               PROVE  /\ refs'[t] \subseteq {NameOf(u) : u \in Task \ {Root}}
                      /\ {n[2] : n \in refs'[t]} = Images(Covered(t)')
    BY DEF RefsMatch, Images
  <1>1. /\ TypeOK
        /\ refs[t] \subseteq {NameOf(u) : u \in Task \ {Root}}
        /\ {n[2] : n \in refs[t]} = Images(Covered(t))
    BY DEF Inv, RefsMatch, Images
  <1>2. refs'[t] = IF t = Parent[k] THEN refs[t] \cup R ELSE refs[t]
    BY <1>1 DEF TypeOK
  <1>3. Covered(t)' = IF t = Parent[k] THEN Covered(t) \cup {k} \cup Below[k] ELSE Covered(t)
    BY <1>1, CoverGrows
  <1>4. CASE t # Parent[k]
    BY <1>1, <1>2, <1>3, <1>4
  <1>5. CASE t = Parent[k]
    <2>1. {n[2] : n \in refs[t] \cup R} = {n[2] : n \in refs[t]} \cup {n[2] : n \in R}
      OBVIOUS
    <2>2. Images(Covered(t) \cup {k} \cup Below[k]) = Images(Covered(t)) \cup Images({k} \cup Below[k])
      BY DEF Images
    <2>3. {n[2] : n \in refs'[t]} = Images(Covered(t)')
      <3>1. {n[2] : n \in refs'[t]} = Images(Covered(t)) \cup Images({k} \cup Below[k])
        BY <1>1, <1>2, <1>5, <2>1
      <3>2. Covered(t)' = Covered(t) \cup {k} \cup Below[k]
        BY <1>3, <1>5
      <3>3. QED
        BY <2>2, <3>1, <3>2
    <2>4. QED
      BY <1>1, <1>2, <1>5, <2>3
  <1>6. QED
    BY <1>4, <1>5

\* Every step keeps the names of an activation those of what it covers.
LEMMA RefsStep ==
    ASSUME Inv, ObjectsMatch, BelowIsDone, RefsMatch, [Next]_vars
    PROVE  RefsMatch'
  <1>1. CASE UNCHANGED refs /\ \A u \in Task \ {Root} : pc'[u] = "done" <=> pc[u] = "done"
    BY <1>1, CoverStays DEF RefsMatch
  <1>2. ASSUME NEW k \in Task \ {Root}, Merge(k)
        PROVE  RefsMatch'
    <2> DEFINE R == {FetchedName(k)} \cup refs[k]
    <2>1. pc[k] = "merge" /\ pc' = [pc EXCEPT ![k] = "done"]
          /\ refs' = [refs EXCEPT ![Parent[k]] = @ \cup R]
      <3>1. refs' = [refs EXCEPT ![Parent[k]] = @ \cup {FetchedName(k)} \cup refs[k]]
        BY <1>2 DEF Merge
      <3>2. \A S : (S \cup {FetchedName(k)}) \cup refs[k] = S \cup R
        OBVIOUS
      <3>3. QED
        BY <1>2, <3>1, <3>2 DEF Merge, Goto
    <2>2. object[k] \in Task \ {Root} /\ Digest[object[k]] = Digest[k]
      <3>1. object[k] # None /\ object[k] \in Task
        BY <2>1 DEF Inv, TypeOK, Structure, WalkersHaveObjects
      <3>2. QED
        BY <3>1 DEF ObjectsMatch
    <2>3. FetchedName(k) = NameOf(object[k]) /\ FetchedName(k)[2] = Digest[k]
      BY <2>2 DEF FetchedName, NameOf
    <2>4. Covered(k) = Below[k]
      BY <2>1, AllCovered DEF BelowIsDone
    <2>5. {n[2] : n \in refs[k]} = Images(Below[k])
      BY <2>4 DEF RefsMatch, Images
    <2>6. {n[2] : n \in R} = Images({k} \cup Below[k])
      <3>1. {n[2] : n \in R} = {FetchedName(k)[2]} \cup {n[2] : n \in refs[k]}
        OBVIOUS
      <3>2. Images({k} \cup Below[k]) = {Digest[k]} \cup Images(Below[k])
        BY DEF Images
      <3>3. QED
        BY <2>3, <2>5, <3>1, <3>2
    <2>7. R \subseteq {NameOf(u) : u \in Task \ {Root}}
      BY <2>2, <2>3 DEF RefsMatch
    <2> HIDE DEF R
    <2>8. QED
      BY <2>1, <2>6, <2>7, NamesCollected
  <1>3. ASSUME NEW t \in Task, RecordContent(t)
        PROVE  RefsMatch'
    <2> DEFINE k == Kids[t][cursor[t]]
    <2>1. k \in Task \ {Root} /\ Parent[k] = t
      BY <1>3, AtCursor DEF RecordContent
    <2>2. pc' = [pc EXCEPT ![k] = "done"] /\ refs' = [refs EXCEPT ![t] = @ \cup {NameOf(k)}]
      BY <1>3 DEF RecordContent, Goto
    <2>3. Below[k] = {}
      BY <1>3, <2>1, ContentIsNoBundle, NothingUnderContent DEF RecordContent
    <2> HIDE DEF k
    <2>4. {n[2] : n \in {NameOf(k)}} = Images({k} \cup Below[k])
      BY <2>3 DEF Images, NameOf
    <2>5. {NameOf(k)} \subseteq {NameOf(u) : u \in Task \ {Root}}
      BY <2>1
    <2>6. QED
      BY <2>1, <2>2, <2>4, <2>5, NamesCollected
  <1>4. QED
    BY <1>1, <1>2, <1>3, CollectEffect
--------------------------------------------------------------------------------
(* Bundles *)

\* How a task comes to read an ImagesLock, and from there into its loop.
LEMMA HowTasksWalk ==
    ASSUME Inv, [Next]_vars, NEW u \in Task, pc'[u] \in Walking
    PROVE  /\ pc[u] \in Walking \/ (Digest[u] \in BundleImage /\ pc[u] \in Unbuilt)
           /\ pc'[u] = "walk" => pc[u] = "walk" \/ ReadImagesLock(u)
           /\ pc'[u] = "read" => pc[u] = "read" \/ pc[u] \in Unbuilt
  <1> USE DEF fetcherVars, walkVars, Goto, Abandon, Walking
  <1>1. pc \in [Task -> Step]
    BY DEF Inv, TypeOK
  <1>2. ASSUME NEW t \in Task \ {Root}, Fetch(t)
        PROVE  pc'[u] = pc[u] \/ (pc'[u] = "read" /\ Digest[u] \in BundleImage /\ pc[u] \in Unbuilt)
    <2>1. PICK s \in Critical \cup {AfterFetch(t), "error"} : pc' = [pc EXCEPT ![t] = s]
      BY <1>2, FetchEffect
    <2>2. CASE u # t
      BY <1>1, <2>1, <2>2
    <2>3. CASE u = t
      <3>1. s = AfterFetch(t) /\ pc'[u] = s
        BY <1>1, <2>1, <2>3 DEF Critical, Probing
      <3>2. pc[u] \in Unbuilt
        BY <1>2, <2>3, FetchEffect DEF Unbuilt
      <3>3. QED
        BY <2>3, <3>1, <3>2 DEF AfterFetch
    <2>4. QED
      BY <2>2, <2>3
  <1>3. ASSUME NEW t \in Task, ReadImagesLock(t)
        PROVE  pc'[u] = pc[u] \/ (u = t /\ pc[u] = "read" /\ pc'[u] = "walk")
    BY <1>1, <1>3 DEF ReadImagesLock
  <1>4. ASSUME NEW t \in Task, ReadFails(t) \/ Receive(t) \/ Return(t)
        PROVE  pc'[u] = pc[u]
    BY <1>1, <1>4 DEF ReadFails, Receive, Return
  <1>5. ASSUME NEW t \in Task, StartTask(t) \/ RecordContent(t)
        PROVE  pc'[u] = pc[u]
    <2>1. Kids[t][cursor[t]] \in Task
      BY <1>5, AtCursor DEF StartTask, RecordContent
    <2>2. QED
      BY <1>1, <1>5, <2>1 DEF StartTask, RecordContent
  <1>6. ASSUME NEW t \in Task, Merge(t) \/ ReportError(t)
        PROVE  pc'[u] = pc[u]
    BY <1>1, <1>6 DEF Merge, ReportError
  <1>7. QED
    BY <1>2, <1>3, <1>4, <1>5, <1>6 DEF Next, Terminated, Run, Walk, vars

\* Bundles are collected when an ImagesLock is read and when a task merges.
LEMMA BundlesEffect ==
    ASSUME Inv, [Next]_vars
    PROVE  \/ UNCHANGED bundles
           \/ \E t \in Task : ReadImagesLock(t)
           \/ \E k \in Task \ {Root} : Merge(k)
  <1> USE DEF fetcherVars, walkVars
  <1>1. ASSUME NEW t \in Task \ {Root}, Fetch(t)
        PROVE  UNCHANGED bundles
    BY <1>1, FetchEffect
  <1>2. ASSUME NEW t \in Task, Walk(t) \/ ReportError(t), ~ReadImagesLock(t)
        PROVE  UNCHANGED bundles
    BY <1>2 DEF Walk, ReadFails, StartTask, RecordContent, Receive, Return, ReportError
  <1>3. QED
    BY <1>1, <1>2 DEF Next, Terminated, Run, vars

\* A task that has not read its ImagesLock covers nothing.
LEMMA NothingCovered ==
    ASSUME Inv, NEW t \in Task, pc[t] \in Unbuilt \cup {"read"}
    PROVE  Covered(t) = {}
  <1>1. \A k \in KidSet(t) : pc[k] = "idle"
    BY TaskAssumption DEF Inv, Structure, ParentsWalk
  <1>2. QED
    BY <1>1 DEF Covered, DoneKids

\* A parent whose task merges is in its loop, or past it with an error.
LEMMA ParentOfMerging ==
    ASSUME Inv, BelowIsDone, NEW k \in Task \ {Root}, pc[k] = "merge"
    PROVE  /\ Parent[k] \in Task /\ Parent[k] # k
           /\ pc[Parent[k]] \notin Unbuilt \cup {"read", "merge", "done"}
  <1>1. Parent[k] \in Task /\ k \in KidSet(Parent[k])
    BY TaskAssumption
  <1>2. \A t \in Task : KidSet(t) \subseteq Below[t]
    BY GraphAssumption
  <1>3. pc[Parent[k]] \notin {"merge", "done"}
    BY <1>1, <1>2 DEF BelowIsDone
  <1>4. QED
    BY <1>1, <1>3 DEF Inv, Structure, ParentsWalk

\* What is collected is an object that was built for its own image.
LEMMA OwnObjectsCollected ==
    ASSUME Inv, ObjectsMatch, BundlesMatch, [Next]_vars, NEW t \in Task, NEW o \in bundles'[t]
    PROVE  object'[o] = o
  <1>1. TypeOK /\ None \notin Task
    BY TaskAssumption DEF Inv
  <1>2. ASSUME NEW u \in Task, o \in bundles[u]
        PROVE  object'[o] = o
    <2>1. o \in Task /\ object[o] = o
      BY <1>1, <1>2 DEF BundlesMatch, TypeOK
    <2>2. QED
      BY <1>1, <2>1, ObjectKept
  <1>3. ASSUME NEW r \in Task, ReadImagesLock(r)
        PROVE  object'[o] = o
    <2>1. object[r] \in Task /\ object[r] # None
      BY <1>1, <1>3 DEF ReadImagesLock, Inv, Structure, WalkersHaveObjects, Walking, TypeOK
    <2>2. object[object[r]] = object[r] /\ UNCHANGED object
      BY <1>3, <2>1 DEF ObjectsMatch, ReadImagesLock
    <2>3. o = object[r] \/ o \in bundles[t]
      BY <1>1, <1>3 DEF ReadImagesLock, TypeOK
    <2>4. QED
      BY <1>2, <2>2, <2>3
  <1>4. ASSUME NEW k \in Task \ {Root}, Merge(k)
        PROVE  object'[o] = o
    <2>1. o \in bundles[t] \/ o \in bundles[k]
      BY <1>1, <1>4 DEF Merge, TypeOK
    <2>2. QED
      BY <1>2, <2>1
  <1>5. QED
    BY <1>2, <1>3, <1>4, BundlesEffect

\* Nothing is collected before the ImagesLock is read.
LEMMA NoBundlesYet ==
    ASSUME Inv, BelowIsDone, BundlesMatch, [Next]_vars, NEW t \in Task,
           pc'[t] \in Unbuilt \cup {"read"}
    PROVE  bundles'[t] = {}
  <1> USE DEF Unbuilt, Critical, Probing, Walking
  <1>1. TypeOK /\ bundles[t] = {} /\ pc[t] \in Unbuilt \cup {"read"}
    BY UnbuiltBefore, HowTasksWalk DEF Inv, BundlesMatch
  <1>2. ASSUME NEW r \in Task, ReadImagesLock(r)
        PROVE  bundles'[t] = {}
    <2>1. r # t
      BY <1>1, <1>2 DEF ReadImagesLock, Goto, TypeOK
    <2>2. QED
      BY <1>1, <1>2, <2>1 DEF ReadImagesLock, TypeOK
  <1>3. ASSUME NEW k \in Task \ {Root}, Merge(k)
        PROVE  bundles'[t] = {}
    <2>1. Parent[k] # t
      BY <1>1, <1>3, ParentOfMerging DEF Merge
    <2>2. QED
      BY <1>1, <1>3, <2>1 DEF Merge, TypeOK
  <1>4. QED
    BY <1>1, <1>2, <1>3, BundlesEffect
\* The images of the bundles that t has collected are those of the bundles it covers.
Returned(t) == {Digest[o] : o \in bundles[t]} = Images({t} \cup Covered(t)) \cap BundleImage

\* The task that merges brings its parent exactly what it covers itself.
LEMMA MergedBundles ==
    ASSUME Inv, BelowIsDone, BundlesMatch, NEW k \in Task \ {Root}, Merge(k), NEW t \in Task,
           pc'[t] \in {"walk", "merge", "done"}
    PROVE  Returned(t)'
  <1> DEFINE p == Parent[k]
  <1>1. /\ TypeOK /\ pc[k] = "merge" /\ p \in Task /\ p # k
        /\ pc[p] \notin {"read", "merge", "done"}
    BY ParentOfMerging DEF Inv, Merge
  <1>2. /\ pc' = [pc EXCEPT ![k] = "done"]
        /\ bundles' = [bundles EXCEPT ![p] = @ \cup bundles[k]]
    BY DEF Merge, Goto
  <1>3. Covered(t)' = IF t = p THEN Covered(t) \cup {k} \cup Below[k] ELSE Covered(t)
    BY <1>1, <1>2, CoverGrows
  <1>4. bundles'[t] = IF t = p THEN bundles[t] \cup bundles[k] ELSE bundles[t]
    BY <1>1, <1>2 DEF TypeOK
  <1>5. pc[t] \in {"walk", "merge", "done"}
    BY <1>1, <1>2 DEF TypeOK
  <1>6. Returned(t) /\ Returned(k)
    BY <1>1, <1>5 DEF BundlesMatch, Returned, Images
  <1>7. Covered(k) = Below[k]
    BY <1>1, AllCovered DEF BelowIsDone
  <1>8. CASE t # p
    BY <1>3, <1>4, <1>6, <1>8 DEF Returned
  <1>9. CASE t = p
    <2>1. {Digest[o] : o \in bundles[t] \cup bundles[k]}
              = {Digest[o] : o \in bundles[t]} \cup {Digest[o] : o \in bundles[k]}
      OBVIOUS
    <2>2. Images({t} \cup Covered(t)') = Images({t} \cup Covered(t)) \cup Images({k} \cup Covered(k))
      BY <1>3, <1>7, <1>9 DEF Images
    <2>3. {Digest[o] : o \in bundles'[t]}
              = (Images({t} \cup Covered(t)) \cap BundleImage)
                \cup (Images({k} \cup Covered(k)) \cap BundleImage)
      BY <1>4, <1>6, <1>9, <2>1 DEF Returned
    <2>4. {Digest[o] : o \in bundles'[t]} = Images({t} \cup Covered(t)') \cap BundleImage
      BY <2>2, <2>3
    <2>5. QED
      BY <2>4 DEF Returned
  <1>10. QED
    BY <1>8, <1>9

\* A step in which nothing is collected: a task starts to return only if it is no
\* bundle, and what is recorded in place is none.
LEMMA OtherBundles ==
    ASSUME Inv, ReportsAreTrue, BundlesMatch, [Next]_vars, UNCHANGED bundles,
           \A k \in Task \ {Root} : ~Merge(k), NEW t \in Task, ~ReadImagesLock(t),
           pc'[t] \in {"walk", "merge", "done"}
    PROVE  Returned(t)'
  <1>1. TypeOK
    BY DEF Inv
  <1>2. Images({t} \cup Covered(t)') \cap BundleImage = Images({t} \cup Covered(t)) \cap BundleImage
    <2>1. CASE \A u \in Task \ {Root} : pc'[u] = "done" <=> pc[u] = "done"
      BY <2>1, CoverStays
    <2>2. ASSUME NEW r \in Task, RecordContent(r)
          PROVE  Images({t} \cup Covered(t)') \cap BundleImage
                     = Images({t} \cup Covered(t)) \cap BundleImage
      <3> DEFINE k == Kids[r][cursor[r]]
      <3>1. k \in Task \ {Root} /\ pc' = [pc EXCEPT ![k] = "done"]
        BY <2>2, AtCursor DEF RecordContent, Goto
      <3>2. Digest[k] \notin BundleImage /\ Below[k] = {}
        BY <2>2, <3>1, ContentIsNoBundle, NothingUnderContent DEF RecordContent
      <3> HIDE DEF k
      <3>3. Covered(t)' = Covered(t) \/ Covered(t)' = Covered(t) \cup {k}
        BY <1>1, <3>1, <3>2, CoverGrows
      <3>4. QED
        BY <3>2, <3>3 DEF Images
    <2>3. QED
      BY <2>1, <2>2, CollectEffect
  <1>3. CASE pc[t] \in {"walk", "merge", "done"}
    BY <1>2, <1>3 DEF BundlesMatch, Returned, Images
  <1>4. CASE Digest[t] \notin BundleImage /\ pc[t] \in Unbuilt
    <2>1. Covered(t) = {} /\ bundles[t] = {}
      BY <1>4, NothingCovered DEF BundlesMatch
    <2>2. QED
      BY <1>2, <1>4, <2>1 DEF Returned, Images
  <1>5. QED
    BY <1>3, <1>4, HowTasksReturn, HowTasksWalk DEF Walking

\* Every step keeps the collected bundles those of the part of the graph covered.
LEMMA BundlesStep ==
    ASSUME Inv, ObjectsMatch, ReportsAreTrue, BelowIsDone, BundlesMatch, [Next]_vars
    PROVE  BundlesMatch'
  <1>1. TypeOK
    BY DEF Inv
  <1>2. ASSUME NEW t \in Task, pc'[t] \in Walking
        PROVE  Digest[t] \in BundleImage
    BY <1>2, HowTasksWalk DEF BundlesMatch
  <1>3. ASSUME NEW t \in Task, pc'[t] \in {"walk", "merge", "done"}
        PROVE  Returned(t)'
    <2>1. CASE ReadImagesLock(t)
      <3>1. object[t] \in Task /\ Digest[object[t]] = Digest[t] /\ Digest[t] \in BundleImage
        <4>1. object[t] \in Task /\ object[t] # None
          BY <1>1, <2>1 DEF ReadImagesLock, Inv, Structure, WalkersHaveObjects, Walking, TypeOK
        <4>2. QED
          BY <2>1, <4>1 DEF ObjectsMatch, BundlesMatch, ReadImagesLock, Walking
      <3>2. bundles'[t] = {object[t]} /\ pc' = [pc EXCEPT ![t] = "walk"] /\ pc[t] = "read"
        BY <1>1, <2>1 DEF ReadImagesLock, Goto, TypeOK
      <3>3. Covered(t)' = {}
        <4>1. \A u \in Task \ {Root} : pc'[u] = "done" <=> pc[u] = "done"
          BY <1>1, <3>2 DEF TypeOK
        <4>2. QED
          BY <3>2, <4>1, CoverStays, NothingCovered
      <3>4. QED
        BY <3>1, <3>2, <3>3 DEF Returned, Images
    <2>2. ASSUME NEW r \in Task, r # t, ReadImagesLock(r)
          PROVE  Returned(t)'
      <3>1. bundles'[t] = bundles[t] /\ pc'[t] = pc[t]
            /\ \A u \in Task \ {Root} : pc'[u] = "done" <=> pc[u] = "done"
        BY <1>1, <2>2 DEF ReadImagesLock, Goto, TypeOK
      <3>2. Covered(t)' = Covered(t)
        BY <3>1, CoverStays
      <3>3. QED
        BY <1>3, <3>1, <3>2 DEF BundlesMatch, Returned, Images
    <2>3. CASE UNCHANGED bundles /\ (\A k \in Task \ {Root} : ~Merge(k)) /\ ~ReadImagesLock(t)
      BY <1>3, <2>3, OtherBundles
    <2>4. QED
      BY <1>3, <2>1, <2>2, <2>3, MergedBundles, BundlesEffect
  <1>4. QED
    BY <1>2, <1>3, OwnObjectsCollected, NoBundlesYet DEF BundlesMatch, Returned, Images
--------------------------------------------------------------------------------
(* Caches of references *)

\* Three actions write a cache: that of the parent's object, at the image of a task.
LEMMA CacheEffect ==
    ASSUME Inv, [Next]_vars
    PROVE  \/ UNCHANGED cached /\ \A u \in Task : pc'[u] # "idle" => pc[u] # "idle"
           \/ \E k \in Task \ {Root}, s \in RefState \ {"absent"} :
                 /\ object[Parent[k]] \in Task /\ UNCHANGED object
                 /\ cached' = [cached EXCEPT ![object[Parent[k]]][Digest[k]] = s]
                 /\ \A u \in Task : u # k /\ pc'[u] # "idle" => pc[u] # "idle"
                 /\ s = "bundle" => Merge(k) /\ bundles[k] # {}
                 /\ s = "content" =>
                        (Merge(k) /\ bundles[k] = {}) \/ Digest[k] \notin BundleImage
  <1> USE DEF fetcherVars, walkVars, Goto, Abandon
  <1>1. TypeOK
    BY DEF Inv
  <1>2. ASSUME NEW t \in Task \ {Root}, Fetch(t)
        PROVE  UNCHANGED cached /\ \A u \in Task : pc'[u] # "idle" => pc[u] # "idle"
    BY <1>1, <1>2, FetchEffect DEF Critical, Probing, TypeOK
  <1>3. ASSUME NEW t \in Task, ReadImagesLock(t) \/ ReadFails(t) \/ Receive(t) \/ Return(t)
        PROVE  UNCHANGED cached /\ \A u \in Task : pc'[u] # "idle" => pc[u] # "idle"
    BY <1>1, <1>3 DEF ReadImagesLock, ReadFails, Receive, Return, TypeOK
  <1>4. ASSUME NEW t \in Task \ {Root}, ReportError(t)
        PROVE  UNCHANGED cached /\ \A u \in Task : pc'[u] # "idle" => pc[u] # "idle"
    BY <1>1, <1>4 DEF ReportError, TypeOK
  <1>5. ASSUME NEW t \in Task, StartTask(t) \/ RecordContent(t)
        PROVE  \E k \in Task \ {Root}, s \in RefState \ {"absent"} :
                 /\ object[Parent[k]] \in Task /\ UNCHANGED object
                 /\ cached' = [cached EXCEPT ![object[Parent[k]]][Digest[k]] = s]
                 /\ \A u \in Task : u # k /\ pc'[u] # "idle" => pc[u] # "idle"
                 /\ s = "bundle" => Merge(k) /\ bundles[k] # {}
                 /\ s = "content" =>
                        (Merge(k) /\ bundles[k] = {}) \/ Digest[k] \notin BundleImage
    <2> DEFINE k == Kids[t][cursor[t]]
               s == IF StartTask(t) THEN "untyped" ELSE "content"
    <2>1. k \in Task \ {Root} /\ Parent[k] = t /\ object[t] \in Task
      BY <1>5, AtCursor DEF StartTask, RecordContent
    <2>2. cached' = [cached EXCEPT ![object[t]][Digest[k]] = s] /\ UNCHANGED object
      BY <1>5 DEF StartTask, RecordContent, Store
    <2>3. \A u \in Task : u # k => pc'[u] = pc[u]
      BY <1>1, <1>5, <2>1 DEF StartTask, RecordContent, TypeOK
    <2>4. s = "content" => Digest[k] \notin BundleImage
      BY <1>5, ContentIsNoBundle DEF RecordContent
    <2>5. s \in RefState \ {"absent", "bundle"}
      BY DEF RefState
    <2> HIDE DEF k, s
    <2>6. QED
      BY <2>1, <2>2, <2>3, <2>4, <2>5
  <1>6. ASSUME NEW k \in Task \ {Root}, Merge(k)
        PROVE  /\ object[Parent[k]] \in Task /\ UNCHANGED object
               /\ cached' = [cached EXCEPT ![object[Parent[k]]][Digest[k]] = TypeOf(k)]
               /\ \A u \in Task : u # k /\ pc'[u] # "idle" => pc[u] # "idle"
    BY <1>1, <1>6, LocationFacts DEF Merge, Store, TypeOK
  <1>7. \A k \in Task : TypeOf(k) = IF bundles[k] # {} THEN "bundle" ELSE "content"
    BY DEF TypeOf
  <1>8. "bundle" \in RefState \ {"absent"} /\ "content" \in RefState \ {"absent"}
    BY DEF RefState
  <1>9. ASSUME NEW k \in Task \ {Root}, Merge(k)
        PROVE  \E s \in RefState \ {"absent"} :
                 /\ object[Parent[k]] \in Task /\ UNCHANGED object
                 /\ cached' = [cached EXCEPT ![object[Parent[k]]][Digest[k]] = s]
                 /\ \A u \in Task : u # k /\ pc'[u] # "idle" => pc[u] # "idle"
                 /\ s = "bundle" => Merge(k) /\ bundles[k] # {}
                 /\ s = "content" => Merge(k) /\ bundles[k] = {}
    <2> DEFINE s == TypeOf(k)
    <2>1. s \in RefState \ {"absent"} /\ (s = "bundle" => bundles[k] # {})
          /\ (s = "content" => bundles[k] = {})
      BY <1>7, <1>8
    <2>2. QED
      BY <1>6, <1>9, <2>1
  <1>10. QED
    BY <1>2, <1>3, <1>4, <1>5, <1>9 DEF Next, Terminated, Run, Walk, vars

\* Two tasks of one image list the same images.
LEMMA SameImagesListed ==
    ASSUME NEW t \in Task, NEW u \in Task, Digest[t] = Digest[u]
    PROVE  {Digest[k] : k \in KidSet(t)} = {Digest[k] : k \in KidSet(u)}
  <1>1. {<<Origin[k], Digest[k]>> : k \in KidSet(t)} = {<<Origin[k], Digest[k]>> : k \in KidSet(u)}
    BY GraphAssumption
  <1>2. \A k \in KidSet(t) : \E j \in KidSet(u) : <<Origin[k], Digest[k]>> = <<Origin[j], Digest[j]>>
    BY <1>1
  <1>3. \A j \in KidSet(u) : \E k \in KidSet(t) : <<Origin[k], Digest[k]>> = <<Origin[j], Digest[j]>>
    BY <1>1
  <1>4. QED
    BY <1>2, <1>3

\* Every step keeps the caches those of the ImagesLocks, with the right types.
LEMMA CachesStep ==
    ASSUME Inv, ObjectsMatch, BundlesMatch, CachesMatch, TypesAreRight, [Next]_vars
    PROVE  CachesMatch' /\ TypesAreRight'
  <1>1. TypeOK /\ Digest \in [Task -> Image]
    BY GraphAssumption DEF Inv
  <1>2. ASSUME NEW u \in Task \ {Root}, pc[u] # "idle"
        PROVE  object[Parent[u]] \in Task /\ object'[Parent[u]] = object[Parent[u]]
    <2>1. Parent[u] \in Task /\ object[Parent[u]] # None
      BY <1>2, TaskAssumption DEF Inv, Structure, ParentsWalk
    <2>2. QED
      BY <1>1, <2>1, ObjectKept DEF TypeOK
  <1>3. CASE UNCHANGED cached /\ \A u \in Task : pc'[u] # "idle" => pc[u] # "idle"
    BY <1>2, <1>3 DEF CachesMatch, TypesAreRight
  <1>4. ASSUME NEW k \in Task \ {Root}, NEW s \in RefState \ {"absent"},
               object[Parent[k]] \in Task, UNCHANGED object,
               cached' = [cached EXCEPT ![object[Parent[k]]][Digest[k]] = s],
               \A u \in Task : u # k /\ pc'[u] # "idle" => pc[u] # "idle",
               s = "bundle" => Merge(k) /\ bundles[k] # {},
               s = "content" => (Merge(k) /\ bundles[k] = {}) \/ Digest[k] \notin BundleImage
        PROVE  CachesMatch' /\ TypesAreRight'
    <2> DEFINE p == Parent[k]
    <2>1. p \in Task /\ k \in KidSet(p) /\ Digest[k] \in Image
      BY <1>1, TaskAssumption
    <2>2. \A o \in Task, d \in Image :
              cached'[o][d] = IF o = object[p] /\ d = Digest[k] THEN s ELSE cached[o][d]
      BY <1>1, <1>4, <2>1 DEF TypeOK
    <2>3. ASSUME NEW u \in Task \ {Root}, pc'[u] # "idle"
          PROVE  cached'[object'[Parent[u]]][Digest[u]] # "absent"
      <3>1. CASE u = k
        BY <1>4, <2>1, <2>2, <3>1
      <3>2. CASE u # k
        <4>1. pc[u] # "idle" /\ object[Parent[u]] \in Task /\ Digest[u] \in Image
          BY <1>1, <1>2, <1>4, <2>3, <3>2
        <4>2. cached[object[Parent[u]]][Digest[u]] # "absent"
          BY <4>1 DEF CachesMatch
        <4>3. QED
          BY <1>4, <2>2, <4>1, <4>2
      <3>3. QED
        BY <3>1, <3>2
    <2>4. ASSUME NEW o \in Task, NEW d \in Image, cached'[o][d] # "absent"
          PROVE  d \in {Digest[c] : c \in KidSet(o)}
      <3>1. CASE o = object[p] /\ d = Digest[k]
        <4>1. Digest[o] = Digest[p]
          <5>1. object[p] \in Task /\ object[p] # None
            BY <1>4, TaskAssumption
          <5>2. QED
            BY <2>1, <3>1, <5>1 DEF ObjectsMatch
        <4>2. {Digest[c] : c \in KidSet(o)} = {Digest[c] : c \in KidSet(p)}
          BY <2>1, <4>1, SameImagesListed
        <4>3. QED
          BY <2>1, <3>1, <4>2
      <3>2. CASE ~(o = object[p] /\ d = Digest[k])
        BY <2>2, <2>4, <3>2 DEF CachesMatch
      <3>3. QED
        BY <3>1, <3>2
    <2>5. /\ s = "bundle" => Digest[k] \in BundleImage
          /\ s = "content" => Digest[k] \notin BundleImage
      <3>1. ASSUME pc[k] = "merge"
            PROVE  bundles[k] # {} <=> Digest[k] \in BundleImage
        <4>1. {Digest[o] : o \in bundles[k]}
                  = {Digest[u] : u \in {k} \cup Covered(k)} \cap BundleImage
          BY <3>1 DEF BundlesMatch
        <4>2. CASE Digest[k] \in BundleImage
          BY <4>1, <4>2
        <4>3. CASE Digest[k] \notin BundleImage
          <5>1. Covered(k) = {}
            BY <4>3, NothingUnderContent DEF Covered, DoneKids
          <5>2. QED
            BY <4>1, <4>3, <5>1
        <4>4. QED
          BY <4>2, <4>3
      <3>2. QED
        BY <1>4, <3>1 DEF Merge
    <2>6. TypesAreRight'
      BY <2>2, <2>5 DEF TypesAreRight
    <2>7. CachesMatch'
      BY <2>3, <2>4 DEF CachesMatch
    <2>8. QED
      BY <2>6, <2>7
  <1>5. QED
    BY <1>3, <1>4, CacheEffect
--------------------------------------------------------------------------------
(* Causes *)

\* Failed calls are never forgotten.
LEMMA FaultsGrow ==
    ASSUME Inv, [Next]_vars
    PROVE  faults' >= faults
  <1> USE DEF fetcherVars, walkVars
  <1>1. faults \in Nat
    BY RegistryAssumption DEF Inv, TypeOK
  <1>2. ASSUME NEW t \in Task, Walk(t) \/ Merge(t) \/ ReportError(t)
        PROVE  faults' = faults \/ faults' = faults + 1
    BY <1>2 DEF Walk, ReadImagesLock, ReadFails, StartTask, RecordContent, Receive, Return,
                Merge, ReportError
  <1>3. ASSUME NEW t \in Task, UseEntry(t) \/ LockLocation(t) \/ Take(t) \/ Probe(t) \/ ProbeFails(t)
        PROVE  faults' = faults \/ faults' = faults + 1
    BY <1>3 DEF UseEntry, LockLocation, Take, Probe, ProbeFails
  <1>4. ASSUME NEW t \in Task, Locate(t)
        PROVE  faults' = faults \/ faults' = faults + 1
    BY <1>1, <1>4 DEF Locate
  <1>5. ASSUME NEW t \in Task, LocateFails(t)
        PROVE  faults' >= faults
    <2> DEFINE refused == {r \in Locations(t) : Holds(r, t)}
    <2>1. Cardinality(refused) \in Nat
      <3>1. IsFiniteSet({Near(t)} \cup {Origin[t]})
        BY FS_Singleton, FS_AddElement
      <3>2. refused \subseteq {Near(t)} \cup {Origin[t]}
        BY DEF Locations
      <3>3. QED
        BY <3>1, <3>2, FS_Subset, FS_CardinalityType
    <2>2. faults' = faults + Cardinality(refused)
      BY <1>5 DEF LocateFails
    <2> HIDE DEF refused
    <2>3. QED
      BY <1>1, <2>1, <2>2
  <1>6. QED
    BY <1>1, <1>2, <1>3, <1>4, <1>5 DEF Next, Terminated, Run, Fetch, vars

\* No repository asked held the image, or a call was refused where one did.
LEMMA LocateFailsBecause ==
    ASSUME Inv, NEW t \in Task, LocateFails(t)
    PROVE  faults' > 0 \/ \A r \in {Near(t), Origin[t]} : ~Holds(r, t)
  <1> DEFINE refused == {r \in Locations(t) : Holds(r, t)}
  <1>1. faults \in Nat /\ faults' = faults + Cardinality(refused)
    BY RegistryAssumption DEF Inv, TypeOK, LocateFails
  <1>2. IsFiniteSet(refused) /\ Cardinality(refused) \in Nat
    <2>1. IsFiniteSet({Near(t)} \cup {Origin[t]})
      BY FS_Singleton, FS_AddElement
    <2>2. refused \subseteq {Near(t)} \cup {Origin[t]}
      BY DEF Locations
    <2>3. QED
      BY <2>1, <2>2, FS_Subset, FS_CardinalityType
  <1>3. CASE refused = {}
    BY <1>3 DEF Locations
  <1>4. CASE refused # {}
    <2>1. Cardinality(refused) # 0
      BY <1>2, <1>4, FS_EmptySet
    <2> HIDE DEF refused
    <2>2. QED
      BY <1>1, <1>2, <2>1
  <1>5. QED
    BY <1>3, <1>4

\* A task that found its image nowhere stays the reason.
LEMMA NotFoundStays ==
    ASSUME Inv, [Next]_vars, NEW t \in Task, NotFound(t)
    PROVE  NotFound(t)'
  <1>1. t \in Task \ {Root} /\ pc[t] # "idle"
    BY DEF NotFound
  <1>2. PrimaryLocation(t)' = PrimaryLocation(t)
    BY <1>1, LocationFixed
  <1>3. Near(t)' = Near(t)
    BY <1>2 DEF PrimaryLocation, Near
  <1>4. QED
    BY <1>1, <1>3, EndsAreFinal DEF NotFound, Holds

\* Who gives up has its own cause, or heard of another who gave up.
LEMMA HowTasksGiveUp ==
    ASSUME Inv, ReportsAreTrue, [Next]_vars, NEW u \in Task, pc'[u] \in {"error", "failed"}
    PROVE  \/ \E t \in Task : pc[t] \in {"error", "failed"}
           \/ faults' > 0
           \/ NotFound(u)'
  <1> USE DEF fetcherVars, walkVars, Goto, Abandon
  <1>1. TypeOK /\ faults \in Nat
    BY RegistryAssumption DEF Inv, TypeOK
  <1> SUFFICES ASSUME \A t \in Task : pc[t] \notin {"error", "failed"}
               PROVE  faults' > 0 \/ NotFound(u)'
    OBVIOUS
  <1>2. ASSUME NEW t \in Task \ {Root}, LocateFails(t)
        PROVE  faults' > 0 \/ NotFound(u)'
    <2>1. u = t
      BY <1>1, <1>2 DEF LocateFails, TypeOK
    <2>2. Near(t)' = Near(t)
      <3>1. PrimaryLocation(t)' = PrimaryLocation(t)
        BY <1>2, LocationFixed DEF LocateFails
      <3>2. QED
        BY <3>1 DEF PrimaryLocation, Near
    <2>3. CASE \A r \in {Near(t), Origin[t]} : ~Holds(r, t)
      BY <2>1, <2>2, <2>3 DEF NotFound, Holds
    <2>4. QED
      BY <1>2, <2>3, LocateFailsBecause
  <1>3. ASSUME NEW t \in Task, ProbeFails(t) \/ ReadFails(t)
        PROVE  faults' > 0
    BY <1>1, <1>3 DEF ProbeFails, ReadFails
  <1>4. ASSUME NEW t \in Task, UseEntry(t) \/ LockLocation(t) \/ Take(t) \/ Locate(t) \/ Probe(t)
        PROVE  FALSE
    <2>1. \E s \in {"read", "merge", "take1", "take2", "locate", "probe"} :
              pc' = [pc EXCEPT ![t] = s]
      BY <1>4 DEF UseEntry, LockLocation, Take, Locate, Probe, AfterFetch
    <2>2. QED
      BY <1>1, <2>1 DEF TypeOK
  <1>5. ASSUME NEW t \in Task, ReadImagesLock(t) \/ StartTask(t) \/ RecordContent(t) \/ Return(t)
        PROVE  FALSE
    <2>1. CASE ReadImagesLock(t)
      BY <1>1, <2>1 DEF ReadImagesLock, TypeOK
    <2>2. CASE StartTask(t) \/ RecordContent(t)
      <3>1. Kids[t][cursor[t]] \in Task
        BY <2>2, AtCursor DEF StartTask, RecordContent
      <3>2. QED
        BY <1>1, <2>2, <3>1 DEF StartTask, RecordContent, TypeOK
    <2>3. CASE Return(t)
      BY <1>1, <2>3 DEF Return, TypeOK
    <2>4. QED
      BY <1>5, <2>1, <2>2, <2>3
  <1>6. ASSUME NEW t \in Task, Receive(t)
        PROVE  FALSE
    <2> DEFINE h == Head(errChan[t])
    <2>1. h \in Task
      <3>1. errChan[t] \in Seq(Task) /\ errChan[t] # <<>>
        BY <1>1, <1>6 DEF Receive, TypeOK
      <3>2. QED
        BY <3>1
    <2>2. UNCHANGED pc
      BY <1>6, <2>1 DEF Receive, IsError
    <2>3. QED
      BY <2>2
  <1>7. ASSUME NEW t \in Task, Merge(t) \/ ReportError(t)
        PROVE  FALSE
    BY <1>1, <1>7 DEF Merge, ReportError, TypeOK
  <1>8. QED
    BY <1>2, <1>3, <1>4, <1>5, <1>6, <1>7 DEF Next, Terminated, Run, Walk, Fetch, vars

\* Every step keeps a cause for everyone who gave up.
LEMMA CausesStep ==
    ASSUME Inv, ReportsAreTrue, GivingUpHasACause, [Next]_vars
    PROVE  GivingUpHasACause'
  <1> SUFFICES ASSUME NEW u \in Task, pc'[u] \in {"error", "failed"}
               PROVE  faults' > 0 \/ \E t \in Task : NotFound(t)'
    BY DEF GivingUpHasACause
  <1>1. ASSUME NEW t \in Task, pc[t] \in {"error", "failed"}
        PROVE  faults' > 0 \/ \E v \in Task : NotFound(v)'
    <2>1. faults > 0 \/ \E v \in Task : NotFound(v)
      BY <1>1 DEF GivingUpHasACause
    <2>2. faults > 0 => faults' > 0
      <3>1. faults \in Nat
        BY RegistryAssumption DEF Inv, TypeOK
      <3>2. faults' \in Nat
        BY TypeStep, RegistryAssumption DEF TypeOK
      <3>3. QED
        BY <3>1, <3>2, FaultsGrow
    <2>3. QED
      BY <2>1, <2>2, NotFoundStays
  <1>2. QED
    BY <1>1, HowTasksGiveUp
--------------------------------------------------------------------------------
(* Theorems *)

\* It all holds before the first step.
LEMMA InitResult == Init => Result
  <1> SUFFICES ASSUME Init
               PROVE  Result
    OBVIOUS
  <1> USE TaskAssumption, GraphAssumption
  <1>1. /\ \A t \in Task : pc[t] = IF t = Root THEN "read" ELSE "idle"
        /\ \A t \in Task : object[t] = IF t = Root THEN Root ELSE None
        /\ \A t \in Task : errChan[t] = <<>> /\ heard[t] = {} /\ bundles[t] = {} /\ refs[t] = {}
        /\ \A l \in Location : entry[l] = None
        /\ \A o \in Task, d \in Image : cached[o][d] = "absent"
    BY DEF Init
  <1>2. ObjectsMatch
    BY <1>1 DEF ObjectsMatch, Unbuilt, Critical, Probing
  <1>3. ReportsAreTrue
    BY <1>1 DEF ReportsAreTrue, Queued
  <1>4. BelowIsDone
    BY <1>1 DEF BelowIsDone
  <1>5. \A t \in Task : Covered(t) = {}
    <2>1. \A t \in Task : DoneKids(t) = {}
      BY <1>1 DEF DoneKids
    <2>2. QED
      BY <2>1 DEF Covered
  <1>6. RefsMatch
    BY <1>1, <1>5 DEF RefsMatch
  <1>7. BundlesMatch
    BY <1>1 DEF BundlesMatch, Walking
  <1>8. CachesMatch /\ TypesAreRight
    BY <1>1 DEF CachesMatch, TypesAreRight
  <1>9. GivingUpHasACause
    BY <1>1 DEF GivingUpHasACause
  <1>10. QED
    BY <1>2, <1>3, <1>4, <1>6, <1>7, <1>8, <1>9 DEF Result

\* Result is inductive relative to Inv.
LEMMA ResultInvariance == Spec => [](Inv /\ Result)
  <1>1. Inv /\ Result /\ [Next]_vars => Result'
    BY ObjectsStep, ReportsStep, BelowStep, RefsStep, BundlesStep, CachesStep, CausesStep
    DEF Result
  <1>2. QED
    BY Invariance, InitResult, <1>1, PTL DEF Spec

\* A reference has the type of its image, whatever the order in which the nested
\* goroutines merge: len(nestedBundles) > 0 tells a bundle from a plain image.
THEOREM TypesRight == Spec => []TypesAreRight
  BY ResultInvariance, PTL DEF Result

\* The walk fails only because a call failed or a task found its image in neither
\* place it looked: goroutines do not make each other fail.
THEOREM FailureCaused == Spec => []FailureHasACause
  <1>1. GivingUpHasACause => FailureHasACause
    BY TaskAssumption DEF GivingUpHasACause, FailureHasACause, NotFound
  <1>2. QED
    BY ResultInvariance, <1>1, PTL DEF Result

\* A walk that ends well has seen, and returns, the whole graph: no name, no bundle
\* and no goroutine is lost between the mutexes and the channels.
THEOREM WalkComplete == Spec => []WalkIsComplete
  <1>1. ASSUME Inv, Result
        PROVE  WalkIsComplete
    <2> SUFFICES ASSUME pc[Root] = "done"
                 PROVE  /\ \A t \in Task : pc[t] = "done"
                        /\ refs[Root] \subseteq {NameOf(t) : t \in Task \ {Root}}
                        /\ {n[2] : n \in refs[Root]} = {Digest[t] : t \in Task \ {Root}}
                        /\ {Digest[o] : o \in bundles[Root]}
                               = {Digest[t] : t \in Task} \cap BundleImage
      BY DEF WalkIsComplete
    <2> USE TaskAssumption, GraphAssumption
    <2>1. \A u \in Below[Root] : pc[u] = "done"
      BY <1>1 DEF Result, BelowIsDone
    <2>2. Covered(Root) = Task \ {Root}
      BY <2>1, AllCovered
    <2>3. \A t \in Task : pc[t] = "done"
      BY <2>1
    <2>4. /\ refs[Root] \subseteq {NameOf(t) : t \in Task \ {Root}}
          /\ {n[2] : n \in refs[Root]} = {Digest[t] : t \in Task \ {Root}}
      BY <1>1, <2>2 DEF Result, RefsMatch
    <2>5. {Digest[o] : o \in bundles[Root]}
              = {Digest[t] : t \in {Root} \cup (Task \ {Root})} \cap BundleImage
      BY <1>1, <2>2 DEF Result, BundlesMatch
    <2>6. {Root} \cup (Task \ {Root}) = Task
      OBVIOUS
    <2>7. QED
      BY <2>3, <2>4, <2>5, <2>6
  <1>2. QED
    BY ResultInvariance, <1>1, PTL

\* What NoteCopy and describe read through the returned bundles is there, typed and
\* right, also for a *Bundle object that several parents share.
THEOREM CachesReady == Spec => []NoteCopyReady
  <1>1. ASSUME Inv, Result, UntypedIsPending, WalkIsComplete
        PROVE  NoteCopyReady
    <2> SUFFICES ASSUME pc[Root] = "done", NEW o \in bundles[Root], NEW d \in Image
                 PROVE  cached[o][d] = IF d \notin {Digest[k] : k \in KidSet(o)} THEN "absent"
                                       ELSE IF d \in BundleImage THEN "bundle" ELSE "content"
      BY DEF NoteCopyReady
    <2>1. o \in Task /\ object[o] = o /\ cached[o][d] \in RefState
      BY <1>1, TaskAssumption DEF Inv, TypeOK, Result, BundlesMatch
    <2>2. \A t \in Task : pc[t] = "done"
      BY <1>1 DEF WalkIsComplete
    <2>3. cached[o][d] # "untyped"
      BY <1>1, <2>1, <2>2 DEF UntypedIsPending
    <2>4. ASSUME d \in {Digest[k] : k \in KidSet(o)}
          PROVE  cached[o][d] # "absent"
      <3>1. PICK k \in KidSet(o) : d = Digest[k]
        BY <2>4
      <3>2. k \in Task \ {Root} /\ Parent[k] = o
        BY <2>1, <3>1, TaskAssumption
      <3>3. cached[object[Parent[k]]][Digest[k]] # "absent"
        BY <1>1, <2>2, <3>2 DEF Result, CachesMatch
      <3>4. QED
        BY <2>1, <3>1, <3>2, <3>3
    <2>5. d \notin {Digest[k] : k \in KidSet(o)} => cached[o][d] = "absent"
      BY <1>1, <2>1 DEF Result, CachesMatch
    <2>6. (cached[o][d] = "bundle" => d \in BundleImage)
          /\ (cached[o][d] = "content" => d \notin BundleImage)
      BY <1>1, <2>1 DEF Result, TypesAreRight
    <2>7. QED
      BY <2>1, <2>3, <2>4, <2>5, <2>6 DEF RefState
  <1>2. QED
    BY ResultInvariance, TypesArrive, WalkComplete, <1>1, PTL
--------------------------------------------------------------------------------
(* Refinement *)

\* A step that ends no task well, and does not end the root, changes nothing the
\* abstract walk sees.
LEMMA HiddenStep ==
    ASSUME Inv, \A u \in Task : pc'[u] = "done" <=> pc[u] = "done",
           pc'[Root] = "failed" <=> pc[Root] = "failed"
    PROVE  UNCHANGED Abstract!vars
  <1>1. {t \in Task : pc'[t] = "done"} = {t \in Task : pc[t] = "done"}
    OBVIOUS
  <1>2. pc'[Root] = "done" <=> pc[Root] = "done"
    BY TaskAssumption
  <1>3. QED
    BY <1>1, <1>2 DEF Abstract!vars

\* Every step is a visit, a report of the root, or hidden.
LEMMA AbstractStep ==
    ASSUME Inv, ReportsAreTrue, BelowIsDone, [Next]_vars
    PROVE  [Abstract!Next]_Abstract!vars
  <1> USE TaskAssumption
  <1>1. TypeOK /\ BelowIsDone'
    BY BelowStep DEF Inv
  <1>2. \A u \in Task : pc[u] \in Finished => pc'[u] = pc[u]
    BY EndsAreFinal
  <1>3. ASSUME NEW k \in Task \ {Root}, pc[k] # "done", pc' = [pc EXCEPT ![k] = "done"],
               \A u \in KidSet(k) : pc[u] = "done"
        PROVE  Abstract!Next
    <2>1. \A u \in Task : pc'[u] = IF u = k THEN "done" ELSE pc[u]
      BY <1>1, <1>3 DEF TypeOK
    <2>2. {u \in Task : pc'[u] = "done"} = {u \in Task : pc[u] = "done"} \cup {k}
      BY <2>1
    <2>3. KidSet(k) \subseteq {u \in Task : pc[u] = "done"}
      BY <1>3
    <2>4. pc'[Root] = pc[Root]
      BY <2>1
    <2>5. Abstract!Visit(k)
      BY <1>3, <2>2, <2>3, <2>4 DEF Abstract!Visit
    <2>6. QED
      BY <2>5 DEF Abstract!Next
  <1>4. ASSUME NEW k \in Task \ {Root}, Merge(k)
        PROVE  Abstract!Next
    <2>1. KidSet(k) \subseteq Below[k]
      BY GraphAssumption
    <2>2. \A u \in KidSet(k) : pc[u] = "done"
      BY <1>4, <2>1 DEF BelowIsDone, Merge
    <2>3. QED
      BY <1>3, <1>4, <2>2 DEF Merge, Goto
  <1>5. ASSUME NEW t \in Task, RecordContent(t)
        PROVE  Abstract!Next
    <2> DEFINE k == Kids[t][cursor[t]]
    <2>1. k \in Task \ {Root} /\ pc[k] = "idle" /\ pc' = [pc EXCEPT ![k] = "done"]
      BY <1>5, AtCursor DEF RecordContent, Goto
    <2>2. KidSet(k) = {}
      BY <1>5, <2>1, ContentIsNoBundle, NothingUnderContent DEF RecordContent
    <2> HIDE DEF k
    <2>3. QED
      BY <1>3, <2>1, <2>2
  <1>6. ASSUME \A u \in Task \ {Root} : pc'[u] = "done" <=> pc[u] = "done"
        PROVE  [Abstract!Next]_Abstract!vars
    <2>1. CASE pc'[Root] = "done" /\ pc[Root] # "done"
      <3>1. pc[Root] \notin {"merge", "done", "failed"}
        BY <1>2, <2>1, RootIsApart DEF Finished
      <3>2. pc[Root] = "walk" /\ HeardAll(Root)
        BY <2>1, <3>1, HowTasksReturn, GraphAssumption
      <3>3. \A k \in KidSet(Root) : pc[k] = "done"
        BY <3>2, CountingIsEnough
      <3>4. {u \in Task : pc'[u] = "done"} = {u \in Task : pc[u] = "done"} \cup {Root}
        BY <1>6, <2>1
      <3>5. KidSet(Root) \subseteq {u \in Task : pc[u] = "done"}
        BY <3>3
      <3>6. Abstract!Succeed
        BY <2>1, <3>2, <3>4, <3>5 DEF Abstract!Succeed
      <3>7. QED
        BY <3>6 DEF Abstract!Next, Abstract!Report
    <2>2. CASE pc'[Root] = "failed" /\ pc[Root] # "failed"
      <3>1. pc[Root] \notin {"done", "failed"}
        BY <1>2, <2>2 DEF Finished
      <3>2. {u \in Task : pc'[u] = "done"} = {u \in Task : pc[u] = "done"}
        BY <1>6, <2>2, <3>1
      <3>3. Abstract!Fail
        BY <2>2, <3>1, <3>2 DEF Abstract!Fail
      <3>4. QED
        BY <3>3 DEF Abstract!Next, Abstract!Report
    <2>3. CASE /\ pc'[Root] = "done" <=> pc[Root] = "done"
               /\ pc'[Root] = "failed" <=> pc[Root] = "failed"
      BY <1>6, <2>3, HiddenStep
    <2>4. QED
      BY <1>2, <2>1, <2>2, <2>3 DEF Finished
  <1>7. QED
    BY <1>4, <1>5, <1>6, CollectEffect

\* At the start nothing is walked and nothing is reported.
LEMMA AbstractInit == Init => Abstract!Init
  <1> SUFFICES ASSUME Init
               PROVE  Abstract!Init
    OBVIOUS
  <1>1. \A t \in Task : pc[t] = IF t = Root THEN "read" ELSE "idle"
    BY DEF Init
  <1>2. {t \in Task : pc[t] = "done"} = {} /\ pc[Root] = "read"
    BY <1>1, TaskAssumption
  <1>3. QED
    BY <1>2 DEF Abstract!Init

\* The goroutines, locks and channels of the walk implement a walk without them: a
\* reference is visited after all it refers to, and success is reported after all.
THEOREM Refinement == Spec => ImplementsWalk
  <1>1. Inv /\ Result /\ [Next]_vars => [Abstract!Next]_Abstract!vars
    BY AbstractStep DEF Result
  <1>2. QED
    BY ResultInvariance, AbstractInit, <1>1, PTL DEF Spec, ImplementsWalk, Abstract!Spec

================================================================================
