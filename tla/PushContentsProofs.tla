---------------------------- MODULE PushContentsProofs ----------------------------
(***************************************************************************)
(* A push, for every number of commands, every file system and every       *)
(* bound. Inv is about what a push leaves behind: the image a lock file    *)
(* names is the one its command pushed, and no temporary file is left.     *)
(* WalkInv is about the three walks over the paths: how far each has come, *)
(* and that they see the same as long as nobody edits the files.           *)
(***************************************************************************)
EXTENDS PushContents, FiniteSetTheorems, TLAPS

Place == {"idle", "find", "repeat", "tar", "open", "tarred", "write", "tag", "pushed", "done", "failed"}

\* A command, from its flags to its lock file.
Push(p) ==
    /\ flags[p].modes \subseteq {"bundle", "image"}
    /\ pc[p] \notin {"idle", "failed"} => ~Refused(flags[p])
    /\ temp[p] => pc[p] \in {"tar", "open", "tarred", "write", "tag"}
    /\ pc[p] \in {"write", "tag", "pushed", "done"} =>
         image[p] # NoImage /\ (image[p].labelled <=> IsBundle(p))
    /\ pc[p] \in {"pushed", "done"} => image[p] \in defaults
    /\ lock[p] # NoImage => pc[p] = "done" /\ flags[p].lock /\ lock[p] = image[p]

Shape ==
    /\ pc \in [Pusher -> Place] /\ temp \in [Pusher -> BOOLEAN]
    /\ DOMAIN image = Pusher /\ DOMAIN lock = Pusher

Inv == Shape /\ \A p \in Pusher : Push(p)
--------------------------------------------------------------------------------
\* An image is there.
LEMMA IsImage == \A t, m, b : [entries |-> t, torn |-> m, labelled |-> b] # NoImage
  <1> SUFFICES ASSUME NEW t, NEW m, NEW b, [entries |-> t, torn |-> m, labelled |-> b] = NoImage
               PROVE  FALSE
    OBVIOUS
  <1>1. "absent" \in DOMAIN NoImage
    BY DEF NoImage
  <1>2. "absent" \notin DOMAIN [entries |-> t, torn |-> m, labelled |-> b]
    OBVIOUS
  <1>3. QED
    BY <1>1, <1>2

\* A lock file is only asked of a bundle.
LEMMA LockIsOfBundle ==
    ASSUME NEW f, f.modes \subseteq {"bundle", "image"}, ~Refused(f), f.lock
    PROVE  "bundle" \in f.modes
  <1>1. Cardinality(f.modes) = 1 /\ "image" \notin f.modes
    BY DEF Refused
  <1>2. f.modes # {}
    BY <1>1, FS_EmptySet
  <1>3. QED
    BY <1>1, <1>2

\* A step of one command leaves the others, and what the registry keeps, as they are.
LEMMA OthersPush ==
    ASSUME Inv, NEW p \in Pusher, flags' = flags, defaults \subseteq defaults',
           \A q \in Pusher \ {p} : pc'[q] = pc[q] /\ temp'[q] = temp[q] /\ image'[q] = image[q] /\ lock'[q] = lock[q],
           Shape', Push(p)'
    PROVE  Inv'
  <1>1. ASSUME NEW q \in Pusher, q # p PROVE Push(q)'
    <2>1. Push(q) /\ IsBundle(q)' = IsBundle(q) /\ (flags[q])' = flags[q]
      BY DEF Inv, IsBundle
    <2>2. pc'[q] = pc[q] /\ temp'[q] = temp[q] /\ image'[q] = image[q] /\ lock'[q] = lock[q]
      BY <1>1
    <2>3. QED
      BY <2>1, <2>2 DEF Push, Refused
  <1>2. QED
    BY <1>1 DEF Inv

\* A command that fails leaves neither a temporary file nor a lock file.
LEMMA FailStep ==
    ASSUME Inv, NEW p \in Pusher, pc[p] # "done", Fail(p), flags' = flags, defaults \subseteq defaults',
           UNCHANGED <<image, lock>>
    PROVE  Inv'
  <1>1. pc' = [pc EXCEPT ![p] = "failed"] /\ temp' = [temp EXCEPT ![p] = FALSE]
    BY DEF Fail, Goto, TempAfterFailure
  <1>2. Shape'
    BY <1>1 DEF Inv, Shape, Place
  <1>3. pc'[p] = "failed" /\ ~temp'[p]
        /\ \A q \in Pusher \ {p} : pc'[q] = pc[q] /\ temp'[q] = temp[q]
    BY <1>1 DEF Inv, Shape
  <1>4. Push(p)'
    BY <1>3 DEF Inv, Push
  <1>5. QED
    BY <1>2, <1>3, <1>4, OthersPush

\* The steps that only walk, and those of an editor, change nothing of it.
LEMMA StayStep ==
    ASSUME Inv, UNCHANGED <<pc, temp, image, lock, flags, defaults>>
    PROVE  Inv'
  BY DEF Inv, Shape, Push, IsBundle, Refused

\* A command goes on with its temporary file, or makes it, as long as it has no image.
LEMMA WalkStep ==
    ASSUME Inv, NEW p \in Pusher, NEW l \in {"find", "repeat", "tar", "open", "tarred"},
           pc' = [pc EXCEPT ![p] = l], pc[p] \notin {"done", "failed"},
           pc[p] = "idle" => ~Refused(flags[p]),
           temp' = temp \/ temp' = [temp EXCEPT ![p] = TRUE],
           l \in {"find", "repeat"} => temp' = temp /\ pc[p] \in {"idle", "find"},
           UNCHANGED <<image, lock, flags, defaults>>
    PROVE  Inv'
  <1>1. Shape'
    BY DEF Inv, Shape, Place
  <1>2. pc'[p] = l /\ \A q \in Pusher \ {p} : pc'[q] = pc[q] /\ temp'[q] = temp[q]
    BY DEF Inv, Shape
  <1>3. Push(p)'
    <2>1. Push(p) /\ (flags[p])' = flags[p]
      BY DEF Inv
    <2>2. temp'[p] => l \in {"tar", "open", "tarred"}
      BY <2>1 DEF Push
    <2>3. QED
      BY <1>2, <2>1, <2>2 DEF Push, Refused
  <1>4. QED
    BY <1>1, <1>2, <1>3, OthersPush

\* From the image to the lock file.
LEMMA ImageStep ==
    ASSUME Inv, NEW p \in Pusher, NewFileImage(p) \/ WriteImage(p) \/ WriteTag(p) \/ WriteLock(p)
    PROVE  Inv'
  <1> USE DEF fsVars, walkVars, tarVars, regVars
  <1>0. Shape /\ Push(p) /\ flags' = flags /\ defaults \subseteq defaults' /\ pc[p] # "done"
    BY DEF Inv, NewFileImage, WriteImage, WriteTag, WriteLock
  <1>1. CASE Fail(p)
    <2>1. UNCHANGED <<image, lock>>
      <3>1. pc'[p] = "failed"
        BY <1>0, <1>1 DEF Fail, Goto, Shape
      <3>2. CASE NewFileImage(p)
        BY <1>0, <3>1, <3>2 DEF NewFileImage, Goto, Shape
      <3>3. CASE WriteImage(p) \/ WriteTag(p)
        BY <3>3 DEF WriteImage, WriteTag
      <3>4. CASE WriteLock(p)
        BY <1>0, <3>1, <3>4 DEF WriteLock, Goto, Shape
      <3>5. QED
        BY <3>2, <3>3, <3>4
    <2>2. QED
      BY <1>0, <1>1, <2>1, FailStep
  <1>2. CASE NewFileImage(p) /\ ~Fail(p)
    <2>1. /\ image' = [image EXCEPT ![p] = [entries |-> tar[p], torn |-> missing[p], labelled |-> IsBundle(p)]]
          /\ pc' = [pc EXCEPT ![p] = "write"] /\ pc[p] = "tarred" /\ UNCHANGED <<temp, lock, flags, defaults>>
      BY <1>2 DEF NewFileImage, Goto
    <2>2. Shape'
      BY <1>0, <2>1 DEF Shape, Place
    <2>3. /\ pc'[p] = "write" /\ image'[p] # NoImage /\ (image'[p].labelled <=> IsBundle(p))
          /\ \A q \in Pusher \ {p} : pc'[q] = pc[q] /\ image'[q] = image[q]
      BY <1>0, <2>1, IsImage DEF Shape
    <2>4. Push(p)'
      BY <1>0, <2>1, <2>3 DEF Push, Refused, IsBundle
    <2>5. QED
      BY <1>0, <2>1, <2>2, <2>3, <2>4, OthersPush
  <1>3. CASE WriteImage(p) /\ ~Fail(p)
    <2>1. pc' = [pc EXCEPT ![p] = "tag"] /\ pc[p] = "write" /\ UNCHANGED <<temp, image, lock, flags, defaults>>
      BY <1>3 DEF WriteImage, Goto
    <2>2. Shape' /\ pc'[p] = "tag" /\ \A q \in Pusher \ {p} : pc'[q] = pc[q]
      BY <1>0, <2>1 DEF Shape, Place
    <2>3. Push(p)'
      BY <1>0, <2>1, <2>2 DEF Push, Refused, IsBundle
    <2>4. QED
      BY <1>0, <2>1, <2>2, <2>3, OthersPush
  <1>4. CASE WriteTag(p)
    <2>1. /\ temp' = [temp EXCEPT ![p] = FALSE] /\ pc[p] = "tag" /\ UNCHANGED <<image, lock, flags>>
          /\ \/ pc' = [pc EXCEPT ![p] = "pushed"] /\ defaults' = defaults \cup {image[p]}
             \/ pc' = [pc EXCEPT ![p] = "failed"]
      BY <1>4 DEF WriteTag, Goto
    <2>2. /\ Shape' /\ ~temp'[p] /\ \A q \in Pusher \ {p} : pc'[q] = pc[q] /\ temp'[q] = temp[q]
          /\ pc'[p] = "failed" \/ (pc'[p] = "pushed" /\ image[p] \in defaults')
      BY <1>0, <2>1 DEF Shape, Place
    <2>3. Push(p)'
      BY <1>0, <2>1, <2>2 DEF Push, Refused, IsBundle
    <2>4. QED
      BY <1>0, <2>1, <2>2, <2>3, OthersPush
  <1>5. CASE WriteLock(p)
    <2>1. /\ pc[p] = "pushed" /\ UNCHANGED <<temp, image, flags, defaults>>
          /\ \/ /\ pc' = [pc EXCEPT ![p] = "done"]
                /\ lock' = [lock EXCEPT ![p] = IF flags[p].lock THEN image[p] ELSE NoImage]
             \/ pc' = [pc EXCEPT ![p] = "failed"] /\ lock' = lock
      BY <1>5 DEF WriteLock, Goto, LockedImage
    <2>2. /\ Shape' /\ \A q \in Pusher \ {p} : pc'[q] = pc[q] /\ lock'[q] = lock[q]
          /\ \/ pc'[p] = "done" /\ lock'[p] = IF flags[p].lock THEN image[p] ELSE NoImage
             \/ pc'[p] = "failed" /\ lock'[p] = lock[p]
      BY <1>0, <2>1 DEF Shape, Place
    <2>3. Push(p)'
      BY <1>0, <2>1, <2>2 DEF Push, Refused, IsBundle
    <2>4. QED
      BY <1>0, <2>1, <2>2, <2>3, OthersPush
  <1>6. QED
    BY <1>1, <1>2, <1>3, <1>4, <1>5

\* The walks and the tar.
LEMMA TarStep ==
    ASSUME Inv, NEW p \in Pusher,
           \/ Start(p) \/ Visit(p) \/ Found(p) \/ Checked(p)
           \/ TarDir(p) \/ TarFile(p) \/ TarRefuses(p) \/ CopyFile(p) \/ CloseTar(p)
    PROVE  Inv'
  <1> USE DEF fsVars, walkVars, tarVars, regVars
  <1>0. /\ UNCHANGED <<image, lock, flags, defaults>> /\ defaults \subseteq defaults'
        /\ pc[p] \notin {"done", "failed"}
    BY DEF Start, Visit, Found, Checked, TarDir, TarFile, TarRefuses, CopyFile, CloseTar
  <1>1. CASE Fail(p)
    BY <1>0, <1>1, FailStep
  <1>2. CASE UNCHANGED <<pc, temp>>
    BY <1>0, <1>2, StayStep
  <1>3. CASE ~Fail(p) /\ ~UNCHANGED <<pc, temp>>
    <2>1. CASE Start(p)
      BY <1>0, <1>3, <2>1, WalkStep DEF Start, Goto
    <2>2. CASE Visit(p)
      BY <1>3, <2>2 DEF Visit
    <2>3. CASE Found(p)
      BY <1>0, <1>3, <2>3, WalkStep DEF Found, Goto
    <2>4. CASE Checked(p)
      BY <1>0, <1>3, <2>4, WalkStep DEF Checked, Goto
    <2>5. CASE TarDir(p) \/ TarRefuses(p)
      BY <1>3, <2>5 DEF TarDir, TarRefuses
    <2>6. CASE TarFile(p)
      BY <1>0, <1>3, <2>6, WalkStep DEF TarFile, Goto
    <2>7. CASE CopyFile(p)
      BY <1>0, <1>3, <2>7, WalkStep DEF CopyFile, Goto
    <2>8. CASE CloseTar(p)
      BY <1>0, <1>3, <2>8, WalkStep DEF CloseTar, Goto
    <2>9. QED
      BY <2>1, <2>2, <2>3, <2>4, <2>5, <2>6, <2>7, <2>8
  <1>4. QED
    BY <1>1, <1>2, <1>3

\* It holds at the start.
LEMMA InitInv == Init => Inv
  <1> SUFFICES ASSUME Init PROVE Inv
    OBVIOUS
  <1>1. Shape
    BY DEF Init, Shape, Place
  <1>2. ASSUME NEW p \in Pusher PROVE Push(p)
    <2>1. flags[p] \in Flags[p] /\ pc[p] = "idle" /\ ~temp[p] /\ lock[p] = NoImage
      BY <1>2 DEF Init
    <2>2. flags[p].modes \subseteq {"bundle", "image"}
      BY <1>2, <2>1, CommandsAssumption
    <2>3. QED
      BY <2>1, <2>2 DEF Push
  <1>3. QED
    BY <1>1, <1>2 DEF Inv

\* Every step keeps it.
LEMMA InvStep == Inv /\ [Next]_vars => Inv'
  <1> SUFFICES ASSUME Inv, [Next]_vars PROVE Inv'
    OBVIOUS
  <1>1. ASSUME NEW p \in Pusher, Step(p) PROVE Inv'
    BY <1>1, TarStep, ImageStep DEF Step
  <1>2. CASE Edit
    BY <1>2, StayStep DEF Edit, tarVars, regVars
  <1>3. CASE UNCHANGED vars
    BY <1>3, StayStep DEF vars, tarVars, regVars
  <1>4. QED
    BY <1>1, <1>2, <1>3 DEF Next, Terminated

\* So it holds in every state.
LEMMA Invariance == Spec => []Inv
  BY InitInv, InvStep, PTL DEF Spec

\* A lock file names the image its command pushed (cmd/push.go), whatever tag another
\* command moves meanwhile, and that image is a bundle that keeps its default tag.
THEOREM Locked == Spec => []LockedIsKept
  <1>1. Inv => LockedIsKept
    <2> SUFFICES ASSUME Inv, NEW p \in Pusher, lock[p] # NoImage
                 PROVE  lock[p] = image[p] /\ lock[p] \in defaults /\ lock[p].labelled
      BY DEF LockedIsKept
    <2>1. Push(p)
      BY DEF Inv
    <2>2. pc[p] = "done" /\ flags[p].lock /\ lock[p] = image[p] /\ image[p] \in defaults
      BY <2>1 DEF Push
    <2>3. IsBundle(p)
      BY <2>1, <2>2, LockIsOfBundle DEF Push, IsBundle
    <2>4. QED
      BY <2>1, <2>2, <2>3 DEF Push
  <1>2. QED
    BY <1>1, Invariance, PTL

\* However a command ends, and whatever failed, the temporary file of createTarball is gone
\* (AsFileImage, FileImage.Remove).
THEOREM Removed == Spec => []TempRemoved
  <1>1. Inv => TempRemoved
    BY DEF Inv, Push, TempRemoved, Ended
  <1>2. QED
    BY <1>1, Invariance, PTL
--------------------------------------------------------------------------------
(* Directories *)

\* The elements of a sequence.
Items(s) == {s[i] : i \in DOMAIN s}

\* What the head of an agenda is replaced by.
LEMMA Replaced ==
    ASSUME NEW S, NEW s \in Seq(S), NEW t \in Seq(S), t # << >>
    PROVE  /\ Head(t) \in S /\ Tail(t) \in Seq(S) /\ s \o Tail(t) \in Seq(S)
           /\ Items(t) = {Head(t)} \cup Items(Tail(t))
           /\ Items(s \o Tail(t)) = Items(s) \cup Items(Tail(t))
  <1>1. Len(t) \in Nat /\ Len(t) >= 1 /\ Head(t) = t[1] /\ Head(t) \in S
    OBVIOUS
  <1>2. Tail(t) \in Seq(S) /\ Len(Tail(t)) = Len(t) - 1 /\ \A i \in 1..Len(Tail(t)) : Tail(t)[i] = t[i + 1]
    OBVIOUS
  <1>3. Items(t) = {Head(t)} \cup Items(Tail(t))
    <2>1. ASSUME NEW i \in DOMAIN t PROVE t[i] \in {Head(t)} \cup Items(Tail(t))
      <3>1. i = 1 \/ (i - 1 \in DOMAIN Tail(t) /\ Tail(t)[i - 1] = t[i])
        BY <1>1, <1>2
      <3>2. QED
        BY <1>1, <3>1 DEF Items
    <2>2. ASSUME NEW i \in DOMAIN Tail(t) PROVE Tail(t)[i] \in Items(t)
      <3>1. i + 1 \in DOMAIN t /\ Tail(t)[i] = t[i + 1]
        BY <1>1, <1>2
      <3>2. QED
        BY <3>1 DEF Items
    <2>3. Head(t) \in Items(t)
      BY <1>1 DEF Items
    <2>4. QED
      BY <2>1, <2>2, <2>3 DEF Items
  <1> DEFINE u == Tail(t)
  <1>4. u \in Seq(S) /\ Len(u) \in Nat /\ Len(s) \in Nat
    BY <1>2
  <1> HIDE DEF u
  <1>5. /\ s \o u \in Seq(S) /\ Len(s \o u) = Len(s) + Len(u)
        /\ \A i \in 1..Len(s) + Len(u) : (s \o u)[i] = IF i <= Len(s) THEN s[i] ELSE u[i - Len(s)]
    BY <1>4
  <1>6. Items(s \o u) = Items(s) \cup Items(u)
    <2>1. ASSUME NEW i \in DOMAIN (s \o u) PROVE (s \o u)[i] \in Items(s) \cup Items(u)
      <3>1. i \in 1..Len(s) + Len(u)
        BY <1>5
      <3>2. CASE i <= Len(s)
        <4>1. i \in DOMAIN s /\ (s \o u)[i] = s[i]
          BY <1>4, <1>5, <3>1, <3>2
        <4>2. QED
          BY <4>1 DEF Items
      <3>3. CASE ~(i <= Len(s))
        <4>1. i - Len(s) \in DOMAIN u /\ (s \o u)[i] = u[i - Len(s)]
          BY <1>4, <1>5, <3>1, <3>3
        <4>2. QED
          BY <4>1 DEF Items
      <3>4. QED
        BY <3>2, <3>3
    <2>2. ASSUME NEW i \in DOMAIN s PROVE s[i] \in Items(s \o u)
      <3>1. i \in DOMAIN (s \o u) /\ (s \o u)[i] = s[i]
        BY <1>4, <1>5
      <3>2. QED
        BY <3>1 DEF Items
    <2>3. ASSUME NEW i \in DOMAIN u PROVE u[i] \in Items(s \o u)
      <3>1. i + Len(s) \in DOMAIN (s \o u) /\ (s \o u)[i + Len(s)] = u[i]
        BY <1>4, <1>5
      <3>2. QED
        BY <3>1 DEF Items
    <2>4. QED
      BY <2>1, <2>2, <2>3 DEF Items
  <1>7. QED
    BY <1>1, <1>2, <1>3, <1>5, <1>6 DEF u

\* A directory is read by name, each name once.
LEMMA ChildrenFacts ==
    ASSUME NEW d
    PROVE  /\ Children(d) \in Seq(Entries)
           /\ Items(Children(d)) = {e \in Entries \cap exists : Parent[e] = d}
  <1> DEFINE kids == {i \in DOMAIN Entry : Parent[Entry[i]] = d /\ Entry[i] \in exists}
  <1> DEFINE UpTo(i) == {j \in kids : j <= i}
  <1> DEFINE rank == [i \in kids |-> Cardinality(UpTo(i))]
  <1>1. Entry \in Seq(Entries) /\ DOMAIN Entry = 1..Len(Entry) /\ Len(Entry) \in Nat
    BY FilesAssumption
  <1>2. IsFiniteSet(kids) /\ kids \subseteq Nat
    <2>1. IsFiniteSet(1..Len(Entry))
      BY <1>1, FS_Interval
    <2>2. kids \subseteq 1..Len(Entry)
      BY <1>1
    <2>3. QED
      BY <1>1, <2>1, <2>2, FS_Subset
  <1>3. \A i \in kids : Entry[i] \in Entries /\ Parent[Entry[i]] = d /\ Entry[i] \in exists
    BY DEF Entries
  <1>4. \A e \in Entries \cap exists : Parent[e] = d => \E i \in kids : e = Entry[i]
    BY DEF Entries
  <1>5. Children(d) = [k \in 1..Cardinality(kids) |-> Entry[CHOOSE i \in kids : Cardinality(UpTo(i)) = k]]
    BY DEF Children
  <1> HIDE DEF kids
  <1>6. \A i \in kids : IsFiniteSet(UpTo(i)) /\ UpTo(i) \subseteq kids /\ i \in UpTo(i)
    BY <1>2, FS_Subset
  <1>7. Cardinality(kids) \in Nat
    BY <1>2, FS_CardinalityType
  <1>8. \A i \in kids : Cardinality(UpTo(i)) \in 1..Cardinality(kids)
    <2> SUFFICES ASSUME NEW i \in kids PROVE Cardinality(UpTo(i)) \in 1..Cardinality(kids)
      OBVIOUS
    <2>1. IsFiniteSet(UpTo(i)) /\ UpTo(i) \subseteq kids /\ UpTo(i) # {}
      BY <1>6
    <2> HIDE DEF UpTo
    <2>2. Cardinality(UpTo(i)) <= Cardinality(kids)
      BY <1>2, <2>1, FS_Subset
    <2>3. Cardinality(UpTo(i)) \in Nat /\ Cardinality(UpTo(i)) # 0
      BY <2>1, FS_CardinalityType, FS_EmptySet
    <2>4. QED
      BY <1>7, <2>2, <2>3
  <1>9. ASSUME NEW i \in kids, NEW j \in kids, i # j
        PROVE  Cardinality(UpTo(i)) # Cardinality(UpTo(j))
    <2>1. ASSUME NEW x \in kids, NEW y \in kids, x < y
          PROVE  Cardinality(UpTo(x)) # Cardinality(UpTo(y))
      <3>1. \A k \in kids : k \in Nat /\ (k <= x => k <= y)
        BY <1>2, <2>1
      <3>2. ~(y <= x)
        BY <1>2, <2>1
      <3>3. UpTo(x) \subseteq UpTo(y) /\ y \notin UpTo(x)
        BY <3>1, <3>2
      <3>4. y \in UpTo(y) /\ IsFiniteSet(UpTo(y))
        BY <1>6
      <3> HIDE DEF UpTo
      <3>5. QED
        BY <3>3, <3>4, FS_Subset
    <2>2. i < j \/ j < i
      BY <1>2, <1>9
    <2>3. QED
      BY <2>1, <2>2
  <1>10. rank \in Injection(kids, 1..Cardinality(kids))
    BY <1>8, <1>9 DEF Injection, IsInjective
  <1>11. IsFiniteSet(1..Cardinality(kids)) /\ Cardinality(1..Cardinality(kids)) = Cardinality(kids)
    BY <1>7, FS_Interval
  <1>12. rank \in Surjection(kids, 1..Cardinality(kids))
    BY <1>10, <1>11, FS_Injection
  <1>13. \A k \in 1..Cardinality(kids) : \E i \in kids : Cardinality(UpTo(i)) = k
    BY <1>12 DEF Surjection
  <1> DEFINE at(k) == CHOOSE i \in kids : Cardinality(UpTo(i)) = k
  <1>14. \A k \in 1..Cardinality(kids) : at(k) \in kids /\ Cardinality(UpTo(at(k))) = k
    BY <1>13
  <1>15. \A i \in kids : at(Cardinality(UpTo(i))) = i
    BY <1>8, <1>9, <1>14
  <1>16. Children(d) = [k \in 1..Cardinality(kids) |-> Entry[at(k)]]
    BY <1>5
  <1> HIDE DEF at, UpTo
  <1>17. Children(d) \in Seq(Entries) /\ DOMAIN Children(d) = 1..Cardinality(kids)
    BY <1>3, <1>7, <1>14, <1>16
  <1>18. \A k \in 1..Cardinality(kids) : Children(d)[k] = Entry[at(k)]
    BY <1>16
  <1>19. \A e \in Items(Children(d)) : e \in Entries \cap exists /\ Parent[e] = d
    BY <1>3, <1>14, <1>17, <1>18 DEF Items
  <1>20. ASSUME NEW e \in Entries \cap exists, Parent[e] = d PROVE e \in Items(Children(d))
    <2>1. PICK i \in kids : e = Entry[i]
      BY <1>4, <1>20
    <2>2. Cardinality(UpTo(i)) \in 1..Cardinality(kids) /\ Children(d)[Cardinality(UpTo(i))] = e
      BY <1>8, <1>15, <1>18, <2>1
    <2>3. QED
      BY <1>17, <2>2 DEF Items
  <1>21. QED
    BY <1>17, <1>19, <1>20

\* An entry is below itself, and below what its directory is below.
LEMMA AncestorsFacts ==
    ASSUME NEW e \in Entries
    PROVE  /\ Ancestors[e] \subseteq Entries /\ e \in Ancestors[e] /\ Climbs(Ancestors[e])
           /\ \A S \in SUBSET Entries : e \in S /\ Climbs(S) => Ancestors[e] \subseteq S
  <1>1. Ancestors[e] = {a \in Entries : \A S \in SUBSET Entries : e \in S /\ Climbs(S) => a \in S}
    BY DEF Ancestors
  <1>2. ASSUME NEW x \in Ancestors[e], ~IsRoot(x) PROVE Parent[x] \in Ancestors[e]
    <2>1. Parent[x] \in Entries
      BY <1>1, <1>2, FilesAssumption DEF IsRoot
    <2>2. ASSUME NEW S \in SUBSET Entries, e \in S, Climbs(S) PROVE Parent[x] \in S
      BY <1>1, <1>2, <2>2 DEF Climbs
    <2>3. QED
      BY <1>1, <2>1, <2>2
  <1>3. QED
    BY <1>1, <1>2 DEF Climbs

\* Between a directory and what is below it is an entry of the directory.
LEMMA OneStepDown ==
    ASSUME NEW x \in Entries, NEW d \in Ancestors[x], d # x
    PROVE  \E c \in Ancestors[x] : ~IsRoot(c) /\ Parent[c] = d
  <1> SUFFICES ASSUME \A c \in Ancestors[x] : IsRoot(c) \/ Parent[c] # d PROVE FALSE
    OBVIOUS
  <1> DEFINE S == Ancestors[x] \ {d}
  <1>1. S \in SUBSET Entries /\ x \in S
    BY AncestorsFacts
  <1>2. Climbs(S)
    BY AncestorsFacts DEF Climbs
  <1>3. Ancestors[x] \subseteq S
    BY <1>1, <1>2, AncestorsFacts
  <1>4. QED
    BY <1>3

\* What is below an entry of a directory is that entry, or is below the directory.
LEMMA AncestorsOfChild ==
    ASSUME NEW c \in Entries, ~IsRoot(c)
    PROVE  Parent[c] \in Entries /\ Ancestors[c] = {c} \cup Ancestors[Parent[c]]
  <1>1. Parent[c] \in Entries /\ Parent[c] \in Ancestors[c]
    BY AncestorsFacts DEF Climbs
  <1>2. Ancestors[Parent[c]] \subseteq Ancestors[c]
    BY <1>1, AncestorsFacts
  <1> DEFINE S == {c} \cup Ancestors[Parent[c]]
  <1>3. S \in SUBSET Entries /\ c \in S
    BY <1>1, AncestorsFacts
  <1>4. Climbs(S)
    BY <1>1, AncestorsFacts DEF Climbs
  <1>5. Ancestors[c] \subseteq S
    BY <1>3, <1>4, AncestorsFacts
  <1>6. QED
    BY <1>1, <1>2, <1>5, AncestorsFacts

\* A value of --file is in no directory.
LEMMA AncestorsOfRoot ==
    ASSUME NEW r \in Roots
    PROVE  r \in Entries /\ Ancestors[r] = {r}
  <1>1. r \in Entries /\ IsRoot(r)
    BY DEF Roots, IsRoot
  <1>2. Climbs({r}) /\ {r} \in SUBSET Entries
    BY <1>1 DEF Climbs
  <1>3. QED
    BY <1>1, <1>2, AncestorsFacts
--------------------------------------------------------------------------------
(* What the walks keep *)

\* The files, and where the bounded counters are.
Files ==
    /\ exists \subseteq Entries /\ Climbs(exists) /\ Roots \subseteq exists
    /\ size \in [Entries -> Sizes]
    /\ edits \in 0..MaxEdits /\ faults \in 0..MaxFaults

Domains ==
    /\ DOMAIN agenda = Pusher /\ DOMAIN seen = Pusher /\ DOMAIN header = Pusher /\ DOMAIN tar = Pusher
    /\ missing \in [Pusher -> BOOLEAN] /\ calm \in [Pusher -> BOOLEAN]

\* What holds of a command whoever edits its files.
Typed(p) ==
    /\ flags[p] \in Flags[p]
    /\ agenda[p] \in Seq(Entries) /\ seen[p] \subseteq Entries /\ tar[p] \subseteq Header
    /\ pc[p] = "open" => header[p] \in Entries \X Sizes /\ Kind[header[p][1]] = "file"
    /\ pc[p] \in {"tar", "open", "tarred", "write", "tag"} => temp[p]
    /\ image[p] # NoImage => pc[p] \in {"write", "tag", "pushed", "done", "failed"}
    /\ pc[p] = "idle" => seen[p] = {} /\ tar[p] = {} /\ ~missing[p]

\* Somewhere below what a walk has still to visit.
Below(s, e)  == \E a \in Items(s) : a \in Ancestors[e]

\* What the image of a command is to hold, and what is to be so for it to be pushed.
HeaderFor(e) == HeaderOf(e, IF Kind[e] = "dir" THEN 0 ELSE size[e])
Content(p)   == {HeaderFor(e) : e \in Wanted(p)}
NoRepeats(p) == \A x, y \in Given(p) : x # y /\ Rel[x] = Rel[y] => Rel[x] = "."
OneImgpkg(p) == Cardinality({e \in Given(p) : Named[e] = "imgpkg"}) = 1

\* The first two walks have found what is given, or will.
Finding(p) ==
    /\ seen[p] \subseteq Given(p)
    /\ \A e \in Given(p) : e \in seen[p] \/ Below(agenda[p], e)

\* The third has written what is wanted, or will, and enters nothing that is excluded.
Writing(p) ==
    /\ \A x \in Items(agenda[p]) : \A a \in Ancestors[x] \ {x} : Rel[a] \notin Excluded[p]
    /\ \A e \in Wanted(p) : HeaderFor(e) \in tar[p] \/ Below(agenda[p], e)
                              \/ (pc[p] = "open" /\ header[p][1] = e)

\* A command whose files nobody has edited since it started.
Undisturbed(p) ==
    /\ tar[p] \subseteq Content(p) /\ ~missing[p]
    /\ pc[p] \in {"find", "repeat", "tar", "open"} => Items(agenda[p]) \subseteq Given(p)
    /\ pc[p] \in {"find", "repeat"} => Finding(p)
    /\ pc[p] \in {"repeat", "tar", "open", "tarred"} => (IsBundle(p) => OneImgpkg(p))
    /\ pc[p] \in {"tar", "open", "tarred"} => NoRepeats(p)
    /\ pc[p] \in {"tar", "open"} => Writing(p)
    /\ pc[p] = "open" => header[p][1] \in Wanted(p) /\ header[p][2] = size[header[p][1]]
    /\ pc[p] = "tarred" => tar[p] = Content(p)
    /\ image[p] # NoImage =>
         /\ image[p].entries = Content(p) /\ ~image[p].torn
         /\ NoRepeats(p) /\ (image[p].labelled => OneImgpkg(p))

WalkInv ==
    /\ Files /\ Domains
    /\ \A p \in Pusher : Typed(p) /\ (calm[p] => Undisturbed(p))
--------------------------------------------------------------------------------
\* As long as nobody edits a file, what is given and what is wanted stay the same.
LEMMA SameFiles ==
    ASSUME UNCHANGED <<exists, size, flags>>, NEW p \in Pusher
    PROVE  /\ Given(p)' = Given(p) /\ Wanted(p)' = Wanted(p) /\ Content(p)' = Content(p)
           /\ (NoRepeats(p)' <=> NoRepeats(p)) /\ (OneImgpkg(p)' <=> OneImgpkg(p))
           /\ (IsBundle(p)' <=> IsBundle(p))
  <1>1. Given(p)' = Given(p)
    BY DEF Given
  <1>2. Wanted(p)' = Wanted(p)
    BY <1>1 DEF Wanted
  <1>3. Content(p)' = Content(p)
    BY <1>2 DEF Content, HeaderFor, HeaderOf
  <1>4. NoRepeats(p)' <=> NoRepeats(p)
    BY <1>1 DEF NoRepeats
  <1>5. OneImgpkg(p)' <=> OneImgpkg(p)
    BY <1>1 DEF OneImgpkg
  <1>6. QED
    BY <1>1, <1>2, <1>3, <1>4, <1>5 DEF IsBundle

\* What is given: the paths, everything below them, and so whatever is in a directory of it.
LEMMA GivenFacts ==
    ASSUME Files, NEW p \in Pusher
    PROVE  /\ Given(p) \subseteq Entries \cap exists /\ Wanted(p) \subseteq Given(p)
           /\ Paths[p] \in Seq(Entries) /\ Items(Paths[p]) \subseteq Given(p)
           /\ \A r \in Items(Paths[p]) : Ancestors[r] = {r}
           /\ \A e \in Given(p) : Below(Paths[p], e)
           /\ \A h \in Given(p) : Items(Children(h)) \subseteq Given(p)
           /\ \A h \in Given(p) : \A c \in Items(Children(h)) : Ancestors[c] = {c} \cup Ancestors[h]
  <1>1. Given(p) \subseteq Entries \cap exists /\ Wanted(p) \subseteq Given(p)
    BY DEF Given, Wanted, Files
  <1>2. Paths[p] \in Seq(Roots) /\ Items(Paths[p]) \subseteq Roots
    <2>1. Paths[p] \in Seq(Roots)
      BY CommandsAssumption
    <2>2. \A i \in DOMAIN Paths[p] : Paths[p][i] \in Roots
      BY <2>1
    <2>3. QED
      BY <2>1, <2>2 DEF Items
  <1>3. Paths[p] \in Seq(Entries)
    <2>1. Roots \subseteq Entries
      BY DEF Roots
    <2>2. QED
      BY <1>2, <2>1
  <1>4. ASSUME NEW r \in Items(Paths[p]) PROVE r \in Given(p) /\ Ancestors[r] = {r}
    <2>1. Ancestors[r] = {r} /\ r \in exists
      BY <1>2, AncestorsOfRoot DEF Files
    <2>2. QED
      BY <2>1 DEF Given, Items
  <1>5. \A e \in Given(p) : Below(Paths[p], e)
    BY DEF Given, Below, Items
  <1>6. ASSUME NEW h \in Given(p), NEW c \in Items(Children(h))
        PROVE  c \in Given(p) /\ Ancestors[c] = {c} \cup Ancestors[h]
    <2>1. c \in Entries \cap exists /\ Parent[c] = h /\ h \in Entries
      BY <1>1, ChildrenFacts
    <2>2. ~IsRoot(c)
      BY <2>1, FilesAssumption DEF IsRoot
    <2>3. Ancestors[c] = {c} \cup Ancestors[h]
      BY <2>1, <2>2, AncestorsOfChild
    <2>4. QED
      BY <2>1, <2>3 DEF Given
  <1>7. QED
    BY <1>1, <1>3, <1>4, <1>5, <1>6

\* What is below the head of an agenda is the head, or below what a directory is replaced by.
LEMMA BelowNext ==
    ASSUME Files, NEW t \in Seq(Entries), t # << >>, NEW e \in Entries \cap exists, Below(t, e),
           NEW s \in Seq(Entries), Kind[Head(t)] = "dir" => Items(s) = Items(Children(Head(t)))
    PROVE  e = Head(t) \/ Below(s \o Tail(t), e)
  <1>1. PICK d \in Items(t) : d \in Ancestors[e]
    BY DEF Below
  <1>2. Items(t) = {Head(t)} \cup Items(Tail(t)) /\ Items(s \o Tail(t)) = Items(s) \cup Items(Tail(t))
    BY Replaced
  <1>3. CASE d \in Items(Tail(t))
    BY <1>1, <1>2, <1>3 DEF Below
  <1>4. CASE d = Head(t) /\ d # e
    <2>1. PICK c \in Ancestors[e] : ~IsRoot(c) /\ Parent[c] = d
      BY <1>1, <1>4, OneStepDown
    <2>2. c \in Entries \cap exists
      BY AncestorsFacts DEF Files
    <2>3. Kind[d] = "dir"
      BY <2>1, <2>2, FilesAssumption DEF IsRoot
    <2>4. c \in Items(Children(d))
      BY <2>1, <2>2, ChildrenFacts
    <2>5. QED
      BY <1>2, <1>4, <2>1, <2>3, <2>4 DEF Below
  <1>5. QED
    BY <1>1, <1>2, <1>3, <1>4

\* What is not below the head is below the rest.
LEMMA BelowTail ==
    ASSUME NEW t \in Seq(Entries), t # << >>, NEW s \in Seq(Entries), NEW e, Below(t, e),
           Head(t) \notin Ancestors[e]
    PROVE  Below(Tail(t), e) /\ Below(s \o Tail(t), e)
  <1>1. Items(t) = {Head(t)} \cup Items(Tail(t)) /\ Items(s \o Tail(t)) = Items(s) \cup Items(Tail(t))
    BY Replaced
  <1>2. QED
    BY <1>1 DEF Below

\* Nothing is below nothing.
LEMMA BelowNothing == \A e : ~Below(<< >>, e)
  BY DEF Below, Items

\* The invariant is there at the start.
LEMMA WalkInit == Init => WalkInv
  <1> SUFFICES ASSUME Init PROVE WalkInv
    OBVIOUS
  <1>1. Files
    <2>1. exists \subseteq Entries /\ Roots \subseteq exists /\ \A e \in exists : IsRoot(e) \/ Parent[e] \in exists
      BY DEF Init
    <2>2. size \in [Entries -> Sizes]
      BY DEF Init
    <2>3. edits \in 0..MaxEdits /\ faults \in 0..MaxFaults
      BY CommandsAssumption DEF Init
    <2>4. QED
      BY <2>1, <2>2, <2>3 DEF Files, Climbs
  <1>2. Domains
    BY DEF Init, Domains
  <1>3. ASSUME NEW p \in Pusher PROVE Typed(p) /\ Undisturbed(p)
    <2>1. /\ pc[p] = "idle" /\ agenda[p] = << >> /\ seen[p] = {} /\ tar[p] = {} /\ missing[p] = FALSE
          /\ image[p] = NoImage /\ flags[p] \in Flags[p]
      BY DEF Init
    <2>2. QED
      BY <2>1 DEF Typed, Undisturbed
  <1>4. QED
    BY <1>1, <1>2, <1>3 DEF WalkInv

\* A step of one command leaves the walks of the others alone.
LEMMA OthersWalk ==
    ASSUME WalkInv, NEW p \in Pusher, UNCHANGED <<exists, size, edits, flags, calm>>, faults' \in 0..MaxFaults,
           \A q \in Pusher \ {p} :
             /\ pc'[q] = pc[q] /\ agenda'[q] = agenda[q] /\ seen'[q] = seen[q] /\ header'[q] = header[q]
             /\ tar'[q] = tar[q] /\ missing'[q] = missing[q] /\ temp'[q] = temp[q] /\ image'[q] = image[q],
           Domains', Typed(p)', calm[p] => Undisturbed(p)'
    PROVE  WalkInv'
  <1>1. Files'
    BY DEF WalkInv, Files, Climbs
  <1>2. ASSUME NEW q \in Pusher, q # p PROVE Typed(q)' /\ (calm'[q] => Undisturbed(q)')
    <2>1. Typed(q) /\ (calm[q] => Undisturbed(q))
      BY DEF WalkInv
    <2>2. Typed(q)'
      BY <1>2, <2>1 DEF Typed
    <2>3. ASSUME calm[q] PROVE Undisturbed(q)'
      <3>1. /\ Given(q)' = Given(q) /\ Wanted(q)' = Wanted(q) /\ Content(q)' = Content(q)
            /\ (NoRepeats(q)' <=> NoRepeats(q)) /\ (OneImgpkg(q)' <=> OneImgpkg(q))
            /\ (IsBundle(q)' <=> IsBundle(q))
        BY SameFiles
      <3>2. (Finding(q)' <=> Finding(q))
        BY <1>2, <3>1 DEF Finding, Below
      <3>3. (Writing(q)' <=> Writing(q))
        <4>1. \A e : HeaderFor(e)' = HeaderFor(e)
          BY DEF HeaderFor, HeaderOf
        <4>2. pc'[q] = pc[q] /\ agenda'[q] = agenda[q] /\ header'[q] = header[q] /\ tar'[q] = tar[q]
          BY <1>2
        <4>3. \A e : Below(agenda'[q], e) <=> Below(agenda[q], e)
          BY <4>2
        <4>4. QED
          BY <3>1, <4>1, <4>2, <4>3 DEF Writing
      <3>4. QED
        BY <1>2, <2>1, <2>3, <3>1, <3>2, <3>3 DEF Undisturbed
    <2>4. QED
      BY <2>2, <2>3
  <1>3. QED
    BY <1>1, <1>2 DEF WalkInv

\* A command that fails has no more to do.
LEMMA FailWalk ==
    ASSUME WalkInv, Shape, NEW p \in Pusher, Fail(p), faults' \in 0..MaxFaults,
           UNCHANGED <<exists, size, edits, flags, calm, agenda, seen, header, tar, missing, image>>
    PROVE  WalkInv'
  <1>1. pc'[p] = "failed" /\ \A q \in Pusher \ {p} : pc'[q] = pc[q] /\ temp'[q] = temp[q]
    BY DEF Fail, Goto, TempAfterFailure, Shape
  <1>2. Domains'
    BY DEF WalkInv, Domains
  <1>3. Typed(p)'
    BY <1>1 DEF WalkInv, Typed
  <1>4. ASSUME calm[p] PROVE Undisturbed(p)'
    <2>1. Undisturbed(p)
      BY <1>4 DEF WalkInv
    <2>2. QED
      BY <1>1, <2>1, SameFiles DEF Undisturbed
  <1>5. QED
    BY <1>1, <1>2, <1>3, <1>4, OthersWalk
--------------------------------------------------------------------------------
\* A command begins with its paths.
LEMMA StartWalk ==
    ASSUME WalkInv, Shape, NEW p \in Pusher, Start(p)
    PROVE  WalkInv'
  <1>0. /\ UNCHANGED <<exists, size, edits, flags, calm, seen, header, tar, missing, image>> /\ faults' = faults
        /\ pc[p] = "idle" /\ faults \in 0..MaxFaults
    BY DEF Start, fsVars, regVars, WalkInv, Files
  <1>1. CASE Refused(flags[p])
    BY <1>0, <1>1, FailWalk DEF Start
  <1>2. CASE ~Refused(flags[p])
    <2>1. pc' = [pc EXCEPT ![p] = "find"] /\ agenda' = [agenda EXCEPT ![p] = Paths[p]] /\ temp' = temp
      BY <1>2 DEF Start, Goto
    <2>2. /\ pc'[p] = "find" /\ agenda'[p] = Paths[p]
          /\ \A q \in Pusher \ {p} : pc'[q] = pc[q] /\ agenda'[q] = agenda[q]
      BY <2>1 DEF Shape, WalkInv, Domains
    <2>3. Domains'
      BY <1>0, <2>1 DEF WalkInv, Domains
    <2>4. Typed(p)'
      BY <1>0, <2>1, <2>2, GivenFacts DEF WalkInv, Typed
    <2>5. ASSUME calm[p] PROVE Undisturbed(p)'
      <3>1. seen[p] = {} /\ tar[p] = {} /\ ~missing[p] /\ image[p] = NoImage /\ Undisturbed(p)
        BY <1>0, <2>5 DEF WalkInv, Typed
      <3>2. Items(Paths[p]) \subseteq Given(p) /\ \A e \in Given(p) : Below(Paths[p], e)
        BY GivenFacts DEF WalkInv
      <3>3. QED
        BY <1>0, <2>2, <3>1, <3>2, SameFiles DEF Undisturbed, Finding
    <2>6. QED
      BY <1>0, <2>1, <2>2, <2>3, <2>4, <2>5, OthersWalk
  <1>3. QED
    BY <1>1, <1>2

\* A walk comes to the head of its agenda, and goes on with what is in it.
LEMMA VisitWalk ==
    ASSUME WalkInv, Shape, NEW p \in Pusher, Visit(p)
    PROVE  WalkInv'
  <1> DEFINE t == agenda[p]
             h == Head(t)
             s == IF Kind[h] = "dir" THEN Children(h) ELSE << >>
  <1>0. /\ UNCHANGED <<exists, size, edits, flags, calm, header, tar, missing, image>> /\ faults' = faults
        /\ pc[p] \in {"find", "repeat"} /\ t # << >> /\ t \in Seq(Entries) /\ faults \in 0..MaxFaults
        /\ seen[p] \subseteq Entries
    BY DEF Visit, fsVars, regVars, WalkInv, Files, Typed
  <1>1. CASE h \notin exists
    <2>1. Fail(p) /\ UNCHANGED <<agenda, seen>>
      BY <1>1 DEF Visit
    <2>2. QED
      BY <1>0, <2>1, FailWalk
  <1>2. CASE h \in exists
    <2>1. /\ agenda' = [agenda EXCEPT ![p] = s \o Tail(t)] /\ seen' = [seen EXCEPT ![p] = seen[p] \cup {h}]
          /\ UNCHANGED <<pc, temp>>
      BY <1>2 DEF Visit
    <2>2. /\ agenda'[p] = s \o Tail(t) /\ seen'[p] = seen[p] \cup {h} /\ pc'[p] = pc[p]
          /\ \A q \in Pusher \ {p} : agenda'[q] = agenda[q] /\ seen'[q] = seen[q]
      BY <2>1 DEF WalkInv, Domains
    <2>3. /\ s \in Seq(Entries) /\ Items(s) \subseteq Items(Children(h))
          /\ Kind[h] = "dir" => Items(s) = Items(Children(h))
      BY ChildrenFacts DEF Items
    <2> HIDE DEF s, t
    <2>4. /\ h \in Entries /\ s \o Tail(t) \in Seq(Entries) /\ Items(t) = {h} \cup Items(Tail(t))
          /\ Items(s \o Tail(t)) = Items(s) \cup Items(Tail(t))
      BY <1>0, <2>3, Replaced
    <2> HIDE DEF h
    <2>5. Domains'
      BY <1>0, <2>1 DEF WalkInv, Domains
    <2>6. Typed(p)'
      <3>1. seen'[p] \subseteq Entries
        BY <1>0, <2>2, <2>4
      <3>2. agenda'[p] \in Seq(Entries)
        BY <2>2, <2>4
      <3>3. QED
        BY <1>0, <2>1, <2>2, <3>1, <3>2 DEF WalkInv, Typed
    <2>7. ASSUME calm[p] PROVE Undisturbed(p)'
      <3>1. Undisturbed(p) /\ Items(t) \subseteq Given(p) /\ Finding(p)
        BY <1>0, <2>7 DEF WalkInv, Undisturbed, t
      <3>2. Items(s \o Tail(t)) \subseteq Given(p) /\ h \in Given(p)
        BY <2>3, <2>4, <3>1, GivenFacts DEF WalkInv
      <3>3. ASSUME NEW e \in Given(p) PROVE e \in seen[p] \cup {h} \/ Below(s \o Tail(t), e)
        <4>1. e \in seen[p] \/ Below(t, e)
          BY <3>1 DEF Finding, t
        <4>2. e \in Entries \cap exists
          BY GivenFacts DEF WalkInv
        <4>3. Below(t, e) => e = h \/ Below(s \o Tail(t), e)
          BY <1>0, <2>3, <4>2, BelowNext DEF WalkInv, h
        <4>4. QED
          BY <4>1, <4>3
      <3>4. seen[p] \subseteq Given(p) /\ Given(p)' = Given(p)
        BY <1>0, <3>1, SameFiles DEF Finding
      <3>5. Finding(p)'
        BY <2>2, <3>2, <3>3, <3>4 DEF Finding
      <3>6. QED
        BY <1>0, <2>1, <2>2, <3>1, <3>2, <3>4, <3>5, SameFiles DEF Undisturbed
    <2>8. QED
      BY <1>0, <2>1, <2>2, <2>5, <2>6, <2>7, OthersWalk
  <1>3. QED
    BY <1>1, <1>2
--------------------------------------------------------------------------------
\* A walk that has nothing left to visit has found what is given.
LEMMA AllFound ==
    ASSUME WalkInv, NEW p \in Pusher, pc[p] \in {"find", "repeat"}, agenda[p] = << >>, calm[p]
    PROVE  seen[p] = Given(p) /\ Undisturbed(p)
  <1>1. Undisturbed(p) /\ Finding(p)
    BY DEF WalkInv, Undisturbed
  <1>2. \A e : ~Below(agenda[p], e)
    BY BelowNothing
  <1>3. QED
    BY <1>1, <1>2 DEF Finding

\* The end of the first walk: what presents as a bundle has one .imgpkg in all.
LEMMA FoundWalk ==
    ASSUME WalkInv, Shape, NEW p \in Pusher, Found(p)
    PROVE  WalkInv'
  <1>0. /\ UNCHANGED <<exists, size, edits, flags, calm, header, tar, missing, image>> /\ faults' = faults
        /\ pc[p] = "find" /\ agenda[p] = << >> /\ faults \in 0..MaxFaults
    BY DEF Found, fsVars, regVars, WalkInv, Files
  <1>1. CASE PresentsAsBundle(p, seen[p]) # IsBundle(p)
    BY <1>0, <1>1, FailWalk DEF Found
  <1>2. CASE PresentsAsBundle(p, seen[p]) = IsBundle(p)
    <2>1. /\ pc' = [pc EXCEPT ![p] = "repeat"] /\ agenda' = [agenda EXCEPT ![p] = Paths[p]]
          /\ seen' = [seen EXCEPT ![p] = {}] /\ temp' = temp
      BY <1>2 DEF Found, Goto
    <2>2. /\ pc'[p] = "repeat" /\ agenda'[p] = Paths[p] /\ seen'[p] = {}
          /\ \A q \in Pusher \ {p} : pc'[q] = pc[q] /\ agenda'[q] = agenda[q] /\ seen'[q] = seen[q]
      BY <2>1 DEF Shape, WalkInv, Domains
    <2>3. Domains'
      BY <1>0, <2>1 DEF WalkInv, Domains
    <2>4. Typed(p)'
      BY <1>0, <2>1, <2>2, GivenFacts DEF WalkInv, Typed
    <2>5. ASSUME calm[p] PROVE Undisturbed(p)'
      <3>1. seen[p] = Given(p) /\ Undisturbed(p)
        BY <1>0, <2>5, AllFound
      <3>2. Items(Paths[p]) \subseteq Given(p) /\ \A e \in Given(p) : Below(Paths[p], e)
        BY GivenFacts DEF WalkInv
      <3>3. ASSUME IsBundle(p) PROVE OneImgpkg(p)
        <4>1. PresentsAsBundle(p, Given(p))
          BY <1>2, <3>1, <3>3
        <4>2. PICK e : FoundImgpkg(Given(p)) = {e}
          BY <4>1 DEF PresentsAsBundle
        <4>3. {x \in Given(p) : Named[x] = "imgpkg"} = {e}
          BY <4>2 DEF FoundImgpkg
        <4>4. QED
          BY <4>3, FS_Singleton DEF OneImgpkg
      <3>4. Finding(p)'
        BY <1>0, <2>2, <3>2, SameFiles DEF Finding
      <3>5. QED
        BY <1>0, <2>2, <3>1, <3>2, <3>3, <3>4, SameFiles DEF Undisturbed
    <2>6. QED
      BY <1>0, <2>1, <2>2, <2>3, <2>4, <2>5, OthersWalk
  <1>3. QED
    BY <1>1, <1>2

\* The end of the second: no path means two files, and the third begins with an empty tar.
LEMMA CheckedWalk ==
    ASSUME WalkInv, Shape, NEW p \in Pusher, Checked(p)
    PROVE  WalkInv'
  <1>0. /\ UNCHANGED <<exists, size, edits, flags, calm, seen, header, tar, missing, image>>
        /\ pc[p] = "repeat" /\ agenda[p] = << >> /\ faults \in 0..MaxFaults
    BY DEF Checked, fsVars, regVars, WalkInv, Files
  <1>1. faults' \in 0..MaxFaults
    BY <1>0, CommandsAssumption DEF Checked, Fault
  <1>2. CASE Fail(p) /\ UNCHANGED agenda
    BY <1>0, <1>1, <1>2, FailWalk
  <1>3. CASE ~(Fail(p) /\ UNCHANGED agenda)
    <2>1. /\ pc' = [pc EXCEPT ![p] = "tar"] /\ agenda' = [agenda EXCEPT ![p] = Paths[p]]
          /\ temp' = [temp EXCEPT ![p] = TRUE] /\ ~RepeatedPaths(seen[p])
      BY <1>3 DEF Checked, Goto
    <2>2. /\ pc'[p] = "tar" /\ agenda'[p] = Paths[p] /\ temp'[p]
          /\ \A q \in Pusher \ {p} : pc'[q] = pc[q] /\ agenda'[q] = agenda[q] /\ temp'[q] = temp[q]
      BY <2>1 DEF Shape, WalkInv, Domains
    <2>3. Domains'
      BY <1>0, <2>1 DEF WalkInv, Domains
    <2>4. Typed(p)'
      BY <1>0, <2>2, GivenFacts DEF WalkInv, Typed
    <2>5. ASSUME calm[p] PROVE Undisturbed(p)'
      <3>1. seen[p] = Given(p) /\ Undisturbed(p)
        BY <1>0, <2>5, AllFound
      <3>2. /\ Items(Paths[p]) \subseteq Given(p) /\ \A e \in Given(p) : Below(Paths[p], e)
            /\ \A r \in Items(Paths[p]) : Ancestors[r] = {r}
            /\ Wanted(p) \subseteq Given(p)
        BY GivenFacts DEF WalkInv
      <3>3. NoRepeats(p)
        BY <2>1, <3>1 DEF RepeatedPaths, NoRepeats
      <3>4. Writing(p)'
        BY <1>0, <2>2, <3>2, SameFiles DEF Writing
      <3>5. QED
        BY <1>0, <2>2, <3>1, <3>2, <3>3, <3>4, SameFiles DEF Undisturbed
    <2>6. QED
      BY <1>0, <1>1, <2>1, <2>2, <2>3, <2>4, <2>5, OthersWalk
  <1>4. QED
    BY <1>2, <1>3
--------------------------------------------------------------------------------
\* What the third walk comes to is wanted unless it is excluded itself.
LEMMA HeadIsWanted ==
    ASSUME WalkInv, NEW p \in Pusher, pc[p] = "tar", agenda[p] # << >>, calm[p]
    PROVE  /\ Undisturbed(p) /\ Writing(p) /\ Head(agenda[p]) \in Given(p)
           /\ Items(Tail(agenda[p])) \subseteq Items(agenda[p]) /\ Items(agenda[p]) \subseteq Given(p)
           /\ ~IsExcluded(p, Head(agenda[p])) => Head(agenda[p]) \in Wanted(p)
           /\ IsExcluded(p, Head(agenda[p])) => \A e \in Wanted(p) : Head(agenda[p]) \notin Ancestors[e]
  <1> DEFINE t == agenda[p]
             h == Head(t)
  <1>1. t \in Seq(Entries) /\ t # << >>
    BY DEF WalkInv, Typed
  <1>2. Undisturbed(p) /\ Writing(p) /\ Items(t) \subseteq Given(p)
    BY DEF WalkInv, Undisturbed
  <1> HIDE DEF t
  <1>3. Items(t) = {h} \cup Items(Tail(t))
    BY <1>1, Replaced, << >> \in Seq(Entries)
  <1>4. h \in Given(p) /\ Items(Tail(t)) \subseteq Items(t)
    BY <1>2, <1>3
  <1>5. \A a \in Ancestors[h] \ {h} : Rel[a] \notin Excluded[p]
    <2>1. h \in Items(t)
      BY <1>3
    <2> HIDE DEF h
    <2>2. QED
      BY <1>2, <2>1 DEF Writing, t
  <1> HIDE DEF h
  <1>6. ~IsExcluded(p, h) => h \in Wanted(p)
    BY <1>4, <1>5 DEF IsExcluded, Wanted
  <1>7. IsExcluded(p, h) => \A e \in Wanted(p) : h \notin Ancestors[e]
    BY DEF IsExcluded, Wanted
  <1>8. QED
    BY <1>2, <1>4, <1>6, <1>7 DEF t, h

\* A directory gets its header and is entered, or is left out with what is in it.
LEMMA TarDirWalk ==
    ASSUME WalkInv, Shape, NEW p \in Pusher, TarDir(p)
    PROVE  WalkInv'
  <1> DEFINE t == agenda[p]
             h == Head(t)
             s == IF IsExcluded(p, h) THEN << >> ELSE Children(h)
             new == IF IsExcluded(p, h) THEN {} ELSE {HeaderOf(h, 0)}
  <1>0. /\ UNCHANGED <<exists, size, edits, flags, calm, seen, header, missing, image>> /\ faults' = faults
        /\ pc[p] = "tar" /\ t # << >> /\ t \in Seq(Entries) /\ faults \in 0..MaxFaults
        /\ h \in exists /\ Kind[h] = "dir"
    BY DEF TarDir, fsVars, regVars, WalkInv, Files, Typed
  <1>1. CASE Fail(p) /\ UNCHANGED <<agenda, tar>>
    BY <1>0, <1>1, FailWalk
  <1>2. CASE ~(Fail(p) /\ UNCHANGED <<agenda, tar>>)
    <2>1. /\ agenda' = [agenda EXCEPT ![p] = s \o Tail(t)] /\ UNCHANGED <<pc, temp>>
          /\ IF IsExcluded(p, h) THEN tar' = tar ELSE tar' = [tar EXCEPT ![p] = tar[p] \cup {HeaderOf(h, 0)}]
      BY <1>2 DEF TarDir, BelowExcluded
    <2>2. /\ agenda'[p] = s \o Tail(t) /\ tar'[p] = tar[p] \cup new /\ pc'[p] = pc[p]
          /\ \A q \in Pusher \ {p} : agenda'[q] = agenda[q] /\ tar'[q] = tar[q]
      BY <2>1 DEF WalkInv, Domains
    <2>3. s \in Seq(Entries) /\ Items(<< >>) = {}
      BY ChildrenFacts DEF Items
    <2>4. Domains'
      BY <1>0, <2>1 DEF WalkInv, Domains
    <2> HIDE DEF s, t
    <2>5. /\ h \in Entries /\ s \o Tail(t) \in Seq(Entries)
          /\ Items(s \o Tail(t)) = Items(s) \cup Items(Tail(t))
      BY <1>0, <2>3, Replaced
    <2> HIDE DEF h
    <2>6. Typed(p)'
      <3>1. HeaderOf(h, 0) \in Header
        BY <1>0, <2>5 DEF HeaderOf, Header
      <3>2. tar'[p] \subseteq Header
        BY <2>2, <3>1 DEF WalkInv, Typed
      <3>3. agenda'[p] \in Seq(Entries)
        BY <2>2, <2>5
      <3>4. QED
        BY <1>0, <2>1, <2>2, <3>2, <3>3 DEF WalkInv, Typed
    <2>7. ASSUME calm[p] PROVE Undisturbed(p)'
      <3>1. /\ Undisturbed(p) /\ Writing(p) /\ h \in Given(p)
            /\ Items(Tail(t)) \subseteq Items(t) /\ Items(t) \subseteq Given(p)
            /\ ~IsExcluded(p, h) => h \in Wanted(p)
            /\ IsExcluded(p, h) => \A e \in Wanted(p) : h \notin Ancestors[e]
        BY <1>0, <2>7, HeadIsWanted DEF t, h
      <3>2. Items(s) \subseteq Given(p)
        BY <2>3, <3>1, GivenFacts DEF WalkInv, s
      <3>3. Items(s \o Tail(t)) \subseteq Given(p)
        BY <2>5, <3>1, <3>2
      <3>4. tar[p] \cup new \subseteq Content(p)
        <4>1. ~IsExcluded(p, h) => HeaderOf(h, 0) \in Content(p)
          BY <1>0, <3>1 DEF Content, HeaderFor
        <4>2. QED
          BY <3>1, <4>1 DEF Undisturbed
      <3>5. ASSUME NEW x \in Items(s \o Tail(t)), NEW a \in Ancestors[x] \ {x} PROVE Rel[a] \notin Excluded[p]
        <4>1. CASE x \in Items(Tail(t))
          BY <3>1, <3>5, <4>1 DEF Writing, t
        <4>2. CASE x \in Items(s)
          <5>1. ~IsExcluded(p, h) /\ x \in Items(Children(h))
            BY <2>3, <4>2 DEF s
          <5>2. a \in Ancestors[h]
            BY <3>1, <3>5, <5>1, GivenFacts DEF WalkInv
          <5>3. QED
            BY <3>1, <5>1, <5>2 DEF Wanted
        <4>3. QED
          BY <2>5, <3>5, <4>1, <4>2
      <3>6. ASSUME NEW e \in Wanted(p) PROVE HeaderFor(e) \in tar[p] \cup new \/ Below(s \o Tail(t), e)
        <4>1. HeaderFor(e) \in tar[p] \/ Below(t, e)
          BY <1>0, <3>1 DEF Writing, t
        <4>2. e \in Entries \cap exists
          BY GivenFacts DEF WalkInv
        <4>3. CASE IsExcluded(p, h) /\ Below(t, e)
          BY <1>0, <2>3, <3>1, <4>3, BelowTail DEF h
        <4>4. CASE ~IsExcluded(p, h) /\ Below(t, e)
          <5>1. e = h \/ Below(s \o Tail(t), e)
            BY <1>0, <2>3, <4>2, <4>4, BelowNext DEF WalkInv, h, s
          <5>2. e = h => HeaderFor(e) \in new
            BY <1>0, <4>4 DEF HeaderFor
          <5>3. QED
            BY <5>1, <5>2
        <4>5. QED
          BY <4>1, <4>3, <4>4
      <3> HIDE DEF new
      <3>7. Writing(p)'
        <4>1. \A e : HeaderFor(e)' = HeaderFor(e)
          BY <1>0 DEF HeaderFor, HeaderOf
        <4>2. Wanted(p)' = Wanted(p)
          BY <1>0, SameFiles
        <4>3. QED
          BY <2>2, <3>5, <3>6, <4>1, <4>2 DEF Writing
      <3>8. QED
        BY <1>0, <2>2, <3>1, <3>3, <3>4, <3>7, SameFiles DEF Undisturbed
    <2>8. QED
      BY <1>0, <2>1, <2>2, <2>4, <2>6, <2>7, OthersWalk
  <1>3. QED
    BY <1>1, <1>2

\* A file gets a header with the size the walk has seen, or is left out.
LEMMA TarFileWalk ==
    ASSUME WalkInv, Shape, NEW p \in Pusher, TarFile(p)
    PROVE  WalkInv'
  <1> DEFINE t == agenda[p]
             h == Head(t)
  <1>0. /\ UNCHANGED <<exists, size, edits, flags, calm, seen, tar, missing, image, temp>> /\ faults' = faults
        /\ pc[p] = "tar" /\ t # << >> /\ t \in Seq(Entries) /\ faults \in 0..MaxFaults
        /\ h \in exists /\ Kind[h] = "file" /\ agenda' = [agenda EXCEPT ![p] = Tail(t)]
        /\ \/ IsExcluded(p, h) /\ UNCHANGED <<pc, header>>
           \/ /\ ~IsExcluded(p, h) /\ pc' = [pc EXCEPT ![p] = "open"]
              /\ header' = [header EXCEPT ![p] = <<h, size[h]>>]
    BY DEF TarFile, Goto, fsVars, regVars, tarVars, WalkInv, Files, Typed
  <1>1. /\ agenda'[p] = Tail(t)
        /\ \/ IsExcluded(p, h) /\ pc'[p] = "tar" /\ header'[p] = header[p]
           \/ ~IsExcluded(p, h) /\ pc'[p] = "open" /\ header'[p] = <<h, size[h]>>
        /\ \A q \in Pusher \ {p} : agenda'[q] = agenda[q] /\ pc'[q] = pc[q] /\ header'[q] = header[q]
    BY <1>0 DEF WalkInv, Domains, Shape
  <1>2. Domains'
    BY <1>0 DEF WalkInv, Domains
  <1> HIDE DEF t
  <1>3. << >> \in Seq(Entries) /\ Items(<< >>) = {}
    BY DEF Items
  <1>4. /\ h \in Entries /\ Tail(t) \in Seq(Entries)
        /\ Items(<< >> \o Tail(t)) = Items(<< >>) \cup Items(Tail(t))
    BY <1>0, <1>3, Replaced
  <1> HIDE DEF h
  <1>5. Typed(p)'
    <2>1. size[h] \in Sizes /\ h \in Entries
      BY <1>4 DEF WalkInv, Files
    <2>2. header'[p] = <<h, size[h]>> => header'[p] \in Entries \X Sizes /\ header'[p][1] = h
      BY <2>1
    <2>3. agenda'[p] \in Seq(Entries)
      BY <1>1, <1>4
    <2>4. temp'[p] /\ flags'[p] \in Flags[p] /\ image'[p] = NoImage
      BY <1>0 DEF WalkInv, Typed
    <2>5. QED
      BY <1>0, <1>1, <2>2, <2>3, <2>4 DEF WalkInv, Typed
  <1>6. ASSUME calm[p] PROVE Undisturbed(p)'
    <2>1. /\ Undisturbed(p) /\ Writing(p) /\ h \in Given(p)
          /\ Items(Tail(t)) \subseteq Items(t) /\ Items(t) \subseteq Given(p)
          /\ ~IsExcluded(p, h) => h \in Wanted(p)
          /\ IsExcluded(p, h) => \A e \in Wanted(p) : h \notin Ancestors[e]
      BY <1>0, <1>6, HeadIsWanted DEF t, h
    <2>2. ASSUME NEW e \in Wanted(p)
          PROVE  HeaderFor(e) \in tar[p] \/ Below(Tail(t), e) \/ (~IsExcluded(p, h) /\ e = h)
      <3>1. HeaderFor(e) \in tar[p] \/ Below(t, e)
        BY <1>0, <2>1 DEF Writing, t
      <3>2. e \in Entries \cap exists
        BY GivenFacts DEF WalkInv
      <3>3. CASE IsExcluded(p, h) /\ Below(t, e)
        BY <1>0, <1>3, <2>1, <3>3, BelowTail DEF h
      <3>4. CASE ~IsExcluded(p, h) /\ Below(t, e)
        <4>1. e = h \/ Below(<< >> \o Tail(t), e)
          BY <1>0, <1>3, <3>2, <3>4, BelowNext DEF WalkInv, h
        <4>2. QED
          BY <1>3, <1>4, <3>4, <4>1 DEF Below
      <3>5. QED
        BY <3>1, <3>3, <3>4
    <2>3. Writing(p)'
      <3>1. \A e : HeaderFor(e)' = HeaderFor(e)
        BY <1>0 DEF HeaderFor, HeaderOf
      <3>2. Wanted(p)' = Wanted(p) /\ tar'[p] = tar[p]
        BY <1>0, SameFiles
      <3>3. \A x \in Items(Tail(t)) : \A a \in Ancestors[x] \ {x} : Rel[a] \notin Excluded[p]
        BY <2>1 DEF Writing, t
      <3>4. ~IsExcluded(p, h) => pc'[p] = "open" /\ header'[p][1] = h
        BY <1>1
      <3>5. QED
        BY <1>1, <2>2, <3>1, <3>2, <3>3, <3>4 DEF Writing
    <2>4. pc'[p] = "open" => h \in Wanted(p) /\ header'[p][1] = h /\ header'[p][2] = size[h]
      BY <1>1, <2>1
    <2>5. pc'[p] \in {"tar", "open"} /\ Items(agenda'[p]) \subseteq Given(p)
      BY <1>1, <2>1
    <2>6. QED
      BY <1>0, <2>1, <2>3, <2>4, <2>5, SameFiles DEF Undisturbed
  <1>7. QED
    BY <1>0, <1>1, <1>2, <1>5, <1>6, OthersWalk

\* A file is copied: as nobody has edited it, it has the size in its header.
LEMMA CopyFileWalk ==
    ASSUME WalkInv, Shape, NEW p \in Pusher, CopyFile(p)
    PROVE  WalkInv'
  <1> DEFINE e == header[p][1]
             n == header[p][2]
             put == HeaderOf(e, n)
  <1>0. /\ UNCHANGED <<exists, size, edits, flags, calm, agenda, seen, header, image>> /\ pc[p] = "open"
        /\ header[p] \in Entries \X Sizes /\ Kind[e] = "file" /\ faults \in 0..MaxFaults
    BY DEF CopyFile, fsVars, regVars, walkVars, WalkInv, Files, Typed
  <1>1. faults' \in 0..MaxFaults
    BY <1>0, CommandsAssumption DEF CopyFile, Fault
  <1>2. CASE Fail(p) /\ UNCHANGED <<tar, missing>>
    BY <1>0, <1>1, <1>2, FailWalk
  <1>3. CASE ~(Fail(p) /\ UNCHANGED <<tar, missing>>)
    <2>1. /\ tar' = [tar EXCEPT ![p] = tar[p] \cup {put}] /\ missing' = [missing EXCEPT ![p] = size[e] < n]
          /\ pc' = [pc EXCEPT ![p] = "tar"] /\ temp' = temp /\ ~missing[p] /\ size[e] <= n
      BY <1>3 DEF CopyFile, Goto
    <2> HIDE DEF e, n
    <2>2. /\ tar'[p] = tar[p] \cup {put} /\ pc'[p] = "tar" /\ (missing'[p] <=> size[e] < n)
          /\ \A q \in Pusher \ {p} : tar'[q] = tar[q] /\ missing'[q] = missing[q] /\ pc'[q] = pc[q]
      BY <2>1 DEF WalkInv, Domains, Shape
    <2>3. Domains'
      BY <1>0, <2>1 DEF WalkInv, Domains
    <2>4. Typed(p)'
      <3>1. e \in Entries /\ n \in Sizes
        BY <1>0 DEF e, n
      <3>2. put \in Header
        BY <1>0, <3>1 DEF HeaderOf, Header
      <3> HIDE DEF put
      <3>3. tar'[p] \subseteq Header
        BY <2>2, <3>2 DEF WalkInv, Typed
      <3>4. QED
        BY <1>0, <2>1, <2>2, <3>3 DEF WalkInv, Typed
    <2>5. ASSUME calm[p] PROVE Undisturbed(p)'
      <3>1. Undisturbed(p) /\ Writing(p) /\ e \in Wanted(p) /\ n = size[e]
        BY <1>0, <2>5 DEF WalkInv, Undisturbed, e, n
      <3>2. put = HeaderFor(e)
        BY <1>0, <3>1 DEF HeaderFor
      <3>3. ~missing'[p]
        <4>1. e \in Entries
          BY <3>1, GivenFacts DEF WalkInv
        <4>2. size[e] \in Nat
          BY <4>1, FilesAssumption DEF WalkInv, Files
        <4>3. QED
          BY <2>2, <3>1, <4>2
      <3> HIDE DEF put
      <3>4. tar'[p] \subseteq Content(p)
        BY <2>2, <3>1, <3>2 DEF Undisturbed, Content
      <3>5. Writing(p)'
        <4>1. \A x : HeaderFor(x)' = HeaderFor(x)
          BY <1>0 DEF HeaderFor, HeaderOf
        <4>2. Wanted(p)' = Wanted(p) /\ agenda'[p] = agenda[p]
          BY <1>0, SameFiles
        <4>3. \A x \in Wanted(p) : HeaderFor(x) \in tar'[p] \/ Below(agenda[p], x)
          BY <2>2, <3>1, <3>2 DEF Writing, e
        <4>4. QED
          BY <3>1, <4>1, <4>2, <4>3 DEF Writing
      <3>6. QED
        BY <1>0, <2>2, <3>1, <3>3, <3>4, <3>5, SameFiles DEF Undisturbed
    <2>6. QED
      BY <1>0, <1>1, <2>1, <2>2, <2>3, <2>4, <2>5, OthersWalk
  <1>4. QED
    BY <1>2, <1>3

\* The end of the third walk: the tar holds what is wanted.
LEMMA CloseTarWalk ==
    ASSUME WalkInv, Shape, NEW p \in Pusher, CloseTar(p)
    PROVE  WalkInv'
  <1>0. /\ UNCHANGED <<exists, size, edits, flags, calm, agenda, seen, header, tar, missing, image>>
        /\ pc[p] = "tar" /\ agenda[p] = << >> /\ faults \in 0..MaxFaults
    BY DEF CloseTar, fsVars, regVars, walkVars, WalkInv, Files
  <1>1. faults' \in 0..MaxFaults
    BY <1>0, CommandsAssumption DEF CloseTar, Fault
  <1>2. CASE Fail(p)
    BY <1>0, <1>1, <1>2, FailWalk
  <1>3. CASE ~Fail(p)
    <2>1. pc' = [pc EXCEPT ![p] = "tarred"] /\ temp' = temp
      BY <1>3 DEF CloseTar, Goto
    <2>2. pc'[p] = "tarred" /\ \A q \in Pusher \ {p} : pc'[q] = pc[q]
      BY <2>1 DEF Shape
    <2>3. Domains'
      BY <1>0 DEF WalkInv, Domains
    <2>4. Typed(p)'
      BY <1>0, <2>1, <2>2 DEF WalkInv, Typed
    <2>5. ASSUME calm[p] PROVE Undisturbed(p)'
      <3>1. Undisturbed(p) /\ Writing(p)
        BY <1>0, <2>5 DEF WalkInv, Undisturbed
      <3>2. \A e \in Wanted(p) : HeaderFor(e) \in tar[p]
        BY <1>0, <3>1, BelowNothing DEF Writing
      <3>3. tar[p] = Content(p)
        BY <3>1, <3>2 DEF Undisturbed, Content
      <3>4. QED
        BY <1>0, <2>2, <3>1, <3>3, SameFiles DEF Undisturbed
    <2>6. QED
      BY <1>0, <1>1, <2>1, <2>2, <2>3, <2>4, <2>5, OthersWalk
  <1>4. QED
    BY <1>2, <1>3

\* The image is made of the tar.
LEMMA NewFileImageWalk ==
    ASSUME WalkInv, Shape, NEW p \in Pusher, NewFileImage(p)
    PROVE  WalkInv'
  <1> DEFINE made == [entries |-> tar[p], torn |-> missing[p], labelled |-> IsBundle(p)]
  <1>0. /\ UNCHANGED <<exists, size, edits, flags, calm, agenda, seen, header, tar, missing>>
        /\ pc[p] = "tarred" /\ faults \in 0..MaxFaults
    BY DEF NewFileImage, fsVars, regVars, walkVars, WalkInv, Files
  <1>1. faults' \in 0..MaxFaults
    BY <1>0, CommandsAssumption DEF NewFileImage, Fault
  <1>2. CASE Fail(p) /\ UNCHANGED image
    BY <1>0, <1>1, <1>2, FailWalk
  <1>3. CASE ~(Fail(p) /\ UNCHANGED image)
    <2>1. pc' = [pc EXCEPT ![p] = "write"] /\ temp' = temp /\ image' = [image EXCEPT ![p] = made]
      BY <1>3 DEF NewFileImage, Goto
    <2>2. made.entries = tar[p] /\ made.torn = missing[p] /\ made.labelled = IsBundle(p)
      OBVIOUS
    <2> HIDE DEF made
    <2>3. /\ pc'[p] = "write" /\ image'[p] = made
          /\ \A q \in Pusher \ {p} : pc'[q] = pc[q] /\ image'[q] = image[q]
      BY <2>1 DEF Shape
    <2>4. Domains'
      BY <1>0 DEF WalkInv, Domains
    <2>5. Typed(p)'
      BY <1>0, <2>1, <2>3 DEF WalkInv, Typed
    <2>6. ASSUME calm[p] PROVE Undisturbed(p)'
      <3>1. /\ Undisturbed(p) /\ tar[p] = Content(p) /\ ~missing[p] /\ NoRepeats(p)
            /\ IsBundle(p) => OneImgpkg(p)
        BY <1>0, <2>6 DEF WalkInv, Undisturbed
      <3>2. made.entries = Content(p) /\ ~made.torn /\ (made.labelled => OneImgpkg(p))
        BY <2>2, <3>1
      <3>3. QED
        BY <1>0, <2>3, <3>1, <3>2, SameFiles DEF Undisturbed
    <2>7. QED
      BY <1>0, <1>1, <2>1, <2>3, <2>4, <2>5, <2>6, OthersWalk
  <1>4. QED
    BY <1>2, <1>3
--------------------------------------------------------------------------------
\* The registry and the lock file have no part in the walks.
LEMMA PlaceWalk ==
    ASSUME WalkInv, Shape, NEW p \in Pusher, NEW l \in {"tag", "pushed", "done", "failed"},
           pc' = [pc EXCEPT ![p] = l], pc[p] \in {"write", "tag", "pushed"},
           temp' = temp \/ (l # "tag" /\ temp' = [temp EXCEPT ![p] = FALSE]), l = "tag" => pc[p] = "write",
           UNCHANGED <<exists, size, edits, flags, calm, agenda, seen, header, tar, missing, image>>,
           faults' \in 0..MaxFaults
    PROVE  WalkInv'
  <1>1. /\ pc'[p] = l /\ (l = "tag" => temp'[p] = temp[p])
        /\ \A q \in Pusher \ {p} : pc'[q] = pc[q] /\ temp'[q] = temp[q]
    BY DEF Shape
  <1>2. Domains'
    BY DEF WalkInv, Domains
  <1>3. Typed(p)'
    BY <1>1 DEF WalkInv, Typed
  <1>4. ASSUME calm[p] PROVE Undisturbed(p)'
    <2>1. Undisturbed(p)
      BY <1>4 DEF WalkInv
    <2>2. QED
      BY <1>1, <2>1, SameFiles DEF Undisturbed
  <1>5. QED
    BY <1>1, <1>2, <1>3, <1>4, OthersWalk

\* From the image to the lock file.
LEMMA RegistryWalk ==
    ASSUME WalkInv, Shape, NEW p \in Pusher, WriteImage(p) \/ WriteTag(p) \/ WriteLock(p)
    PROVE  WalkInv'
  <1>0. UNCHANGED <<exists, size, edits, flags, calm, agenda, seen, header, tar, missing, image>>
    BY DEF WriteImage, WriteTag, WriteLock, fsVars, walkVars, tarVars
  <1>1. faults' \in 0..MaxFaults
    BY CommandsAssumption DEF WriteImage, WriteTag, WriteLock, Fault, WalkInv, Files
  <1>2. CASE WriteImage(p)
    <2>1. pc[p] = "write"
      BY <1>2 DEF WriteImage
    <2>2. \/ pc' = [pc EXCEPT ![p] = "tag"] /\ temp' = temp
          \/ pc' = [pc EXCEPT ![p] = "failed"] /\ temp' = [temp EXCEPT ![p] = FALSE]
      BY <1>2 DEF WriteImage, Goto, Fail, TempAfterFailure
    <2>3. QED
      BY <1>0, <1>1, <2>1, <2>2, PlaceWalk
  <1>3. CASE WriteTag(p)
    <2>1. pc[p] = "tag" /\ temp' = [temp EXCEPT ![p] = FALSE]
      BY <1>3 DEF WriteTag
    <2>2. pc' = [pc EXCEPT ![p] = "pushed"] \/ pc' = [pc EXCEPT ![p] = "failed"]
      BY <1>3 DEF WriteTag, Goto
    <2>3. QED
      BY <1>0, <1>1, <2>1, <2>2, PlaceWalk
  <1>4. CASE WriteLock(p)
    <2>1. pc[p] = "pushed" /\ temp' = temp
      BY <1>4 DEF WriteLock, tarVars
    <2>2. pc' = [pc EXCEPT ![p] = "done"] \/ pc' = [pc EXCEPT ![p] = "failed"]
      BY <1>4 DEF WriteLock, Goto
    <2>3. QED
      BY <1>0, <1>1, <2>1, <2>2, PlaceWalk
  <1>5. QED
    BY <1>2, <1>3, <1>4

\* An editor leaves a tree of files, and no command that has begun undisturbed.
LEMMA EditWalk ==
    ASSUME WalkInv, Edit
    PROVE  WalkInv'
  <1>0. /\ UNCHANGED <<pc, flags, agenda, seen, header, tar, missing, temp, image, faults>>
        /\ edits < MaxEdits /\ edits' = edits + 1
        /\ calm' = [p \in Pusher |-> pc[p] = "idle" /\ calm[p]]
    BY DEF Edit, walkVars, tarVars
  <1>1. Files'
    <2>1. edits' \in 0..MaxEdits /\ faults' \in 0..MaxFaults
      BY <1>0, CommandsAssumption DEF WalkInv, Files
    <2>2. exists \subseteq Entries /\ Climbs(exists) /\ Roots \subseteq exists /\ size \in [Entries -> Sizes]
      BY DEF WalkInv, Files
    <2>3. exists' \subseteq Entries /\ Roots \subseteq exists'
      BY <2>2 DEF Edit
    <2>4. size' \in [Entries -> Sizes]
      BY <2>2 DEF Edit
    <2>5. Climbs(exists')
      BY <2>2 DEF Edit, Climbs
    <2>6. QED
      BY <2>1, <2>3, <2>4, <2>5 DEF Files, Climbs
  <1>2. Domains'
    BY <1>0 DEF WalkInv, Domains
  <1>3. ASSUME NEW p \in Pusher PROVE Typed(p)'
    BY <1>0 DEF WalkInv, Typed
  <1>4. ASSUME NEW p \in Pusher, calm'[p] PROVE Undisturbed(p)'
    <2>1. pc[p] = "idle"
      BY <1>0, <1>4
    <2>2. pc'[p] = "idle" /\ tar'[p] = {} /\ ~missing'[p] /\ image'[p] = NoImage
      BY <1>0, <2>1 DEF WalkInv, Typed
    <2>3. QED
      BY <2>2 DEF Undisturbed
  <1>5. QED
    BY <1>1, <1>2, <1>3, <1>4 DEF WalkInv

\* Every step keeps the invariant.
LEMMA WalkNext == WalkInv /\ Shape /\ [Next]_vars => WalkInv'
  <1> SUFFICES ASSUME WalkInv, Shape, [Next]_vars PROVE WalkInv'
    OBVIOUS
  <1>1. ASSUME NEW p \in Pusher, TarRefuses(p) PROVE WalkInv'
    <2>1. /\ UNCHANGED <<exists, size, edits, flags, calm, agenda, seen, header, tar, missing, image>>
          /\ Fail(p) /\ faults' \in 0..MaxFaults
      BY <1>1 DEF TarRefuses, fsVars, walkVars, regVars, WalkInv, Files
    <2>2. QED
      BY <2>1, FailWalk
  <1>2. ASSUME NEW p \in Pusher, Step(p) PROVE WalkInv'
    BY <1>1, <1>2, StartWalk, VisitWalk, FoundWalk, CheckedWalk, TarDirWalk, TarFileWalk, CopyFileWalk,
       CloseTarWalk, NewFileImageWalk, RegistryWalk DEF Step
  <1>3. CASE UNCHANGED vars
    <2>1. /\ UNCHANGED <<exists, size, edits, flags, calm, agenda, seen, header, tar, missing, image>>
          /\ UNCHANGED <<pc, temp, faults>>
      BY <1>3 DEF vars, fsVars, walkVars, tarVars
    <2>2. Files' /\ Domains'
      BY <2>1 DEF WalkInv, Files, Domains, Climbs
    <2>3. ASSUME NEW p \in Pusher PROVE Typed(p)' /\ (calm'[p] => Undisturbed(p)')
      <3>1. Typed(p) /\ (calm[p] => Undisturbed(p))
        BY DEF WalkInv
      <3>2. Typed(p)'
        BY <2>1, <3>1 DEF Typed
      <3>3. Finding(p)' <=> Finding(p)
        BY <2>1, SameFiles DEF Finding, Below
      <3>4. Writing(p)' <=> Writing(p)
        <4>1. \A e : HeaderFor(e)' = HeaderFor(e)
          BY <2>1 DEF HeaderFor, HeaderOf
        <4>2. \A e : Below(agenda[p], e)' <=> Below(agenda[p], e)
          BY <2>1 DEF Below
        <4>3. Wanted(p)' = Wanted(p)
          BY <2>1, SameFiles
        <4>4. QED
          BY <2>1, <4>1, <4>2, <4>3 DEF Writing
      <3>5. QED
        BY <2>1, <3>1, <3>2, <3>3, <3>4, SameFiles DEF Undisturbed
    <2>4. QED
      BY <2>2, <2>3 DEF WalkInv
  <1>4. QED
    BY <1>2, <1>3, EditWalk DEF Next, Terminated

\* The invariant holds in every state.
LEMMA WalkInvariance == Spec => []WalkInv
  <1>1. Inv => Shape
    BY DEF Inv
  <1>2. QED
    BY <1>1, WalkInit, WalkNext, Invariance, PTL DEF Spec

\* Every variable keeps its type, a command past its flags is for a bundle or for an image,
\* and its temporary file is there as long as it is used (PushOptions.Run, createTarball).
THEOREM TypesRight == Spec => []TypeOK
  <1>1. Inv /\ WalkInv => TypeOK
    <2> SUFFICES ASSUME Inv, WalkInv PROVE TypeOK
      OBVIOUS
    <2>1. /\ exists \subseteq Entries /\ \A e \in exists : IsRoot(e) \/ Parent[e] \in exists
          /\ size \in [Entries -> Sizes] /\ edits \in 0..MaxEdits /\ faults \in 0..MaxFaults
      BY DEF WalkInv, Files, Climbs
    <2>2. pc \in [Pusher -> Place] /\ {missing, temp, calm} \subseteq [Pusher -> BOOLEAN]
      BY DEF WalkInv, Domains, Inv, Shape
    <2>3. ASSUME NEW p \in Pusher, pc[p] \notin {"idle", "failed"}
          PROVE  \E m \in {"bundle", "image"} : flags[p].modes = {m} /\ (flags[p].lock => m = "bundle")
      <3>1. flags[p].modes \subseteq {"bundle", "image"} /\ ~Refused(flags[p])
        BY <2>3 DEF Inv, Push
      <3>2. flags[p].modes # {} /\ flags[p].modes # {"bundle", "image"}
        <4>1. Cardinality({}) = 0 /\ Cardinality({"bundle", "image"}) = 2
          <5>1. IsFiniteSet({"bundle"}) /\ Cardinality({"bundle"}) = 1
            BY FS_Singleton
          <5>2. {"bundle", "image"} = {"bundle"} \cup {"image"} /\ "image" \notin {"bundle"}
            OBVIOUS
          <5>3. Cardinality({"bundle"} \cup {"image"}) = 2
            BY <5>1, <5>2, FS_AddElement
          <5>4. QED
            BY <5>2, <5>3, FS_EmptySet
        <4>2. Cardinality(flags[p].modes) = 1
          BY <3>1 DEF Refused
        <4>3. QED
          BY <4>1, <4>2
      <3>3. flags[p].modes = {"bundle"} \/ flags[p].modes = {"image"}
        BY <3>1, <3>2
      <3>4. QED
        BY <3>1, <3>3 DEF Refused
    <2>4. ASSUME NEW p \in Pusher
          PROVE  /\ flags[p] \in Flags[p]
                 /\ agenda[p] \in Seq(Entries) /\ seen[p] \subseteq Entries /\ tar[p] \subseteq Header
                 /\ pc[p] = "open" => header[p] \in Entries \X Sizes
                 /\ pc[p] \in {"write", "tag", "pushed", "done"} => image[p] # NoImage
                 /\ pc[p] \in {"open", "tarred", "write", "tag"} => temp[p]
      BY DEF WalkInv, Typed, Inv, Push
    <2>5. QED
      BY <2>1, <2>2, <2>3, <2>4 DEF TypeOK, Place
  <1>2. QED
    BY <1>1, Invariance, WalkInvariance, PTL

\* When nobody edits the files from the start of a command, its image holds what its paths
\* hold but for the exclusions, with the sizes they have, and was checked: no path of it means
\* two files, and a bundle has one .imgpkg (Contents.Push, checkRepeatedPaths, createTarball).
THEOREM PushedWhatWasChecked == Spec => []PushedIsWhatWasChecked
  <1>1. WalkInv => PushedIsWhatWasChecked
    <2> SUFFICES ASSUME WalkInv, NEW p \in Pusher, calm[p], image[p] # NoImage
                 PROVE  /\ image[p].entries = Content(p) /\ ~image[p].torn
                        /\ NoRepeats(p) /\ (image[p].labelled => OneImgpkg(p))
      BY DEF PushedIsWhatWasChecked, Content, HeaderFor, NoRepeats, OneImgpkg
    <2>1. QED
      BY DEF WalkInv, Undisturbed
  <1>2. QED
    BY <1>1, WalkInvariance, PTL
================================================================================
