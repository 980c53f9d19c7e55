------------------------------ MODULE PushContents ------------------------------
(***************************************************************************)
(* Pushing directories and files as a bundle or an image:                  *)
(*   PushOptions.Run                   pkg/imgpkg/cmd/push.go              *)
(*   Contents.Push of a bundle         pkg/imgpkg/bundle/contents.go       *)
(*   Contents.Push of a plain image    pkg/imgpkg/plainimage/contents.go   *)
(*   TarImage, FileImage               pkg/imgpkg/image                    *)
(*                                                                         *)
(* Three walks over the paths follow one another: one looks for .imgpkg,   *)
(* one for a path that occurs twice, and one writes the tar.  Several      *)
(* commands push to one repository, and somebody edits the files while     *)
(* they do.  The file system and the registry are external.                *)
(***************************************************************************)
EXTENDS Naturals, Sequences, FiniteSets

CONSTANTS Pusher,     \* commands
          Paths,      \* Paths[p]: the value of --file, in order
          Excluded,   \* Excluded[p]: the value of --file-exclusion
          UploadTag,  \* UploadTag[p]: the tag p pushes to
          Flags,      \* Flags[p]: the flags p may be started with
          Entry,      \* what may be in the file system, in the order of its names
          Parent,     \* Parent[e]: the directory e is in, or "root" for a value of --file
          Kind,       \* Kind[e]: "dir", "file" or "special"
          Named,      \* Named[e]: "imgpkg", "images" or "other", for the last part of its path
          Rel,        \* Rel[e]: its path in the image, "." for a directory given with --file
          Sizes,      \* the sizes files may have
          MaxEdits,   \* bound on the edits
          MaxFaults   \* bound on the calls to the system or the registry that fail

Entries == {Entry[i] : i \in DOMAIN Entry}
Roots   == {e \in Entries : Parent[e] = "root"}
Header  == [rel : {Rel[e] : e \in Entries}, kind : {"dir", "file"}, size : Sizes \cup {0}]

ASSUME FilesAssumption ==
    /\ Entry \in Seq(Entries) /\ \A i, j \in DOMAIN Entry : Entry[i] = Entry[j] => i = j
    /\ "root" \notin Entries
    /\ \A e \in Entries : Parent[e] = "root" \/ (Parent[e] \in Entries /\ Kind[Parent[e]] = "dir")
    /\ DOMAIN Kind = Entries /\ DOMAIN Named = Entries /\ DOMAIN Rel = Entries
    /\ Sizes \subseteq Nat \ {0}
\* No path is given twice, so that a walk finds nothing twice and seen can be a set.
ASSUME CommandsAssumption ==
    /\ Paths \in [Pusher -> Seq(Roots)] /\ DOMAIN Excluded = Pusher /\ DOMAIN UploadTag = Pusher
    /\ \A p \in Pusher : \A i, j \in DOMAIN Paths[p] : Paths[p][i] = Paths[p][j] => i = j
    /\ Flags \in [Pusher -> SUBSET [modes : SUBSET {"bundle", "image"}, lock : BOOLEAN, reserved : BOOLEAN]]
    /\ MaxEdits \in Nat /\ MaxFaults \in Nat

VARIABLES exists, size,  \* the file system
          pc, flags,     \* the commands
          agenda,        \* agenda[p]: what the walk has still to visit
          seen,          \* seen[p]: what it has found
          header,        \* header[p]: the file whose header was just written, with its size there
          tar, missing,  \* the tar, and whether its last file is shorter than its header says
          temp,          \* temp[p]: the temporary file exists
          image,         \* image[p]: the image made of it
          lock,          \* lock[p]: the image its lock file names
          tags, defaults,\* the registry: user tags, and the images with their default tag
          edits, faults,
          calm           \* observer: nobody has edited a file since p started

fsVars   == <<exists, size, edits>>
walkVars == <<agenda, seen, header>>
tarVars  == <<tar, missing, temp, image>>
regVars  == <<tags, defaults>>
vars == <<fsVars, pc, flags, walkVars, tarVars, lock, regVars, faults, calm>>

NoImage == [absent |-> TRUE]

IsRoot(e)   == Parent[e] = "root"
\* What is in a directory, by name: the k-th has k of them up to it.
Children(d) ==
    LET kids == {i \in DOMAIN Entry : Parent[Entry[i]] = d /\ Entry[i] \in exists}
    IN  [k \in 1..Cardinality(kids) |->
            Entry[CHOOSE i \in kids : Cardinality({j \in kids : j <= i}) = k]]
IsBundle(p) == "bundle" \in flags[p].modes

\* findImgpkgDirs: whatever is called .imgpkg, be it a directory or a file.
FoundImgpkg(s) == {e \in s : Named[e] = "imgpkg"}

\* validateImgpkgDirs. Only that nothing is there makes the stat of images.yml fail:
\* below a file, the error is another one.
PresentsAsBundle(p, s) ==
    \E e \in FoundImgpkg(s) :
        /\ FoundImgpkg(s) = {e}
        /\ ~IsRoot(e) /\ \E i \in DOMAIN Paths[p] : Paths[p][i] = Parent[e]
        /\ Kind[e] = "dir" => \E y \in exists : Parent[y] = e /\ Named[y] = "images"

\* checkRepeatedPaths, in which directories given with --file do not count.
RepeatedPaths(s) == \E x, y \in s : x # y /\ Rel[x] = Rel[y] /\ Rel[x] # "."

\* isExcluded
IsExcluded(p, e) == Rel[e] \in Excluded[p]

\* The walk that writes the tar does not enter what is excluded.
\* Mutant: it leaves the directory out and enters it.
LeftOut(p, e) == Children(e)
BelowExcluded(p, e) == << >>

\* The temporary file goes when AsFileImage fails, and with the deferred Remove after it.
\* Mutant: not when the image cannot be made of it.
KeptWhenImageFails(p) == pc[p] = "tarred"
TempAfterFailure(p) == FALSE

\* validateFlags and the switch over the flags. An image has no lock file.
\* Mutant: it may have one.
RefusedModes(f) == f.reserved \/ Cardinality(f.modes) # 1
Refused(f) == \/ f.reserved \/ Cardinality(f.modes) # 1
              \/ "image" \in f.modes /\ f.lock

\* What the lock file names.
\* Mutant: what the tag refers to.
TaggedImage(p) == tags[UploadTag[p]]
LockedImage(p) == image[p]
--------------------------------------------------------------------------------
Init ==
    /\ exists \in {s \in SUBSET Entries : Roots \subseteq s /\ \A e \in s : IsRoot(e) \/ Parent[e] \in s}
    /\ \E n \in Sizes : size = [e \in Entries |-> n]
    /\ pc = [p \in Pusher |-> "idle"]
    /\ flags \in {f \in [Pusher -> UNION {Flags[p] : p \in Pusher}] : \A p \in Pusher : f[p] \in Flags[p]}
    /\ agenda = [p \in Pusher |-> << >>] /\ seen = [p \in Pusher |-> {}]
    /\ header = [p \in Pusher |-> << >>]
    /\ tar = [p \in Pusher |-> {}] /\ missing = [p \in Pusher |-> FALSE]
    /\ temp = [p \in Pusher |-> FALSE] /\ image = [p \in Pusher |-> NoImage]
    /\ lock = [p \in Pusher |-> NoImage]
    /\ tags = [g \in {UploadTag[p] : p \in Pusher} |-> NoImage] /\ defaults = {}
    /\ edits = 0 /\ faults = 0 /\ calm = [p \in Pusher |-> TRUE]

Goto(p, l) == pc' = [pc EXCEPT ![p] = l]
Fault == faults < MaxFaults /\ faults' = faults + 1

\* The command ends with an error.
Fail(p) ==
    /\ Goto(p, "failed")
    /\ temp' = [temp EXCEPT ![p] = TempAfterFailure(p)]

Start(p) ==
    /\ pc[p] = "idle"
    /\ IF Refused(flags[p]) THEN Fail(p) /\ UNCHANGED agenda
       ELSE /\ Goto(p, "find") /\ agenda' = [agenda EXCEPT ![p] = Paths[p]]
            /\ UNCHANGED temp
    /\ UNCHANGED <<fsVars, flags, seen, header, tar, missing, image, lock, regVars, faults, calm>>

\* filepath.Walk reads the names in a directory when it enters it, and fails when one of
\* them is gone by the time it comes to it.
Visit(p) ==
    LET e == Head(agenda[p]) IN
    /\ pc[p] \in {"find", "repeat"} /\ agenda[p] # << >>
    /\ IF e \in exists
       THEN /\ agenda' = [agenda EXCEPT ![p] = (IF Kind[e] = "dir" THEN Children(e) ELSE << >>) \o Tail(@)]
            /\ seen' = [seen EXCEPT ![p] = @ \cup {e}]
            /\ UNCHANGED <<pc, temp>>
       ELSE Fail(p) /\ UNCHANGED <<agenda, seen>>
    /\ UNCHANGED <<fsVars, flags, header, tar, missing, image, lock, regVars, faults, calm>>

\* The end of the first walk: a bundle has to present as one, an image must not.
Found(p) ==
    /\ pc[p] = "find" /\ agenda[p] = << >>
    /\ IF PresentsAsBundle(p, seen[p]) = IsBundle(p)
       THEN /\ Goto(p, "repeat") /\ agenda' = [agenda EXCEPT ![p] = Paths[p]]
            /\ seen' = [seen EXCEPT ![p] = {}] /\ UNCHANGED temp
       ELSE Fail(p) /\ UNCHANGED <<agenda, seen>>
    /\ UNCHANGED <<fsVars, flags, header, tar, missing, image, lock, regVars, faults, calm>>

\* The end of the second, and AsFileImage's temporary file.
Checked(p) ==
    /\ pc[p] = "repeat" /\ agenda[p] = << >>
    /\ \/ RepeatedPaths(seen[p]) /\ Fail(p) /\ UNCHANGED <<agenda, faults>>
       \/ ~RepeatedPaths(seen[p]) /\ Fault /\ Fail(p) /\ UNCHANGED agenda
       \/ /\ ~RepeatedPaths(seen[p])
          /\ Goto(p, "tar") /\ agenda' = [agenda EXCEPT ![p] = Paths[p]]
          /\ temp' = [temp EXCEPT ![p] = TRUE] /\ UNCHANGED faults
    /\ UNCHANGED <<fsVars, flags, seen, header, tar, missing, image, lock, regVars, calm>>
--------------------------------------------------------------------------------
(* createTarball *)

\* WriteHeader refuses when the file before it is shorter than its header.
HeaderOf(e, n) == [rel |-> Rel[e], kind |-> Kind[e], size |-> n]

TarDir(p) ==
    LET e == Head(agenda[p]) IN
    /\ pc[p] = "tar" /\ agenda[p] # << >> /\ e \in exists /\ Kind[e] = "dir"
    /\ IF IsExcluded(p, e)
       THEN /\ agenda' = [agenda EXCEPT ![p] = BelowExcluded(p, e) \o Tail(@)]
            /\ UNCHANGED <<pc, temp, tar>>
       ELSE IF missing[p] THEN Fail(p) /\ UNCHANGED <<agenda, tar>>
       ELSE /\ agenda' = [agenda EXCEPT ![p] = Children(e) \o Tail(@)]
            /\ tar' = [tar EXCEPT ![p] = @ \cup {HeaderOf(e, 0)}]
            /\ UNCHANGED <<pc, temp>>
    /\ UNCHANGED <<fsVars, flags, seen, header, missing, image, lock, regVars, faults, calm>>

\* addFileToTar, up to the header, whose size is the one the walk has seen.
TarFile(p) ==
    LET e == Head(agenda[p]) IN
    /\ pc[p] = "tar" /\ agenda[p] # << >> /\ e \in exists /\ Kind[e] = "file"
    /\ agenda' = [agenda EXCEPT ![p] = Tail(@)]
    /\ IF IsExcluded(p, e)
       THEN UNCHANGED <<pc, header>>
       ELSE Goto(p, "open") /\ header' = [header EXCEPT ![p] = <<e, size[e]>>]
    /\ UNCHANGED <<fsVars, flags, seen, tarVars, lock, regVars, faults, calm>>

\* A path that is gone, or is no regular file.
TarRefuses(p) ==
    /\ pc[p] = "tar" /\ agenda[p] # << >>
    /\ Head(agenda[p]) \notin exists \/ Kind[Head(agenda[p])] = "special"
    /\ Fail(p)
    /\ UNCHANGED <<fsVars, flags, walkVars, tar, missing, image, lock, regVars, faults, calm>>

\* Opening and copying: the file may have another size by now. A longer one is an error
\* of the copy, a shorter one of what is written next.
CopyFile(p) ==
    LET e == header[p][1]  n == header[p][2] IN
    /\ pc[p] = "open"
    /\ \/ /\ e \in exists /\ ~missing[p] /\ size[e] <= n
          /\ tar' = [tar EXCEPT ![p] = @ \cup {HeaderOf(e, n)}]
          /\ missing' = [missing EXCEPT ![p] = size[e] < n]
          /\ Goto(p, "tar") /\ UNCHANGED <<temp, faults>>
       \/ /\ e \notin exists \/ missing[p] \/ size[e] > n
          /\ Fail(p) /\ UNCHANGED <<tar, missing, faults>>
       \/ Fault /\ Fail(p) /\ UNCHANGED <<tar, missing>>
    /\ UNCHANGED <<fsVars, flags, walkVars, image, lock, regVars, calm>>

\* The deferred Close of the tar, whose error is dropped, and the Close of the file.
CloseTar(p) ==
    /\ pc[p] = "tar" /\ agenda[p] = << >>
    /\ \/ Goto(p, "tarred") /\ UNCHANGED <<temp, faults>>
       \/ Fault /\ Fail(p)
    /\ UNCHANGED <<fsVars, flags, walkVars, tar, missing, image, lock, regVars, calm>>

\* NewFileImage hashes the file and labels the image.
NewFileImage(p) ==
    /\ pc[p] = "tarred"
    /\ \/ /\ image' = [image EXCEPT ![p] = [entries |-> tar[p], torn |-> missing[p],
                                            labelled |-> IsBundle(p)]]
          /\ Goto(p, "write") /\ UNCHANGED <<temp, faults>>
       \/ Fault /\ Fail(p) /\ UNCHANGED image
    /\ UNCHANGED <<fsVars, flags, walkVars, tar, missing, lock, regVars, calm>>
--------------------------------------------------------------------------------
(* The registry. The answer to a call that did its work may be lost. *)

WriteImage(p) ==
    LET written == [tags EXCEPT ![UploadTag[p]] = image[p]] IN
    /\ pc[p] = "write"
    /\ \/ tags' = written /\ Goto(p, "tag") /\ UNCHANGED <<temp, faults>>
       \/ tags' \in {tags, written} /\ Fault /\ Fail(p)
    /\ UNCHANGED <<fsVars, flags, walkVars, tar, missing, image, lock, defaults, calm>>

WriteTag(p) ==
    LET written == defaults \cup {image[p]} IN
    /\ pc[p] = "tag"
    /\ \/ defaults' = written /\ Goto(p, "pushed") /\ UNCHANGED faults
       \/ defaults' \in {defaults, written} /\ Fault /\ Goto(p, "failed")
    /\ temp' = [temp EXCEPT ![p] = FALSE]
    /\ UNCHANGED <<fsVars, flags, walkVars, tar, missing, image, lock, tags, calm>>

\* pushBundle writes the lock file; an error of that is one of the command.
WriteLock(p) ==
    /\ pc[p] = "pushed"
    /\ \/ /\ lock' = [lock EXCEPT ![p] = IF flags[p].lock THEN LockedImage(p) ELSE NoImage]
          /\ Goto(p, "done") /\ UNCHANGED faults
       \/ flags[p].lock /\ Fault /\ Goto(p, "failed") /\ UNCHANGED lock
    /\ UNCHANGED <<fsVars, flags, walkVars, tarVars, regVars, calm>>

Ended(p) == pc[p] \in {"done", "failed"}

\* Somebody edits the files.
Edit ==
    /\ edits < MaxEdits /\ edits' = edits + 1
    /\ \E p \in Pusher : ~Ended(p)
    /\ \/ \E e \in Entries \ (exists \cup Roots) :
            Parent[e] \in exists /\ exists' = exists \cup {e} /\ UNCHANGED size
       \/ \E e \in exists \ Roots :
            (\A c \in exists : Parent[c] # e) /\ exists' = exists \ {e} /\ UNCHANGED size
       \/ \E e \in exists, n \in Sizes :
            /\ Kind[e] = "file" /\ n # size[e]
            /\ size' = [size EXCEPT ![e] = n] /\ UNCHANGED exists
    /\ calm' = [p \in Pusher |-> pc[p] = "idle" /\ calm[p]]
    /\ UNCHANGED <<pc, flags, walkVars, tarVars, lock, regVars, faults>>

Terminated == (\A p \in Pusher : Ended(p)) /\ UNCHANGED vars

Step(p) ==
    \/ Start(p) \/ Visit(p) \/ Found(p) \/ Checked(p)
    \/ TarDir(p) \/ TarFile(p) \/ TarRefuses(p) \/ CopyFile(p) \/ CloseTar(p) \/ NewFileImage(p)
    \/ WriteImage(p) \/ WriteTag(p) \/ WriteLock(p)

Next == (\E p \in Pusher : Step(p)) \/ Edit \/ Terminated

Spec == Init /\ [][Next]_vars
--------------------------------------------------------------------------------
TypeOK ==
    /\ exists \subseteq Entries /\ \A e \in exists : IsRoot(e) \/ Parent[e] \in exists
    /\ size \in [Entries -> Sizes]
    /\ pc \in [Pusher -> {"idle", "find", "repeat", "tar", "open", "tarred", "write", "tag", "pushed",
                          "done", "failed"}]
    /\ \A p \in Pusher :
         /\ flags[p] \in Flags[p]
         /\ pc[p] \notin {"idle", "failed"} => \E m \in {"bundle", "image"} :
                flags[p].modes = {m} /\ (flags[p].lock => m = "bundle")
         /\ agenda[p] \in Seq(Entries) /\ seen[p] \subseteq Entries /\ tar[p] \subseteq Header
         /\ pc[p] = "open" => header[p] \in Entries \X Sizes
         /\ pc[p] \in {"write", "tag", "pushed", "done"} => image[p] # NoImage
         /\ pc[p] \in {"open", "tarred", "write", "tag"} => temp[p]
    /\ {missing, temp, calm} \subseteq [Pusher -> BOOLEAN]
    /\ edits \in 0..MaxEdits /\ faults \in 0..MaxFaults

\* What is under the paths of a command, and what of it the exclusions leave.
\* The directories that an entry is in, with the entry: the least such set.
Climbs(S)   == \A x \in S : IsRoot(x) \/ Parent[x] \in S
Ancestors   == [e \in Entries |->
                  {a \in Entries : \A S \in SUBSET Entries : e \in S /\ Climbs(S) => a \in S}]
Given(p)    == {e \in exists : \E i \in DOMAIN Paths[p] : Paths[p][i] \in Ancestors[e]}
Wanted(p)   == {e \in Given(p) : \A a \in Ancestors[e] : Rel[a] \notin Excluded[p]}

\* When nobody edits the files meanwhile, the three walks see the same: the image holds what
\* the paths hold but for the exclusions, completely, no path of it means two files, and
\* one that is labelled a bundle has exactly one .imgpkg.
PushedIsWhatWasChecked ==
    \A p \in Pusher : calm[p] /\ image[p] # NoImage =>
        /\ image[p].entries = {HeaderOf(e, IF Kind[e] = "dir" THEN 0 ELSE size[e]) : e \in Wanted(p)}
        /\ ~image[p].torn
        /\ \A x, y \in Given(p) : x # y /\ Rel[x] = Rel[y] => Rel[x] = "."
        /\ image[p].labelled => Cardinality({e \in Given(p) : Named[e] = "imgpkg"}) = 1

\* A lock file names the image this command has pushed, whatever tag another command moves
\* meanwhile, and that image has its default tag, so the registry keeps it.
LockedIsKept ==
    \A p \in Pusher : lock[p] # NoImage =>
        lock[p] = image[p] /\ lock[p] \in defaults /\ lock[p].labelled

\* However a command ends, and whatever failed after it was made, its temporary file is gone.
TempRemoved == \A p \in Pusher : Ended(p) => ~temp[p]
================================================================================
