------------------------------- MODULE PullBundle -------------------------------
(***************************************************************************)
(* imgpkg pull of a bundle, Bundle.pull of pkg/imgpkg/bundle/bundle.go,    *)
(* into one output directory, again and again, while imgpkg copy may still *)
(* be filling the repository it pulls from.  The recursion is a stack of   *)
(* frames, one for each call of Bundle.pull that has not returned.         *)
(***************************************************************************)
EXTENDS Naturals, Sequences

CONSTANTS Image,      \* digests
          Bundle,     \* the digests that are bundles
          List,       \* List[b]: the ImagesLock of b, a sequence of <<repository, digest>>
          Closure,    \* Closure[d]: d and all it refers to, at any depth
          Root,       \* the bundle that is pulled
          Repo,       \* repositories
          RootRepo,   \* the one it is pulled from, and into which copy writes
          Elsewhere,  \* Elsewhere[r]: what any other repository stores
          LocatedElsewhere, \* and the bundles there that have a locations image
          Marked,     \* Marked[b]: the entries that the locations image of b names
          UserTag,
          MaxPulls,    \* bound on pulls into the directory
          MaxFaults,   \* bound on calls that fail
          MaxRefusals, \* bound on lookups answered by 401 or 403
          None

Name        == Repo \X Image
Entries(b)  == {List[b][n] : n \in DOMAIN List[b]}
Contents    == [b \in Bundle |-> {e[2] : e \in Entries(b)}]

ASSUME GraphAssumption ==
    /\ Bundle \subseteq Image /\ Root \in Bundle
    /\ List \in [Bundle -> Seq(Name)]
    /\ Closure \in [Image -> SUBSET Image]
    /\ \A d \in Image : d \in Closure[d]
    /\ \A d \in Image \ Bundle : Closure[d] = {d}
    /\ \A b \in Bundle : Closure[b] = {b} \cup UNION {Closure[d] : d \in Contents[b]}
    /\ \A d \in Image, b \in Bundle : b \in Closure[d] => Contents[b] \subseteq Closure[d]
    /\ \A b \in Bundle : \A d \in Contents[b] : b \notin Closure[d]

ASSUME RegistryAssumption ==
    /\ RootRepo \in Repo /\ Elsewhere \in [Repo -> SUBSET Image]
    /\ LocatedElsewhere \in [Repo -> SUBSET Bundle]
    /\ \A r \in Repo : \A b \in LocatedElsewhere[r] : Contents[b] \subseteq Elsewhere[r]
    /\ Marked \in [Bundle -> SUBSET Name]
    /\ Repo \cap {"absent", "partial", "original"} = {} /\ None \notin Image
    /\ MaxPulls \in Nat /\ MaxFaults \in Nat /\ MaxRefusals \in Nat

VARIABLES manifests, locations, published, \* RootRepo, see TrustedRepo
          disk,      \* disk[b]: the directory of b, the output directory for Root
          stack,     \* the calls of Bundle.pull
          processed, \* imagesProcessed, which all of them share
          graph,     \* cachedNestedBundleGraph: the entries that lead to each node
          recursive, \* --recursive
          outcome,
          whole,     \* whether the copy of Root was over when this pull began
          online,    \* whether this pull reaches the other repositories
          pulls, faults, refusals

repoVars  == <<manifests, locations, published>>
spentVars == <<pulls, faults, refusals>>
runVars   == <<recursive, outcome, whole, online>>
vars      == <<repoVars, disk, stack, processed, graph, runVars, spentVars>>

Copy == INSTANCE TrustedRepo

Holds(r, d)   == IF r = RootRepo THEN d \in manifests ELSE online /\ d \in Elsewhere[r]
Located(r, b) == b \in IF r = RootRepo THEN locations ELSE LocatedElsewhere[r]
Fault         == faults < MaxFaults /\ faults' = faults + 1 /\ UNCHANGED <<pulls, refusals>>

Step == {"fetch", "clear", "layers", "locate", "compare", "walk"}

Frame == {f \in [name : Name, repo : Repo, step : Step, next : Nat, located : BOOLEAN, relocated : BOOLEAN] :
              f.name[2] \in Bundle /\ f.next \in 1..Len(List[f.name[2]]) + 1}

\* Mutant: the loop begins before the first entry.
CallFromZero(name, repo, step) == [name |-> name, repo |-> repo, step |-> step, next |-> 0,
                                   located |-> FALSE, relocated |-> FALSE]
Call(name, repo, step) == [name |-> name, repo |-> repo, step |-> step, next |-> 1,
                           located |-> FALSE, relocated |-> FALSE]

Top      == stack[Len(stack)]
Self     == Top.name[2]
Entry    == List[Self][Top.next]
AtEnd    == Top.next > Len(List[Self])
\* Mutant: a nested bundle is reported as the bundle that lists it.
PathByName == [n \in 1..Len(stack) - 1 |-> stack[n].name]
Path     == [n \in 1..Len(stack) - 1 |-> stack[n + 1].name]

At(step) == outcome = "running" /\ stack # <<>> /\ Top.step = step

SetTop(f)    == stack' = [stack EXCEPT ![Len(stack)] = f]
Goto(step)   == SetTop([Top EXCEPT !.step = step])
Advance      == SetTop([Top EXCEPT !.next = @ + 1])
Continue     == UNCHANGED <<repoVars, runVars>>
Fail         == /\ outcome' = "failed"
                /\ UNCHANGED <<repoVars, stack, processed, graph, recursive, whole, online>>

Published == \E t \in UserTag : published[t] = Root

Init ==
    /\ Copy!Init
    /\ disk = [b \in Bundle |-> "absent"]
    /\ stack = <<>> /\ processed = {} /\ graph = {}
    /\ recursive = FALSE /\ outcome = "none" /\ whole = FALSE /\ online = TRUE
    /\ pulls = 0 /\ faults = 0 /\ refusals = 0
--------------------------------------------------------------------------------
\* The command is run, again if an earlier one has ended or was killed.
Pull ==
    /\ pulls < MaxPulls /\ pulls' = pulls + 1
    /\ stack' = <<Call(<<RootRepo, Root>>, RootRepo, "fetch")>>
    /\ processed' = {} /\ graph' = {}
    /\ recursive' \in BOOLEAN
    /\ outcome' = "running"
    /\ whole' = Published /\ online' \in BOOLEAN
    /\ UNCHANGED <<repoVars, disk, faults, refusals>>

\* checkedImage
Fetch ==
    /\ At("fetch") /\ Holds(Top.repo, Self)
    /\ Goto("clear")
    /\ Continue /\ UNCHANGED <<disk, processed, graph, spentVars>>

\* Mutant: what is in the output directory stays.
ClearOwn(b) == [disk EXCEPT ![b] = "partial"]
\* The directories of all nested bundles are in the output directory.
Cleared(b) == [c \in Bundle |-> IF c = b THEN "partial" ELSE IF b = Root THEN "absent" ELSE disk[c]]

\* AsDirectory removes the directory and makes it again; then come the layers.
Clear ==
    /\ At("clear")
    /\ disk' = Cleared(Self)
    /\ Goto("layers")
    /\ Continue /\ UNCHANGED <<processed, graph, spentVars>>

Extract ==
    /\ At("layers")
    /\ disk' = [disk EXCEPT ![Self] = "original"]
    /\ Goto("locate")
    /\ Continue /\ UNCHANGED <<processed, graph, spentVars>>

\* Mutant: the ImagesLock is rewritten before the nested bundles are pulled.
LocateAndWrite ==
    /\ At("locate") /\ Located(Top.repo, Self)
    /\ disk' = [disk EXCEPT ![Self] = Top.repo]
    /\ SetTop([Top EXCEPT !.step = "walk", !.located = TRUE, !.relocated = TRUE])
    /\ Continue /\ UNCHANGED <<processed, graph, spentVars>>
\* NewImageRefsFromImagesLock found a locations image, and UpdateRelativeToRepo asks no more.
Locate ==
    /\ At("locate") /\ Located(Top.repo, Self)
    /\ SetTop([Top EXCEPT !.step = "walk", !.located = TRUE, !.relocated = TRUE])
    /\ Continue /\ UNCHANGED <<disk, processed, graph, spentVars>>

\* LocationsNotFound, which is also the answer to a refusal.
NoLocations ==
    /\ At("locate")
    /\ \/ ~Located(Top.repo, Self) /\ UNCHANGED refusals
       \/ refusals < MaxRefusals /\ refusals' = refusals + 1
    /\ Goto("compare")
    /\ Continue /\ UNCHANGED <<disk, processed, graph, pulls, faults>>

\* Mutant: it asks for the same image over and over.
CompareAgain ==
    /\ At("compare") /\ ~AtEnd /\ Holds(Top.repo, Entry[2])
    /\ UNCHANGED vars
\* UpdateRelativeToRepo looks in the repository for one image after another.
Compare ==
    /\ At("compare") /\ ~AtEnd /\ Holds(Top.repo, Entry[2])
    /\ Advance
    /\ Continue /\ UNCHANGED <<disk, processed, graph, spentVars>>

\* Mutant: it goes on when an image is missing.
NotRelocatedYet ==
    /\ At("compare") /\ ~AtEnd
    /\ \/ ~Holds(Top.repo, Entry[2]) /\ UNCHANGED refusals
       \/ refusals < MaxRefusals /\ refusals' = refusals + 1
    /\ Advance
    /\ Continue /\ UNCHANGED <<disk, processed, graph, pulls, faults>>
NotRelocated ==
    /\ At("compare") /\ ~AtEnd
    /\ \/ ~Holds(Top.repo, Entry[2]) /\ UNCHANGED refusals
       \/ refusals < MaxRefusals /\ refusals' = refusals + 1
    /\ SetTop([Top EXCEPT !.step = "walk", !.next = 1])
    /\ Continue /\ UNCHANGED <<disk, processed, graph, pulls, faults>>

Relocated ==
    /\ At("compare") /\ AtEnd
    /\ SetTop([Top EXCEPT !.step = "walk", !.next = 1, !.relocated = TRUE])
    /\ Continue /\ UNCHANGED <<disk, processed, graph, spentVars>>

\* The loop over the ImagesLock.
InLoop == At("walk") /\ recursive /\ ~AtEnd

\* Mutant: nested bundles are pulled from where the author of the ImagesLock had them.
OriginalLocation == Entry
\* ImageRef.PrimaryLocation
PrimaryLocation == IF Top.relocated THEN <<Top.repo, Entry[2]>> ELSE Entry

Skip ==
    /\ InLoop /\ Entry \in processed
    /\ Advance
    /\ Continue /\ UNCHANGED <<disk, processed, graph, spentVars>>

\* Whether the entry is a bundle comes from the locations image, or from the image,
\* which subBundle then keeps.
Known == Top.located /\ Entry \in Marked[Self]
Typed == Known \/ Holds(PrimaryLocation[1], Entry[2])

PassContent ==
    /\ InLoop /\ Entry \notin processed /\ Typed /\ Entry[2] \notin Bundle
    /\ processed' = processed \cup {Entry}
    /\ Advance
    /\ Continue /\ UNCHANGED <<disk, graph, spentVars>>

PullNested ==
    /\ InLoop /\ Entry \notin processed /\ Typed /\ Entry[2] \in Bundle
    /\ processed' = processed \cup {Entry}
    /\ stack' = Append(stack, Call(Entry, PrimaryLocation[1], IF Known THEN "fetch" ELSE "clear"))
    /\ Continue /\ UNCHANGED <<disk, graph, spentVars>>

\* The loop is over: the ImagesLock is rewritten, and the call returns to its caller.
Finish ==
    /\ At("walk") /\ (~recursive \/ AtEnd)
    /\ disk' = IF Top.relocated THEN [disk EXCEPT ![Self] = Top.repo] ELSE disk
    /\ IF Len(stack) = 1
       THEN outcome' = "ok" /\ UNCHANGED <<stack, graph>>
       ELSE /\ stack' = [n \in 1..Len(stack) - 1 |->
                            IF n = Len(stack) - 1 THEN [stack[n] EXCEPT !.next = @ + 1] ELSE stack[n]]
            /\ graph' = graph \cup {Path}
            /\ UNCHANGED outcome
    /\ UNCHANGED <<repoVars, processed, recursive, whole, online, spentVars>>

\* A lookup or a layer fails; removing a directory or writing an ImagesLock does.
CallFails ==
    /\ \/ At("fetch") \/ At("layers") \/ At("locate") \/ (At("compare") /\ ~AtEnd)
       \/ (InLoop /\ Entry \notin processed /\ ~Known)
    /\ Fault /\ Fail /\ UNCHANGED disk

DiskFails ==
    /\ \/ At("clear") /\ disk' \in {disk, Cleared(Self)}
       \/ /\ At("walk") /\ (~recursive \/ AtEnd) /\ Top.relocated
          /\ disk' \in {disk, [disk EXCEPT ![Self] = "partial"]}
    /\ Fault /\ Fail

\* An image is not where it is looked for.
NotFound ==
    /\ \/ At("fetch") /\ ~Holds(Top.repo, Self)
       \/ InLoop /\ Entry \notin processed /\ ~Typed
    /\ Fail /\ UNCHANGED <<disk, spentVars>>

\* Copies into the repository go on.  What they tag besides Root does not matter here.
CopyGoesOn ==
    /\ \/ \E d \in Image \ manifests : Copy!StoreImage(d)
       \/ \E b \in Bundle \ locations : Copy!NoteBundle(b)
       \/ \E t \in UserTag : Copy!Publish(t, Root)
    /\ UNCHANGED <<disk, stack, processed, graph, runVars, spentVars>>
--------------------------------------------------------------------------------
Work == \/ Fetch \/ Clear \/ Extract \/ Locate \/ NoLocations \/ Compare \/ NotRelocated
        \/ Relocated \/ Skip \/ PassContent \/ PullNested \/ Finish
        \/ CallFails \/ DiskFails \/ NotFound

Terminated == outcome # "running" /\ UNCHANGED vars

Next == Pull \/ Work \/ CopyGoesOn \/ Terminated

Spec == Init /\ [][Next]_vars

\* The process runs.
FairSpec == Spec /\ WF_vars(Work)
--------------------------------------------------------------------------------
\* Each variable has its type.
TypeOK ==
    /\ manifests \subseteq Image /\ locations \subseteq Bundle
    /\ published \in [UserTag -> Image \cup {None}]
    /\ disk \in [Bundle -> {"absent", "partial", "original"} \cup Repo]
    /\ stack \in Seq(Frame)
    /\ processed \subseteq Name /\ graph \subseteq Seq(Name)
    /\ recursive \in BOOLEAN /\ whole \in BOOLEAN /\ online \in BOOLEAN
    /\ outcome \in {"none", "running", "ok", "failed"}
    /\ pulls \in 0..MaxPulls /\ faults \in 0..MaxFaults /\ refusals \in 0..MaxRefusals

(* Safety *)

\* A rewritten ImagesLock names only images that are where it says, though with a
\* locations image nobody looks, and whatever was copied, pulled or killed meanwhile.
LocksTrusted ==
    \A b \in Bundle : disk[b] \in Repo =>
        Contents[b] \subseteq IF disk[b] = RootRepo THEN manifests ELSE Elsewhere[disk[b]]

OnDisk == {b \in Bundle : disk[b] # "absent"}

\* A pull that succeeds leaves the directories of its bundles, each with a whole
\* ImagesLock, and none of an earlier pull.
PullIsComplete ==
    outcome = "ok" =>
        /\ OnDisk = IF recursive THEN Closure[Root] \cap Bundle ELSE {Root}
        /\ \A b \in OnDisk : disk[b] # "partial"

\* pull reports each directory it leaves, one that several bundles share included.
EveryDirectoryReported ==
    outcome = "ok" => OnDisk = {Root} \cup {p[Len(p)][2] : p \in graph}

\* Once a copy of the bundle is over, nothing is looked for outside of its repository
\* (in an air-gapped network nothing else can be reached), unless a lookup is refused.
PullStaysLocal ==
    whole /\ refusals = 0 =>
        /\ \A n \in DOMAIN stack : stack[n].repo = RootRepo
        /\ outcome = "ok" => \A b \in OnDisk : disk[b] = RootRepo

\* Such a pull fails only because a call did.
CopiedBundlesPull == whole /\ refusals = 0 /\ outcome = "failed" => faults > 0

\* An ImagesLock is rewritten when all bundles below are on disk, for what follows
\* the rewritten locks down from any directory.
RewrittenLast ==
    [][\A b \in Bundle :
          recursive /\ disk'[b] \in Repo /\ disk[b] \notin Repo =>
              \A c \in (Closure[b] \cap Bundle) \ {b} : disk[c] \in {"original"} \cup Repo]_vars

\* BundleInfo: "the updated key is used to indicate if the ImagesLock for the bundle
\* was updated or not".  The code breaks this property.
UpdatedIsRight ==
    outcome = "ok" => \A p \in graph : disk[p[Len(p)][2]] \in Repo <=> Top.relocated

(* Liveness *)

\* A pull ends, unless it is killed and begun anew.
PullEnds == (outcome = "running") ~> (outcome # "running")

================================================================================
