---------------------------- MODULE CopyToRepository ----------------------------
(***************************************************************************)
(* Copies into one repository, each a run of imgpkg copy --to-repo:        *)
(*   CopyToRepository, tagAllImages   pkg/imgpkg/v1/copy.go                *)
(*   ImageSet.Import                  pkg/imgpkg/imageset/image_set.go     *)
(*   Bundle.NoteCopy                  pkg/imgpkg/bundle/bundle.go          *)
(*   LocationsConfigs.Save            pkg/imgpkg/bundle/locations_configs.go *)
(* What to copy is the result of the walk that BundleTraversal models.     *)
(* A run may be killed at any step and started again; the repository and   *)
(* what other runs do to it stay.                                          *)
(***************************************************************************)
EXTENDS Naturals, Sequences, FiniteSets

CONSTANTS Proc,         \* runs of imgpkg with the same destination
          Item,         \* entries of UnprocessedImageRefs
          Items,        \* Items[p]: what run p copies
          FromTar,      \* the runs that copy from a tar
          Image,        \* digests
          Digest,       \* Digest[i]
          Bundle,       \* the digests that are bundles
          Contents,     \* Contents[b]: the digests in the ImagesLock of b
          Closure,      \* Closure[d]: d and all it refers to, at any depth
          Order,        \* Order[p]: the bundles of the walk, as AllImagesLockRefs returns them
          Tag,          \* tags of the destination
          UserTag,      \* those that users give
          UploadTag,    \* UploadTag[i]: the tag GenerateTag gives item i
          WantTag,      \* WantTag[i]: the tag item i was found under, or None
          Concurrency,  \* --concurrency
          MaxFaults,    \* bound on registry calls that fail though they need not
          MaxRestarts,  \* bound on runs that are killed and started again
          None

Digests(is) == {Digest[i] : i \in is}

ASSUME RunAssumption ==
    /\ IsFiniteSet(Item) /\ None \notin Image /\ None \notin UserTag
    /\ Items \in [Proc -> SUBSET Item] /\ FromTar \subseteq Proc
    /\ Concurrency \in Nat \ {0} /\ MaxFaults \in Nat /\ MaxRestarts \in Nat

\* GenerateTag puts the whole digest into the tag.
ASSUME TagAssumption ==
    /\ UserTag \subseteq Tag
    /\ Digest \in [Item -> Image]
    /\ UploadTag \in [Item -> Tag \ UserTag]
    /\ \A i, j \in Item : UploadTag[i] = UploadTag[j] => Digest[i] = Digest[j]
    /\ WantTag \in [Item -> UserTag \cup {None}]

\* What a run copies is closed, and the walk returned each bundle in it.
ASSUME WalkAssumption ==
    /\ Bundle \subseteq Image
    /\ Contents \in [Bundle -> SUBSET Image] /\ Closure \in [Image -> SUBSET Image]
    /\ \A d \in Image : d \in Closure[d]
    /\ \A d \in Image, b \in Bundle : b \in Closure[d] => Contents[b] \subseteq Closure[d]
    /\ \A p \in Proc : \A i \in Items[p] : Closure[Digest[i]] \subseteq Digests(Items[p])
    /\ Order \in [Proc -> Seq(Bundle)]
    /\ \A p \in Proc : {Order[p][n] : n \in DOMAIN Order[p]} = Digests(Items[p]) \cap Bundle

VARIABLES stage,     \* stage[p]: how far run p is
          outcome,   \* outcome[p]: whether it goes on
          worker,    \* worker[p][i]: the goroutine of item i in this stage
          tokens,    \* tokens[p]: what is left in the Throttle of this stage
          leaving,   \* leaving[p]: goroutines between their report and Throttle.Done
          reports,   \* reports[p]: the items whose report waits in the error channel
          heard,     \* heard[p]: the items whose report was received in this stage
          collected, \* collected[p]: the items in imageOrIndexesToWrite
          imported,  \* imported[p]: the items in ProcessedImages
          noted,     \* noted[p]: how many bundles NoteCopy is through with
          manifests, \* the digests the repository stores
          tags,      \* tags[t]: what tag t names in it
          locations, \* the bundles it has a locations image of
          faults,
          restarts

teamVars == <<worker, tokens, leaving, reports, heard>>
runVars  == <<collected, imported, noted>>
repoVars == <<manifests, tags, locations>>
vars     == <<stage, outcome, teamVars, runVars, repoVars, faults, restarts>>

Stage    == {"source", "get", "write", "verify", "walk", "note", "tag"}
Parallel == {"get", "verify", "tag"}
Outcome  == {"running", "ok", "failed", "panic"}
Worker   == {"none", "waiting", "working", "ok", "error"}

Init ==
    /\ stage = [p \in Proc |-> "source"]
    /\ outcome = [p \in Proc |-> "running"]
    /\ worker = [p \in Proc |-> [i \in Item |-> "none"]]
    /\ tokens = [p \in Proc |-> Concurrency]
    /\ leaving = [p \in Proc |-> 0]
    /\ reports = [p \in Proc |-> <<>>]
    /\ heard = [p \in Proc |-> {}]
    /\ collected = [p \in Proc |-> {}]
    /\ imported = [p \in Proc |-> {}]
    /\ noted = [p \in Proc |-> 0]
    /\ manifests = {} /\ locations = {}
    /\ tags = [t \in Tag |-> None]
    /\ faults = 0 /\ restarts = 0
--------------------------------------------------------------------------------
(* The goroutine that runs CopyToRepository *)

\* Mutant: the images are tagged as soon as they are verified.
FollowingTagFirst(p) ==
    CASE stage[p] = "source" -> "get" [] stage[p] = "get" -> "write"
      [] stage[p] = "write" -> "verify" [] stage[p] = "verify" -> "tag"
      [] stage[p] = "walk" -> "note"
      [] stage[p] = "note" -> "tag"
Following(p) ==
    CASE stage[p] = "source" -> "get" [] stage[p] = "get" -> "write"
      [] stage[p] = "write" -> "verify"
      [] stage[p] = "verify" -> (IF p \in FromTar THEN "walk" ELSE "note")
      [] stage[p] = "walk" -> "note"
      [] stage[p] = "note" -> "tag"

\* Who works on stage s: tagAllImages skips the items without a tag.
Team(p, s) == CASE s = "tag" -> {i \in Items[p] : WantTag[i] # None}
                [] s \in {"get", "verify"} -> Items[p]
                [] OTHER -> {}

\* Import makes one throttle for both its stages, tagAllImages its own; a new
\* process has none to return tokens to.
NewThrottle(p, s) ==
    IF s \in {"source", "get", "tag"}
    THEN /\ tokens' = [tokens EXCEPT ![p] = Concurrency]
         /\ leaving' = [leaving EXCEPT ![p] = 0]
    ELSE UNCHANGED <<tokens, leaving>>

Enter(p, s) ==
    /\ stage' = [stage EXCEPT ![p] = s]
    /\ worker' = [worker EXCEPT ![p] =
                     [i \in Item |-> IF i \in Team(p, s) THEN "waiting" ELSE "none"]]
    /\ reports' = [reports EXCEPT ![p] = <<>>]
    /\ heard' = [heard EXCEPT ![p] = {}]
    /\ NewThrottle(p, s)

Runs(p, s) == outcome[p] = "running" /\ stage[p] = s

Fail(p) == outcome' = [outcome EXCEPT ![p] = "failed"]
Fault   == faults < MaxFaults /\ faults' = faults + 1

\* getAllSourceImages and Export, or reading the tar; then, for a tar, the walk
\* over what was imported.
Read(p) ==
    /\ Runs(p, "source") \/ Runs(p, "walk")
    /\ Enter(p, Following(p))
    /\ UNCHANGED <<outcome, runVars, repoVars, faults, restarts>>

ReadFails(p) ==
    /\ Runs(p, "source") \/ Runs(p, "walk")
    /\ Fault /\ Fail(p)
    /\ UNCHANGED <<stage, teamVars, runVars, repoVars, restarts>>

\* checkForAnyAsyncErrors and the loop at the end of tagAllImages.
Receive(p) ==
    /\ outcome[p] = "running" /\ stage[p] \in Parallel /\ reports[p] # <<>>
    /\ reports' = [reports EXCEPT ![p] = Tail(@)]
    /\ heard' = [heard EXCEPT ![p] = @ \cup {Head(reports[p])}]
    /\ IF worker[p][Head(reports[p])] = "error" THEN Fail(p) ELSE UNCHANGED outcome
    /\ UNCHANGED <<stage, worker, tokens, leaving, runVars, repoVars, faults, restarts>>

HeardAll(p) == Cardinality(heard[p]) = Cardinality(Team(p, stage[p]))

Advance(p) ==
    /\ Runs(p, "get") \/ Runs(p, "verify")
    /\ HeardAll(p)
    /\ Enter(p, Following(p))
    /\ UNCHANGED <<outcome, runVars, repoVars, faults, restarts>>

Succeed(p) ==
    /\ Runs(p, "tag") /\ HeardAll(p)
    /\ outcome' = [outcome EXCEPT ![p] = "ok"]
    /\ UNCHANGED <<stage, teamVars, runVars, repoVars, faults, restarts>>

\* Registry.MultiWrite: manifests and their upload tags, in any order.
WriteImage(p, i) ==
    /\ Runs(p, "write") /\ i \in collected[p]
    /\ ~(Digest[i] \in manifests /\ tags[UploadTag[i]] = Digest[i])
    /\ manifests' = manifests \cup {Digest[i]}
    /\ tags' = [tags EXCEPT ![UploadTag[i]] = Digest[i]]
    /\ UNCHANGED <<stage, outcome, teamVars, runVars, locations, faults, restarts>>

WriteEnds(p) ==
    /\ Runs(p, "write")
    /\ \A i \in collected[p] : Digest[i] \in manifests /\ tags[UploadTag[i]] = Digest[i]
    /\ Enter(p, Following(p))
    /\ UNCHANGED <<outcome, runVars, repoVars, faults, restarts>>

WriteFails(p) ==
    /\ Runs(p, "write") /\ Fault /\ Fail(p)
    /\ UNCHANGED <<stage, teamVars, runVars, repoVars, restarts>>
--------------------------------------------------------------------------------
(* The goroutines of Import and tagAllImages *)

Take(p, i) ==
    /\ worker[p][i] = "waiting" /\ tokens[p] > 0
    /\ worker' = [worker EXCEPT ![p][i] = "working"]
    /\ tokens' = [tokens EXCEPT ![p] = @ - 1]
    /\ UNCHANGED <<stage, outcome, leaving, reports, heard, runVars, repoVars, faults, restarts>>

\* The send on the error channel; the deferred Throttle.Done comes after it.
Report(p, i, result) ==
    /\ worker[p][i] = "working"
    /\ worker' = [worker EXCEPT ![p][i] = result]
    /\ reports' = [reports EXCEPT ![p] = Append(@, i)]
    /\ leaving' = [leaving EXCEPT ![p] = @ + 1]
    /\ UNCHANGED <<stage, outcome, tokens, heard, restarts>>

\* Mutants: the deferred call is missing; it is made twice.
TokenLost(p) == UNCHANGED tokens
TokenBackTwice(p) == tokens' = [tokens EXCEPT ![p] = @ + 2]
TokenBack(p) == tokens' = [tokens EXCEPT ![p] = @ + 1]

Done(p) ==
    /\ leaving[p] > 0
    /\ leaving' = [leaving EXCEPT ![p] = @ - 1]
    /\ TokenBack(p)
    /\ UNCHANGED <<stage, outcome, worker, reports, heard, runVars, repoVars, faults, restarts>>

\* getImageOrImageIndexForMultiWrite
Collect(p, i) ==
    /\ stage[p] = "get" /\ Report(p, i, "ok")
    /\ collected' = [collected EXCEPT ![p] = @ \cup {i}]
    /\ UNCHANGED <<imported, noted, repoVars, faults>>

\* verifyTagDigest
IsThere(i) == tags[UploadTag[i]] = Digest[i]

\* Mutant: the item is added by the loop that reads the errors.
AddLater(p, i) == UNCHANGED imported
AddImported(p, i) == imported' = [imported EXCEPT ![p] = @ \cup {i}]

Verify(p, i) ==
    /\ stage[p] = "verify"
    /\ \/ IsThere(i) /\ Report(p, i, "ok") /\ AddImported(p, i)
       \/ ~IsThere(i) /\ Report(p, i, "error") /\ UNCHANGED imported
    /\ UNCHANGED <<collected, noted, repoVars, faults>>

WriteTag(p, i) ==
    /\ stage[p] = "tag" /\ Report(p, i, "ok")
    /\ tags' = [tags EXCEPT ![WantTag[i]] = Digest[i]]
    /\ UNCHANGED <<runVars, manifests, locations, faults>>

WorkFails(p, i) ==
    /\ Fault /\ Report(p, i, "error")
    /\ UNCHANGED <<runVars, repoVars>>
--------------------------------------------------------------------------------
(* Bundle.NoteCopy and LocationsConfigs.Save *)

NextBundle(p) == Order[p][noted[p] + 1]
Remaining(p)  == noted[p] < Len(Order[p])

\* Every image of the bundle, and the bundle, is among the processed images.
\* Mutant: the images that are being written count as copied.
MayNoteEarly(p, b) ==
    stage[p] \in {"write", "note"} /\ {b} \cup Contents[b] \subseteq Digests(collected[p])
MayNote(p, b) == stage[p] = "note" /\ {b} \cup Contents[b] \subseteq Digests(imported[p])

\* The count of images found differs from that of the ImagesLock: panic.
Panics(p) ==
    /\ stage[p] = "note" /\ ~MayNote(p, NextBundle(p))
    /\ outcome' = [outcome EXCEPT ![p] = "panic"]
    /\ UNCHANGED <<locations, noted>>

NoteCopy(p) ==
    /\ outcome[p] = "running" /\ Remaining(p)
    /\ \/ /\ MayNote(p, NextBundle(p))
          /\ locations' = locations \cup {NextBundle(p)}
          /\ noted' = [noted EXCEPT ![p] = @ + 1]
          /\ UNCHANGED outcome
       \/ Panics(p)
    /\ UNCHANGED <<stage, teamVars, collected, imported, manifests, tags, faults, restarts>>

\* Mutant: the refusal is taken for an existing record without looking.
FetchedAlways(b) == TRUE
Fetched(b) == b \in locations

\* The push is refused, before or after the image is written. When the error says
\* "immutable" and a locations image can be fetched, Save goes on with that one.
SaveFails(p) ==
    LET b == NextBundle(p) IN
    /\ outcome[p] = "running" /\ Remaining(p) /\ MayNote(p, b)
    /\ Fault
    /\ \/ Fetched(b) /\ noted' = [noted EXCEPT ![p] = @ + 1] /\ UNCHANGED <<outcome, locations>>
       \/ locations' \in {locations, locations \cup {b}} /\ Fail(p) /\ UNCHANGED noted
    /\ UNCHANGED <<stage, teamVars, collected, imported, manifests, tags, restarts>>

AllNoted(p) ==
    /\ Runs(p, "note") /\ ~Remaining(p)
    /\ Enter(p, Following(p))
    /\ UNCHANGED <<outcome, runVars, repoVars, faults, restarts>>
--------------------------------------------------------------------------------
\* The run is killed, or has ended, and is started again.
Restart(p) ==
    /\ restarts < MaxRestarts
    /\ restarts' = restarts + 1
    /\ Enter(p, "source")
    /\ outcome' = [outcome EXCEPT ![p] = "running"]
    /\ collected' = [collected EXCEPT ![p] = {}]
    /\ imported' = [imported EXCEPT ![p] = {}]
    /\ noted' = [noted EXCEPT ![p] = 0]
    /\ UNCHANGED <<repoVars, faults>>

Main(p) == \/ Read(p) \/ ReadFails(p) \/ Receive(p) \/ Advance(p) \/ Succeed(p)
           \/ (\E i \in Item : WriteImage(p, i)) \/ WriteEnds(p) \/ WriteFails(p)
           \/ NoteCopy(p) \/ SaveFails(p) \/ AllNoted(p)

Work(p, i) == \/ Take(p, i) \/ Collect(p, i) \/ Verify(p, i)
              \/ WriteTag(p, i) \/ WorkFails(p, i)

Goroutine(p) == Done(p) \/ \E i \in Items[p] : Work(p, i)

Ended(p) == outcome[p] # "running"

Terminated == (\A p \in Proc : Ended(p)) /\ UNCHANGED vars

Next == Terminated \/ \E p \in Proc : Main(p) \/ Goroutine(p) \/ Restart(p)

Spec == Init /\ [][Next]_vars

\* The Go scheduler runs every goroutine that can run; nobody has to restart.
FairSpec == Spec /\ \A p \in Proc :
    WF_vars(Main(p)) /\ WF_vars(Done(p)) /\ \A i \in Items[p] : WF_vars(Work(p, i))
--------------------------------------------------------------------------------
\* Each variable has its type; no throttle hands out or takes back too many tokens.
TypeOK ==
    /\ stage \in [Proc -> Stage] /\ outcome \in [Proc -> Outcome]
    /\ worker \in [Proc -> [Item -> Worker]]
    /\ tokens \in [Proc -> 0..Concurrency] /\ leaving \in [Proc -> Nat]
    /\ reports \in [Proc -> Seq(Item)] /\ heard \in [Proc -> SUBSET Item]
    /\ collected \in [Proc -> SUBSET Item] /\ imported \in [Proc -> SUBSET Item]
    /\ noted \in [Proc -> Nat]
    /\ manifests \subseteq Image /\ locations \subseteq Bundle
    /\ tags \in [Tag -> Image \cup {None}]
    /\ faults \in 0..MaxFaults /\ restarts \in 0..MaxRestarts

(* Safety *)

\* A locations image lies about nothing: the bundle it was written for and all its
\* images are in the repository, whatever run was killed or failed at whatever
\* point. UpdateRelativeToRepo rewrites the ImagesLock without looking for them.
LocationsTrusted ==
    \A b \in locations : {b} \cup Contents[b] \subseteq manifests

\* The tag a user will pull appears last: what it names is in the repository with
\* everything it refers to, and each bundle of it has its locations image.
TagsComplete ==
    \A t \in UserTag : tags[t] # None =>
        Closure[tags[t]] \subseteq manifests /\ Closure[tags[t]] \cap Bundle \subseteq locations

\* NoteCopy finds every image of every bundle among the processed images: the count
\* it compares never differs, so it does not panic.
NeverPanics == \A p \in Proc : outcome[p] # "panic"

\* A run that reports success has copied all it should, noted each bundle, and left
\* no tag it wanted unwritten.
SuccessIsComplete ==
    \A p \in Proc : outcome[p] = "ok" =>
        /\ Digests(Items[p]) \subseteq manifests
        /\ Digests(Items[p]) \cap Bundle \subseteq locations
        /\ \A i \in Items[p] : WantTag[i] # None => tags[WantTag[i]] # None

\* A copy fails only because a call failed: in particular no upload is refused
\* because another run, or an earlier one, was there first.
FailureHasACause == \A p \in Proc : outcome[p] = "failed" => faults > 0

(* Liveness and refinement *)

\* Every run comes to an end, whichever goroutine fails and whoever holds the tokens.
EveryRunEnds == <>[](\A p \in Proc : Ended(p))

Repo == INSTANCE TrustedRepo WITH published <- [t \in UserTag |-> tags[t]]

\* All the runs together change the repository in the order its readers rely on.
ImplementsTrustedRepo == Repo!Spec

================================================================================
