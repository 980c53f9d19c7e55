# Specifications of imgpkg

TLA+ modules that model how imgpkg walks, copies and describes bundles, with TLC
configurations that check small instances and TLAPS proofs for all instances.
Paths below are relative to `pkg/imgpkg` unless they start with `cmd/imgpkg`.

## 1. The system

A *bundle* is an OCI image with a label; a file in it, the ImagesLock, lists other
images by repository and digest, and some of these may be bundles again. imgpkg
pushes bundles, copies a bundle with everything it refers to into a repository or
a tar, pulls it back, and describes it. There is no server: each command is one
process; what lasts is in the registries and in the files it writes.

| Component | State it keeps | Operations | Talks to |
|---|---|---|---|
| Walk over nested bundles (`bundle/bundle_images_lock.go`, `images_refs.go`) | per activation: `bundles`, `processedImageRefs`, `errChan`, a mutex | `AllImagesLockRefs`, recursive `buildAllImagesLock`, one goroutine per reference | fetcher, `imageRefCache`, registry |
| `RegistryFetcher` (`bundle/fetch_bundle.go`, `lock_with_key.go`) | `cache` by location, one mutex per location | `Bundle` | throttle, registry |
| `Throttle` (`internal/util/throttle.go`) | a channel of tokens | `Take`, `Done` | every component with goroutines |
| `imageRefCache` (`bundle/bundle.go`) | per `*Bundle`: digest to typed reference | `StoreImageRef`, `All`, `AllImagesWithErrors`, `Size` | walk, NoteCopy, describe |
| Copy to a repository (`v1/copy.go`) | none that lasts | `CopyToRepository`, `tagAllImages` | walk, ImageSet, NoteCopy, registry |
| ImageSet (`imageset`) | `ProcessedImages`, `UnprocessedImageRefs` behind mutexes | `Relocate`, `Export`, `Import` | registry |
| Locations images (`bundle/locations_configs.go`, `Bundle.NoteCopy`) | an image in the repository for each bundle copied there | `Save`, `Fetch`, `LocationsImageDigest` | registry; readers are the walk and pull |
| Describe (`bundle/fetch_images.go`, `v1/describe.go`) | entries it adds to the `imageRefCache` | `FetchAllImagesRefs`, `describeBundleRec` | walk, signatures, registry |
| Cosign signatures (`signature`) | per call: lists behind a mutex, an errgroup | `Fetch`, `FetchForImageRefs` | registry; callers are copy and describe |
| Pull (`Bundle.pull`, `v1/pull.go`, `image/dir_image.go`) | `imagesProcessed`, the graph of nested bundles, files | `Pull` | locations images, registry, disk |
| Copy to a tar (`imageset/tar_image_set.go`, `imagetar`, `imagedesc`) | the tar, a temporary copy when resuming | `Export`, `Import`, `Write`, `fillInLayers`, `PresentLayers` | ImageSet, registry, disk, `Retry` |
| Registry client (`registry`) | round trippers by registry, repository and scope; resolved authenticators | `Digest`, `Get`, `MultiWrite`, `WriteImage`, `WriteTag`, `FirstImageExists`, the clones | all of the above |
| Credentials (`registry/auth`) | none; they are read from the environment, flags and files | `Resolve` | registry client |
| Push (`cmd/push.go`, `bundle/contents.go`, `plainimage/contents.go`, `image`) | a temporary tar, a lock file | `PushOptions.Run`, `Contents.Push`, `createTarball` | file system, registry |
| Progress (`internal/util/progress_logger.go`) | a goroutine that reads a channel | `Start`, `End` | registry client |
| Lock files (`lockconfig`), tags (`image/tag.go`), loggers, other commands | none, or output only | conversions | |

What is hard in it:

* *Concurrency.* The walk starts a goroutine for each reference and never cancels
  one. Goroutines share the throttle, the cache of the fetcher, and, when two
  bundles list a third, that bundle's `*Bundle` object. Copy has three rounds of
  goroutines, describe one for each bundle. Filling in a tar starts one for each
  layer and does not stop them when one fails. All of them share the round trippers
  of the registry client, and some a clone of it.
* *Failure.* Any registry call can fail while other goroutines go on. The run
  reports the first error it reads and returns; the others must still end.
* *Crash and restart.* A copy can be killed between any two of its writes, and is
  simply run again. Other copies into the same repository may run meanwhile. A tar
  that was cut off anywhere is resumed from what can be read of it.
* *Checked, then used.* A push walks its files three times and trusts that it sees
  the same; a tar entry is written at the offset that an earlier pass reserved.
* *Trust in what was written.* A reader that finds a locations image rewrites the
  ImagesLock to the repository without looking for the images.
* *Panics as assertions.* `NoteCopy`, `All` and `describeBundleRec` panic or fail
  with "internal inconsistency" if an assumption on other components is wrong.

What makes each component correct:

* walk: every reference of the graph is visited, typed as what it is, and the call
  and all its goroutines end; it fails only if a call did;
* fetcher and throttle: no token or lock is lost on any return, a location is looked
  up by one goroutine at a time and keeps the object it got;
* copy: what a locations image or a user's tag promises is true at every moment;
  success means complete; no run disturbs another; NoteCopy does not panic;
* describe: the description is complete and does not depend on the order of lookups;
* pull: an ImagesLock on disk that points at the repository tells the truth; what is
  on disk after success is complete, whatever was there before; a copied bundle is
  pulled without the repositories it came from;
* tar: whatever calls failed or were killed before and whichever of their goroutines
  still write, descriptors are only returned with a tar that can be imported; a
  resumed call does not download what the tar held;
* registry client: a request goes out with what was negotiated for its repository and
  scope, with the right credentials; nothing is negotiated twice; no lock is kept on
  an error, and no reader of progress is left behind;
* push: what is pushed is what was checked; the lock file names what this command
  pushed; no temporary file is left.

## 2. Modules

| Module | Role |
|---|---|
| `ImagesWalk` | abstract: visit everything under a reference before the reference, report success only after the whole graph |
| `BundleTraversal` | the concurrent walk, fetcher, key lock, throttle and reference caches |
| `MCBundleTraversal` | a diamond of bundles, for TLC |
| `BundleTraversalProofs` | theorems about the fetcher, its locks and its throttle |
| `ImagesWalkProofs` | theorems about what the walk returns, and that it implements `ImagesWalk` |
| `TrustedRepo` | abstract: what readers of a destination repository rely on |
| `CopyToRepository` | concurrent, failing and restarted copies into one repository |
| `MCCopyToRepository` | two runs that share images and a tag, for TLC |
| `CopyToRepositoryProofs` | theorems about copies |
| `DescribeBundle` | describe after the walk: signature lookups and the caches |
| `MCDescribeBundle` | the diamond again, partly signed, for TLC |
| `DescribeBundleProofs` | theorems about describe |
| `PullBundle` | pulls into one directory while copies into the repository go on |
| `MCPullBundle` | a diamond in which one bundle is named from two repositories, for TLC |
| `PullBundleProofs` | theorems about pull |
| `TarExport` | calls of `Export` on one path, fresh or resuming, with retries, kills and stray goroutines |
| `MCTarExport` | an image and an index of an index, with a shared layer and one that may not be distributed |
| `TarExportProofs` | theorems about tars |
| `RegistryClient` | goroutines that run scripts of registry operations over shared round trippers |
| `MCRegistryClient` | the goroutines of a copy, for TLC |
| `RegistryClientProofs` | theorems about the client |
| `PushContents` | commands that push directories while somebody edits them |
| `MCPushContents` | two directories, one command for both and one for the second |
| `PushContentsProofs` | theorems about push |

`BundleTraversal` implements `ImagesWalk` (property `ImplementsWalk`), and
`CopyToRepository` implements `TrustedRepo` (`ImplementsTrustedRepo`). The second
and third model take the result of the first as constants: the order of bundles
that the walk returns (`Order`, `List`) and that it is complete (`WalkAssumption`,
`ListAssumption`), which are what `WalkIsComplete` and `NoteCopyReady` check and
`ImagesWalkProofs` proves.
`PullBundle` does not contain copies; it contains `TrustedRepo`, which every set of
copies implements (theorem `Refinement`), as the environment that changes the
repository between any two of its steps.

### BundleTraversal

A task is one activation of `imagesLockIfIsBundle`, that is, one path from the root
to a reference. `pc` follows it: `lock`, `take1`, `locate`, `take2`, `probe` are
`RegistryFetcher.Bundle`; `read`, `walk` are `buildAllImagesLock` of the bundle it
found; `merge` and `error` are the end of the goroutine. A `*Bundle` object is named
by the task that built it; `object[t]` is the one `t` was given, perhaps by the
cache. `tokens`, `holder`, `entry`, `cached`, `errChan` are the throttle's channel,
the key lock, the fetcher's cache, the reference caches and the error channels.

Abstractions:
* Merging under the mutex and the send of `nil` are one step, for nobody observes
  the state between them; the channel has room for every goroutine.
* The reads of an activation (image, layer, locations image) are one step: they are
  outside throttle and locks and change nothing.
* A channel hands out reports in the order they were sent.
* A failing call costs one unit of `MaxFaults`. A missing image costs nothing:
  `Stored` says where images are. `FirstImageExists` asks near first and moves on
  after any error; to prefer the far copy of an image that is near costs a fault.
* The locations image of a bundle enters as `KnownContent`; only entries marked as
  plain images matter, for the code checks all others.
* `FailureHasACause` says what a failure may have for a cause: a call failed, or a task
  below the root found its image neither where its parent's object is nor where the
  ImagesLock says.

### CopyToRepository

`stage[p]` is how far the run is through `CopyToRepository`: reading the source,
the goroutines that collect images, `MultiWrite`, the goroutines that verify, for a
tar the walk over what was imported, `NoteCopy` bundle by bundle, and the
goroutines that tag. `worker`, `tokens`, `reports`, `heard`, `leaving` are the
goroutines of the current stage, their throttle and error channel; `leaving` counts
those between their report and the deferred `Done`, because the throttle of
`Import` serves two rounds. `manifests`, `tags`, `locations` are the repository.

Abstractions:
* `MultiWrite` writes images one at a time in any order; a manifest and its upload
  tag are one write. Layers are not modelled; the registry refuses a manifest
  without its layers.
* `Save` writes the locations image and its tag in one step. Only the tag is ever
  looked up. An "immutable" refusal is any failing push when a locations image
  exists; another failure may come before or after the write.
* `TagAssumption`: upload tags contain the whole digest, so equal tags mean equal
  digests and none is a tag of a user. `RepoBasedTagGenerator` is not modelled yet.
* `WalkAssumption`: what is copied is closed. It leaves out tars without a label on
  the root bundle, for which the code writes no locations image.
* The signatures that `--cosign-signatures` adds are items like any others.
* Nobody deletes from the repository.

### DescribeBundle

`List` is what the walk returned, and names a shared object once per path. The loop
is at `pos`; `waiting`, `asking`, `tokens`, `found`, `refused`, `broken` are the
goroutines of `FetchForImageRefs`, its throttle and what they bring back; `typ` and
`denied` are the `imageRefCache` of each object. The registry's choice of whom it
shows signatures (`hidden`) is made once, in `Init`, for a registry answers the same
question the same way; other failures may come at any call. The model assumes that two
objects have different digests (one repository), and that a signature is not
listed in an ImagesLock and is no locations image (`RegistryAssumption`).

### PullBundle

`stack` holds a frame for each call of `Bundle.pull` that has not returned: the name
the bundle has in the ImagesLock above (`name`), the repository it is fetched from
(`repo`, from `PrimaryLocation`), how far the call is (`step`), the index of the loop
(`next`), and what it knows: `located` if a locations image was found, `relocated` if
the ImagesLock is to be rewritten. The steps are `fetch` (`checkedImage`), `clear` and
`layers` (`AsDirectory`), `locate` (`NewImageRefsFromImagesLock`), `compare`
(`UpdateRelativeToRepo`, one lookup a step), and `walk`, the loop. `disk[b]` is the
directory of `b`: absent, half extracted (`partial`), as its author wrote it
(`original`), or with an ImagesLock rewritten to a repository (the value is that
repository). `processed` is `imagesProcessed`, with names as in the ImagesLock, so a
digest that is named from two repositories is extracted twice. `graph` has the path to
each node of `cachedNestedBundleGraph`. A pull may be killed at any step by the next
one, which finds the directory as it was left.

* `online` says whether a pull reaches repositories other than its own; it is chosen
  when the pull begins. `whole` remembers whether a copy of the root was over then. It
  is for the properties only.
* `Holds` and `Located` are the answers of registries. A refusal (401, 403) counts as
  "not found", as in the code, and costs one unit of `MaxRefusals`; any other failure
  costs one of `MaxFaults`.
* `Elsewhere` does not change during a pull, and what is `Marked` by a locations image
  is a constant: one record for each digest.
* `CopyGoesOn` tags nothing but the root; other tags change nothing for a pull.
* Extracting the layers is one step after the directory was cleared; a failure or a
  kill in between leaves it `partial`. So does a failed `WriteToPath`.
* Two pulls into one directory at the same time are not modelled.
* `GraphAssumption` says what `Closure` is: of a bundle, the bundle and what it lists, with
  what is below; of an image that is no bundle, the image.

### TarExport

`pc` is how far the current call of `Export` is: `describe` (`NewImageRefDescriptors`
with its throttle and errgroup), `open`, `snapshot`, `present` (with `--resume`: open
the previous tar, copy it to a temporary file, ask `PresentLayers` what it holds),
`create`, `manifest`, `layers` (`TarWriter.Write` up to `writeLayers`), `fill`
(`fillInLayers`), `restore` (the deferred function after an error). `file` and `temp`
are the tar and its copy: for each layer the state of its entry, absent, zeros,
partial or full. `filler[<<c, l>>]` is the goroutine that fills in layer `l` for call
`c`, with `attempt` for `Retry`; `errCh` and `heard` are the channel of
`fillInLayers`, `writeTokens` its throttles. A goroutine of a call that has returned
stays until it ends or the process does (`Exit`, `Kill`); when the next call truncates
the file or puts zeros over an entry, what such a goroutine has written so far is lost
(`torn`) and the rest of it is not.

* Bytes are not modelled. That the bytes of a layer are the same whoever writes them,
  so that a complete entry stays complete, is in `FillCopy`.
* An entry is read by walking from the start (`ReachableChunk`) and verified while it is
  read (`Verified`), so a partial entry is never taken for a whole one.
* `held` and `downloaded` are observers.
* The pauses of `Retry` and the size of blobs are left out. The model tries twice where
  the code tries five times; the proofs hold for any number.

### RegistryClient

A goroutine (`Task`) runs a script of operations, one after the other: `get`, `digest`,
`first` (`FirstImageExists`), `mountable` (`mountableImage`), `write`, `multiwrite`. For
each, `pc` goes from `validate` (`validateRef`) through `transport`, that is `lock`,
`lookup`, `resolve`, `create`, `pair`, to `request`. `user[t]` is the registry value
whose method runs: the command's (`main`), the one `CloneWithLogger` made (`quiet`), one
without a keychain (`basic`), or `t` itself, the clone with a single authenticator that
`imageBlobsCanBeMounted` makes. `transportAccess` is the mutex of each value,
`readWriteAccess` that of each storage, `transports` the storage that `main` and `quiet`
share, `single` the one-place storage of a clone, `authn` what a value has resolved.
`reader`, `channel`, `sent` are the progress of an upload. A mountable image is first
looked at in `compare` (its registry is that of the destination) and `clone`. A reference
that `validateRef` refuses is an answer like any other: `first` goes on with its next
candidate, an image that cannot be mounted is uploaded, every other operation fails.

`AuthOf` is the chain of keychains: environment, IaaS, flags or docker configuration, the
latter with retries. Of the environment, each entry of `EnvEntry` has a URL, a host and a
path; strings are sequences of character codes. `Less` is Go's order of strings,
`ComesBefore` the reverse order in which `EnvKeychain.collect` sorts, `Matches` is
`URLsMatch` (a glob for the host, a prefix for the path), and `EnvResolve` takes the first
entry that matches.

* The registry and go-containerregistry are external: a request is refused when the
  credentials of its round tripper do not read the repository, a write is not refused,
  and each conversation may fail.
* Reads that differ only in what they ask for are one operation, `get`.
* What an error of the keychain does while an image is looked for to mount (a panic)
  is the state `panic`, which ends the program.
* `ScheduleAssumption` says what the commands do: `main` and `quiet` are not used at
  the same time for the same repository and scope. Each has a mutex of its own over
  a storage they share, so without this assumption `NegotiatedOnce` does not hold.
* Which registries a host with wildcards matches is the constant `HostMatches`. How
  variables and URLs are parsed is left out; an error of it, which `collect` keeps in
  `collectErr`, is a failure of the keychain like any other. `collect` works once for a
  process, under `collectLock`, so its result is a constant; two entries with one URL have
  the order that the map and the unstable sort gave them, whichever it is (`CHOOSE`).
* `IsBest` compares the credentials of one host only. The comment in `collect` says that
  more specific paths are matched first; between a host and another with wildcards the
  order of the URLs does not do that (section 4).
* An update with a total of zero on an open channel, which would end the reader
  (`progress_logger.go:66`), is not modelled: the library adds the size of a blob to the
  total before it reports anything of it.

### PushContents

A command (`Pusher`) checks its flags, walks its paths for `.imgpkg` (`find`), for
repeated paths (`repeat`) and to write the temporary tar (`tar`, with `open` between the
header of a file and its content), makes the image (`tarred`), uploads it (`write`), puts
the default tag on it (`tag`) and writes its lock file (`pushed`). `agenda` is what
`filepath.Walk` has still to visit; a directory is read when it is entered. `missing` says
that the last file was shorter than its header, which the tar writer reports at the next
header. `Edit` adds, removes or changes a file at any step of any command; `calm` is the
observer of it.

* The file system and the registry are external. Names are model values with the part
  of the path that the code looks at (`Named`, `Rel`). `Entry` lists them in the order of
  their names, in which `filepath.Walk` reads a directory (`Children`); `Ancestors` are the
  directories an entry is in, with the entry.
* No path is given twice. A walk meets such a path twice and `checkRepeatedPaths` refuses
  it; `seen` is a set and would not notice.
* An upload whose answer is lost may have happened.
* Two sizes tell shorter from longer.

## 3. Runs

| Run | Instance and bounds | Shows |
|---|---|---|
| `traversal` | root lists bundles b1 and b2, both list bundle s (b2 names it in another repository), s lists plain image W; b2 also lists plain image X twice, from two repositories, and its locations image marks one of the two as content; dst holds all but W; 2 tokens, 1 fault; fair | types, cache entries, typed references, completeness, reasons for failing; the call returns and all goroutines end; `ImagesWalk` is implemented |
| `traversal_names` | the same without faults, 1 token | *violated*: one of two names of an image is lost (finding 1) |
| `copy` | a bundle in a bundle from a repository, and the inner bundle from a tar, under one tag; 1 token each, 1 fault, 1 restart; fair | the repository can be trusted at each moment, `TrustedRepo` is implemented, no panic, every run ends |
| `describe` | the diamond, five passes over four objects; 2 tokens, 2 faults; any of three images may have a hidden signature; fair | the description is complete, a failure has a cause, and that it ends |
| `describe_panic` | the same | *violated*: `All` panics (finding 2) |
| `pull` | R lists B1 and B2; B1 lists S twice, from src and from ext; B2 lists S; S lists plain image W; src has all of it and a locations image of S, ext only S; dst starts empty and is filled meanwhile; 2 pulls, 1 fault, 1 refusal; fair | locks on disk tell the truth, success is complete, a copied bundle needs no other repository, the order of rewriting, and that a pull ends |
| `pull_updated` | the same, 1 pull, no failures | *violated*: `Updated` is wrong for a nested bundle (finding 3) |
| `tar` | an image and an index of an index with one image, four layers, one shared, one that may not be distributed; 2 calls, each with 1 or 2 goroutines, resuming or not, in one process or two; 2 attempts, 2 faults, 1 kill; fair | a tar that is answered with descriptors can be imported, a sequential resume downloads what is missing only, every call and every goroutine ends |
| `tar_reuse` | the same without faults and kills | *violated*: a resumed parallel call downloads what the tar held (finding 4) |
| `tar_resume` | the same as `tar` | *violated*: success without a complete tar (finding 5) |
| `client` | the goroutines of a copy in the order in which `Import` starts them: two that look for images to mount, from three sources, an upload of two images with progress, two that verify, one that writes locations and then meets malformed references; credentials for the registry, for a path of it, and for a path of any host; 3 tries, 2 faults, 2 updates; fair | each request has the credentials and the scope it needs, each negotiation is made once, every goroutine and progress reader ends |
| `push` | two directories with an `.imgpkg` each (one of them a file), an excluded directory, a link; all states of the directories to begin with; two commands, 1 edit, 1 fault | an undisturbed push is what was checked, the lock file names the image pushed, temporary files go |

Why these bounds. A diamond is the smallest graph in which two goroutines meet at one
location and at one object, and the two references to X from different repositories
make the two names of finding 1. Two tokens let
calls overlap and still make tasks wait; one, in `copy`, is the tightest throttle, which
a leak would block at once. One fault is enough to end a run while others
go on; it can happen at each call. In the copies the inner bundle is shared by both
runs, so each can write, note and tag what the other is working on; one restart is
enough to meet the traces of a run that was killed. Describe needs two faults, for one
ends a lookup while another may fail beside it. Two pulls are enough for one to find what
another left, finished, failed or killed, recursive or not. S is reached by three paths
and two names, so it is skipped once and extracted again once. Two calls of `Export` are
enough for one to find what another left and to meet its goroutines; two faults, for
one goroutine can use up its attempts, or two fail; one token while images are
described (10 in the code), for the two references then wait for each other. In the
client two faults end one operation and disturb another; three tries of the keychain
(five in the code) are a first, a middle and a last one; two credentials of one host tell
the order of the URLs from its reverse, and the third has wildcards, comes last and is the
closest by its path. One edit is enough to part two
of the three walks of a push. `MaxFaults`, `MaxRestarts`, `MaxPulls`, `MaxRefusals`,
`MaxCalls`, `MaxKills`, `MaxUpdates` and `MaxEdits` are the only bounds on behaviour;
the proofs hold for every value of them.

Deadlock is checked in every run: `Terminated` is the only step of a finished system.

Fairness. Each goroutine gets weak fairness of its own, which is what the Go scheduler
and the channel and mutex give: a goroutine that can go on will. No fairness is given
to `Restart`. Competing for the token or a lock needs nothing stronger, for each
goroutine takes it a bounded number of times. A registry call returns: it is a step of
its goroutine, and the HTTP client has timeouts. Pull is sequential: `Work`, the
disjunction of its steps, is weakly fair, and neither new pulls nor copies are. In
`TarExport` the current call is one goroutine (its steps are `ExportStep`) and each filler
is one of its own; nobody has to call again or to kill. In `RegistryClient` it is enough
that the program goes on while it can: scripts are finite, so no goroutine can keep
the others waiting for ever; a reader that is not cancelled need not stop. Push has no
liveness property: it is sequential and waits for nobody.

## 4. Findings

1. `traversal_names`: `RegistryFetcher.Bundle` answers a cache hit with the reference
   of another ImagesLock (`bundle/fetch_bundle.go:108`). The name asked for is missing
   from what `AllImagesLockRefs` returns, against its comment; describe's `Origin` and
   the locations image of a bundle then hold a name its ImagesLock does not have,
   depending on which goroutine came first. No image is lost.
2. `describe_panic`: `FetchAllImagesRefs` stores an error entry for a signature that
   the registry refuses to show (`bundle/fetch_images.go:40`), and on its next pass
   over the same shared bundle reads the cache with `All`, which panics
   (`bundle/bundle.go:353`) and says that another function should have been called.
   `NoPanicWithoutSharing` proves that sharing is needed.
3. `pull_updated`: `pullBundle` reports what the root found out about its own ImagesLock
   as `Updated` of every nested bundle (`v1/pull.go:170`); `Bundle.pull` drops what the
   nested calls return. With all nested bundles in the repository, but not their
   images, the nested ImagesLock is as its author wrote it and reported as updated, and
   the result as cacheable.
4. `tar_reuse`: `fillInLayers` asks the registry for every layer
   (`imagetar/tar_writer.go:285`); only the sequential way of writing looks into the
   layers of the previous tar (line 176). The command writes in parallel unless it is
   told otherwise, so `--resume` downloads all of it again.
5. `tar_resume`: when copying the previous tar fails, `Export` returns another error
   variable, which is nil (`imageset/tar_image_set.go:64`).

Seen while reading, without a run of their own: a shared bundle is missing from
`NestedBundles` of the second bundle that lists it (`bundle/bundle.go:227`); the
deferred function of `Export` opens the tar for reading (`imageset/tar_image_set.go:91`),
so a failed resume does not put the previous layers back, and a call killed before
the manifest is whole makes every later `--resume` fail; the error of the deferred
`Close` of the temporary tar is dropped (`image/tar_image.go:61`), so a last file that
shrinks is pushed torn; a file called `.imgpkg` makes its directory present as a bundle
(`bundle/contents.go:144`); of the credentials `index.docker.io` and `*.docker.io/library`
in the environment, an image of `index.docker.io/library` gets the first, whose URL comes
first in the reverse order, although the comment says that more specific paths are matched
first (`registry/auth/env_keychain.go:203`).

## 5. Proofs

All proofs are for every value of the constants that the named assumptions allow.

`BundleTraversalProofs`. The invariant `Inv` is `TypeOK` with `Structure`,
`LocationLocked` and `TokensConserved`. `Structure` is needed because a location is
computed from the repository of the parent's object: it has to be known that this
object was built before any child runs and never moves afterwards, else a task might
unlock another location than it locked. Theorems: `TypesCorrect`, `ThrottleCorrect`,
`KeyLockCorrect`; `CacheCorrect` (an entry is never replaced) from the lock and from
`LookupsComeFirst`; `TypesArrive` (`UntypedIsPending`) as a second invariant on top.

`CopyToRepositoryProofs`. The argument follows the stages. `Teams`: a stage is over
only when each of its goroutines was heard, without an error. `Pushes`, `Uploads`:
from "verify" on all uploads are stored and no run moves them. `Progress`: after
"verify" all items are among the processed images, so `NoteCopy` finds them
(`NeverPanics`) and its locations image is right (`LocationsTrusted`); after "note"
all bundles have theirs, so tags are right (`TagsComplete`). `Answers` and `faults`
give `FailureHasACause` and the last part of `SuccessIsComplete`. Theorem `Refinement`
is that all runs together implement `TrustedRepo`.

`ImagesWalkProofs` is about the data that the goroutines hand up, on top of `Inv`. `Result`
says of each activation what it has: `ObjectsMatch` (a task that leaves the fetcher has an
object of its own image, be it its own or the cache's), `ReportsAreTrue`, `BelowIsDone` (a
task returns only when every task it started, and all under them, have ended well; that
the loop counts reports is enough because a task reports once), `RefsMatch` and
`BundlesMatch` (what was merged so far is what the ended kids cover, no more and no less),
`CachesMatch` and `GivingUpHasACause`. Theorems: `WalkComplete`, `CachesReady`,
`TypesRight`, `FailureCaused`, and `Refinement`, that the walk implements `ImagesWalk`:
a step that ends a task well is a visit, the report of the root is its report, and every
other step is hidden.

`DescribeBundleProofs`. `Behind`: only bundles the loop has been at have error
entries. With it `PanicNeedsSharing`, `NoPanicWithoutSharing`, and from `Causes`
`FailureNeedsAFault`, that is, describe never ends in "could not be found in list of
bundles". For completeness: `Sorted` (every entry of a cache belongs there, and has the
right kind), `Fresh` (a bundle not visited has only what its ImagesLock lists), `Asking`
(the goroutines in flight, what they found and what the bundle has make up all its
signatures), `Gone` (a bundle behind the loop lacks nothing). Theorem
`DescriptionsAreComplete` is for lists that satisfy `NothingToAdd`: each bundle is on the
list once, or what its first pass adds has no signature and no refused lookup of its own.
The hypothesis is needed. A shared bundle gets a pass for each of its paths, and a later
pass looks for signatures of what the first one added: with a signature that is signed
itself, TLC finds a description that has it or not depending on how many parents the
bundle has. The instance of the run satisfies the hypothesis, and has a shared bundle.

`PullBundleProofs`. `Callers`: a call that waits for a nested one is in its loop, at an
entry; without it a returning call might push the index of its caller out of the
ImagesLock. `Sound`: what a call has found out is true, that is, all entries before
`next` are stored while it compares, and all are when `relocated` is set. It survives
because repositories only grow and a locations image in the repository is a promise
kept (`LocationsKept`), which is what copies guarantee. Both are invariants of every
call on the stack, stated as `stack \in Seq(S)`, so that a few lemmas on sequences serve
for all steps. Theorems: `TypesCorrect`, `LocksAreTrusted`. `Local` is the third
invariant, of a pull that began when a tag promised the whole bundle: each call is
below the root, in its repository, and never compares, for there is a locations
image; and once the directory of the root is cleared, a directory is rewritten to that
repository or its call is on the stack. Theorems: `CopiedBundlesAreLocal`,
`CopiedBundlesArePulled`. They need nothing of copies but `TrustedRepo`.

`CompleteInv` is the invariant of pulls that succeed. Nothing that a pull remembers says
that a directory is whole; `imagesProcessed` says only that somebody has begun with it. So
`Accounted` says that what was processed is on disk with all that is below it, but for
bundles whose calls are on the stack, and `Nesting`, `Ancestry` and `DirsApart` that the
stack is one path through an acyclic graph: a call that meets a bundle "already processed"
never meets one of its own callers. `Passed` is how far each loop is, `DirsWhole` which
calls have their directory, `Reporting` that the nodes of the graph are what is on disk,
which holds although a bundle with two names is extracted twice, for the first time has
put it into the graph. Theorems: `PullsAreComplete`, `DirectoriesAreReported`; and
`LocksRewrittenLast`, an action property, from the same invariant.

`TarExportProofs`. A call that returns descriptors has to have heard from all its
goroutines, and each of those has to have completed its entry. `Counts`: a goroutine is
pending, or its report is in the channel, or was heard, which takes cardinalities because
the code counts reports. `Whole`: in a call that fills, an entry whose goroutine has
reported success is full, and stays so, for goroutines of earlier calls (`Started`) leave
complete entries complete. `Tried` ties the number of failed attempts to where a goroutine
is, so that "no error" means "written"; `Tokens` gives the type of the throttles.
`Reused`: what is taken from the previous tar was in it when the call started. Theorems:
`TypesCorrect`, `Success`, `Missing`.

`RegistryClientProofs`. `Where(t)` is what a goroutine knows at each point of `transport`:
it holds the mutex of its registry value, between `lookup` and `create` nothing was saved
for its repository and scope, and the round tripper it goes on with is one that was
negotiated for them. `Stored` is the shared storage: what it holds for a repository and a
scope was negotiated for these, once. The heart is the lemma `Others`: a step of one
goroutine leaves what the others know, because of the mutex, and between the two values
that share a storage without sharing a mutex because of `ScheduleAssumption`
(`OneAtATime`). `AuthOfIsBest` is about the keychains: what the environment says comes
first, and of the entries of one host the longest path that matches is chosen. `Less` is a
strict order (`LessIrreflexive`, `LessTransitive`), so that among finitely many entries
there is one no other comes before (`Foremost`); and two paths that both begin the path of
a repository are prefixes of each other, so that the longer one is greater
(`LongerFirst`). No assumption is made about the URLs. Theorems:
`TypesCorrect`, `Authorised`, `Once`.

`PushContentsProofs`. `Push(p)` follows a command from its flags to its lock file: which
steps have a temporary file, that the image is labelled as the flags say, and that an
image that was pushed has its default tag, which nothing takes away. Theorems: `Locked`,
`Removed`. `WalkInv` is about the three walks. `Undisturbed(p)` holds of a command as long
as nobody edits: the first two walks have found what is given or have it below something
on their agenda (`Finding`); the third has written what is wanted, or has it below its
agenda, or has just written its header, and nothing on its agenda is below something
excluded (`Writing`). What a directory on the agenda is replaced by keeps this because
there is an entry of it between the directory and whatever is below it (`OneStepDown`,
`BelowNext`), and because `Children` leaves none out (`ChildrenFacts`, which is about the
ranks of a finite set). An edit takes `calm` from every command that has begun and leaves
a tree of files (`EditWalk`). Theorems: `TypesRight`, `PushedWhatWasChecked`.

Proved, and no longer among the properties of the runs: `TokensConserved` and
`LocationLocked` of the walk (theorems `ThrottleCorrect`, `KeyLockCorrect`),
`FailureHasACause` of copies (`Failure`), `PanicMeansShared` of describe
(`PanicNeedsSharing`).

Only model-checked: liveness (`EveryTaskEnds`, `EveryRunEnds`, `DescribeEnds`, `PullEnds`,
`EveryCallEnds`, and `EveryTaskEnds` of the client), which is outside the proof system
together with ENABLED and with induction over the nesting of bundles. Every safety property
of the runs that pass, and both refinements, are theorems. The assumptions a theorem rests
on are those of the module it is about, named there; TLC evaluates them in every run.

## 6. Plan

Done: every module of section 2 and its proofs. What is left, in order of worth:

1. Proofs: for each component that ends, a measure that every step of it decreases, which
   is the part of liveness that is within reach of the proof system.
2. `Signatures.Fetch` in copy, which forgives refused lookups only.
3. Lock files (`lockconfig`, `ImageRefs`): their algebra as operators checked against
   a reference definition; upload tags of both generators, which discharges
   `TagAssumption`.
4. The composition of `TarExport` with the copy from a tar of `CopyToRepository`, which
   takes the tar as given now.

## 7. Not modelled

Contents of images, layers and YAML files; parsing of variables, URLs and references;
HTTP and what go-containerregistry does with it; formatting and log output; commands
other than push, which check flags, call one of the components and print;
two commands that write one tar or one directory at the same time. `PROJECT.json` lists
each component with its status, and each hazard with the properties that cover it.
