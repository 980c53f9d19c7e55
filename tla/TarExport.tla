------------------------------ MODULE TarExport ------------------------------
(***************************************************************************)
(* Copying images to one tar file, and resuming such a copy:               *)
(*   TarImageSet.Export       pkg/imgpkg/imageset/tar_image_set.go         *)
(*   NewImageRefDescriptors   pkg/imgpkg/imagedesc                         *)
(*   TarWriter, TarReader     pkg/imgpkg/imagetar                          *)
(*   Retry                    pkg/imgpkg/internal/util/retry.go            *)
(*                                                                         *)
(* Calls of Export follow one another on one path, with the same images.   *)
(* Between two calls the process may end (the command does) or live on (a  *)
(* program that uses the package); in the second case the goroutines a     *)
(* failed call left behind go on writing into the file of the next one.    *)
(* The process may be killed at any step.                                  *)
(***************************************************************************)
EXTENDS Naturals, Sequences, FiniteSets

CONSTANTS Ref,            \* the images and indexes to copy
          Node,           \* images and indexes, those inside indexes included
          Index,          \* the nodes that are indexes
          Members,        \* Members[n]: what the manifest of index n lists
          Layer,          \* layer digests
          LayersOf,       \* LayersOf[n]: the layers of image n
          Distributable,  \* layers a tar may always hold
          IncludeNonDistributable,
          Order,          \* the layers sorted by digest
          Jobs,           \* values --concurrency is given
          BuildThrottle,  \* goroutines of NewImageRefDescriptors at work at a time
          Attempts,       \* how often Retry calls its function
          MaxCalls,       \* bound on the calls of Export
          MaxFaults,      \* bound on calls to the registry or the disk that fail
          MaxKills        \* bound on kills of the process

ASSUME ImagesAssumption ==
    /\ IsFiniteSet(Node) /\ Ref \subseteq Node /\ Index \subseteq Node
    /\ Members \in [Index -> SUBSET Node]
    /\ LayersOf \in [Node \ Index -> SUBSET Layer]
    /\ Distributable \subseteq Layer /\ IncludeNonDistributable \in BOOLEAN
    /\ Order \in Seq(Layer)
    /\ \A i, j \in DOMAIN Order : Order[i] = Order[j] => i = j
    /\ {Order[i] : i \in DOMAIN Order} = Layer

ASSUME BoundsAssumption ==
    /\ Jobs \subseteq Nat \ {0} /\ BuildThrottle \in Nat \ {0} /\ Attempts \in Nat \ {0}
    /\ MaxCalls \in Nat /\ MaxFaults \in Nat /\ MaxKills \in Nat

VARIABLES file,         \* the tar on disk
          temp,         \* the temporary copy of a call that resumes
          call,         \* the number of the current call
          pc,           \* where that call is
          result,       \* what it returned
          resuming,     \* it was given --resume
          jobs,         \* its concurrency
          describing,   \* the goroutines of NewImageRefDescriptors
          buildTokens,  \* what is left in buildThrottle
          reuse,        \* alreadyDownloadedLayers
          written,      \* writtenLayers: the layers whose entry is written, or inflated
          filler,       \* filler[<<c, l>>]: the goroutine that fills in layer l for call c
          attempt,      \* attempt[g]: how often it has failed, 0 again when it succeeds
          writeTokens,  \* writeTokens[c]: what is left in writeThrottle of call c
          errCh,        \* the channel of fillInLayers
          heard,        \* how many reports were received from it
          held,         \* observer: the layers the tar held when the call started
          downloaded,   \* observer: the layers the call has read from the registry
          faults, kills

callVars  == <<temp, call, result, resuming, jobs, reuse, held>>
buildVars == <<describing, buildTokens>>
fillVars  == <<filler, attempt, writeTokens, errCh>>
vars == <<file, callVars, pc, buildVars, written, fillVars, heard, downloaded, faults, kills>>

\* A layer's entry: "zeros" after inflating, "partial" when its content is cut off
\* or mixed with zeros. An absent entry reads as the end of the archive.
EntryState  == {"absent", "zeros", "partial", "full"}
File        == [exists : BOOLEAN, manifest : {"none", "partial", "full"}, entry : [Layer -> EntryState]]
Truncated   == [exists |-> TRUE, manifest |-> "none", entry |-> [l \in Layer |-> "absent"]]
NoFile      == [Truncated EXCEPT !.exists = FALSE]
FillState   == {"none", "waiting", "open", "copy", "torn", "report", "ok", "failed"}
Filler      == (1..MaxCalls) \X Layer

\* The images under a node: buildImageIndex descends through the indexes an index lists,
\* and the reader of the tar restores what it found.
ImagesUnder[n \in Node] ==
    IF n \in Index THEN UNION {ImagesUnder[m] : m \in Members[n]} ELSE {n}

DescribedLayers == {l \in Layer : \E r \in Ref : \E i \in ImagesUnder[r] : l \in LayersOf[i]}

\* ImageLayerWriterFilter
ShouldLayerBeIncluded(l) == l \in Distributable \/ IncludeNonDistributable

\* The layers the call asks for. writeLayers sorts them by digest and drops duplicates.
LayersToWrite == {l \in DescribedLayers : ShouldLayerBeIncluded(l)}
Rank(l) == CHOOSE i \in DOMAIN Order : Order[i] = l
IsNext(l) == /\ l \in LayersToWrite \ written
             /\ \A k \in LayersToWrite \ written : Rank(l) <= Rank(k)

\* openChunk walks the entries in order up to the one it is asked for.
Before(l) == {k \in LayersToWrite : Rank(k) < Rank(l)}
ReachableChunk(f, l) == \A k \in Before(l) \cup {l} : f.entry[k] # "absent"

\* DescribedCompressedLayer.Compressed: the content is hashed while it is read, and the
\* end of it is an error when the hash is not the digest.
Verified(f, l) == f.entry[l] = "full"

\* getIdsFromManifest
ManifestRead(f) == f.manifest = "full"

Readable(f, l) == ManifestRead(f) /\ ReachableChunk(f, l) /\ Verified(f, l)

\* PresentLayers: what cannot be opened or does not verify is skipped.
\* Mutant: the first such layer ends the search.
PresentUntilBroken(f) == {l \in LayersToWrite : \A k \in Before(l) \cup {l} : Readable(f, k)}
PresentLayers(f) == {l \in DescribedLayers : Readable(f, l)}

\* TarImageSet.Import of the file succeeds in reading every layer it uploads.
Importable(f) == ManifestRead(f) /\ \A l \in LayersToWrite : Readable(f, l)

\* FindLayer panics for a layer that no image described to it has.
FindLayer(l) == l \in DescribedLayers

\* The call inflates the file and fills it in with goroutines.
IsInflatable == jobs > 1

\* What Retry does after its function failed for the n-th time.
\* Mutant: the last error is forgotten.
RetriedSilently(n) == IF n < Attempts THEN "open" ELSE "ok"
Retried(n) == IF n < Attempts THEN "open" ELSE "failed"

\* Mutant: the token is given back by the function as well as by its defer.
ReleasedTwice(n) == n + 2
Released(n) == n + 1

\* fillInLayers starts one goroutine for each of writtenLayers.
\* Mutant: it waits for one for each element of layersToWrite, duplicates included.
ReportsForDuplicates == Cardinality({p \in (UNION {ImagesUnder[r] : r \in Ref}) \X LayersToWrite :
                                        p[2] \in LayersOf[p[1]]})
ReportsExpected == Cardinality(written)
--------------------------------------------------------------------------------
Init ==
    /\ file = NoFile /\ temp = NoFile
    /\ call = 0 /\ pc = "ended" /\ result = "none"
    /\ resuming = FALSE /\ jobs = 1
    /\ describing = [r \in Ref |-> "idle"] /\ buildTokens = BuildThrottle
    /\ reuse = {} /\ written = {}
    /\ filler = [f \in Filler |-> "none"] /\ attempt = [f \in Filler |-> 0]
    /\ writeTokens = [c \in 1..MaxCalls |-> 0] /\ errCh = <<>> /\ heard = 0
    /\ held = {} /\ downloaded = {}
    /\ faults = 0 /\ kills = 0

Fault == faults < MaxFaults /\ faults' = faults + 1

\* The call returns, and its deferred functions remove the temporary file. (The copy
\* a killed process leaves behind is never read again.)
Return(r) == pc' = "ended" /\ result' = r /\ temp' = NoFile

Start ==
    /\ pc = "ended" /\ call < MaxCalls
    /\ call' = call + 1 /\ pc' = "describe" /\ result' = "none" /\ temp' = NoFile
    /\ resuming' \in BOOLEAN /\ jobs' \in Jobs
    /\ describing' = [r \in Ref |-> "idle"] /\ buildTokens' = BuildThrottle
    /\ reuse' = {} /\ written' = {} /\ errCh' = <<>> /\ heard' = 0
    /\ held' = {l \in LayersToWrite : Readable(file, l)} /\ downloaded' = {}
    /\ UNCHANGED <<file, filler, attempt, writeTokens, faults, kills>>

\* The goroutine of one reference takes a token, and asks the registry for all that
\* the descriptor of an image or a whole index needs.
DescribeTake(r) ==
    /\ pc = "describe" /\ describing[r] = "idle" /\ buildTokens > 0
    /\ describing' = [describing EXCEPT ![r] = "asking"] /\ buildTokens' = buildTokens - 1
    /\ UNCHANGED <<file, callVars, pc, written, fillVars, heard, downloaded, faults, kills>>

DescribeEnd(r) ==
    /\ pc = "describe" /\ describing[r] = "asking" /\ buildTokens' = buildTokens + 1
    /\ \/ describing' = [describing EXCEPT ![r] = "described"] /\ UNCHANGED faults
       \/ describing' = [describing EXCEPT ![r] = "failed"] /\ Fault
    /\ UNCHANGED <<file, callVars, pc, written, fillVars, heard, downloaded, kills>>

\* The errgroup waits for all of them before it answers with an error.
Described ==
    /\ pc = "describe" /\ \A r \in Ref : describing[r] \in {"described", "failed"}
    /\ IF \E r \in Ref : describing[r] = "failed"
       THEN Return("error")
       ELSE pc' = (IF resuming THEN "open" ELSE "create") /\ UNCHANGED <<result, temp>>
    /\ UNCHANGED <<file, call, resuming, jobs, reuse, held, buildVars, written, fillVars, heard,
                   downloaded, faults, kills>>

\* With --resume the tar is opened; when that fails the call goes on as if it were new.
OpenPrevious ==
    /\ pc = "open"
    /\ \/ file.exists /\ pc' = "snapshot" /\ UNCHANGED faults
       \/ ~file.exists /\ pc' = "create" /\ UNCHANGED faults
       \/ file.exists /\ pc' = "create" /\ Fault
    /\ UNCHANGED <<file, callVars, buildVars, written, fillVars, heard, downloaded, kills>>

\* The tar is copied to a temporary file. A failure to create or to close one of the
\* two files is returned; a failure of the copying is not: Export returns err, which
\* is nil, in place of cErr, and with it no descriptors.
Snapshot ==
    /\ pc = "snapshot"
    /\ \/ temp' = file /\ pc' = "present" /\ UNCHANGED <<result, faults>>
       \/ Fault /\ \/ Return("error")
                   \/ Return("okWithoutIds")
    /\ UNCHANGED <<file, call, resuming, jobs, reuse, held, buildVars, written, fillVars, heard,
                   downloaded, kills>>

\* Without a whole manifest the previous tar cannot be read, and the call fails.
Present ==
    /\ pc = "present"
    /\ IF ManifestRead(temp)
       THEN pc' = "create" /\ reuse' = PresentLayers(temp) /\ UNCHANGED <<result, temp>>
       ELSE Return("error") /\ UNCHANGED reuse
    /\ UNCHANGED <<file, call, resuming, jobs, held, buildVars, written, fillVars, heard, downloaded,
                   faults, kills>>

\* What a goroutine has written so far is lost when another writer truncates the file
\* or puts zeros over its entry; what it still has to write will be written.
Torn(writers) == [f \in Filler |-> IF f \in writers /\ filler[f] = "copy" THEN "torn" ELSE filler[f]]

Create ==
    /\ pc = "create"
    /\ \/ /\ file' = Truncated /\ filler' = Torn(Filler)
          /\ pc' = "manifest" /\ UNCHANGED <<result, temp, faults>>
       \/ Fault /\ Return("error") /\ UNCHANGED <<file, filler>>
    /\ UNCHANGED <<call, resuming, jobs, reuse, held, buildVars, written, attempt, writeTokens, errCh,
                   heard, downloaded, kills>>

WriteManifest ==
    /\ pc = "manifest"
    /\ \/ file' = [file EXCEPT !.manifest = "full"] /\ pc' = "layers" /\ UNCHANGED faults
       \/ \E m \in {"none", "partial"} :
              file' = [file EXCEPT !.manifest = m] /\ pc' = "restore" /\ Fault
    /\ UNCHANGED <<callVars, buildVars, written, fillVars, heard, downloaded, kills>>

\* One turn of the loop of writeLayers that inflates the file.
InflateEntry(l) ==
    /\ pc = "layers" /\ IsNext(l) /\ IsInflatable
    /\ \/ file' = [file EXCEPT !.entry[l] = "zeros"] /\ written' = written \cup {l}
          /\ UNCHANGED <<pc, faults>>
       \/ file' = [file EXCEPT !.entry[l] = "partial"] /\ pc' = "restore" /\ Fault
          /\ UNCHANGED written
    /\ filler' = Torn((1..MaxCalls) \X {l})
    /\ UNCHANGED <<callVars, buildVars, attempt, writeTokens, errCh, heard, downloaded, kills>>

\* One turn of the loop of writeLayers that streams the layers: out of the temporary
\* copy when it holds the layer, else out of the registry.
StreamEntry(l) ==
    /\ pc = "layers" /\ IsNext(l) /\ ~IsInflatable
    /\ l \in reuse \/ FindLayer(l)
    /\ downloaded' = IF l \in reuse THEN downloaded ELSE downloaded \cup {l}
    /\ \/ file' = [file EXCEPT !.entry[l] = "full"] /\ written' = written \cup {l}
          /\ UNCHANGED <<pc, faults>>
       \/ /\ file' \in {file, [file EXCEPT !.entry[l] = IF @ = "full" THEN @ ELSE "partial"]}
          /\ pc' = "restore" /\ Fault /\ UNCHANGED written
    /\ UNCHANGED <<callVars, buildVars, fillVars, heard, kills>>

\* The call of fillInLayers: one goroutine for each layer and a throttle of their own.
EndEntries ==
    /\ pc = "layers" /\ written = LayersToWrite
    /\ IF IsInflatable
       THEN /\ pc' = "fill" /\ UNCHANGED <<result, temp>>
            /\ filler' = [f \in Filler |->
                  IF f[1] = call /\ f[2] \in written THEN "waiting" ELSE filler[f]]
            /\ writeTokens' = [writeTokens EXCEPT ![call] = jobs]
       ELSE Return("ids") /\ UNCHANGED <<filler, writeTokens>>
    /\ UNCHANGED <<file, call, resuming, jobs, reuse, held, buildVars, written, attempt, errCh, heard,
                   downloaded, faults, kills>>
--------------------------------------------------------------------------------
FillTake(g) ==
    /\ filler[g] = "waiting" /\ writeTokens[g[1]] > 0
    /\ filler' = [filler EXCEPT ![g] = "open"]
    /\ writeTokens' = [writeTokens EXCEPT ![g[1]] = @ - 1]
    /\ UNCHANGED <<file, callVars, pc, buildVars, written, attempt, errCh, heard, downloaded, faults, kills>>

\* An attempt that fails is made again, or its error is reported.
AttemptFails(g) ==
    /\ Fault
    /\ attempt' = [attempt EXCEPT ![g] = @ + 1]
    /\ LET next == Retried(attempt[g] + 1) IN
       filler' = [filler EXCEPT ![g] = IF next = "open" THEN next ELSE "report"]

\* fillInLayer opens the file again, finds the entry and asks for the layer.
FillOpen(g) ==
    /\ filler[g] = "open" /\ FindLayer(g[2])
    /\ \/ /\ filler' = [filler EXCEPT ![g] = "copy"] /\ UNCHANGED <<attempt, faults>>
          /\ downloaded' = IF g[1] = call THEN downloaded \cup {g[2]} ELSE downloaded
       \/ AttemptFails(g) /\ UNCHANGED downloaded
    /\ UNCHANGED <<file, callVars, pc, buildVars, written, writeTokens, errCh, heard, kills>>

\* It writes the header and the content of the entry. The bytes are the same whoever
\* writes them, so what is complete stays complete.
FillCopy(g) ==
    /\ filler[g] \in {"copy", "torn"}
    /\ LET whole   == [file EXCEPT !.entry[g[2]] = "full"]
           cut     == [file EXCEPT !.entry[g[2]] = IF @ = "full" THEN @ ELSE "partial"]
           headless == IF file.entry[g[2]] = "absent" THEN file ELSE cut
       IN \/ /\ file' \in (IF filler[g] = "copy" THEN {whole} ELSE {whole, headless})
             /\ filler' = [filler EXCEPT ![g] = "report"]
             /\ attempt' = [attempt EXCEPT ![g] = 0] /\ UNCHANGED faults
          \/ /\ file' \in (IF filler[g] = "copy" THEN {file, cut} ELSE {file, headless, cut})
             /\ AttemptFails(g)
    /\ UNCHANGED <<callVars, pc, buildVars, written, writeTokens, errCh, heard, downloaded, kills>>

\* The goroutine sends its result and gives its token back. Nobody receives from the
\* channel of a call that has returned, but it has room for every goroutine.
FillReport(g) ==
    /\ filler[g] = "report"
    /\ LET outcome == IF attempt[g] = 0 THEN "ok" ELSE Retried(attempt[g]) IN
       /\ filler' = [filler EXCEPT ![g] = outcome]
       /\ errCh' = IF g[1] = call THEN Append(errCh, outcome) ELSE errCh
       /\ writeTokens' = [writeTokens EXCEPT ![g[1]] = Released(@)]
    /\ UNCHANGED <<file, callVars, pc, buildVars, written, attempt, heard, downloaded, faults, kills>>

\* fillInLayers receives one report for each layer, and gives up at the first error.
Hear ==
    /\ pc = "fill" /\ heard < ReportsExpected /\ Len(errCh) > 0
    /\ heard' = heard + 1 /\ errCh' = Tail(errCh)
    /\ pc' = IF Head(errCh) = "ok" THEN pc ELSE "restore"
    /\ UNCHANGED <<file, callVars, buildVars, written, filler, attempt, writeTokens, downloaded,
                   faults, kills>>

AllHeard ==
    /\ pc = "fill" /\ heard = ReportsExpected /\ Return("ids")
    /\ UNCHANGED <<file, call, resuming, jobs, reuse, held, buildVars, written, fillVars, heard,
                   downloaded, faults, kills>>

\* The deferred function of Export is to put the temporary copy back after an error. It
\* opens the output with os.Open, for reading, so that nothing is ever written to it.
Restored(f, t) == f

Restore ==
    /\ pc = "restore"
    /\ file' = IF temp.exists THEN Restored(file, temp) ELSE file
    /\ Return("error")
    /\ UNCHANGED <<call, resuming, jobs, reuse, held, buildVars, written, fillVars, heard, downloaded,
                   faults, kills>>
--------------------------------------------------------------------------------
\* The end of the process takes every goroutine with it.
NoFillers == filler' = [f \in Filler |-> "none"] /\ attempt' = [f \in Filler |-> 0]

Exit ==
    /\ pc = "ended" /\ \E f \in Filler : filler[f] # "none" /\ NoFillers
    /\ UNCHANGED <<file, callVars, pc, buildVars, written, writeTokens, errCh, heard, downloaded,
                   faults, kills>>

Kill ==
    /\ pc # "ended" /\ kills < MaxKills /\ kills' = kills + 1
    /\ Return("killed") /\ NoFillers
    /\ UNCHANGED <<file, call, resuming, jobs, reuse, held, buildVars, written, writeTokens, errCh,
                   heard, downloaded, faults>>

Terminated ==
    /\ pc = "ended" /\ call = MaxCalls /\ \A f \in Filler : filler[f] \in {"none", "ok", "failed"}
    /\ UNCHANGED vars

ExportStep == \/ \E r \in Ref : DescribeTake(r) \/ DescribeEnd(r)
              \/ Described \/ OpenPrevious \/ Snapshot \/ Present \/ Create \/ WriteManifest
              \/ \E l \in Layer : InflateEntry(l) \/ StreamEntry(l)
              \/ EndEntries \/ Hear \/ AllHeard \/ Restore

FillStep(g) == FillTake(g) \/ FillOpen(g) \/ FillCopy(g) \/ FillReport(g)

Next == \/ Start
        \/ ExportStep
        \/ \E g \in Filler : FillStep(g)
        \/ Exit
        \/ Kill
        \/ Terminated

Spec == Init /\ [][Next]_vars

\* Go runs every goroutine that can go on. Nobody has to call Export again, and
\* nobody has to kill it.
FairSpec == /\ Spec
            /\ WF_vars(ExportStep)
            /\ \A g \in Filler : WF_vars(FillStep(g))
--------------------------------------------------------------------------------
Step   == {"describe", "open", "snapshot", "present", "create", "manifest", "layers", "fill",
           "restore", "ended"}
Result == {"none", "ids", "okWithoutIds", "error", "killed"}

\* The type of every variable: the entries are in a state the reader can meet, no
\* throttle holds more tokens than it was made with, no channel more reports than it
\* has room for, and no goroutine tries more often than Retry allows.
TypeOK ==
    /\ file \in File /\ temp \in File
    /\ call \in 0..MaxCalls /\ pc \in Step /\ result \in Result
    /\ resuming \in BOOLEAN /\ jobs \in Jobs \cup {1}
    /\ describing \in [Ref -> {"idle", "asking", "described", "failed"}]
    /\ buildTokens \in 0..BuildThrottle
    /\ reuse \subseteq Layer /\ held \subseteq Layer /\ downloaded \subseteq Layer
    /\ written \subseteq LayersToWrite
    /\ filler \in [Filler -> FillState] /\ attempt \in [Filler -> 0..Attempts]
    /\ writeTokens \in [1..MaxCalls -> Nat] /\ (call > 0 => writeTokens[call] <= jobs)
    /\ errCh \in Seq({"ok", "failed"}) /\ heard + Len(errCh) <= Cardinality(LayersToWrite)
    /\ faults \in 0..MaxFaults /\ kills \in 0..MaxKills

\* When Export returns descriptors the tar can be imported, and it stays so until the
\* next call touches the file: however often calls on this path failed or were killed
\* before, whatever was taken out of the previous tar, and whatever goroutines of an
\* earlier call are still writing. tar_image_set.go, TarWriter.Write
SuccessIsComplete == result = "ids" => Importable(file)

\* A resumed call that writes one layer at a time reads from the registry no layer
\* that the tar held when the call started, though a stray goroutine may have written
\* to the tar since, and the tar is truncated before the first layer is written.
\* tar_image_set.go, TarWriter.writeLayers
OnlyMissingDownloaded ==
    temp.exists /\ ~IsInflatable => downloaded \cap held = {}

\* Every call of Export returns, and every goroutine of fillInLayers ends, those of a
\* call that failed included: none waits for a token or for a receiver for ever.
\* TarWriter.fillInLayers, Retry, Throttle
AtRest == pc = "ended" /\ \A f \in Filler : filler[f] \in {"none", "ok", "failed"}

EveryCallEnds == ~AtRest ~> AtRest

\* --resume "will try to read the tar and only download the missing blobs". The code breaks
\* this property: the goroutines of fillInLayers do not know what the tar held.
ResumeDownloadsMissing == temp.exists => downloaded \cap held = {}

\* Export succeeds only when the tar can be imported. The code breaks this property: when
\* the copy of the previous tar fails, Export answers without an error.
SuccessMeansComplete == result \in {"ids", "okWithoutIds"} => Importable(file)
================================================================================
