---------------------------- MODULE TarExportProofs ----------------------------
(***************************************************************************)
(* Safety of Export for every set of images, every concurrency and any     *)
(* number of calls, failures and kills.  A call that returns descriptors   *)
(* has heard from each of its goroutines (Counts), each of which has       *)
(* completed its entry (Whole), and goroutines that outlive their call     *)
(* leave complete entries complete.                                        *)
(***************************************************************************)
EXTENDS TarExport, FiniteSetTheorems, TLAPS

\* Bounds that need a count are left to Tokens and Counts.
Types ==
    /\ file \in File /\ temp \in File
    /\ call \in 0..MaxCalls /\ pc \in Step /\ result \in Result
    /\ resuming \in BOOLEAN /\ jobs \in Jobs \cup {1}
    /\ describing \in [Ref -> {"idle", "asking", "described", "failed"}] /\ buildTokens \in Nat
    /\ reuse \subseteq Layer /\ held \subseteq Layer /\ downloaded \subseteq Layer
    /\ written \subseteq LayersToWrite
    /\ filler \in [Filler -> FillState] /\ attempt \in [Filler -> 0..Attempts]
    /\ writeTokens \in [1..MaxCalls -> Nat]
    /\ errCh \in Seq({"ok", "failed"}) /\ heard \in Nat
    /\ faults \in 0..MaxFaults /\ kills \in 0..MaxKills

\* How often a goroutine has failed goes with where it is.
Tried ==
    \A f \in Filler :
        /\ filler[f] \in {"none", "waiting", "ok"} => attempt[f] = 0
        /\ filler[f] \in {"open", "copy", "torn"} => attempt[f] < Attempts
        /\ filler[f] = "report" => attempt[f] \in {0, Attempts}

\* The goroutines of the current call start when the tar is inflated; those of earlier
\* calls may be anywhere, and later calls have none.
Started ==
    /\ pc # "ended" => call > 0 /\ result = "none"
    /\ pc = "fill" => IsInflatable /\ written = LayersToWrite
    /\ \A f \in Filler :
         /\ filler[f] # "none" => f[2] \in LayersToWrite /\ f[1] <= call
         /\ f[1] = call /\ filler[f] # "none" =>
                filler[f] # "torn" /\ IsInflatable /\ pc \in {"fill", "restore", "ended"}

\* A token is in its throttle or with a goroutine at work. (Those of a process that has
\* ended are nowhere.)
Asking  == {r \in Ref : describing[r] = "asking"}
Holders == {l \in Layer : filler[<<call, l>>] \in {"open", "copy", "torn", "report"}}
Tokens ==
    /\ buildTokens + Cardinality(Asking) = BuildThrottle
    /\ \A c \in 1..MaxCalls : c > call => writeTokens[c] = 0
    /\ call > 0 => writeTokens[call] + Cardinality(Holders) <= jobs

\* A goroutine of the call has yet to report, has a report in the channel, or was
\* heard; while the call waits, a failure that happened is still in the channel.
Early   == {"describe", "open", "snapshot", "present", "create", "manifest", "layers"}
Silent  == {"none", "ok", "failed"}
Pending == {l \in Layer : filler[<<call, l>>] \notin Silent}
Counts ==
    /\ pc \in Early \/ call = 0 => heard = 0 /\ errCh = <<>>
    /\ call > 0 => heard + Len(errCh) + Cardinality(Pending) <= Cardinality(LayersToWrite)
    /\ pc = "fill" =>
         /\ heard + Len(errCh) + Cardinality(Pending) = Cardinality(LayersToWrite)
         /\ \A l \in LayersToWrite : filler[<<call, l>>] # "none"
         /\ (\E l \in LayersToWrite : filler[<<call, l>>] = "failed") =>
                \E i \in 1..Len(errCh) : errCh[i] = "failed"

\* What has been written, or was completed by a goroutine that says so, is whole.
Done(l) == \/ filler[<<call, l>>] = "ok"
           \/ filler[<<call, l>>] = "report" /\ attempt[<<call, l>>] = 0
Whole ==
    /\ pc \in Early \ {"layers"} => written = {}
    /\ pc \in {"layers", "fill"} \/ result = "ids" => file.manifest = "full"
    /\ pc = "layers" /\ ~IsInflatable => \A l \in written : file.entry[l] = "full"
    /\ pc = "fill" => \A l \in LayersToWrite : Done(l) => file.entry[l] = "full"
    /\ result = "ids" => \A l \in LayersToWrite : file.entry[l] = "full"

\* What the tar held goes into the temporary copy, and from there into the new tar.
Opening == {"describe", "open", "snapshot"}
Reused ==
    /\ held \subseteq LayersToWrite
    /\ pc \in Opening => ~temp.exists /\ \A l \in held : Readable(file, l)
    /\ pc = "present" => \A l \in held : Readable(temp, l)
    /\ temp.exists /\ pc # "present" => held \subseteq reuse
    /\ pc \in Early \ {"layers"} => downloaded = {}
    /\ pc = "ended" => ~temp.exists
    /\ ~IsInflatable => downloaded \cap reuse = {}
--------------------------------------------------------------------------------
\* What the assumptions say of the layers and the bounds.
LEMMA Constant ==
    /\ LayersToWrite \subseteq Layer /\ IsFiniteSet(Layer) /\ IsFiniteSet(LayersToWrite)
    /\ IsFiniteSet(Ref)
    /\ Jobs \subseteq Nat \ {0} /\ BuildThrottle \in Nat \ {0} /\ Attempts \in Nat \ {0}
    /\ MaxCalls \in Nat /\ MaxFaults \in Nat /\ MaxKills \in Nat
  <1>1. LayersToWrite \subseteq Layer
    BY DEF LayersToWrite, DescribedLayers
  <1>2. IsFiniteSet(Layer)
    <2>1. Order \in Surjection(1..Len(Order), Layer)
      BY ImagesAssumption DEF Surjection
    <2>2. IsFiniteSet(1..Len(Order))
      BY ImagesAssumption, FS_Interval
    <2>3. QED
      BY <2>1, <2>2, FS_Surjection
  <1>3. IsFiniteSet(LayersToWrite)
    BY <1>1, <1>2, FS_Subset
  <1>4. IsFiniteSet(Ref)
    BY FS_Subset, ImagesAssumption
  <1>5. QED
    BY <1>1, <1>2, <1>3, <1>4, BoundsAssumption

\* The files the actions write are files.
LEMMA Files ==
    /\ Truncated \in File /\ NoFile \in File /\ ~NoFile.exists
    /\ \A f \in File, m \in {"none", "partial", "full"} : [f EXCEPT !.manifest = m] \in File
    /\ \A f \in File, l \in Layer, e \in EntryState : [f EXCEPT !.entry[l] = e] \in File
  BY DEF File, EntryState, Truncated, NoFile

\* Torn changes nothing but goroutines that copy.
LEMMA Tears ==
    ASSUME Types, NEW W
    PROVE  /\ Torn(W) \in [Filler -> FillState]
           /\ \A f \in Filler : \/ Torn(W)[f] = filler[f]
                                \/ filler[f] = "copy" /\ Torn(W)[f] = "torn"
  BY DEF Types, Torn, FillState

\* What an attempt that fails makes of its goroutine.
LEMMA Attempted ==
    ASSUME Types, Tried, NEW g \in Filler,
           filler[g] \in {"open", "copy", "torn"}, AttemptFails(g)
    PROVE  /\ filler' \in [Filler -> FillState] /\ attempt' \in [Filler -> 0..Attempts]
           /\ faults' \in 0..MaxFaults
           /\ \A f \in Filler \ {g} : filler'[f] = filler[f] /\ attempt'[f] = attempt[f]
           /\ \/ filler'[g] = "open" /\ attempt'[g] < Attempts
              \/ filler'[g] = "report" /\ attempt'[g] = Attempts
  <1>2. attempt[g] \in Nat /\ attempt[g] < Attempts /\ attempt[g] + 1 \in 0..Attempts
    BY Constant DEF Types, Tried
  <1>3. filler' = [filler EXCEPT ![g] = IF attempt[g] + 1 < Attempts THEN "open" ELSE "report"]
    BY DEF AttemptFails, Retried
  <1>4. attempt' = [attempt EXCEPT ![g] = attempt[g] + 1]
    BY DEF AttemptFails
  <1>5. filler' \in [Filler -> FillState] /\ attempt' \in [Filler -> 0..Attempts]
    BY <1>2, <1>3, <1>4 DEF Types, FillState
  <1>6. faults' \in 0..MaxFaults
    BY Constant DEF AttemptFails, Fault, Types
  <1>7. QED
    BY <1>2, <1>3, <1>4, <1>5, <1>6, Constant DEF Types

\* A state without calls has no goroutines.
LEMMA InitTypes ==
    ASSUME Init
    PROVE  Types /\ Tried /\ Started
  <1>1. /\ temp \in File /\ file \in File
        /\ filler \in [Filler -> FillState] /\ attempt \in [Filler -> 0..Attempts]
    BY Files, Constant DEF Init, FillState
  <1>2. errCh \in Seq({"ok", "failed"}) /\ writeTokens \in [1..MaxCalls -> Nat]
    BY DEF Init
  <1>3. Types
    <2>1. describing \in [Ref -> {"idle", "asking", "described", "failed"}] /\ buildTokens \in Nat
      BY Constant DEF Init
    <2>2. faults \in 0..MaxFaults /\ kills \in 0..MaxKills /\ call \in 0..MaxCalls
      BY Constant DEF Init
    <2>3. QED
      BY <1>1, <1>2, <2>1, <2>2 DEF Init, Types, Step, Result
  <1>4. QED
    BY <1>3 DEF Init, Tried, Started

\* Every step keeps the types and what goes with them.
LEMMA TypesStep ==
    ASSUME Types, Tried, Started, [Next]_vars
    PROVE  Types' /\ Tried' /\ Started'
  <1> USE Constant DEF callVars, buildVars, fillVars, Step, Result
  <1>1. CASE UNCHANGED vars
    BY <1>1 DEF vars, Types, Tried, Started, IsInflatable
  <1>2. CASE Start
    <2>1. Types'
      BY <1>2, Files DEF Start, Types
    <2>2. QED
      BY <1>2, <2>1 DEF Start, Types, Tried, Started, Filler
  <1>3. ASSUME NEW r \in Ref, DescribeTake(r) \/ DescribeEnd(r)
        PROVE  Types' /\ Tried' /\ Started'
    <2>1. describing' \in [Ref -> {"idle", "asking", "described", "failed"}]
      BY <1>3 DEF DescribeTake, DescribeEnd, Types
    <2>2. buildTokens' \in Nat /\ faults' \in 0..MaxFaults
      BY <1>3 DEF DescribeTake, DescribeEnd, Fault, Types
    <2>3. Types'
      BY <1>3, <2>1, <2>2 DEF DescribeTake, DescribeEnd, Types
    <2>4. QED
      BY <1>3, <2>3 DEF DescribeTake, DescribeEnd, Tried, Started, IsInflatable
  <1>4. CASE Described \/ OpenPrevious \/ Snapshot \/ AllHeard
    BY <1>4, Files
       DEF Described, OpenPrevious, Snapshot, AllHeard, Return, Fault, Types, Tried, Started, IsInflatable
  <1>5. CASE Present
    <2>1. reuse' \subseteq Layer
      BY <1>5 DEF Present, PresentLayers, DescribedLayers, Types
    <2>2. QED
      BY <1>5, <2>1, Files DEF Present, Return, Types, Tried, Started, IsInflatable
  <1>6. CASE Create
    <2>1. filler' = filler \/ filler' = Torn(Filler)
      BY <1>6 DEF Create
    <2>2. /\ filler' \in [Filler -> FillState]
          /\ \A f \in Filler : filler'[f] = filler[f] \/ (filler[f] = "copy" /\ filler'[f] = "torn")
      BY <2>1, Tears DEF Types
    <2>3. Types'
      BY <1>6, <2>2, Files DEF Create, Return, Fault, Types
    <2>4. Tried'
      BY <1>6, <2>2 DEF Create, Tried
    <2>5. QED
      BY <1>6, <2>2, <2>3, <2>4 DEF Create, Return, Started, IsInflatable
  <1>7. CASE WriteManifest
    <2>1. file' \in File
      BY <1>7 DEF WriteManifest, Types, File
    <2>2. Types'
      BY <1>7, <2>1 DEF WriteManifest, Fault, Types
    <2>3. QED
      BY <1>7, <2>2 DEF WriteManifest, Tried, Started, IsInflatable
  <1>8. ASSUME NEW l \in Layer, InflateEntry(l)
        PROVE  Types' /\ Tried' /\ Started'
    <2>1. /\ filler' \in [Filler -> FillState]
          /\ \A f \in Filler : filler'[f] = filler[f] \/ (filler[f] = "copy" /\ filler'[f] = "torn")
      BY <1>8, Tears DEF InflateEntry
    <2>2. file' \in File
      <3>1. [file EXCEPT !.entry[l] = "zeros"] \in File /\ [file EXCEPT !.entry[l] = "partial"] \in File
        BY DEF EntryState, Types, File
      <3>2. QED
        BY <1>8, <3>1 DEF InflateEntry
    <2>3. Types'
      <3>1. written' \subseteq LayersToWrite /\ faults' \in 0..MaxFaults
        BY <1>8 DEF InflateEntry, IsNext, Fault, Types
      <3>2. QED
        BY <1>8, <2>1, <2>2, <3>1 DEF InflateEntry, Types
    <2>4. Tried'
      BY <1>8, <2>1 DEF InflateEntry, Tried
    <2>5. QED
      BY <1>8, <2>1, <2>3, <2>4 DEF InflateEntry, Started, IsInflatable
  <1>9. ASSUME NEW l \in Layer, StreamEntry(l)
        PROVE  Types' /\ Tried' /\ Started'
    <2>1. file' \in File
      <3>1. /\ file \in File /\ [file EXCEPT !.entry[l] = "full"] \in File
            /\ [file EXCEPT !.entry[l] = IF @ = "full" THEN @ ELSE "partial"] \in File
        BY DEF EntryState, Types, File
      <3>2. QED
        BY <1>9, <3>1 DEF StreamEntry
    <2>2. downloaded' \subseteq Layer /\ written' \subseteq LayersToWrite
      BY <1>9 DEF StreamEntry, IsNext, Types
    <2>3. Types'
      BY <1>9, <2>1, <2>2 DEF StreamEntry, Fault, Types
    <2>4. QED
      BY <1>9, <2>3 DEF StreamEntry, Tried, Started, IsInflatable
  <1>10. CASE EndEntries
    <2>1. CASE IsInflatable
      <3>1. filler' = [f \in Filler |-> IF f[1] = call /\ f[2] \in written THEN "waiting" ELSE filler[f]]
        BY <1>10, <2>1 DEF EndEntries
      <3>2. call \in 1..MaxCalls /\ jobs \in Nat /\ writeTokens' = [writeTokens EXCEPT ![call] = jobs]
        BY <1>10, <2>1 DEF EndEntries, Types, Started
      <3>3. Types'
        BY <1>10, <2>1, <3>1, <3>2 DEF EndEntries, Types, FillState
      <3>4. \A f \in Filler : f[1] = call => filler[f] = "none"
        BY <1>10 DEF EndEntries, Started
      <3>5. Tried'
        BY <1>10, <3>1, <3>4 DEF EndEntries, Tried
      <3>6. QED
        BY <1>10, <2>1, <3>1, <3>3, <3>4, <3>5 DEF EndEntries, Started, IsInflatable, Types, Filler
    <2>2. CASE ~IsInflatable
      BY <1>10, <2>2, Files DEF EndEntries, Return, Types, Tried, Started, IsInflatable
    <2>3. QED
      BY <2>1, <2>2
  <1>11. ASSUME NEW g \in Filler, FillTake(g)
         PROVE  Types' /\ Tried' /\ Started'
    <2>1. writeTokens' \in [1..MaxCalls -> Nat] /\ filler' \in [Filler -> FillState]
      BY <1>11 DEF FillTake, Types, Filler, FillState
    <2>2. Types'
      BY <1>11, <2>1 DEF FillTake, Types
    <2>3. QED
      BY <1>11, <2>2 DEF FillTake, Types, Tried, Started, IsInflatable
  <1>12. ASSUME NEW g \in Filler, FillOpen(g)
         PROVE  Types' /\ Tried' /\ Started'
    <2>1. downloaded' \subseteq Layer
      BY <1>12 DEF FillOpen, Types, Filler
    <2>2. CASE AttemptFails(g)
      BY <1>12, <2>1, <2>2, Attempted DEF FillOpen, Types, Tried, Started, IsInflatable
    <2>3. CASE filler' = [filler EXCEPT ![g] = "copy"] /\ UNCHANGED <<attempt, faults>>
      BY <1>12, <2>1, <2>3 DEF FillOpen, Types, Tried, Started, IsInflatable, FillState
    <2>4. QED
      BY <1>12, <2>2, <2>3 DEF FillOpen
  <1>13. ASSUME NEW g \in Filler, FillCopy(g)
         PROVE  Types' /\ Tried' /\ Started'
    <2>1. file' \in File
      <3>1. /\ file \in File /\ g[2] \in Layer
            /\ [file EXCEPT !.entry[g[2]] = "full"] \in File
            /\ [file EXCEPT !.entry[g[2]] = IF @ = "full" THEN @ ELSE "partial"] \in File
        BY DEF Types, Filler, EntryState, File
      <3>2. QED
        BY <1>13, <3>1 DEF FillCopy
    <2>2. CASE AttemptFails(g)
      <3>1. Types'
        BY <1>13, <2>1, <2>2, Attempted DEF FillCopy, Types
      <3>2. Tried'
        BY <1>13, <2>2, Attempted DEF FillCopy, Tried
      <3>3. QED
        BY <1>13, <2>2, <3>1, <3>2, Attempted DEF FillCopy, Started, IsInflatable
    <2>3. CASE filler' = [filler EXCEPT ![g] = "report"] /\ attempt' = [attempt EXCEPT ![g] = 0] /\ UNCHANGED faults
      BY <1>13, <2>1, <2>3 DEF FillCopy, Types, Tried, Started, IsInflatable, FillState
    <2>4. QED
      BY <1>13, <2>2, <2>3 DEF FillCopy
  <1>14. ASSUME NEW g \in Filler, FillReport(g)
         PROVE  Types' /\ Tried' /\ Started'
    <2> DEFINE outcome == IF attempt[g] = 0 THEN "ok" ELSE Retried(attempt[g])
    <2>1. outcome \in {"ok", "failed"} /\ (outcome = "ok" => attempt[g] = 0)
      BY <1>14 DEF FillReport, Tried, Retried
    <2>2. errCh' \in Seq({"ok", "failed"})
      BY <1>14, <2>1 DEF FillReport, Types
    <2>3. writeTokens' \in [1..MaxCalls -> Nat]
      BY <1>14 DEF FillReport, Types, Filler, Released
    <2>4. filler' = [filler EXCEPT ![g] = outcome]
      BY <1>14 DEF FillReport
    <2> HIDE DEF outcome
    <2>5. Types'
      BY <1>14, <2>1, <2>2, <2>3, <2>4 DEF FillReport, Types, FillState
    <2>6. QED
      BY <1>14, <2>1, <2>4, <2>5 DEF FillReport, Types, Tried, Started, IsInflatable
  <1>15. CASE Hear
    <2>1. errCh' \in Seq({"ok", "failed"})
      BY <1>15 DEF Hear, Types
    <2>2. QED
      BY <1>15, <2>1 DEF Hear, Types, Tried, Started, IsInflatable
  <1>16. CASE Restore
    BY <1>16, Files DEF Restore, Restored, Return, Types, Tried, Started, IsInflatable
  <1>17. CASE Exit
    BY <1>17 DEF Exit, NoFillers, Types, Tried, Started, FillState
  <1>18. CASE Kill
    BY <1>18, Files DEF Kill, NoFillers, Return, Types, Tried, Started, FillState
  <1>19. QED
    BY <1>1, <1>2, <1>3, <1>4, <1>5, <1>6, <1>7, <1>8, <1>9, <1>10, <1>11, <1>12, <1>13, <1>14,
       <1>15, <1>16, <1>17, <1>18 DEF Next, ExportStep, FillStep, Terminated

\* The sets that are counted are finite.
LEMMA Finite ==
    /\ IsFiniteSet(Asking) /\ Cardinality(Asking) \in Nat
    /\ IsFiniteSet(Holders) /\ Cardinality(Holders) \in Nat
  <1>1. Asking \subseteq Ref /\ Holders \subseteq Layer
    BY DEF Asking, Holders
  <1>2. QED
    BY <1>1, Constant, FS_Subset, FS_CardinalityType

\* All tokens are in their throttle at the start.
LEMMA InitTokens ==
    ASSUME Init
    PROVE  Tokens
  <1>1. Asking = {}
    BY DEF Init, Asking
  <1>2. QED
    BY <1>1, Constant, FS_EmptySet DEF Init, Tokens

\* A step that leaves every goroutine with its token or without, and the throttles as
\* they are, keeps the tokens.
LEMMA TokensRest ==
    ASSUME Types, Started, Tokens, UNCHANGED <<call, jobs, describing, buildTokens, writeTokens>>,
           \A f \in Filler : filler'[f] \in {"open", "copy", "torn", "report"} =>
                                 filler[f] \in {"open", "copy", "torn", "report"}
    PROVE  Tokens'
  <1>1. Asking' = Asking
    BY DEF Asking
  <1>2. CASE call > 0
    <2>1. \A l \in Layer : <<call, l>> \in Filler
      BY <1>2, Constant DEF Types, Filler
    <2>2. Holders' \subseteq Holders
      BY <2>1 DEF Holders
    <2>3. Cardinality(Holders') <= Cardinality(Holders) /\ Cardinality(Holders') \in Nat
      BY <2>2, Finite, FS_Subset, FS_CardinalityType
    <2>4. writeTokens[call] \in Nat /\ jobs \in Nat
      BY <1>2, Constant DEF Types
    <2>5. QED
      BY <1>1, <2>3, <2>4, Finite DEF Tokens
  <1>3. CASE ~(call > 0)
    BY <1>1, <1>3 DEF Tokens
  <1>4. QED
    BY <1>2, <1>3

\* Every step keeps the tokens.
LEMMA TokensStep ==
    ASSUME Types, Tried, Started, Tokens, [Next]_vars
    PROVE  Tokens'
  <1> USE DEF callVars, buildVars, fillVars
  <1>1. CASE UNCHANGED vars
    BY <1>1, TokensRest DEF vars
  <1>2. CASE Start
    <2>1. Asking' = {} /\ buildTokens' = BuildThrottle
      BY <1>2 DEF Start, Asking
    <2>2. Holders' = {}
      <3>1. \A l \in Layer : <<call + 1, l>> \in Filler
        BY <1>2, Constant DEF Start, Types, Filler
      <3>2. \A l \in Layer : filler[<<call + 1, l>>] = "none"
        BY <3>1, Constant DEF Started, Types, Filler
      <3>3. QED
        BY <1>2, <3>2 DEF Start, Holders
    <2>3. call \in Nat /\ call + 1 \in 1..MaxCalls /\ writeTokens[call + 1] = 0 /\ jobs' \in Nat
      BY <1>2, Constant DEF Start, Types, Tokens
    <2>4. QED
      BY <1>2, <2>1, <2>2, <2>3, Constant, FS_EmptySet DEF Start, Tokens
  <1>3. ASSUME NEW r \in Ref, DescribeTake(r) \/ DescribeEnd(r)
        PROVE  Tokens'
    <2>1. Holders' = Holders
      BY <1>3 DEF DescribeTake, DescribeEnd, Holders
    <2>2. buildTokens \in Nat /\ Cardinality(Asking) \in Nat /\ IsFiniteSet(Asking)
      BY Finite DEF Types
    <2>3. buildTokens' + Cardinality(Asking') = BuildThrottle
      <3>1. CASE DescribeTake(r)
        <4>1. /\ describing[r] = "idle" /\ describing'[r] = "asking" /\ buildTokens' = buildTokens - 1
              /\ \A q \in Ref : q # r => describing'[q] = describing[q]
          BY <3>1 DEF DescribeTake, Types
        <4>2. Asking' = Asking \cup {r} /\ r \notin Asking
          BY <4>1 DEF Asking
        <4>3. Cardinality(Asking') = Cardinality(Asking) + 1
          BY <2>2, <4>2, FS_AddElement
        <4>4. QED
          BY <2>2, <4>1, <4>3 DEF Tokens
      <3>2. CASE DescribeEnd(r)
        <4>1. /\ describing[r] = "asking" /\ describing'[r] # "asking" /\ buildTokens' = buildTokens + 1
              /\ \A q \in Ref : q # r => describing'[q] = describing[q]
          BY <3>2 DEF DescribeEnd, Types
        <4>2. Asking' = Asking \ {r} /\ r \in Asking
          BY <4>1 DEF Asking
        <4>3. Cardinality(Asking') = Cardinality(Asking) - 1
          BY <2>2, <4>2, FS_RemoveElement
        <4>4. QED
          BY <2>2, <4>1, <4>3 DEF Tokens
      <3>3. QED
        BY <1>3, <3>1, <3>2
    <2>4. QED
      BY <1>3, <2>1, <2>3 DEF DescribeTake, DescribeEnd, Tokens
  <1>4. CASE Described \/ OpenPrevious \/ Snapshot \/ Present \/ WriteManifest \/ Hear \/ AllHeard \/ Restore
    BY <1>4, TokensRest
       DEF Described, OpenPrevious, Snapshot, Present, WriteManifest, Hear, AllHeard, Restore
  <1>5. CASE Create
    BY <1>5, TokensRest, Tears DEF Create
  <1>6. ASSUME NEW l \in Layer, InflateEntry(l)
        PROVE  Tokens'
    BY <1>6, TokensRest, Tears DEF InflateEntry
  <1>7. ASSUME NEW l \in Layer, StreamEntry(l)
        PROVE  Tokens'
    BY <1>7, TokensRest DEF StreamEntry
  <1>8. CASE EndEntries
    <2>1. CASE IsInflatable
      <3>1. call \in 1..MaxCalls /\ jobs \in Nat
        BY <1>8, <2>1, Constant DEF EndEntries, Types, Started
      <3>2. \A l \in Layer : <<call, l>> \in Filler /\ filler[<<call, l>>] = "none"
        BY <1>8, <3>1 DEF EndEntries, Started, Filler
      <3>3. Holders' = {}
        BY <1>8, <2>1, <3>2 DEF EndEntries, Holders
      <3>4. writeTokens' = [writeTokens EXCEPT ![call] = jobs] /\ UNCHANGED <<call, jobs, describing, buildTokens>>
        BY <1>8, <2>1 DEF EndEntries
      <3>5. Asking' = Asking
        BY <3>4 DEF Asking
      <3>6. QED
        BY <3>1, <3>3, <3>4, <3>5, FS_EmptySet DEF Tokens, Types
    <2>2. CASE ~IsInflatable
      BY <1>8, <2>2, TokensRest DEF EndEntries
    <2>3. QED
      BY <2>1, <2>2
  <1>9. ASSUME NEW g \in Filler, FillTake(g) \/ FillReport(g)
        PROVE  Tokens'
    <2>1. /\ g[1] \in 1..MaxCalls /\ g[2] \in Layer /\ g = <<g[1], g[2]>> /\ g[1] <= call
          /\ call \in 1..MaxCalls /\ writeTokens[g[1]] \in Nat /\ writeTokens[call] \in Nat /\ jobs \in Nat
      BY <1>9, Constant DEF FillTake, FillReport, Types, Started, Filler
    <2>2. UNCHANGED <<call, jobs, describing, buildTokens>> /\ Asking' = Asking
      BY <1>9 DEF FillTake, FillReport, Asking
    <2> DEFINE Working == {"open", "copy", "torn", "report"}
    <2>a. \A l \in Layer : <<call, l>> \in Filler /\ (g[1] = call => (<<call, l>> = g <=> l = g[2]))
      BY <2>1 DEF Filler
    <2>3. \A c \in 1..MaxCalls : c # g[1] => writeTokens'[c] = writeTokens[c]
      BY <1>9, <2>1 DEF FillTake, FillReport, Types
    <2>4. \A f \in Filler : f # g => filler'[f] = filler[f]
      BY <1>9 DEF FillTake, FillReport, Types
    <2>5. CASE g[1] # call
      <3>1. Holders' = Holders
        BY <2>1, <2>2, <2>4, <2>5 DEF Holders, Filler
      <3>2. QED
        BY <2>1, <2>2, <2>3, <2>5, <3>1 DEF Tokens
    <2>6. CASE g[1] = call /\ FillTake(g)
      <3>0. filler[g] \notin Working /\ filler'[g] \in Working
        BY <2>6 DEF FillTake, Types
      <3> HIDE DEF Working
      <3>4. \A l \in Layer : filler'[<<call, l>>] \in Working <=> filler[<<call, l>>] \in Working \/ l = g[2]
        BY <2>4, <2>6, <2>a, <3>0
      <3>1. Holders' = Holders \cup {g[2]} /\ g[2] \notin Holders
        BY <2>1, <2>2, <2>6, <2>a, <3>0, <3>4 DEF Holders, Working
      <3>2. Cardinality(Holders') = Cardinality(Holders) + 1
        BY <3>1, Finite, FS_AddElement
      <3>3. writeTokens'[call] = writeTokens[call] - 1
        BY <2>1, <2>6 DEF FillTake, Types
      <3>5. QED
        BY <2>1, <2>2, <2>3, <2>6, <3>2, <3>3, Finite DEF Tokens
    <2>7. CASE g[1] = call /\ FillReport(g)
      <3>1. filler[g] \in Working /\ filler'[g] \notin Working
        BY <2>7, Constant DEF FillReport, Tried, Retried, Types
      <3> HIDE DEF Working
      <3>0. \A l \in Layer : filler'[<<call, l>>] \in Working <=> filler[<<call, l>>] \in Working /\ l # g[2]
        BY <2>4, <2>7, <2>a, <3>1
      <3>2. Holders' = Holders \ {g[2]} /\ g[2] \in Holders
        BY <2>1, <2>2, <2>7, <2>a, <3>0, <3>1 DEF Holders, Working
      <3>3. Cardinality(Holders') = Cardinality(Holders) - 1
        BY <3>2, Finite, FS_RemoveElement
      <3>4. writeTokens'[call] = writeTokens[call] + 1
        BY <2>1, <2>7 DEF FillReport, Released, Types
      <3>5. QED
        BY <2>1, <2>2, <2>3, <2>7, <3>3, <3>4, Finite DEF Tokens
    <2>8. QED
      BY <1>9, <2>5, <2>6, <2>7
  <1>10. ASSUME NEW g \in Filler, FillOpen(g) \/ FillCopy(g)
         PROVE  Tokens'
    <2>1. filler[g] \in {"open", "copy", "torn"} /\ UNCHANGED <<call, jobs, describing, buildTokens, writeTokens>>
      BY <1>10 DEF FillOpen, FillCopy
    <2>2. \A f \in Filler : f # g => filler'[f] = filler[f]
      BY <1>10, <2>1, Attempted DEF FillOpen, FillCopy, Types
    <2>3. QED
      BY <2>1, <2>2, TokensRest
  <1>11. CASE Exit \/ Kill
    BY <1>11, TokensRest DEF Exit, Kill, NoFillers
  <1>12. QED
    BY <1>1, <1>2, <1>3, <1>4, <1>5, <1>6, <1>7, <1>8, <1>9, <1>10, <1>11
       DEF Next, ExportStep, FillStep, Terminated

\* The goroutines that have yet to report can be counted.
LEMMA FinitePending ==
    IsFiniteSet(Pending) /\ Cardinality(Pending) \in Nat /\ Cardinality(LayersToWrite) \in Nat
  <1>1. Pending \subseteq Layer
    BY DEF Pending
  <1>2. QED
    BY <1>1, Constant, FS_Subset, FS_CardinalityType

\* No call has been made, no report either.
LEMMA InitCounts ==
    ASSUME Init
    PROVE  Counts
  BY DEF Init, Counts

\* A step in which no goroutine reports, and nobody hears one, keeps the count.
LEMMA CountsRest ==
    ASSUME Types, Started, Counts, UNCHANGED <<call, heard, errCh>>,
           pc' = pc \/ pc' # "fill", pc' \in Early => pc \in Early,
           \A f \in Filler : filler'[f] = filler[f] \/ (filler[f] \notin Silent /\ filler'[f] \notin Silent)
    PROVE  Counts'
  <1>1. CASE call > 0
    <2>1. \A l \in Layer : <<call, l>> \in Filler
      BY <1>1, Constant DEF Types, Filler
    <2>2. Pending' = Pending
      BY <2>1 DEF Pending
    <2>3. \A l \in Layer : /\ filler'[<<call, l>>] = "none" => filler[<<call, l>>] = "none"
                           /\ filler'[<<call, l>>] = "failed" => filler[<<call, l>>] = "failed"
      BY <2>1 DEF Silent
    <2>4. QED
      BY <1>1, <2>2, <2>3, Constant DEF Counts, Early
  <1>2. CASE ~(call > 0)
    <2>1. call = 0 /\ heard = 0 /\ errCh = <<>> /\ pc' # "fill"
      BY <1>2, Constant DEF Types, Started, Counts
    <2>2. QED
      BY <1>2, <2>1 DEF Counts
  <1>3. QED
    BY <1>1, <1>2

\* Every step keeps the count of the reports.
LEMMA CountsStep ==
    ASSUME Types, Tried, Started, Counts, [Next]_vars
    PROVE  Counts'
  <1> USE DEF callVars, buildVars, fillVars
  <1>1. CASE UNCHANGED vars
    BY <1>1, CountsRest DEF vars
  <1>2. CASE Start
    <2>1. call \in Nat /\ call + 1 \in 1..MaxCalls /\ call' = call + 1
      BY <1>2, Constant DEF Start, Types
    <2>2. \A l \in Layer : <<call + 1, l>> \in Filler /\ filler'[<<call + 1, l>>] = "none"
      BY <1>2, <2>1 DEF Start, Started, Types, Filler
    <2>3. Pending' = {}
      BY <2>1, <2>2 DEF Pending, Silent
    <2>4. heard' = 0 /\ errCh' = <<>> /\ pc' = "describe"
      BY <1>2 DEF Start
    <2>5. QED
      BY <2>3, <2>4, FinitePending, FS_EmptySet DEF Counts
  <1>3. ASSUME NEW r \in Ref, DescribeTake(r) \/ DescribeEnd(r)
        PROVE  Counts'
    BY <1>3, CountsRest DEF DescribeTake, DescribeEnd
  <1>4. CASE Described \/ OpenPrevious \/ Snapshot \/ Present \/ WriteManifest \/ AllHeard \/ Restore
    BY <1>4, CountsRest
       DEF Described, OpenPrevious, Snapshot, Present, WriteManifest, AllHeard, Restore, Return, Early
  <1>5. CASE Create
    <2>1. \A f \in Filler : filler'[f] = filler[f] \/ (filler[f] \notin Silent /\ filler'[f] \notin Silent)
      BY <1>5, Tears DEF Create, Silent
    <2>2. QED
      BY <1>5, <2>1, CountsRest DEF Create, Return, Early
  <1>6. ASSUME NEW l \in Layer, InflateEntry(l)
        PROVE  Counts'
    <2>1. \A f \in Filler : filler'[f] = filler[f] \/ (filler[f] \notin Silent /\ filler'[f] \notin Silent)
      BY <1>6, Tears DEF InflateEntry, Silent
    <2>2. QED
      BY <1>6, <2>1, CountsRest DEF InflateEntry, Early
  <1>7. ASSUME NEW l \in Layer, StreamEntry(l)
        PROVE  Counts'
    BY <1>7, CountsRest DEF StreamEntry, Early
  <1>8. CASE EndEntries
    <2>1. CASE IsInflatable
      <3>1. call \in 1..MaxCalls /\ call' = call /\ written = LayersToWrite /\ pc' = "fill"
        BY <1>8, <2>1, Constant DEF EndEntries, Types, Started
      <3>2. heard' = 0 /\ errCh' = <<>>
        BY <1>8 DEF EndEntries, Counts, Early
      <3>3. \A l \in Layer : <<call, l>> \in Filler /\ filler[<<call, l>>] = "none"
        BY <1>8, <3>1 DEF EndEntries, Started, Filler
      <3>4. \A l \in Layer : filler'[<<call, l>>] = IF l \in LayersToWrite THEN "waiting" ELSE "none"
        BY <1>8, <2>1, <3>1, <3>3 DEF EndEntries
      <3>5. Pending' = LayersToWrite
        BY <3>1, <3>4, Constant DEF Pending, Silent
      <3>6. \A l \in LayersToWrite : filler'[<<call', l>>] = "waiting"
        BY <3>1, <3>4, Constant
      <3>7. /\ heard' + Len(errCh') + Cardinality(Pending') = Cardinality(LayersToWrite)
            /\ heard' + Len(errCh') + Cardinality(Pending') <= Cardinality(LayersToWrite)
        BY <3>2, <3>5, FinitePending
      <3>8. pc' \notin Early /\ call' # 0
        BY <3>1, Constant DEF Early
      <3>9. /\ \A l \in LayersToWrite : filler'[<<call', l>>] # "none"
            /\ ~\E l \in LayersToWrite : filler'[<<call', l>>] = "failed"
        BY <3>6
      <3>10. QED
        BY <3>7, <3>8, <3>9, FinitePending DEF Counts
    <2>2. CASE ~IsInflatable
      BY <1>8, <2>2, CountsRest DEF EndEntries, Return, Early
    <2>3. QED
      BY <2>1, <2>2
  <1>9. ASSUME NEW g \in Filler, FillTake(g) \/ FillOpen(g) \/ FillCopy(g)
        PROVE  Counts'
    <2>1. UNCHANGED <<call, heard, errCh, pc>>
      BY <1>9 DEF FillTake, FillOpen, FillCopy
    <2>2. \A f \in Filler : filler'[f] = filler[f] \/ (filler[f] \notin Silent /\ filler'[f] \notin Silent)
      BY <1>9, Attempted DEF FillTake, FillOpen, FillCopy, Types, Silent
    <2>3. QED
      BY <2>1, <2>2, CountsRest
  <1>10. ASSUME NEW g \in Filler, FillReport(g)
         PROVE  Counts'
    <2> DEFINE outcome == IF attempt[g] = 0 THEN "ok" ELSE Retried(attempt[g])
    <2>1. outcome \in {"ok", "failed"} /\ filler' = [filler EXCEPT ![g] = outcome]
      BY <1>10, Constant DEF FillReport, Tried, Retried
    <2>2. /\ g[1] \in 1..MaxCalls /\ g[2] \in LayersToWrite /\ g = <<g[1], g[2]>> /\ g[1] <= call
          /\ call \in 1..MaxCalls /\ filler[g] = "report"
      <3>1. filler[g] = "report"
        BY <1>10 DEF FillReport
      <3>2. g[2] \in LayersToWrite /\ g[1] <= call
        BY <3>1 DEF Started
      <3>3. g[1] \in 1..MaxCalls /\ g = <<g[1], g[2]>>
        BY DEF Filler
      <3>4. QED
        BY <3>1, <3>2, <3>3, Constant DEF Types
    <2>3. UNCHANGED <<call, heard, pc>> /\ errCh' = IF g[1] = call THEN Append(errCh, outcome) ELSE errCh
      BY <1>10 DEF FillReport
    <2> HIDE DEF outcome
    <2>4. \A f \in Filler : f # g => filler'[f] = filler[f]
      BY <2>1 DEF Types
    <2>5. filler'[g] = outcome
      BY <2>1 DEF Types
    <2>6. \A l \in Layer : <<call, l>> \in Filler /\ (g[1] = call => (<<call, l>> = g <=> l = g[2]))
      BY <2>2 DEF Filler
    <2>7. CASE g[1] # call
      <3>1. \A l \in Layer : filler'[<<call, l>>] = filler[<<call, l>>]
        BY <2>2, <2>4, <2>6, <2>7
      <3>2. Pending' = Pending
        BY <2>3, <3>1 DEF Pending
      <3>3. QED
        BY <2>3, <2>7, <3>1, <3>2, Constant DEF Counts
    <2>8. CASE g[1] = call
      <3>1. \A l \in Layer : filler'[<<call, l>>] = IF l = g[2] THEN outcome ELSE filler[<<call, l>>]
        BY <2>4, <2>5, <2>6, <2>8
      <3>2. Pending' = Pending \ {g[2]} /\ g[2] \in Pending
        <4>1. g[2] \in Layer /\ filler[<<call, g[2]>>] \notin Silent /\ outcome \in Silent /\ call' = call
          BY <2>1, <2>2, <2>3, <2>6, <2>8, Constant DEF Silent
        <4>2. QED
          BY <3>1, <4>1 DEF Pending
      <3>3. Cardinality(Pending') = Cardinality(Pending) - 1
        BY <3>2, FinitePending, FS_RemoveElement
      <3>4. errCh' = Append(errCh, outcome) /\ Len(errCh') = Len(errCh) + 1 /\ Len(errCh) \in Nat /\ heard \in Nat
        BY <2>3, <2>8 DEF Types
      <3>5. \A l \in LayersToWrite : filler[<<call, l>>] # "none" => filler'[<<call, l>>] # "none"
        BY <2>1, <3>1, Constant
      <3>6. (\E i \in 1..Len(errCh) : errCh[i] = "failed") => \E i \in 1..Len(errCh') : errCh'[i] = "failed"
        BY <3>4, <2>1 DEF Types
      <3>7. outcome = "failed" => \E i \in 1..Len(errCh') : errCh'[i] = "failed"
        <4>1. Len(errCh') \in 1..Len(errCh') /\ errCh'[Len(errCh')] = outcome
          BY <3>4, <2>1 DEF Types
        <4>2. QED
          BY <4>1
      <3>8. (\E l \in LayersToWrite : filler'[<<call, l>>] = "failed") =>
                outcome = "failed" \/ \E l \in LayersToWrite : filler[<<call, l>>] = "failed"
        BY <3>1, Constant
      <3>9. pc \notin Early
        BY <2>2, <2>8 DEF Started, Early
      <3>10. heard' + Len(errCh') + Cardinality(Pending') = heard + Len(errCh) + Cardinality(Pending)
        BY <2>3, <3>3, <3>4, FinitePending
      <3>11. call' = call /\ call # 0 /\ call > 0 /\ pc' = pc
        BY <2>2, <2>3, Constant
      <3>12. QED
        BY <3>5, <3>6, <3>7, <3>8, <3>9, <3>10, <3>11 DEF Counts
    <2>9. QED
      BY <2>7, <2>8
  <1>11. CASE Hear
    <2>1. UNCHANGED <<call, filler>> /\ call > 0 /\ heard' = heard + 1 /\ errCh' = Tail(errCh)
      BY <1>11 DEF Hear, Started
    <2>2. Len(errCh') = Len(errCh) - 1 /\ Len(errCh) \in Nat \ {0} /\ heard \in Nat
      BY <1>11, <2>1 DEF Hear, Types
    <2>3. Pending' = Pending
      BY <2>1 DEF Pending
    <2>4. pc' = "fill" => errCh[1] = "ok"
      BY <1>11 DEF Hear
    <2>5. ASSUME pc' = "fill", NEW i \in 1..Len(errCh), errCh[i] = "failed"
          PROVE  \E k \in 1..Len(errCh') : errCh'[k] = "failed"
      <3>1. i # 1 /\ i - 1 \in 1..Len(errCh') /\ errCh'[i - 1] = errCh[i]
        BY <2>1, <2>2, <2>4, <2>5 DEF Types
      <3>2. QED
        BY <2>5, <3>1
    <2>6. pc' \in {"fill", "restore"} /\ pc = "fill"
      BY <1>11 DEF Hear
    <2>7. heard' + Len(errCh') + Cardinality(Pending') = heard + Len(errCh) + Cardinality(Pending)
      BY <2>1, <2>2, <2>3, FinitePending
    <2>8. pc' \notin Early /\ call' # 0
      BY <2>1, <2>6 DEF Early
    <2>9. \A l \in LayersToWrite : filler'[<<call', l>>] = filler[<<call, l>>]
      BY <2>1
    <2>10. QED
      BY <2>1, <2>5, <2>6, <2>7, <2>8, <2>9 DEF Counts
  <1>12. CASE Exit \/ Kill
    <2>1. UNCHANGED <<call, heard, errCh>> /\ pc' = "ended"
      BY <1>12 DEF Exit, Kill, Return
    <2>2. CASE call > 0
      <3>1. \A l \in Layer : <<call, l>> \in Filler
        BY <2>2, Constant DEF Types, Filler
      <3>2. Pending' = {}
        BY <1>12, <2>1, <3>1 DEF Exit, Kill, NoFillers, Pending, Silent
      <3>3. heard \in Nat /\ Len(errCh) \in Nat
        BY DEF Types
      <3>4. QED
        BY <2>1, <2>2, <3>2, <3>3, FinitePending, FS_EmptySet DEF Counts, Early
    <2>3. CASE ~(call > 0)
      BY <2>1, <2>3, Constant DEF Types, Counts, Early
    <2>4. QED
      BY <2>2, <2>3
  <1>13. QED
    BY <1>1, <1>2, <1>3, <1>4, <1>5, <1>6, <1>7, <1>8, <1>9, <1>10, <1>11, <1>12
       DEF Next, ExportStep, FillStep, Terminated

\* A goroutine, of whatever call, leaves the manifest and the complete entries alone and
\* takes no entry away; one that copies undisturbed completes its own.
LEMMA Improves ==
    ASSUME Types, NEW g \in Filler, FillCopy(g)
    PROVE  /\ file'.manifest = file.manifest
           /\ \A l \in Layer : /\ file.entry[l] = "full" => file'.entry[l] = "full"
                               /\ file.entry[l] # "absent" => file'.entry[l] # "absent"
           /\ filler[g] = "copy" => file'.entry[g[2]] = "full" \/ AttemptFails(g)
  <1> DEFINE whole    == [file EXCEPT !.entry[g[2]] = "full"]
             cut      == [file EXCEPT !.entry[g[2]] = IF @ = "full" THEN @ ELSE "partial"]
  <1>1. g[2] \in Layer /\ file \in File
    BY DEF Filler, Types
  <1>2. file' \in {file, whole, cut}
    BY DEF FillCopy
  <1>3. /\ whole.manifest = file.manifest /\ whole.entry[g[2]] = "full"
        /\ \A l \in Layer : l # g[2] => whole.entry[l] = file.entry[l]
    BY <1>1 DEF File
  <1>4. /\ cut.manifest = file.manifest
        /\ cut.entry[g[2]] = IF file.entry[g[2]] = "full" THEN "full" ELSE "partial"
        /\ \A l \in Layer : l # g[2] => cut.entry[l] = file.entry[l]
    BY <1>1 DEF File
  <1>5. filler[g] = "copy" => file' = whole \/ AttemptFails(g)
    BY DEF FillCopy
  <1> HIDE DEF whole, cut
  <1>6. QED
    BY <1>1, <1>2, <1>3, <1>4, <1>5

\* Nothing is whole, or held, before the first call.
LEMMA InitWhole ==
    ASSUME Init
    PROVE  Whole /\ Reused
  BY DEF Init, Whole, Reused, NoFile, Truncated, Opening, Early

\* A step that leaves the tar, the goroutines and the result alone, or makes the result
\* one that promises nothing, keeps what is whole.
LEMMA WholeRest ==
    ASSUME Types, Whole, UNCHANGED <<file, call, filler, attempt, jobs, written>>,
           result' = result \/ result' # "ids",
           pc' \in {"layers", "fill"} => pc' = pc,
           pc' \in Early \ {"layers"} => pc \in Early \ {"layers"}
    PROVE  Whole'
  <1>1. pc' \in Early \ {"layers"} => written' = {}
    BY DEF Whole
  <1>2. QED
    BY <1>1 DEF Whole, Done, IsInflatable

\* A call that succeeds has heard from every goroutine it started, and none had failed.
LEMMA HeardAll ==
    ASSUME Types, Started, Counts, Whole, AllHeard
    PROVE  \A l \in LayersToWrite : file.entry[l] = "full"
  <1>1. pc = "fill" /\ heard = Cardinality(LayersToWrite) /\ call \in 1..MaxCalls
    BY Constant DEF AllHeard, ReportsExpected, Started, Types
  <1>2. Len(errCh) \in Nat /\ heard \in Nat
    BY DEF Types
  <1>3. heard + Len(errCh) + Cardinality(Pending) = Cardinality(LayersToWrite)
    BY <1>1 DEF Counts
  <1>4. Len(errCh) = 0 /\ Cardinality(Pending) = 0
    BY <1>1, <1>2, <1>3, FinitePending
  <1>5. Pending = {}
    BY <1>4, FinitePending, FS_EmptySet
  <1>6. \A l \in LayersToWrite : filler[<<call, l>>] \in {"ok", "failed"}
    BY <1>1, <1>5, Constant DEF Pending, Silent, Counts
  <1>7. \A l \in LayersToWrite : filler[<<call, l>>] # "failed"
    BY <1>1, <1>4 DEF Counts
  <1>8. QED
    BY <1>1, <1>6, <1>7 DEF Whole, Done

\* Every step keeps what is whole.
LEMMA WholeStep ==
    ASSUME Types, Tried, Started, Counts, Whole, [Next]_vars
    PROVE  Whole'
  <1> USE DEF callVars, buildVars, fillVars
  <1>1. CASE UNCHANGED vars
    BY <1>1, WholeRest DEF vars
  <1>2. CASE Start
    BY <1>2 DEF Start, Whole, Early
  <1>3. ASSUME NEW r \in Ref, DescribeTake(r) \/ DescribeEnd(r)
        PROVE  Whole'
    BY <1>3, WholeRest DEF DescribeTake, DescribeEnd
  <1>4. CASE Described \/ OpenPrevious \/ Snapshot \/ Present
    BY <1>4, WholeRest DEF Described, OpenPrevious, Snapshot, Present, Return, Early
  <1>5. CASE Create
    BY <1>5 DEF Create, Return, Whole, Started, Early
  <1>6. CASE WriteManifest
    <2>1. result' = "none"
      BY <1>6 DEF WriteManifest, Started
    <2>2. CASE pc' = "layers"
      <3>1. file'.manifest = "full"
        BY <1>6, <2>2 DEF WriteManifest, Types, File
      <3>2. \A l \in written' : file'.entry[l] = "full"
        BY <1>6 DEF WriteManifest, Whole, Early
      <3>3. QED
        BY <2>1, <2>2, <3>1, <3>2 DEF Whole
    <2>3. CASE pc' # "layers"
      BY <1>6, <2>1, <2>3 DEF WriteManifest, Whole, Early
    <2>4. QED
      BY <2>2, <2>3
  <1>7. ASSUME NEW l \in Layer, InflateEntry(l)
        PROVE  Whole'
    <2>1. file'.manifest = file.manifest
      BY <1>7 DEF InflateEntry, Types, File
    <2>2. UNCHANGED <<result, jobs>> /\ result = "none" /\ pc = "layers" /\ pc' \in {"layers", "restore"}
      BY <1>7 DEF InflateEntry, Started
    <2>3. jobs > 1
      BY <1>7 DEF InflateEntry, IsInflatable
    <2>4. QED
      BY <2>1, <2>2, <2>3 DEF Whole, IsInflatable, Early
  <1>8. ASSUME NEW l \in Layer, StreamEntry(l)
        PROVE  Whole'
    <2>1. UNCHANGED <<result, jobs>> /\ result = "none" /\ pc = "layers" /\ pc' \in {"layers", "restore"}
      BY <1>8 DEF StreamEntry, Started
    <2>2. CASE pc' = "layers"
      <3>1. file' = [file EXCEPT !.entry[l] = "full"] /\ written' = written \cup {l}
        BY <1>8, <2>2 DEF StreamEntry
      <3>2. /\ file'.manifest = file.manifest /\ file'.entry[l] = "full"
            /\ \A k \in Layer : k # l => file'.entry[k] = file.entry[k]
        BY <3>1 DEF Types, File
      <3>3. \A k \in written : k \in Layer /\ file.entry[k] = "full"
        BY <1>8, <2>1, Constant DEF StreamEntry, Whole, Types
      <3>4. QED
        BY <2>1, <2>2, <3>1, <3>2, <3>3 DEF Whole, Early
    <2>3. CASE pc' = "restore"
      BY <2>1, <2>3 DEF Whole, Early
    <2>4. QED
      BY <2>1, <2>2, <2>3
  <1>9. CASE EndEntries
    <2>1. pc = "layers" /\ result = "none" /\ UNCHANGED <<file, call, jobs, written, attempt>> /\ written = LayersToWrite
      BY <1>9 DEF EndEntries, Started
    <2>2. CASE IsInflatable
      <3>1. pc' = "fill" /\ result' = "none" /\ call \in 1..MaxCalls
        BY <1>9, <2>1, <2>2, Constant DEF EndEntries, Types, Started
      <3>2. \A l \in LayersToWrite : filler'[<<call, l>>] = "waiting"
        BY <1>9, <2>1, <2>2, <3>1, Constant DEF EndEntries, Filler
      <3>3. QED
        BY <2>1, <3>1, <3>2 DEF Whole, Done, Early
    <2>3. CASE ~IsInflatable
      <3>1. pc' = "ended" /\ result' = "ids"
        BY <1>9, <2>3 DEF EndEntries, Return
      <3>2. QED
        BY <2>1, <2>3, <3>1 DEF Whole, Early
    <2>4. QED
      BY <2>2, <2>3
  <1>10. ASSUME NEW g \in Filler, FillTake(g) \/ FillOpen(g) \/ FillReport(g)
         PROVE  Whole'
    <2>1. UNCHANGED <<file, call, jobs, result, pc, written>>
      BY <1>10 DEF FillTake, FillOpen, FillReport
    <2>2. \A f \in Filler : f # g => filler'[f] = filler[f] /\ attempt'[f] = attempt[f]
      BY <1>10, Attempted DEF FillTake, FillOpen, FillReport, Types
    <2>3. \/ filler'[g] \notin {"ok", "report"}
          \/ filler'[g] = "report" /\ attempt'[g] # 0
          \/ filler'[g] = "ok" /\ filler[g] = "report" /\ attempt[g] = 0
      <3>1. CASE FillTake(g)
        BY <3>1 DEF FillTake, Types
      <3>2. CASE FillOpen(g)
        BY <3>2, Attempted, Constant DEF FillOpen, Types
      <3>3. CASE FillReport(g)
        BY <3>3 DEF FillReport, Types, Retried
      <3>4. QED
        BY <1>10, <3>1, <3>2, <3>3
    <2>4. ASSUME pc = "fill"
          PROVE  \A l \in LayersToWrite : Done(l)' => Done(l)
      <3>1. call \in 1..MaxCalls
        BY <2>4, Constant DEF Started, Types
      <3>2. \A l \in LayersToWrite : <<call, l>> \in Filler
        BY <3>1, Constant DEF Filler
      <3>3. QED
        BY <2>1, <2>2, <2>3, <3>2 DEF Done
    <2>5. QED
      BY <2>1, <2>4 DEF Whole, IsInflatable
  <1>11. ASSUME NEW g \in Filler, FillCopy(g)
         PROVE  Whole'
    <2>1. UNCHANGED <<call, jobs, result, pc, written>>
      BY <1>11 DEF FillCopy
    <2>2. \A f \in Filler : f # g => filler'[f] = filler[f] /\ attempt'[f] = attempt[f]
      BY <1>11, Attempted DEF FillCopy, Types
    <2>3. AttemptFails(g) => filler'[g] # "ok" /\ ~(filler'[g] = "report" /\ attempt'[g] = 0)
      BY <1>11, Attempted, Constant DEF FillCopy
    <2>4. ASSUME pc = "fill", NEW l \in LayersToWrite, Done(l)'
          PROVE  file'.entry[l] = "full"
      <3>1. call \in 1..MaxCalls
        BY <2>4, Constant DEF Started, Types
      <3>2. <<call, l>> \in Filler /\ l \in Layer
        BY <3>1, Constant DEF Filler
      <3>3. CASE <<call, l>> # g
        <4>1. Done(l)
          BY <2>1, <2>2, <2>4, <3>2, <3>3 DEF Done
        <4>2. QED
          BY <1>11, <2>4, <3>2, <4>1, Improves DEF Whole
      <3>4. CASE <<call, l>> = g
        <4>1. ~AttemptFails(g)
          BY <2>1, <2>3, <2>4, <3>4 DEF Done
        <4>2. filler[g] = "copy" /\ g[2] = l
          BY <1>11, <3>2, <3>4 DEF FillCopy, Started
        <4>3. QED
          BY <1>11, <4>1, <4>2, Improves
      <3>5. QED
        BY <3>3, <3>4
    <2>5. \A l \in LayersToWrite : file.entry[l] = "full" => file'.entry[l] = "full"
      BY <1>11, Improves, Constant
    <2>6. file'.manifest = file.manifest /\ written \subseteq LayersToWrite
      BY <1>11, Improves DEF Types
    <2>7. QED
      BY <2>1, <2>4, <2>5, <2>6 DEF Whole, IsInflatable
  <1>12. CASE Hear
    BY <1>12 DEF Hear, Whole, Done, IsInflatable, Early
  <1>13. CASE AllHeard
    <2>1. \A l \in LayersToWrite : file.entry[l] = "full"
      BY <1>13, HeardAll
    <2>2. pc = "fill" /\ pc' = "ended" /\ file' = file /\ file.manifest = "full"
      BY <1>13 DEF AllHeard, Return, Whole
    <2>3. QED
      BY <2>1, <2>2 DEF Whole, Early
  <1>14. CASE Restore
    BY <1>14 DEF Restore, Return, Whole, Early
  <1>15. CASE Exit
    BY <1>15 DEF Exit, Whole, Early
  <1>16. CASE Kill
    BY <1>16 DEF Kill, Return, Whole, Early
  <1>17. QED
    BY <1>1, <1>2, <1>3, <1>4, <1>5, <1>6, <1>7, <1>8, <1>9, <1>10, <1>11, <1>12, <1>13, <1>14,
       <1>15, <1>16 DEF Next, ExportStep, FillStep, Terminated

\* What can be read from a tar can be read from one that is no worse.
LEMMA StillReadable ==
    ASSUME NEW f, NEW h, f.manifest = h.manifest,
           \A l \in Layer : /\ f.entry[l] = "full" => h.entry[l] = "full"
                            /\ f.entry[l] # "absent" => h.entry[l] # "absent",
           NEW l \in LayersToWrite, Readable(f, l)
    PROVE  Readable(h, l)
  <1>1. Before(l) \cup {l} \subseteq Layer
    BY Constant DEF Before
  <1>2. QED
    BY <1>1 DEF Readable, ManifestRead, ReachableChunk, Verified

\* A step that leaves the tar and what was taken from it alone keeps what is held.
LEMMA ReusedRest ==
    ASSUME Types, Reused, UNCHANGED <<held, reuse, downloaded, jobs>>,
           pc' \in Early \ {"layers"} => pc \in Early \ {"layers"},
           pc' \in Opening => pc \in Opening /\ UNCHANGED <<file, temp>>,
           pc' = "present" => pc = "present" /\ temp' = temp,
           temp' = temp \/ temp' = NoFile,
           pc = "present" => pc' \in {"present", "ended"},
           pc' = "ended" => pc = "ended" \/ temp' = NoFile
    PROVE  Reused'
  BY Files DEF Reused, IsInflatable

\* Every step keeps what is held.
LEMMA ReusedStep ==
    ASSUME Types, Started, Reused, [Next]_vars
    PROVE  Reused'
  <1> USE DEF callVars, buildVars, fillVars
  <1>1. CASE UNCHANGED vars
    BY <1>1, ReusedRest DEF vars
  <1>2. CASE Start
    BY <1>2, Files DEF Start, Reused, Opening, Early, Readable
  <1>3. ASSUME NEW r \in Ref, DescribeTake(r) \/ DescribeEnd(r)
        PROVE  Reused'
    BY <1>3, ReusedRest DEF DescribeTake, DescribeEnd
  <1>4. CASE Described \/ OpenPrevious
    <2>1. UNCHANGED <<held, reuse, downloaded, jobs, file>> /\ pc \in {"describe", "open"}
      BY <1>4 DEF Described, OpenPrevious
    <2>2. \/ pc' = "ended" /\ temp' = NoFile
          \/ pc' \in {"open", "create", "snapshot"} /\ temp' = temp
      <3>1. CASE Described
        BY <3>1 DEF Described, Return
      <3>2. CASE OpenPrevious
        BY <3>2 DEF OpenPrevious
      <3>3. QED
        BY <1>4, <3>1, <3>2
    <2>3. QED
      BY <2>1, <2>2, ReusedRest DEF Early, Opening
  <1>5. CASE Snapshot
    <2>1. CASE temp' = file /\ pc' = "present"
      BY <1>5, <2>1 DEF Snapshot, Reused, Opening, Early, IsInflatable, Readable
    <2>2. CASE pc' = "ended" /\ temp' = NoFile
      BY <1>5, <2>2, ReusedRest DEF Snapshot, Opening, Early
    <2>3. QED
      BY <1>5, <2>1, <2>2 DEF Snapshot, Return
  <1>6. CASE Present
    <2>1. CASE pc' = "create"
      <3>1. /\ reuse' = PresentLayers(temp) /\ UNCHANGED <<temp, held, jobs, downloaded>>
            /\ pc = "present" /\ downloaded = {}
        BY <1>6, <2>1 DEF Present, Return, Reused, Early
      <3>2. held \subseteq reuse'
        BY <3>1 DEF Reused, PresentLayers, LayersToWrite
      <3>3. held \subseteq LayersToWrite
        BY DEF Reused
      <3>4. QED
        BY <2>1, <3>1, <3>2, <3>3 DEF Reused, Opening
    <2>2. CASE pc' = "ended" /\ temp' = NoFile /\ reuse' = reuse
      BY <1>6, <2>2, ReusedRest DEF Present, Opening, Early
    <2>3. QED
      BY <1>6, <2>1, <2>2 DEF Present, Return
  <1>7. CASE Create \/ WriteManifest \/ EndEntries \/ Hear \/ AllHeard \/ Restore
    <2>1. UNCHANGED <<held, reuse, downloaded, jobs>> /\ pc \in {"create", "manifest", "layers", "fill", "restore"}
      BY <1>7 DEF Create, WriteManifest, EndEntries, Hear, AllHeard, Restore
    <2>2. \/ pc' = "ended" /\ temp' = NoFile
          \/ pc' \in {"manifest", "layers", "fill", "restore"} /\ temp' = temp
      <3>1. CASE Create \/ WriteManifest \/ Hear
        BY <2>1, <3>1 DEF Create, WriteManifest, Hear, Return
      <3>2. CASE EndEntries
        BY <3>2 DEF EndEntries, Return
      <3>3. CASE AllHeard \/ Restore
        BY <3>3 DEF AllHeard, Restore, Return
      <3>4. QED
        BY <1>7, <3>1, <3>2, <3>3
    <2>3. pc' \in Early \ {"layers"} => pc \in Early \ {"layers"}
      BY <1>7 DEF Create, WriteManifest, EndEntries, Hear, AllHeard, Restore, Return, Early
    <2>4. QED
      BY <2>1, <2>2, <2>3, ReusedRest DEF Opening
  <1>8. ASSUME NEW l \in Layer, InflateEntry(l)
        PROVE  Reused'
    BY <1>8, ReusedRest DEF InflateEntry, Opening, Early
  <1>9. ASSUME NEW l \in Layer, StreamEntry(l)
        PROVE  Reused'
    <2>1. UNCHANGED <<held, reuse, temp, jobs>> /\ pc = "layers" /\ pc' \in {"layers", "restore"}
      BY <1>9 DEF StreamEntry
    <2>2. downloaded' = IF l \in reuse THEN downloaded ELSE downloaded \cup {l}
      BY <1>9 DEF StreamEntry
    <2>3. QED
      BY <2>1, <2>2 DEF Reused, Opening, Early, IsInflatable
  <1>10. ASSUME NEW g \in Filler, FillTake(g) \/ FillReport(g)
         PROVE  Reused'
    BY <1>10, ReusedRest DEF FillTake, FillReport
  <1>11. ASSUME NEW g \in Filler, FillOpen(g)
         PROVE  Reused'
    <2>1. UNCHANGED <<file, temp, held, reuse, jobs, pc>>
      BY <1>11 DEF FillOpen
    <2>2. CASE downloaded' = downloaded
      BY <2>1, <2>2, ReusedRest
    <2>3. CASE downloaded' # downloaded
      <3>1. IsInflatable /\ pc \in {"fill", "restore", "ended"}
        BY <1>11, <2>3 DEF FillOpen, Started
      <3>2. QED
        BY <2>1, <3>1 DEF Reused, Opening, Early, IsInflatable
    <2>4. QED
      BY <2>2, <2>3
  <1>12. ASSUME NEW g \in Filler, FillCopy(g)
         PROVE  Reused'
    <2>1. UNCHANGED <<temp, held, reuse, jobs, pc, downloaded>>
      BY <1>12 DEF FillCopy
    <2>2. \A l \in LayersToWrite : Readable(file, l) => Readable(file', l)
      BY <1>12, Improves, StillReadable
    <2>3. pc \in Opening => \A l \in held : Readable(file', l)
      BY <2>2 DEF Reused
    <2>4. QED
      BY <2>1, <2>3 DEF Reused, IsInflatable
  <1>13. CASE Exit
    BY <1>13, ReusedRest DEF Exit
  <1>14. CASE Kill
    BY <1>14, ReusedRest DEF Kill, Return, Early, Opening
  <1>15. QED
    BY <1>1, <1>2, <1>3, <1>4, <1>5, <1>6, <1>7, <1>8, <1>9, <1>10, <1>11, <1>12, <1>13, <1>14
       DEF Next, ExportStep, FillStep, Terminated
--------------------------------------------------------------------------------
\* The inductive invariant.
Inv == Types /\ Tried /\ Started /\ Tokens /\ Counts /\ Whole /\ Reused

\* It holds before the first call.
LEMMA InvInit == ASSUME Init PROVE Inv
  BY InitTypes, InitTokens, InitCounts, InitWhole DEF Inv

\* Every step keeps it.
LEMMA InvStep == ASSUME Inv, [Next]_vars PROVE Inv'
  BY TypesStep, TokensStep, CountsStep, WholeStep, ReusedStep DEF Inv

\* The counts bound the throttles and the channel.
LEMMA InvTypes == ASSUME Inv PROVE TypeOK
  <1>1. buildTokens \in 0..BuildThrottle
    BY Finite, Constant DEF Inv, Types, Tokens
  <1>2. call > 0 => writeTokens[call] <= jobs
    <2>1. CASE call > 0
      <3>1. writeTokens[call] \in Nat /\ jobs \in Nat
        BY <2>1, Constant DEF Inv, Types
      <3>2. QED
        BY <2>1, <3>1, Finite DEF Inv, Tokens
    <2>2. QED
      BY <2>1
  <1>3. heard + Len(errCh) <= Cardinality(LayersToWrite)
    <2>1. heard \in Nat /\ Len(errCh) \in Nat /\ call \in Nat
      BY Constant DEF Inv, Types
    <2>2. CASE call > 0
      BY <2>1, <2>2, FinitePending DEF Inv, Counts
    <2>3. CASE call = 0
      BY <2>1, <2>3, FinitePending DEF Inv, Counts
    <2>4. QED
      BY <2>1, <2>2, <2>3
  <1>4. QED
    BY <1>1, <1>2, <1>3 DEF Inv, Types, TypeOK

\* Every entry that is asked for is whole, and so are those in front of it.
LEMMA InvSuccess == ASSUME Inv PROVE SuccessIsComplete
  <1>1. ASSUME result = "ids", NEW l \in LayersToWrite
        PROVE  Readable(file, l)
    <2>1. file.manifest = "full" /\ \A k \in LayersToWrite : file.entry[k] = "full"
      BY <1>1 DEF Inv, Whole
    <2>2. \A k \in Before(l) \cup {l} : file.entry[k] # "absent"
      BY <1>1, <2>1 DEF Before
    <2>3. QED
      BY <1>1, <2>1, <2>2 DEF Readable, ManifestRead, ReachableChunk, Verified
  <1>2. result = "ids" => ManifestRead(file)
    BY DEF Inv, Whole, ManifestRead
  <1>3. QED
    BY <1>1, <1>2 DEF SuccessIsComplete, Importable

\* What was held is in reuse, and what is in reuse is not downloaded.
LEMMA InvMissing == ASSUME Inv PROVE OnlyMissingDownloaded
  BY DEF Inv, Reused, OnlyMissingDownloaded, Early

\* It holds in every state.
LEMMA Invariance == Spec => []Inv
  <1>1. Init => Inv
    BY InvInit
  <1>2. Inv /\ [Next]_vars => Inv'
    BY InvStep
  <1>3. QED
    BY <1>1, <1>2, PTL DEF Spec

\* No throttle of Export ever holds more tokens than it was made with, no more reports
\* are sent than fillInLayers waits for, and no goroutine tries more often than Retry
\* allows: for every set of images, however many calls fail or are killed.
THEOREM TypesCorrect == Spec => []TypeOK
  <1>1. Inv => TypeOK
    BY InvTypes
  <1>2. QED
    BY <1>1, Invariance, PTL

\* Descriptors returned by Export mean a tar that can be imported, until the next call
\* touches it, whatever the goroutines of failed calls still write.
\* tar_image_set.go, TarWriter.Write
THEOREM Success == Spec => []SuccessIsComplete
  <1>1. Inv => SuccessIsComplete
    BY InvSuccess
  <1>2. QED
    BY <1>1, Invariance, PTL

\* A resumed call that writes one layer at a time reads from the registry no layer that
\* the tar held when it started. TarWriter.writeLayers
THEOREM Missing == Spec => []OnlyMissingDownloaded
  <1>1. Inv => OnlyMissingDownloaded
    BY InvMissing
  <1>2. QED
    BY <1>1, Invariance, PTL
================================================================================
