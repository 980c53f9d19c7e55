------------------------ MODULE CopyToRepositoryProofs ------------------------
(***************************************************************************)
(* For any number of runs, any images and any number of failures and       *)
(* restarts: the runs together implement TrustedRepo.  The argument is the *)
(* order of the stages.  A stage with goroutines is over when each of them *)
(* was heard (Teams); so after "verify" all items are among the processed  *)
(* images (Progress), these are stored (Uploads), and a bundle is noted,   *)
(* and then tagged, on the strength of that.                               *)
(***************************************************************************)
EXTENDS CopyToRepository, FiniteSetTheorems, TLAPS

Working(p) == {i \in Item : worker[p][i] = "working"}

ThrottleKept ==
    \A p \in Proc : tokens[p] + Cardinality(Working(p)) + leaving[p] = Concurrency

\* Only the goroutines of the stage work; a report was sent by who answered, and
\* while the run goes on each answer it has heard was good.
Teams ==
    \A p \in Proc :
        /\ \A i \in Item : worker[p][i] # "none" => i \in Team(p, stage[p])
        /\ \A n \in DOMAIN reports[p] : worker[p][reports[p][n]] \in {"ok", "error"}
        /\ \A i \in heard[p] : worker[p][i] \in {"ok", "error"}
        /\ outcome[p] = "running" => \A i \in heard[p] : worker[p][i] = "ok"

\* An upload tag names a stored image, and so do the processed images.
Uploads ==
    /\ \A i \in Item : IsThere(i) => Digest[i] \in manifests
    /\ \A p \in Proc : Digests(imported[p]) \subseteq manifests

\* What run p is through with.
Progress(p) ==
    /\ imported[p] \subseteq Items[p]
    /\ stage[p] = "verify" => \A i \in Item : worker[p][i] = "ok" => i \in imported[p]
    /\ stage[p] \in {"walk", "note", "tag"} => Items[p] \subseteq imported[p]
    /\ noted[p] <= Len(Order[p])
    /\ \A n \in 1..noted[p] : Order[p][n] \in locations
    /\ stage[p] = "tag" => noted[p] = Len(Order[p])

\* Where its uploads are: from "write" on they are all collected, and from "verify"
\* on none can be missing, for nobody moves an upload tag.
Pushes(p) ==
    /\ stage[p] = "get" => \A i \in Item : worker[p][i] = "ok" => i \in collected[p]
    /\ stage[p] = "write" => Items[p] \subseteq collected[p]
    /\ stage[p] = "verify" => \A i \in Items[p] : IsThere(i)

\* Only a call that failed makes a goroutine answer with an error; a goroutine
\* that answers well in the last stage has written its tag.
Answers(p) ==
    /\ \A i \in Item : worker[p][i] = "error" => faults > 0
    /\ stage[p] = "tag" => \A i \in Item : worker[p][i] = "ok" => tags[WantTag[i]] # None

Inv == /\ TypeOK /\ ThrottleKept /\ Teams /\ Uploads
       /\ \A p \in Proc : Progress(p) /\ Pushes(p) /\ Answers(p)
       /\ LocationsTrusted /\ TagsComplete /\ NeverPanics /\ SuccessIsComplete /\ FailureHasACause
--------------------------------------------------------------------------------
(* The steps between stages *)

\* From stage[p] the run goes to s, and why it may.
Moves(p, s) ==
    \/ stage[p] = "source" /\ s = "get"
    \/ stage[p] = "get" /\ HeardAll(p) /\ s = "write"
    \/ stage[p] = "write" /\ (\A i \in collected[p] : IsThere(i)) /\ s = "verify"
    \/ stage[p] = "verify" /\ HeardAll(p) /\ s \in {"walk", "note"}
    \/ stage[p] = "walk" /\ s = "note"
    \/ stage[p] = "note" /\ ~Remaining(p) /\ s = "tag"

Turn(p) == Read(p) \/ Advance(p) \/ WriteEnds(p) \/ AllNoted(p)

\* A run that passes to another stage enters the one that follows, for its reason.
LEMMA Turns ==
    ASSUME NEW p \in Proc, Turn(p)
    PROVE  \E s \in Stage : /\ Moves(p, s) /\ Enter(p, s) /\ outcome[p] = "running"
                            /\ UNCHANGED <<outcome, runVars, repoVars, faults, restarts>>
  <1> DEFINE s == Following(p)
  <1>1. /\ Moves(p, s) /\ Enter(p, s) /\ outcome[p] = "running"
        /\ UNCHANGED <<outcome, runVars, repoVars, faults, restarts>>
    BY DEF Turn, Read, Advance, WriteEnds, AllNoted, Runs, Following, Moves, IsThere
  <1>2. s \in Stage
    BY <1>1 DEF Moves, Stage
  <1>3. QED
    BY <1>1, <1>2

\* Steps that only end a run.
Ends(p) == ReadFails(p) \/ WriteFails(p) \/ Succeed(p)

\* Steps that end a run touch nothing but its outcome.
LEMMA EndsFacts ==
    ASSUME TypeOK, NEW p \in Proc, Ends(p)
    PROVE  /\ \E o \in Outcome \ {"running"} : outcome' = [outcome EXCEPT ![p] = o]
           /\ UNCHANGED <<stage, teamVars, runVars, repoVars, restarts>>
           /\ faults' \in 0..MaxFaults
           /\ outcome[p] = "running"
           /\ outcome'[p] = "ok" => stage[p] = "tag" /\ HeardAll(p)
           /\ outcome'[p] # "panic"
  <1>1. MaxFaults \in Nat /\ faults \in 0..MaxFaults
    BY RunAssumption DEF TypeOK
  <1>2. faults' \in 0..MaxFaults
    BY <1>1 DEF Ends, ReadFails, WriteFails, Succeed, Fault
  <1>3. QED
    BY <1>2 DEF Ends, ReadFails, WriteFails, Succeed, Fail, Runs, Outcome, TypeOK

\* A goroutine that answers.
Answer(p, i) == Collect(p, i) \/ Verify(p, i) \/ WriteTag(p, i) \/ WorkFails(p, i)

\* What a goroutine does when it answers: a report, and for a verified image the record
\* in ProcessedImages before it.
LEMMA AnswerFacts ==
    ASSUME NEW p \in Proc, NEW i \in Item, Answer(p, i)
    PROVE  /\ \E r \in {"ok", "error"} :
                 /\ Report(p, i, r)
                 /\ r = "ok" => stage[p] \in Parallel
                 /\ r = "ok" /\ stage[p] = "verify" => IsThere(i) /\ AddImported(p, i)
           /\ UNCHANGED <<noted, locations>>
  BY DEF Answer, Collect, Verify, WriteTag, WorkFails, runVars, repoVars, Report, Parallel

\* The kinds of steps that the rest of the proof distinguishes are all there are.
LEMMA NextKinds ==
    ASSUME Next
    PROVE  \/ UNCHANGED vars
           \/ \E p \in Proc :
                 \/ Turn(p) \/ Ends(p) \/ Receive(p) \/ Restart(p) \/ Done(p)
                 \/ NoteCopy(p) \/ SaveFails(p)
                 \/ \E i \in Items[p] : Take(p, i) \/ Answer(p, i)
                 \/ \E i \in Item : WriteImage(p, i)
  BY DEF Next, Terminated, Main, Goroutine, Work, Turn, Ends, Answer
--------------------------------------------------------------------------------
(* Goroutines *)

\* The goroutines of a stage are finitely many, each for an item of the run.
LEMMA TeamFacts ==
    ASSUME NEW p \in Proc, NEW s \in Stage
    PROVE  Team(p, s) \subseteq Items[p] /\ Items[p] \subseteq Item /\ IsFiniteSet(Team(p, s))
  <1>1. Team(p, s) \subseteq Items[p] /\ Items[p] \subseteq Item
    BY RunAssumption DEF Team
  <1>2. QED
    BY <1>1, RunAssumption, FS_Subset

\* Who has heard as many as there are has heard them all.
LEMMA HeardAllMeans ==
    ASSUME TypeOK, Teams, NEW p \in Proc, HeardAll(p)
    PROVE  heard[p] = Team(p, stage[p])
  <1>1. heard[p] \subseteq Team(p, stage[p])
    BY DEF TypeOK, Teams
  <1>2. IsFiniteSet(Team(p, stage[p]))
    BY TeamFacts DEF TypeOK
  <1>3. QED
    BY <1>1, <1>2, FS_Subset DEF HeardAll

\* Nobody works when the run goes from one stage to the next.
LEMMA NobodyWorks ==
    ASSUME Inv, NEW p \in Proc, NEW s \in Stage, Moves(p, s)
    PROVE  Working(p) = {}
  <1>1. TypeOK /\ Teams
    BY DEF Inv
  <1>2. CASE HeardAll(p)
    BY <1>1, <1>2, HeardAllMeans DEF Working, Teams
  <1>3. CASE stage[p] \notin Parallel
    <2>1. Team(p, stage[p]) = {}
      BY <1>1, <1>3 DEF Team, Parallel
    <2>2. QED
      BY <1>1, <2>1 DEF Working, Teams
  <1>4. QED
    BY <1>2, <1>3 DEF Moves, Parallel

\* Entering a stage, for the type of what it resets.
LEMMA EnterTyped ==
    ASSUME TypeOK, NEW p \in Proc, NEW s \in Stage, Enter(p, s)
    PROVE  /\ stage' \in [Proc -> Stage] /\ worker' \in [Proc -> [Item -> Worker]]
           /\ reports' \in [Proc -> Seq(Item)] /\ heard' \in [Proc -> SUBSET Item]
           /\ tokens' \in [Proc -> 0..Concurrency] /\ leaving' \in [Proc -> Nat]
  <1>1. {"waiting", "none"} \subseteq Worker
    BY DEF Worker
  <1>2. [i \in Item |-> IF i \in Team(p, s) THEN "waiting" ELSE "none"] \in [Item -> Worker]
    BY <1>1
  <1>3. worker' \in [Proc -> [Item -> Worker]]
    BY <1>2 DEF Enter, TypeOK
  <1>4. stage' \in [Proc -> Stage] /\ reports' \in [Proc -> Seq(Item)] /\ heard' \in [Proc -> SUBSET Item]
    BY DEF Enter, TypeOK
  <1>5. \/ UNCHANGED <<tokens, leaving>>
        \/ /\ tokens' = [tokens EXCEPT ![p] = Concurrency]
           /\ leaving' = [leaving EXCEPT ![p] = 0]
    BY DEF Enter, NewThrottle
  <1>6. Concurrency \in 0..Concurrency
    BY RunAssumption
  <1>7. tokens \in [Proc -> 0..Concurrency] /\ leaving \in [Proc -> Nat]
    BY DEF TypeOK
  <1>8. tokens' \in [Proc -> 0..Concurrency]
    BY <1>5, <1>6, <1>7
  <1>9. leaving' \in [Proc -> Nat]
    BY <1>5, <1>7
  <1>10. QED
    BY <1>3, <1>4, <1>8, <1>9

\* What a throttle has lent is with those who work or are about to return it.
LEMMA Balance ==
    ASSUME TypeOK, ThrottleKept, NEW p \in Proc
    PROVE  /\ IsFiniteSet(Working(p)) /\ Cardinality(Working(p)) \in Nat
           /\ tokens[p] \in Nat /\ leaving[p] \in Nat /\ Concurrency \in Nat
           /\ tokens[p] + Cardinality(Working(p)) + leaving[p] = Concurrency
  <1>1. IsFiniteSet(Item) /\ Working(p) \subseteq Item
    BY RunAssumption DEF Working
  <1>2. IsFiniteSet(Working(p)) /\ Cardinality(Working(p)) \in Nat
    BY <1>1, FS_Subset, FS_CardinalityType
  <1>3. tokens[p] \in Nat /\ leaving[p] \in Nat /\ Concurrency \in Nat
    BY RunAssumption DEF TypeOK
  <1>4. QED
    BY <1>2, <1>3 DEF ThrottleKept

\* A stage starts with all tokens of a new throttle, or with those of the last one when
\* nobody works.
LEMMA EnterThrottle ==
    ASSUME TypeOK, ThrottleKept, NEW p \in Proc, NEW s \in Stage, Enter(p, s),
           s \in {"source", "get", "tag"} \/ Working(p) = {}
    PROVE  ThrottleKept'
  <1>1. Working(p)' = {}
    BY DEF Enter, Working, TypeOK
  <1>2. Cardinality({}) = 0
    BY FS_EmptySet
  <1>3. tokens'[p] + Cardinality(Working(p)') + leaving'[p] = Concurrency
    <2>1. CASE s \in {"source", "get", "tag"}
      <3>1. tokens'[p] = Concurrency /\ leaving'[p] = 0
        BY <2>1 DEF Enter, NewThrottle, TypeOK
      <3>2. QED
        BY <1>1, <1>2, <3>1, RunAssumption
    <2>2. CASE s \notin {"source", "get", "tag"}
      <3>1. tokens'[p] = tokens[p] /\ leaving'[p] = leaving[p]
        BY <2>2 DEF Enter, NewThrottle
      <3>2. QED
        BY <1>1, <1>2, <2>2, <3>1, Balance
    <2>3. QED
      BY <2>1, <2>2
  <1>4. ASSUME NEW q \in Proc, q # p
        PROVE  tokens'[q] + Cardinality(Working(q)') + leaving'[q] = Concurrency
    <2>1. tokens'[q] = tokens[q] /\ leaving'[q] = leaving[q]
      BY <1>4 DEF Enter, NewThrottle, TypeOK
    <2>2. Working(q)' = Working(q)
      BY <1>4 DEF Enter, Working, TypeOK
    <2>3. QED
      BY <2>1, <2>2 DEF ThrottleKept
  <1>5. QED
    BY <1>3, <1>4 DEF ThrottleKept

\* Throttle.Take moves one token to the goroutine.
LEMMA TakeThrottle ==
    ASSUME TypeOK, ThrottleKept, NEW p \in Proc, NEW i \in Item, Take(p, i)
    PROVE  ThrottleKept' /\ tokens' \in [Proc -> 0..Concurrency] /\ leaving' = leaving
  <1>1. tokens \in [Proc -> 0..Concurrency] /\ Concurrency \in Nat /\ tokens[p] > 0
    BY RunAssumption DEF TypeOK, Take
  <1>2. tokens' = [tokens EXCEPT ![p] = tokens[p] - 1] /\ leaving' = leaving
    BY DEF Take
  <1>3. tokens[p] - 1 \in 0..Concurrency
    BY <1>1
  <1>4. tokens' \in [Proc -> 0..Concurrency]
    BY <1>1, <1>2, <1>3
  <1>5. Working(p)' = Working(p) \cup {i} /\ i \notin Working(p)
    BY DEF Take, Working, TypeOK
  <1>6. Cardinality(Working(p)') = Cardinality(Working(p)) + 1
    BY <1>5, Balance, FS_AddElement
  <1>7. tokens'[p] + Cardinality(Working(p)') + leaving'[p] = Concurrency
    BY <1>1, <1>2, <1>6, Balance
  <1>8. \A q \in Proc \ {p} : tokens'[q] = tokens[q] /\ Working(q)' = Working(q)
    BY <1>1, <1>2 DEF Take, Working, TypeOK
  <1>9. QED
    BY <1>2, <1>4, <1>7, <1>8 DEF ThrottleKept

\* Throttle.Done gives back the token of a goroutine that has reported.
LEMMA DoneThrottle ==
    ASSUME TypeOK, ThrottleKept, NEW p \in Proc, Done(p)
    PROVE  /\ ThrottleKept'
           /\ tokens' \in [Proc -> 0..Concurrency] /\ leaving' \in [Proc -> Nat]
  <1>1. /\ tokens \in [Proc -> 0..Concurrency] /\ leaving \in [Proc -> Nat]
        /\ Concurrency \in Nat /\ leaving[p] > 0
    BY RunAssumption DEF TypeOK, Done
  <1>2. /\ tokens' = [tokens EXCEPT ![p] = tokens[p] + 1]
        /\ leaving' = [leaving EXCEPT ![p] = leaving[p] - 1]
        /\ worker' = worker
    BY DEF Done, TokenBack
  <1>3. tokens[p] + 1 \in 0..Concurrency
    BY <1>1, Balance
  <1>4. leaving[p] - 1 \in Nat
    BY <1>1
  <1>5. tokens' \in [Proc -> 0..Concurrency]
    BY <1>1, <1>2, <1>3
  <1>6. leaving' \in [Proc -> Nat]
    BY <1>1, <1>2, <1>4
  <1>7. \A q \in Proc : Working(q)' = Working(q)
    BY <1>2 DEF Working
  <1>8. tokens'[p] + Cardinality(Working(p)') + leaving'[p] = Concurrency
    BY <1>1, <1>2, <1>7, Balance
  <1>9. \A q \in Proc \ {p} : tokens'[q] = tokens[q] /\ leaving'[q] = leaving[q]
    BY <1>1, <1>2
  <1>10. QED
    BY <1>5, <1>6, <1>7, <1>8, <1>9 DEF ThrottleKept

\* A report leaves the token with the goroutine until its deferred Done.
LEMMA AnswerThrottle ==
    ASSUME TypeOK, ThrottleKept, NEW p \in Proc, NEW i \in Item, NEW r \in {"ok", "error"},
           Report(p, i, r)
    PROVE  ThrottleKept' /\ tokens' = tokens /\ leaving' \in [Proc -> Nat]
  <1>1. leaving \in [Proc -> Nat] /\ worker[p][i] = "working"
    BY DEF TypeOK, Report
  <1>2. leaving' = [leaving EXCEPT ![p] = leaving[p] + 1] /\ tokens' = tokens
    BY DEF Report
  <1>3. leaving' \in [Proc -> Nat]
    BY <1>1, <1>2
  <1>4. Working(p)' = Working(p) \ {i} /\ i \in Working(p)
    BY DEF Report, Working, TypeOK
  <1>5. Cardinality(Working(p)') = Cardinality(Working(p)) - 1
    BY <1>4, Balance, FS_RemoveElement
  <1>6. tokens'[p] + Cardinality(Working(p)') + leaving'[p] = Concurrency
    BY <1>1, <1>2, <1>5, Balance
  <1>7. \A q \in Proc \ {p} : leaving'[q] = leaving[q] /\ Working(q)' = Working(q)
    BY <1>1, <1>2 DEF Report, Working, TypeOK
  <1>8. QED
    BY <1>2, <1>3, <1>6, <1>7 DEF ThrottleKept

\* No step makes or loses a token of any throttle.
LEMMA ThrottleStep ==
    ASSUME Inv, Next
    PROVE  /\ ThrottleKept'
           /\ tokens' \in [Proc -> 0..Concurrency] /\ leaving' \in [Proc -> Nat]
  <1> USE DEF Inv
  <1> DEFINE Goal == /\ ThrottleKept'
                     /\ tokens' \in [Proc -> 0..Concurrency] /\ leaving' \in [Proc -> Nat]
  <1>1. ASSUME UNCHANGED <<worker, tokens, leaving>>
        PROVE  Goal
    BY <1>1 DEF ThrottleKept, Working, TypeOK
  <1>2. ASSUME NEW p \in Proc, Turn(p)
        PROVE  Goal
    <2>1. PICK s \in Stage : Moves(p, s) /\ Enter(p, s)
      BY <1>2, Turns
    <2>2. Working(p) = {}
      BY <2>1, NobodyWorks
    <2>3. QED
      BY <2>1, <2>2, EnterThrottle, EnterTyped
  <1>3. ASSUME NEW p \in Proc, Restart(p)
        PROVE  Goal
    <2>1. Enter(p, "source") /\ "source" \in Stage
      BY <1>3 DEF Restart, Stage
    <2>2. QED
      BY <2>1, EnterThrottle, EnterTyped
  <1>4. ASSUME NEW p \in Proc, NEW i \in Items[p], Take(p, i)
        PROVE  Goal
    BY <1>4, RunAssumption, TakeThrottle DEF TypeOK
  <1>5. ASSUME NEW p \in Proc, NEW i \in Items[p], Answer(p, i)
        PROVE  Goal
    <2>1. i \in Item
      BY RunAssumption
    <2>2. PICK r \in {"ok", "error"} : Report(p, i, r)
      BY <1>5, <2>1, AnswerFacts
    <2>3. QED
      BY <2>1, <2>2, AnswerThrottle DEF TypeOK
  <1>6. ASSUME NEW p \in Proc, Ends(p)
        PROVE  Goal
    BY <1>1, <1>6, EndsFacts DEF teamVars
  <1>7. ASSUME NEW p \in Proc, Receive(p) \/ NoteCopy(p) \/ SaveFails(p) \/ \E i \in Item : WriteImage(p, i)
        PROVE  Goal
    <2>1. UNCHANGED <<worker, tokens, leaving>>
      BY <1>7 DEF Receive, NoteCopy, SaveFails, WriteImage, teamVars
    <2>2. QED
      BY <1>1, <2>1
  <1>8. ASSUME UNCHANGED vars
        PROVE  Goal
    BY <1>1, <1>8 DEF vars, teamVars
  <1>9. QED
    BY <1>2, <1>3, <1>4, <1>5, <1>6, <1>7, <1>8, DoneThrottle, NextKinds
--------------------------------------------------------------------------------
(* Types *)

\* The loop over the bundles of the walk is at one of them until it ends.
LEMMA NextBundleFacts ==
    ASSUME TypeOK, NEW p \in Proc, Remaining(p)
    PROVE  /\ noted[p] \in Nat /\ noted[p] + 1 \in DOMAIN Order[p] /\ noted[p] + 1 <= Len(Order[p])
           /\ NextBundle(p) \in Bundle
  <1>1. Order[p] \in Seq(Bundle) /\ Len(Order[p]) \in Nat /\ noted[p] \in Nat
    BY WalkAssumption DEF TypeOK
  <1>2. noted[p] + 1 \in 1..Len(Order[p])
    BY <1>1 DEF Remaining
  <1>3. QED
    BY <1>1, <1>2 DEF NextBundle

\* A bundle is noted, or its record fails, or the process panics.
LEMMA NoteFacts ==
    ASSUME TypeOK, NEW p \in Proc, NoteCopy(p) \/ SaveFails(p)
    PROVE  /\ outcome[p] = "running" /\ Remaining(p)
           /\ UNCHANGED <<stage, teamVars, collected, imported, manifests, tags, restarts>>
           /\ faults' \in 0..MaxFaults
           /\ \/ /\ MayNote(p, NextBundle(p))
                 /\ locations' \in {locations, locations \cup {NextBundle(p)}}
                 /\ \/ /\ noted' = [noted EXCEPT ![p] = @ + 1] /\ UNCHANGED outcome
                       /\ NextBundle(p) \in locations'
                    \/ /\ outcome' = [outcome EXCEPT ![p] = "failed"] /\ UNCHANGED noted
                       /\ faults' > 0
              \/ /\ stage[p] = "note" /\ ~MayNote(p, NextBundle(p))
                 /\ outcome' = [outcome EXCEPT ![p] = "panic"]
                 /\ UNCHANGED <<locations, noted>>
  <1>1. MaxFaults \in Nat /\ faults \in 0..MaxFaults
    BY RunAssumption DEF TypeOK
  <1>2. CASE NoteCopy(p)
    <2>1. faults' = faults
      BY <1>2 DEF NoteCopy
    <2>2. QED
      BY <1>1, <1>2, <2>1 DEF NoteCopy, Panics
  <1>3. CASE SaveFails(p)
    <2>1. faults' \in 0..MaxFaults /\ faults' > 0
      BY <1>1, <1>3 DEF SaveFails, Fault
    <2>2. QED
      BY <1>3, <2>1 DEF SaveFails, Fail, Fetched
  <1>4. QED
    BY <1>2, <1>3

\* An answer keeps the types of what it touches.
LEMMA AnswerTyped ==
    ASSUME TypeOK, NEW p \in Proc, NEW i \in Items[p], Answer(p, i)
    PROVE  /\ worker' \in [Proc -> [Item -> Worker]] /\ reports' \in [Proc -> Seq(Item)]
           /\ collected' \in [Proc -> SUBSET Item] /\ imported' \in [Proc -> SUBSET Item]
           /\ manifests' = manifests /\ tags' \in [Tag -> Image \cup {None}]
           /\ faults' \in 0..MaxFaults
           /\ UNCHANGED <<stage, outcome, heard, noted, locations, restarts>>
  <1>1. i \in Item
    BY RunAssumption
  <1>2. PICK r \in {"ok", "error"} : Report(p, i, r)
    BY <1>1, AnswerFacts
  <1>3. r \in Worker
    BY DEF Worker
  <1>4. worker' \in [Proc -> [Item -> Worker]]
    BY <1>1, <1>2, <1>3 DEF Report, TypeOK
  <1>5. reports[p] \in Seq(Item)
    BY DEF TypeOK
  <1>6. Append(reports[p], i) \in Seq(Item)
    BY <1>1, <1>5
  <1>7. reports' \in [Proc -> Seq(Item)]
    BY <1>2, <1>6 DEF Report, TypeOK
  <1>8. collected' \in [Proc -> SUBSET Item]
    BY <1>1 DEF Answer, Collect, Verify, WriteTag, WorkFails, runVars, TypeOK
  <1>9. imported' \in [Proc -> SUBSET Item]
    BY <1>1 DEF Answer, Collect, Verify, WriteTag, WorkFails, runVars, AddImported, TypeOK
  <1>10. UNCHANGED tags \/ tags' = [tags EXCEPT ![WantTag[i]] = Digest[i]]
    BY DEF Answer, Collect, Verify, WriteTag, WorkFails, repoVars
  <1>11. Digest[i] \in Image
    BY <1>1, TagAssumption
  <1>12. tags' \in [Tag -> Image \cup {None}]
    BY <1>10, <1>11 DEF TypeOK
  <1>13. MaxFaults \in Nat /\ faults \in 0..MaxFaults
    BY RunAssumption DEF TypeOK
  <1>14. faults' = faults \/ Fault
    BY DEF Answer, Collect, Verify, WriteTag, WorkFails
  <1>15. faults' \in 0..MaxFaults
    BY <1>13, <1>14 DEF Fault
  <1>16. UNCHANGED <<noted, manifests, locations>>
    BY DEF Answer, Collect, Verify, WriteTag, WorkFails, runVars, repoVars
  <1>17. UNCHANGED <<stage, outcome, heard, restarts>>
    BY <1>2 DEF Report
  <1>18. QED
    BY <1>4, <1>7, <1>8, <1>9, <1>12, <1>15, <1>16, <1>17

\* All of TypeOK but the throttle, of which ThrottleStep tells.
Typed == /\ stage \in [Proc -> Stage] /\ outcome \in [Proc -> Outcome]
         /\ worker \in [Proc -> [Item -> Worker]]
         /\ reports \in [Proc -> Seq(Item)] /\ heard \in [Proc -> SUBSET Item]
         /\ collected \in [Proc -> SUBSET Item] /\ imported \in [Proc -> SUBSET Item]
         /\ noted \in [Proc -> Nat]
         /\ manifests \subseteq Image /\ locations \subseteq Bundle
         /\ tags \in [Tag -> Image \cup {None}]
         /\ faults \in 0..MaxFaults /\ restarts \in 0..MaxRestarts

\* Every step keeps the types.
LEMMA TypeStep ==
    ASSUME Inv, Next
    PROVE  TypeOK'
  <1> USE DEF Inv
  <1>1. CASE UNCHANGED vars
    BY <1>1 DEF Typed, TypeOK, vars, teamVars, runVars, repoVars
  <1>2. ASSUME NEW p \in Proc, Turn(p)
        PROVE  Typed'
    <2>1. PICK s \in Stage : Enter(p, s) /\ UNCHANGED <<outcome, runVars, repoVars, faults, restarts>>
      BY <1>2, Turns
    <2>2. QED
      BY <2>1, EnterTyped DEF Typed, TypeOK, runVars, repoVars
  <1>3. ASSUME NEW p \in Proc, Ends(p)
        PROVE  Typed'
    <2>1. PICK o \in Outcome : outcome' = [outcome EXCEPT ![p] = o]
      BY <1>3, EndsFacts
    <2>2. outcome' \in [Proc -> Outcome]
      BY <2>1 DEF TypeOK
    <2>3. UNCHANGED <<stage, teamVars, runVars, repoVars, restarts>> /\ faults' \in 0..MaxFaults
      BY <1>3, EndsFacts
    <2>4. QED
      BY <2>2, <2>3 DEF Typed, TypeOK, teamVars, runVars, repoVars
  <1>4. ASSUME NEW p \in Proc, Receive(p)
        PROVE  Typed'
    <2>1. reports[p] \in Seq(Item) /\ reports[p] # <<>>
      BY <1>4 DEF TypeOK, Receive
    <2>2. Head(reports[p]) \in Item /\ Tail(reports[p]) \in Seq(Item)
      BY <2>1
    <2>3. reports' \in [Proc -> Seq(Item)]
      BY <1>4, <2>2 DEF TypeOK, Receive
    <2>4. heard' \in [Proc -> SUBSET Item]
      BY <1>4, <2>2 DEF TypeOK, Receive
    <2>5. outcome' \in [Proc -> Outcome]
      BY <1>4 DEF TypeOK, Receive, Fail, Outcome
    <2>6. QED
      BY <1>4, <2>3, <2>4, <2>5 DEF Typed, TypeOK, Receive, runVars, repoVars
  <1>5. ASSUME NEW p \in Proc, Restart(p)
        PROVE  Typed'
    <2>1. Enter(p, "source") /\ "source" \in Stage /\ "running" \in Outcome
      BY <1>5 DEF Restart, Stage, Outcome
    <2>2. outcome' \in [Proc -> Outcome] /\ noted' \in [Proc -> Nat]
      <3>1. outcome' = [outcome EXCEPT ![p] = "running"] /\ noted' = [noted EXCEPT ![p] = 0]
        BY <1>5 DEF Restart
      <3>2. outcome \in [Proc -> Outcome] /\ noted \in [Proc -> Nat]
        BY DEF TypeOK
      <3>3. QED
        BY <2>1, <3>1, <3>2
    <2>3. collected' \in [Proc -> SUBSET Item] /\ imported' \in [Proc -> SUBSET Item]
      BY <1>5 DEF Restart, TypeOK
    <2>4. restarts' \in 0..MaxRestarts
      BY <1>5, RunAssumption DEF Restart, TypeOK
    <2>5. QED
      BY <1>5, <2>1, <2>2, <2>3, <2>4, EnterTyped DEF Restart, Typed, TypeOK, repoVars
  <1>6. ASSUME NEW p \in Proc, Done(p)
        PROVE  Typed'
    BY <1>6 DEF Done, Typed, TypeOK, runVars, repoVars
  <1>7. ASSUME NEW p \in Proc, NoteCopy(p) \/ SaveFails(p)
        PROVE  Typed'
    <2>1. {"failed", "panic"} \subseteq Outcome
      BY DEF Outcome
    <2>2. outcome' \in [Proc -> Outcome]
      <3>1. outcome \in [Proc -> Outcome]
        BY DEF TypeOK
      <3>2. QED
        BY <1>7, <2>1, <3>1, NoteFacts
    <2>3. noted \in [Proc -> Nat] /\ noted[p] + 1 \in Nat
      BY DEF TypeOK
    <2>4. UNCHANGED noted \/ noted' = [noted EXCEPT ![p] = noted[p] + 1]
      BY <1>7, NoteFacts
    <2>5. noted' \in [Proc -> Nat]
      BY <2>3, <2>4
    <2>6. locations' \subseteq Bundle
      <3>1. locations' \subseteq locations \cup {NextBundle(p)} /\ Remaining(p)
        BY <1>7, NoteFacts
      <3>2. NextBundle(p) \in Bundle /\ locations \subseteq Bundle
        BY <3>1, NextBundleFacts DEF TypeOK
      <3>3. QED
        BY <3>1, <3>2
    <2>7. UNCHANGED <<stage, teamVars, collected, imported, manifests, tags, restarts>> /\ faults' \in 0..MaxFaults
      BY <1>7, NoteFacts
    <2>8. QED
      BY <2>2, <2>5, <2>6, <2>7 DEF Typed, TypeOK, teamVars
  <1>8. ASSUME NEW p \in Proc, NEW i \in Items[p], Take(p, i)
        PROVE  Typed'
    <2>1. i \in Item /\ "working" \in Worker
      BY RunAssumption DEF Worker
    <2>2. worker' \in [Proc -> [Item -> Worker]]
      BY <1>8, <2>1 DEF Take, TypeOK
    <2>3. QED
      BY <1>8, <2>2 DEF Take, Typed, TypeOK, runVars, repoVars
  <1>9. ASSUME NEW p \in Proc, NEW i \in Items[p], Answer(p, i)
        PROVE  Typed'
    BY <1>9, AnswerTyped DEF Typed, TypeOK
  <1>10. ASSUME NEW p \in Proc, NEW i \in Item, WriteImage(p, i)
         PROVE  Typed'
    <2>1. Digest[i] \in Image
      BY TagAssumption
    <2>2. tags' \in [Tag -> Image \cup {None}] /\ manifests' \subseteq Image
      BY <1>10, <2>1 DEF WriteImage, TypeOK
    <2>3. QED
      BY <1>10, <2>2 DEF WriteImage, Typed, TypeOK, teamVars, runVars
  <1>11. CASE ~UNCHANGED vars
    <2>1. Typed'
      BY <1>2, <1>3, <1>4, <1>5, <1>6, <1>7, <1>8, <1>9, <1>10, <1>11, NextKinds
    <2>2. QED
      BY <2>1, ThrottleStep DEF Typed, TypeOK
  <1>12. QED
    BY <1>1, <1>11
--------------------------------------------------------------------------------
(* Teams *)

\* What entering a stage does to the run, and that it leaves the others alone.
LEMMA EnterPoint ==
    ASSUME TypeOK, NEW p \in Proc, NEW s \in Stage, Enter(p, s)
    PROVE  /\ stage'[p] = s /\ reports'[p] = <<>> /\ heard'[p] = {}
           /\ \A i \in Item : \/ worker'[p][i] = "waiting" /\ i \in Team(p, s)
                              \/ worker'[p][i] = "none"
           /\ \A q \in Proc \ {p} : /\ stage'[q] = stage[q] /\ reports'[q] = reports[q]
                                    /\ heard'[q] = heard[q] /\ worker'[q] = worker[q]
  <1>1. stage'[p] = s /\ reports'[p] = <<>> /\ heard'[p] = {}
    BY DEF Enter, TypeOK
  <1>2. worker'[p] = [i \in Item |-> IF i \in Team(p, s) THEN "waiting" ELSE "none"]
    BY DEF Enter, TypeOK
  <1>3. \A q \in Proc \ {p} : /\ stage'[q] = stage[q] /\ reports'[q] = reports[q]
                              /\ heard'[q] = heard[q] /\ worker'[q] = worker[q]
    BY DEF Enter, TypeOK
  <1>4. QED
    BY <1>1, <1>2, <1>3

\* A new stage starts with a waiting goroutine for each of its team and no report.
LEMMA EnterTeams ==
    ASSUME TypeOK, Teams, NEW p \in Proc, NEW s \in Stage, Enter(p, s),
           \A q \in Proc \ {p} : outcome'[q] = outcome[q]
    PROVE  Teams'
  <1> SUFFICES ASSUME NEW q \in Proc
               PROVE  /\ \A i \in Item : worker'[q][i] # "none" => i \in Team(q, stage'[q])
                      /\ \A n \in DOMAIN reports'[q] : worker'[q][reports'[q][n]] \in {"ok", "error"}
                      /\ \A i \in heard'[q] : worker'[q][i] \in {"ok", "error"}
                      /\ outcome'[q] = "running" => \A i \in heard'[q] : worker'[q][i] = "ok"
    BY DEF Teams, Team
  <1>1. CASE q = p
    <2>1. DOMAIN reports'[p] = {}
      BY EnterPoint
    <2>2. QED
      BY <1>1, <2>1, EnterPoint
  <1>2. CASE q # p
    BY <1>2, EnterPoint DEF Teams
  <1>3. QED
    BY <1>1, <1>2

\* Reading a report keeps the teams: a run that goes on has heard no error.
LEMMA ReceiveTeams ==
    ASSUME TypeOK, Teams, NEW p \in Proc, Receive(p)
    PROVE  Teams'
  <1> DEFINE h == Head(reports[p])
  <1>1. reports[p] \in Seq(Item) /\ reports[p] # <<>> /\ reports'[p] = Tail(reports[p])
    BY DEF TypeOK, Receive
  <1>2. /\ h = reports[p][1] /\ 1 \in DOMAIN reports[p] /\ h \in Item
        /\ \A n \in DOMAIN reports'[p] : n + 1 \in DOMAIN reports[p] /\ reports'[p][n] = reports[p][n + 1]
    BY <1>1
  <1>3. heard'[p] = heard[p] \cup {h} /\ worker' = worker /\ stage' = stage
    BY DEF TypeOK, Receive
  <1>4. outcome'[p] = "running" => worker[p][h] # "error"
    BY DEF TypeOK, Receive, Fail
  <1>5. outcome[p] = "running"
    BY DEF Receive
  <1>6. worker[p][h] \in {"ok", "error"}
    BY <1>2 DEF Teams
  <1> HIDE DEF h
  <1>7. /\ \A i \in Item : worker'[p][i] # "none" => i \in Team(p, stage'[p])
        /\ \A n \in DOMAIN reports'[p] : worker'[p][reports'[p][n]] \in {"ok", "error"}
        /\ \A i \in heard'[p] : worker'[p][i] \in {"ok", "error"}
        /\ outcome'[p] = "running" => \A i \in heard'[p] : worker'[p][i] = "ok"
    BY <1>2, <1>3, <1>4, <1>5, <1>6 DEF Teams
  <1>8. \A q \in Proc \ {p} : /\ outcome'[q] = outcome[q] /\ heard'[q] = heard[q]
                              /\ reports'[q] = reports[q]
    BY DEF Receive, Fail, TypeOK
  <1>9. QED
    BY <1>3, <1>7, <1>8 DEF Teams, Team

\* A goroutine that works or answers keeps the teams.
LEMMA WorkTeams ==
    ASSUME TypeOK, Teams, NEW p \in Proc, NEW i \in Item, NEW r \in {"working", "ok", "error"},
           worker[p][i] \in {"waiting", "working"},
           worker' = [worker EXCEPT ![p][i] = r],
           \/ reports' = reports
           \/ r # "working" /\ reports' = [reports EXCEPT ![p] = Append(@, i)],
           UNCHANGED <<stage, outcome, heard>>
    PROVE  Teams'
  <1>1. /\ worker'[p][i] = r
        /\ \A q \in Proc, j \in Item : q # p \/ j # i => worker'[q][j] = worker[q][j]
    BY DEF TypeOK
  <1>2. \A q \in Proc : heard[q] \subseteq Item /\ reports[q] \in Seq(Item)
    BY DEF TypeOK
  <1>3. \A q \in Proc, j \in Item : worker'[q][j] # "none" => j \in Team(q, stage[q])
    BY <1>1 DEF Teams
  <1>4. \A q \in Proc : i \in heard[q] => q # p
    BY DEF Teams
  <1>5. \A q \in Proc : \A j \in heard[q] : worker'[q][j] = worker[q][j]
    BY <1>1, <1>2, <1>4
  <1>6. \A q \in Proc : \A n \in DOMAIN reports[q] :
            reports[q][n] \in Item /\ worker[q][reports[q][n]] \in {"ok", "error"}
    BY <1>2 DEF Teams
  <1>7. \A q \in Proc : \A n \in DOMAIN reports[q] : worker'[q][reports[q][n]] \in {"ok", "error"}
    BY <1>1, <1>6
  <1>8. \A q \in Proc : \A n \in DOMAIN reports'[q] : worker'[q][reports'[q][n]] \in {"ok", "error"}
    <2>1. CASE reports' = reports
      BY <1>7, <2>1
    <2>2. CASE r # "working" /\ reports' = [reports EXCEPT ![p] = Append(@, i)]
      <3>1. \A q \in Proc \ {p} : reports'[q] = reports[q]
        BY <2>2 DEF TypeOK
      <3>2. reports'[p] = Append(reports[p], i)
        BY <2>2 DEF TypeOK
      <3>3. \A n \in DOMAIN reports'[p] : \/ n \in DOMAIN reports[p] /\ reports'[p][n] = reports[p][n]
                                          \/ reports'[p][n] = i
        BY <1>2, <3>2
      <3>4. worker'[p][i] \in {"ok", "error"}
        BY <1>1, <2>2
      <3>5. \A n \in DOMAIN reports'[p] : worker'[p][reports'[p][n]] \in {"ok", "error"}
        BY <1>7, <3>3, <3>4
      <3>6. QED
        BY <1>7, <3>1, <3>5
    <2>3. QED
      BY <2>1, <2>2
  <1>9. QED
    BY <1>3, <1>5, <1>8 DEF Teams, Team

\* A step that at most ends runs leaves the teams as they are.
LEMMA EndTeams ==
    ASSUME Teams, UNCHANGED <<stage, worker, reports, heard>>,
           \A q \in Proc : outcome'[q] = outcome[q] \/ outcome'[q] # "running"
    PROVE  Teams'
  BY DEF Teams, Team

\* Every step keeps the teams.
LEMMA TeamsStep ==
    ASSUME Inv, Next
    PROVE  Teams'
  <1> USE DEF Inv
  <1>1. CASE UNCHANGED vars
    BY <1>1, EndTeams DEF vars, teamVars
  <1>2. ASSUME NEW p \in Proc, Turn(p)
        PROVE  Teams'
    BY <1>2, Turns, EnterTeams
  <1>3. ASSUME NEW p \in Proc, Ends(p)
        PROVE  Teams'
    <2>1. PICK o \in Outcome \ {"running"} : outcome' = [outcome EXCEPT ![p] = o]
      BY <1>3, EndsFacts
    <2>2. UNCHANGED <<stage, worker, reports, heard>>
      BY <1>3, EndsFacts DEF teamVars
    <2>3. QED
      BY <2>1, <2>2, EndTeams DEF TypeOK
  <1>4. ASSUME NEW p \in Proc, Restart(p)
        PROVE  Teams'
    <2>1. Enter(p, "source") /\ "source" \in Stage
      BY <1>4 DEF Restart, Stage
    <2>2. \A q \in Proc \ {p} : outcome'[q] = outcome[q]
      BY <1>4 DEF Restart, TypeOK
    <2>3. QED
      BY <2>1, <2>2, EnterTeams
  <1>5. ASSUME NEW p \in Proc, Done(p)
        PROVE  Teams'
    BY <1>5, EndTeams DEF Done
  <1>6. ASSUME NEW p \in Proc, NoteCopy(p) \/ SaveFails(p)
        PROVE  Teams'
    <2>1. UNCHANGED outcome \/ \E o \in {"failed", "panic"} : outcome' = [outcome EXCEPT ![p] = o]
      BY <1>6, NoteFacts
    <2>2. UNCHANGED <<stage, worker, reports, heard>>
      BY <1>6, NoteFacts DEF teamVars
    <2>3. QED
      BY <2>1, <2>2, EndTeams DEF TypeOK
  <1>7. ASSUME NEW p \in Proc, NEW i \in Items[p], Take(p, i)
        PROVE  Teams'
    BY <1>7, RunAssumption, WorkTeams DEF Take
  <1>8. ASSUME NEW p \in Proc, NEW i \in Items[p], Answer(p, i)
        PROVE  Teams'
    <2>1. i \in Item
      BY RunAssumption
    <2>2. PICK r \in {"ok", "error"} : Report(p, i, r)
      BY <1>8, <2>1, AnswerFacts
    <2>3. QED
      BY <2>1, <2>2, WorkTeams DEF Report
  <1>9. ASSUME NEW p \in Proc, NEW i \in Item, WriteImage(p, i)
        PROVE  Teams'
    BY <1>9, EndTeams DEF WriteImage, teamVars
  <1>10. QED
    BY <1>1, <1>2, <1>3, <1>4, <1>5, <1>6, <1>7, <1>8, <1>9, ReceiveTeams, NextKinds
--------------------------------------------------------------------------------
(* What the repository holds *)

\* Tagging moves only the tag a user gave to the item.
LEMMA TagsWanted ==
    ASSUME Inv, NEW p \in Proc, NEW i \in Items[p], WriteTag(p, i)
    PROVE  /\ i \in Item /\ WantTag[i] \in UserTag
           /\ tags' = [tags EXCEPT ![WantTag[i]] = Digest[i]]
  <1>1. i \in Item
    BY RunAssumption
  <1>2. worker[p][i] = "working" /\ stage[p] = "tag"
    BY DEF WriteTag, Report
  <1>3. i \in Team(p, "tag")
    BY <1>1, <1>2 DEF Inv, Teams
  <1>4. WantTag[i] # None
    BY <1>3 DEF Team
  <1>5. QED
    BY <1>1, <1>4, TagAssumption DEF WriteTag

\* An answer changes no upload tag.
LEMMA AnswerUploads ==
    ASSUME Inv, NEW p \in Proc, NEW i \in Items[p], Answer(p, i)
    PROVE  \A j \in Item : tags'[UploadTag[j]] = tags[UploadTag[j]]
  <1>1. CASE tags' = tags
    BY <1>1
  <1>2. CASE WriteTag(p, i)
    <2>1. \A j \in Item : UploadTag[j] \in Tag \ UserTag
      BY TagAssumption
    <2>2. WantTag[i] \in UserTag /\ tags' = [tags EXCEPT ![WantTag[i]] = Digest[i]]
      BY <1>2, TagsWanted
    <2>3. tags \in [Tag -> Image \cup {None}]
      BY DEF Inv, TypeOK
    <2>4. QED
      BY <2>1, <2>2, <2>3
  <1>3. QED
    BY <1>1, <1>2 DEF Answer, Collect, Verify, WorkFails, repoVars

\* An upload moves only upload tags, and these agree on their digest.
LEMMA WriteUploads ==
    ASSUME TypeOK, NEW p \in Proc, NEW i \in Item, WriteImage(p, i), NEW j \in Item
    PROVE  /\ IsThere(j) => IsThere(j)'
           /\ IsThere(j)' => IsThere(j) \/ Digest[j] \in manifests'
           /\ UploadTag[j] \notin UserTag
  <1>1. UploadTag[j] \in Tag \ UserTag /\ UploadTag[i] \in Tag
    BY TagAssumption
  <1>2. tags' = [tags EXCEPT ![UploadTag[i]] = Digest[i]] /\ manifests' = manifests \cup {Digest[i]}
    BY DEF WriteImage
  <1>3. CASE UploadTag[j] = UploadTag[i]
    <2>1. Digest[j] = Digest[i]
      BY <1>3, TagAssumption
    <2>2. tags'[UploadTag[j]] = Digest[j]
      BY <1>1, <1>2, <1>3, <2>1 DEF TypeOK
    <2>3. QED
      BY <1>1, <1>2, <2>1, <2>2 DEF IsThere
  <1>4. CASE UploadTag[j] # UploadTag[i]
    <2>1. tags'[UploadTag[j]] = tags[UploadTag[j]]
      BY <1>1, <1>2, <1>4 DEF TypeOK
    <2>2. QED
      BY <1>1, <2>1 DEF IsThere
  <1>5. QED
    BY <1>3, <1>4

\* Nothing leaves the repository, and an upload tag names what is stored.
LEMMA RepoGrows ==
    ASSUME Inv, Next
    PROVE  /\ manifests \subseteq manifests' /\ locations \subseteq locations'
           /\ \A j \in Item : IsThere(j) => IsThere(j)'
           /\ \A j \in Item : IsThere(j)' => Digest[j] \in manifests'
  <1> DEFINE Goal == /\ manifests \subseteq manifests' /\ locations \subseteq locations'
                     /\ \A j \in Item : IsThere(j) => IsThere(j)'
                     /\ \A j \in Item : IsThere(j)' => Digest[j] \in manifests'
  <1> USE DEF Inv
  <1>1. ASSUME manifests' = manifests, locations \subseteq locations',
               \A j \in Item : tags'[UploadTag[j]] = tags[UploadTag[j]]
        PROVE  Goal
    BY <1>1 DEF Uploads, IsThere
  <1>2. CASE UNCHANGED vars
    BY <1>1, <1>2 DEF vars, repoVars
  <1>3. ASSUME NEW p \in Proc, Turn(p) \/ Ends(p) \/ Receive(p) \/ Restart(p) \/ Done(p)
        PROVE  Goal
    <2>1. UNCHANGED repoVars
      BY <1>3, Turns, EndsFacts DEF Receive, Restart, Done
    <2>2. QED
      BY <1>1, <2>1 DEF repoVars
  <1>4. ASSUME NEW p \in Proc, NoteCopy(p) \/ SaveFails(p)
        PROVE  Goal
    <2>1. manifests' = manifests /\ tags' = tags /\ locations \subseteq locations'
      BY <1>4, NoteFacts
    <2>2. QED
      BY <1>1, <2>1
  <1>5. ASSUME NEW p \in Proc, NEW i \in Items[p], Take(p, i)
        PROVE  Goal
    BY <1>1, <1>5 DEF Take, repoVars
  <1>6. ASSUME NEW p \in Proc, NEW i \in Items[p], Answer(p, i)
        PROVE  Goal
    BY <1>1, <1>6, AnswerUploads, AnswerTyped
  <1>7. ASSUME NEW p \in Proc, NEW i \in Item, WriteImage(p, i)
        PROVE  Goal
    <2>1. manifests \subseteq manifests' /\ locations' = locations
      BY <1>7 DEF WriteImage
    <2>2. QED
      BY <1>7, <2>1, WriteUploads DEF Uploads
  <1>8. QED
    BY <1>2, <1>3, <1>4, <1>5, <1>6, <1>7, NextKinds

\* A run imports, of its own items, what it found in the repository.
LEMMA ImportedMoves ==
    ASSUME Inv, Next, NEW q \in Proc, NEW j \in imported'[q]
    PROVE  j \in imported[q] \/ (j \in Items[q] /\ IsThere(j))
  <1> USE DEF Inv
  <1> DEFINE Goal == j \in imported[q] \/ (j \in Items[q] /\ IsThere(j))
  <1>1. CASE imported' = imported
    BY <1>1
  <1>2. ASSUME NEW p \in Proc, Restart(p)
        PROVE  Goal
    BY <1>2 DEF Restart, TypeOK
  <1>3. ASSUME NEW p \in Proc, NEW i \in Items[p], Answer(p, i), imported' # imported
        PROVE  Goal
    <2>1. Verify(p, i) /\ IsThere(i) /\ AddImported(p, i)
      BY <1>3 DEF Answer, Collect, Verify, WriteTag, WorkFails, runVars
    <2>2. CASE q = p
      BY <2>1, <2>2 DEF AddImported, TypeOK
    <2>3. CASE q # p
      BY <2>1, <2>3 DEF AddImported, TypeOK
    <2>4. QED
      BY <2>2, <2>3
  <1>4. ASSUME imported' # imported
        PROVE  \/ \E p \in Proc : Restart(p)
               \/ \E p \in Proc : \E i \in Items[p] : Answer(p, i)
    <2>1. ASSUME NEW p \in Proc, \/ Turn(p) \/ Ends(p) \/ Receive(p) \/ Done(p) \/ NoteCopy(p) \/ SaveFails(p)
                                 \/ \E i \in Items[p] : Take(p, i)
                                 \/ \E i \in Item : WriteImage(p, i)
          PROVE  imported' = imported
      BY <2>1, Turns, EndsFacts, NoteFacts DEF Receive, Done, Take, WriteImage, runVars
    <2>2. ~UNCHANGED vars
      BY <1>4 DEF vars, runVars
    <2>3. QED
      BY <1>4, <2>1, <2>2, NextKinds
  <1>5. QED
    BY <1>1, <1>2, <1>3, <1>4

\* Every step keeps the upload tags naming stored images.
LEMMA UploadsStep ==
    ASSUME Inv, Next
    PROVE  Uploads'
  <1>1. \A i \in Item : IsThere(i)' => Digest[i] \in manifests'
    BY RepoGrows
  <1>2. ASSUME NEW p \in Proc, NEW i \in imported'[p]
        PROVE  Digest[i] \in manifests'
    <2>1. CASE i \in imported[p]
      BY <2>1, RepoGrows DEF Inv, Uploads, Digests
    <2>2. CASE i \in Items[p] /\ IsThere(i)
      BY <2>2, RunAssumption, RepoGrows DEF Inv, Uploads
    <2>3. QED
      BY <1>2, <2>1, <2>2, ImportedMoves
  <1>3. QED
    BY <1>1, <1>2 DEF Uploads, Digests
--------------------------------------------------------------------------------
(* What a run is through with *)

\* A call that failed is not forgotten.
LEMMA FaultsGrow ==
    ASSUME Inv, Next
    PROVE  faults \in Nat /\ faults' \in Nat /\ faults' >= faults
  <1>1. faults \in Nat
    BY RunAssumption DEF Inv, TypeOK
  <1>2. faults' = faults \/ Fault
    <2>1. ASSUME NEW p \in Proc, NEW i \in Items[p], Take(p, i) \/ Answer(p, i)
          PROVE  faults' = faults \/ Fault
      BY <2>1 DEF Take, Answer, Collect, Verify, WriteTag, WorkFails
    <2>2. ASSUME NEW p \in Proc, Turn(p) \/ Ends(p) \/ Receive(p) \/ Restart(p) \/ Done(p)
          PROVE  faults' = faults \/ Fault
      BY <2>2, Turns DEF Ends, ReadFails, WriteFails, Succeed, Receive, Restart, Done
    <2>3. ASSUME NEW p \in Proc, NoteCopy(p) \/ SaveFails(p) \/ \E i \in Item : WriteImage(p, i)
          PROVE  faults' = faults \/ Fault
      BY <2>3 DEF NoteCopy, SaveFails, WriteImage
    <2>4. QED
      BY <2>1, <2>2, <2>3, NextKinds DEF vars
  <1>3. QED
    BY <1>1, <1>2 DEF Fault

\* The tags of users change when they are written, and only then.
LEMMA UserTagsStep ==
    ASSUME Inv, Next, NEW t \in UserTag
    PROVE  \/ tags'[t] = tags[t]
           \/ \E p \in Proc : \E i \in Items[p] :
                  WriteTag(p, i) /\ t = WantTag[i] /\ tags'[t] = Digest[i]
  <1> DEFINE Goal == \/ tags'[t] = tags[t]
                     \/ \E p \in Proc : \E i \in Items[p] :
                            WriteTag(p, i) /\ t = WantTag[i] /\ tags'[t] = Digest[i]
  <1>1. tags \in [Tag -> Image \cup {None}] /\ t \in Tag
    BY TagAssumption DEF Inv, TypeOK
  <1>2. ASSUME NEW p \in Proc, NEW i \in Item, WriteImage(p, i)
        PROVE  Goal
    <2>1. UploadTag[i] # t /\ tags' = [tags EXCEPT ![UploadTag[i]] = Digest[i]]
      BY <1>2, TagAssumption DEF WriteImage
    <2>2. QED
      BY <1>1, <2>1
  <1>3. ASSUME NEW p \in Proc, NEW i \in Items[p], Answer(p, i)
        PROVE  Goal
    <2>1. CASE WriteTag(p, i)
      <3>1. tags' = [tags EXCEPT ![WantTag[i]] = Digest[i]]
        BY <2>1, TagsWanted
      <3>2. CASE t = WantTag[i]
        BY <1>1, <2>1, <3>1, <3>2
      <3>3. CASE t # WantTag[i]
        BY <1>1, <3>1, <3>3
      <3>4. QED
        BY <3>2, <3>3
    <2>2. CASE ~WriteTag(p, i)
      BY <1>3, <2>2 DEF Answer, Collect, Verify, WorkFails, repoVars
    <2>3. QED
      BY <2>1, <2>2
  <1>4. ASSUME NEW p \in Proc, \/ Turn(p) \/ Ends(p) \/ Receive(p) \/ Restart(p) \/ Done(p)
                               \/ NoteCopy(p) \/ SaveFails(p) \/ \E i \in Items[p] : Take(p, i)
        PROVE  Goal
    <2>1. tags' = tags
      BY <1>4, Turns, EndsFacts, NoteFacts DEF Inv, Receive, Restart, Done, Take, repoVars
    <2>2. QED
      BY <2>1
  <1>5. CASE UNCHANGED vars
    BY <1>5 DEF vars, repoVars
  <1>6. QED
    BY <1>2, <1>3, <1>4, <1>5, NextKinds

\* A user tag that names an image never becomes free again.
LEMMA UserTagsStay ==
    ASSUME Inv, Next, NEW t \in UserTag, tags[t] # None
    PROVE  tags'[t] # None
  <1>1. \A i \in Item : Digest[i] \in Image /\ None \notin Image
    BY RunAssumption, TagAssumption
  <1>2. QED
    BY <1>1, RunAssumption, UserTagsStep

\* A step is one of run q, or q stays where it is.
LEMMA WhoMoves ==
    ASSUME Inv, Next, NEW q \in Proc
    PROVE  \/ Turn(q) \/ Restart(q) \/ NoteCopy(q) \/ SaveFails(q)
           \/ \E i \in Items[q] : Take(q, i) \/ Answer(q, i)
           \/ /\ stage'[q] = stage[q] /\ worker'[q] = worker[q] /\ noted'[q] = noted[q]
              /\ imported'[q] = imported[q] /\ collected'[q] = collected[q]
  <1> DEFINE Goal == /\ stage'[q] = stage[q] /\ worker'[q] = worker[q] /\ noted'[q] = noted[q]
                     /\ imported'[q] = imported[q] /\ collected'[q] = collected[q]
  <1> USE DEF Inv
  <1>1. CASE UNCHANGED vars
    BY <1>1 DEF vars, teamVars, runVars
  <1>2. ASSUME NEW p \in Proc, Ends(p) \/ Receive(p) \/ Done(p) \/ \E i \in Item : WriteImage(p, i)
        PROVE  Goal
    <2>1. UNCHANGED <<stage, worker, runVars>>
      BY <1>2, EndsFacts DEF Receive, Done, WriteImage, teamVars
    <2>2. QED
      BY <2>1 DEF runVars
  <1>3. ASSUME NEW p \in Proc \ {q}, Turn(p)
        PROVE  Goal
    BY <1>3, Turns, EnterPoint DEF runVars
  <1>4. ASSUME NEW p \in Proc \ {q}, Restart(p)
        PROVE  Goal
    <2>1. Enter(p, "source") /\ "source" \in Stage
      BY <1>4 DEF Restart, Stage
    <2>2. noted'[q] = noted[q] /\ imported'[q] = imported[q] /\ collected'[q] = collected[q]
      BY <1>4 DEF Restart, TypeOK
    <2>3. QED
      BY <2>1, <2>2, EnterPoint
  <1>5. ASSUME NEW p \in Proc \ {q}, NoteCopy(p) \/ SaveFails(p)
        PROVE  Goal
    <2>1. UNCHANGED noted \/ noted' = [noted EXCEPT ![p] = @ + 1]
      BY <1>5, NoteFacts
    <2>2. UNCHANGED <<stage, teamVars, collected, imported>>
      BY <1>5, NoteFacts
    <2>3. QED
      BY <2>1, <2>2 DEF TypeOK, teamVars
  <1>6. ASSUME NEW p \in Proc \ {q}, NEW i \in Items[p], Take(p, i)
        PROVE  Goal
    BY <1>6 DEF Take, runVars, TypeOK
  <1>7. ASSUME NEW p \in Proc \ {q}, NEW i \in Items[p], Answer(p, i)
        PROVE  Goal
    <2>1. worker'[q] = worker[q] /\ stage' = stage
      BY <1>7 DEF Answer, Collect, Verify, WriteTag, WorkFails, Report, TypeOK
    <2>2. noted' = noted /\ imported'[q] = imported[q] /\ collected'[q] = collected[q]
      BY <1>7 DEF Answer, Collect, Verify, WriteTag, WorkFails, AddImported, runVars, TypeOK
    <2>3. QED
      BY <2>1, <2>2
  <1>8. QED
    BY <1>1, <1>2, <1>3, <1>4, <1>5, <1>6, <1>7, NextKinds

\* The part of Progress about the bundles, whose record only grows.
LEMMA NotedStays ==
    ASSUME Inv, Next, NEW p \in Proc, noted'[p] = noted[p]
    PROVE  /\ noted'[p] <= Len(Order[p])
           /\ \A n \in 1..noted'[p] : Order[p][n] \in locations'
  BY RepoGrows DEF Inv, Progress

\* An item whose goroutine answered well in the last stage has its tag.
LEMMA TagsStay ==
    ASSUME Inv, Next, NEW p \in Proc, stage[p] = "tag", NEW i \in Item, worker[p][i] = "ok"
    PROVE  tags'[WantTag[i]] # None
  <1>1. i \in Team(p, "tag")
    BY DEF Inv, Teams
  <1>2. WantTag[i] \in UserTag
    BY <1>1, TagAssumption DEF Team
  <1>3. QED
    BY <1>2, UserTagsStay DEF Inv, Answers

\* Steps that leave the stage and the items of a run alone leave its progress alone.
LEMMA StaysProgress ==
    ASSUME Inv, Next, NEW p \in Proc,
           stage'[p] = stage[p], worker'[p] = worker[p], noted'[p] = noted[p],
           imported'[p] = imported[p], collected'[p] = collected[p]
    PROVE  Progress(p)' /\ Pushes(p)' /\ Answers(p)'
  <1>1. Progress(p) /\ Pushes(p) /\ Answers(p)
    BY DEF Inv
  <1>2. Progress(p)'
    BY <1>1, NotedStays DEF Progress
  <1>3. Pushes(p)'
    BY <1>1, RunAssumption, RepoGrows DEF Pushes
  <1>4. Answers(p)'
    <2>1. \A i \in Item : worker'[p][i] = "error" => faults' > 0
      BY <1>1, RunAssumption, FaultsGrow DEF Answers, Inv, TypeOK
    <2>2. QED
      BY <2>1, TagsStay DEF Answers
  <1>5. QED
    BY <1>2, <1>3, <1>4

\* Passing to the next stage keeps the progress of the run.
LEMMA TurnProgress ==
    ASSUME Inv, Next, NEW p \in Proc, Turn(p)
    PROVE  Progress(p)' /\ Pushes(p)' /\ Answers(p)'
  <1>1. PICK s \in Stage : /\ Moves(p, s) /\ Enter(p, s) /\ outcome[p] = "running"
                           /\ UNCHANGED <<outcome, runVars, repoVars, faults, restarts>>
    BY Turns
  <1>2. Progress(p) /\ Pushes(p) /\ Answers(p) /\ TypeOK /\ Teams
    BY DEF Inv
  <1>3. stage'[p] = s /\ \A i \in Item : worker'[p][i] \in {"waiting", "none"}
    BY <1>1, <1>2, EnterPoint
  <1>4. imported' = imported /\ noted' = noted /\ collected' = collected
    BY <1>1 DEF runVars
  <1>5. \A j \in Item : IsThere(j)' = IsThere(j)
    BY <1>1 DEF repoVars, IsThere
  <1>6. ASSUME HeardAll(p), stage[p] \in {"get", "verify"}
        PROVE  \A i \in Items[p] : i \in Item /\ worker[p][i] = "ok"
    BY <1>1, <1>2, <1>6, RunAssumption, HeardAllMeans DEF Teams, Team
  <1>7. Progress(p)'
    <2>1. s \in {"walk", "note", "tag"} => Items[p] \subseteq imported[p]
      BY <1>1, <1>2, <1>6 DEF Moves, Progress
    <2>2. s = "tag" => noted[p] = Len(Order[p])
      <3>1. noted[p] \in Nat /\ Len(Order[p]) \in Nat /\ noted[p] <= Len(Order[p])
        BY <1>2, WalkAssumption DEF TypeOK, Progress
      <3>2. s = "tag" => ~(noted[p] < Len(Order[p]))
        BY <1>1 DEF Moves, Remaining
      <3>3. QED
        BY <3>1, <3>2
    <2>3. QED
      BY <1>2, <1>3, <1>4, <2>1, <2>2, NotedStays DEF Progress
  <1>8. Pushes(p)'
    <2>1. s = "write" => Items[p] \subseteq collected[p]
      BY <1>1, <1>2, <1>6 DEF Moves, Pushes
    <2>2. s = "verify" => \A i \in Items[p] : i \in Item /\ IsThere(i)
      BY <1>1, <1>2, RunAssumption DEF Moves, Pushes
    <2>3. QED
      BY <1>3, <1>4, <1>5, <2>1, <2>2 DEF Pushes
  <1>9. Answers(p)'
    BY <1>3 DEF Answers
  <1>10. QED
    BY <1>7, <1>8, <1>9

\* A restarted run has made no progress that could be wrong.
LEMMA RestartProgress ==
    ASSUME Inv, Next, NEW p \in Proc, Restart(p)
    PROVE  Progress(p)' /\ Pushes(p)' /\ Answers(p)'
  <1>1. Enter(p, "source") /\ "source" \in Stage /\ TypeOK
    BY DEF Inv, Restart, Stage
  <1>2. stage'[p] = "source" /\ \A i \in Item : worker'[p][i] \in {"waiting", "none"}
    BY <1>1, EnterPoint
  <1>3. imported'[p] = {} /\ noted'[p] = 0
    BY <1>1 DEF Restart, TypeOK
  <1>4. Len(Order[p]) \in Nat
    BY WalkAssumption
  <1>5. QED
    BY <1>2, <1>3, <1>4 DEF Progress, Pushes, Answers

\* Noting a bundle keeps the progress of the run.
LEMMA NoteProgress ==
    ASSUME Inv, Next, NEW p \in Proc, NoteCopy(p) \/ SaveFails(p)
    PROVE  Progress(p)' /\ Pushes(p)' /\ Answers(p)'
  <1>1. TypeOK /\ Progress(p)
    BY DEF Inv
  <1>2. UNCHANGED <<stage, worker, collected, imported>> /\ Remaining(p)
    BY <1>1, NoteFacts DEF teamVars
  <1>3. CASE UNCHANGED noted
    BY <1>2, <1>3, StaysProgress
  <1>4. CASE ~UNCHANGED noted
    <2>1. /\ noted' = [noted EXCEPT ![p] = @ + 1] /\ NextBundle(p) \in locations'
          /\ MayNote(p, NextBundle(p))
      BY <1>1, <1>4, NoteFacts
    <2>2. noted'[p] = noted[p] + 1 /\ noted[p] \in Nat /\ noted[p] + 1 <= Len(Order[p])
      BY <1>1, <1>2, <2>1, NextBundleFacts DEF TypeOK
    <2>3. stage[p] = "note"
      BY <2>1 DEF MayNote
    <2>4. \A n \in 1..noted'[p] : n \in 1..noted[p] \/ n = noted[p] + 1
      BY <2>2
    <2>5. \A n \in 1..noted'[p] : Order[p][n] \in locations'
      BY <1>1, <2>1, <2>4, RepoGrows DEF Progress, NextBundle
    <2>6. Progress(p)'
      BY <1>1, <1>2, <2>2, <2>3, <2>5 DEF Progress
    <2>7. Answers(p)'
      <3>1. \A i \in Item : worker'[p][i] = "error" => faults' > 0
        BY <1>2, RunAssumption, FaultsGrow DEF Answers, Inv, TypeOK
      <3>2. QED
        BY <1>2, <2>3, <3>1 DEF Answers
    <2>8. QED
      BY <1>2, <2>3, <2>6, <2>7 DEF Pushes
  <1>5. QED
    BY <1>3, <1>4

\* A goroutine that starts or answers keeps the progress of its run.
LEMMA WorkProgress ==
    ASSUME Inv, Next, NEW p \in Proc, NEW i \in Items[p], Take(p, i) \/ Answer(p, i)
    PROVE  Progress(p)' /\ Pushes(p)' /\ Answers(p)'
  <1>1. TypeOK /\ Progress(p) /\ Pushes(p) /\ Answers(p) /\ i \in Item
    BY RunAssumption DEF Inv
  <1>2. stage' = stage /\ noted' = noted
    BY <1>1, AnswerFacts DEF Take, runVars, Report
  <1>3. /\ \A j \in Item \ {i} : worker'[p][j] = worker[p][j]
        /\ worker'[p][i] \in {"working", "ok", "error"}
    BY <1>1, AnswerFacts DEF Take, Report, TypeOK
  <1>4. worker'[p][i] = "ok" =>
            /\ stage[p] = "get" => i \in collected'[p]
            /\ stage[p] = "verify" => i \in imported'[p]
            /\ stage[p] = "tag" => tags'[WantTag[i]] # None
    <2>1. SUFFICES ASSUME worker'[p][i] = "ok"
                   PROVE  /\ stage[p] = "get" => i \in collected'[p]
                          /\ stage[p] = "verify" => i \in imported'[p]
                          /\ stage[p] = "tag" => tags'[WantTag[i]] # None
      OBVIOUS
    <2>2. Collect(p, i) \/ (Verify(p, i) /\ AddImported(p, i)) \/ WriteTag(p, i)
      BY <1>1, <2>1 DEF Answer, Verify, WorkFails, Take, Report, TypeOK
    <2>3. stage[p] = "get" => i \in collected'[p]
      BY <1>1, <2>2 DEF Collect, Verify, WriteTag, TypeOK
    <2>4. stage[p] = "verify" => i \in imported'[p]
      BY <1>1, <2>2 DEF Collect, AddImported, WriteTag, TypeOK
    <2>5. ASSUME WriteTag(p, i)
          PROVE  tags'[WantTag[i]] # None
      <3>1. WantTag[i] \in Tag /\ tags' = [tags EXCEPT ![WantTag[i]] = Digest[i]] /\ Digest[i] # None
        BY <2>5, TagsWanted, TagAssumption, RunAssumption
      <3>2. QED
        BY <1>1, <3>1 DEF TypeOK
    <2>6. stage[p] = "tag" => tags'[WantTag[i]] # None
      BY <2>2, <2>5 DEF Collect, Verify
    <2>7. QED
      BY <2>3, <2>4, <2>6
  <1>5. imported[p] \subseteq imported'[p] /\ collected[p] \subseteq collected'[p]
    BY <1>1 DEF Take, Answer, Collect, Verify, WriteTag, WorkFails, AddImported, runVars, TypeOK
  <1>6. imported'[p] \subseteq Items[p]
    BY <1>1, ImportedMoves DEF Progress
  <1>7. Progress(p)'
    BY <1>1, <1>2, <1>3, <1>4, <1>5, <1>6, NotedStays DEF Progress
  <1>8. Pushes(p)'
    BY <1>1, <1>2, <1>3, <1>4, <1>5, RunAssumption, RepoGrows DEF Pushes
  <1>9. worker'[p][i] = "error" => faults' > 0
    <2>1. worker'[p][i] = "error" => Fault
      BY <1>1 DEF Take, Answer, Collect, Verify, WriteTag, WorkFails, Report, Pushes, TypeOK
    <2>2. QED
      BY <2>1, FaultsGrow DEF Fault
  <1>10. Answers(p)'
    <2>1. \A j \in Item : worker'[p][j] = "error" => faults' > 0
      BY <1>1, <1>3, <1>9, FaultsGrow, RunAssumption DEF Answers
    <2>2. stage[p] = "tag" => \A j \in Item : worker'[p][j] = "ok" => tags'[WantTag[j]] # None
      BY <1>3, <1>4, TagsStay
    <2>3. QED
      BY <1>2, <2>1, <2>2 DEF Answers
  <1>11. QED
    BY <1>7, <1>8, <1>10

\* Every step keeps the progress of every run.
LEMMA ProgressStep ==
    ASSUME Inv, Next
    PROVE  \A p \in Proc : Progress(p)' /\ Pushes(p)' /\ Answers(p)'
  BY WhoMoves, StaysProgress, TurnProgress, RestartProgress, NoteProgress, WorkProgress
--------------------------------------------------------------------------------
(* The safety properties *)

\* A bundle is noted only when it and its images are stored.
LEMMA NoteIsRight ==
    ASSUME Inv, NEW p \in Proc, MayNote(p, NextBundle(p))
    PROVE  {NextBundle(p)} \cup Contents[NextBundle(p)] \subseteq manifests
  BY DEF Inv, Uploads, MayNote

\* Every step writes a locations image only for a bundle that is stored with its images.
LEMMA LocationsStep ==
    ASSUME Inv, Next
    PROVE  LocationsTrusted'
  <1> USE DEF Inv
  <1>1. CASE locations' = locations
    BY <1>1, RepoGrows DEF LocationsTrusted
  <1>2. ASSUME NEW p \in Proc, NoteCopy(p) \/ SaveFails(p), locations' # locations
        PROVE  LocationsTrusted'
    <2>1. MayNote(p, NextBundle(p)) /\ locations' = locations \cup {NextBundle(p)}
      BY <1>2, NoteFacts
    <2>2. QED
      BY <2>1, NoteIsRight, RepoGrows DEF LocationsTrusted
  <1>3. ASSUME NEW p \in Proc, \/ Turn(p) \/ Ends(p) \/ Receive(p) \/ Restart(p) \/ Done(p)
                               \/ \E i \in Items[p] : Take(p, i) \/ Answer(p, i)
                               \/ \E i \in Item : WriteImage(p, i)
        PROVE  locations' = locations
    BY <1>3, Turns, EndsFacts, AnswerTyped DEF Receive, Restart, Done, Take, WriteImage, repoVars
  <1>4. QED
    BY <1>1, <1>2, <1>3, NextKinds DEF vars, repoVars

\* In the last stage all that the run copies is there and noted.
LEMMA LastStage ==
    ASSUME Inv, NEW p \in Proc, stage[p] = "tag"
    PROVE  /\ Digests(Items[p]) \subseteq manifests
           /\ Digests(Items[p]) \cap Bundle \subseteq locations
  <1>1. Progress(p) /\ Uploads
    BY DEF Inv
  <1>2. Digests(Items[p]) \subseteq Digests(imported[p])
    BY <1>1 DEF Progress, Digests
  <1>3. ASSUME NEW b \in Digests(Items[p]) \cap Bundle
        PROVE  b \in locations
    <2>1. Order[p] \in Seq(Bundle) /\ b \in {Order[p][n] : n \in DOMAIN Order[p]}
      BY WalkAssumption
    <2>2. PICK n \in 1..Len(Order[p]) : b = Order[p][n]
      BY <2>1
    <2>3. QED
      BY <1>1, <2>2 DEF Progress
  <1>4. QED
    BY <1>1, <1>2, <1>3 DEF Uploads

\* When a run tags an image, all the image refers to is stored and noted.
LEMMA PublishIsRight ==
    ASSUME Inv, NEW p \in Proc, NEW i \in Items[p], WriteTag(p, i)
    PROVE  /\ Digest[i] \in Image
           /\ Closure[Digest[i]] \subseteq manifests
           /\ Closure[Digest[i]] \cap Bundle \subseteq locations
  <1>1. Closure[Digest[i]] \subseteq Digests(Items[p])
    BY WalkAssumption
  <1>2. i \in Item /\ stage[p] = "tag"
    BY RunAssumption DEF WriteTag
  <1>3. QED
    BY <1>1, <1>2, LastStage, TagAssumption

\* Every step keeps the user tags naming complete images.
LEMMA TagsStep ==
    ASSUME Inv, Next
    PROVE  TagsComplete'
  <1>1. SUFFICES ASSUME NEW t \in UserTag, tags'[t] # None
                 PROVE  Closure[tags'[t]] \subseteq manifests /\ Closure[tags'[t]] \cap Bundle \subseteq locations
    BY RepoGrows DEF TagsComplete
  <1>2. CASE tags'[t] = tags[t]
    BY <1>1, <1>2 DEF Inv, TagsComplete
  <1>3. ASSUME NEW p \in Proc, NEW i \in Items[p], WriteTag(p, i), tags'[t] = Digest[i]
        PROVE  Closure[tags'[t]] \subseteq manifests /\ Closure[tags'[t]] \cap Bundle \subseteq locations
    BY <1>3, PublishIsRight
  <1>4. QED
    BY <1>2, <1>3, UserTagsStep

\* Once all is imported, every bundle of the walk may be noted.
LEMMA EveryBundleMayBeNoted ==
    ASSUME Inv, NEW p \in Proc, stage[p] = "note", Remaining(p)
    PROVE  MayNote(p, NextBundle(p))
  <1> DEFINE b == NextBundle(p)
  <1>1. noted[p] + 1 \in DOMAIN Order[p] /\ b \in Bundle
    BY NextBundleFacts DEF Inv
  <1>2. b \in Digests(Items[p])
    BY <1>1, WalkAssumption DEF NextBundle
  <1>3. PICK i \in Items[p] : b = Digest[i]
    BY <1>2 DEF Digests
  <1>4. b \in Image /\ b \in Closure[b]
    BY <1>1, WalkAssumption
  <1>5. Contents[b] \subseteq Closure[b]
    BY <1>1, <1>4, WalkAssumption
  <1>6. Closure[b] \subseteq Digests(Items[p])
    BY <1>3, WalkAssumption
  <1>7. Items[p] \subseteq imported[p]
    BY DEF Inv, Progress
  <1>8. Digests(Items[p]) \subseteq Digests(imported[p])
    BY <1>7 DEF Digests
  <1>9. QED
    BY <1>2, <1>5, <1>6, <1>8 DEF MayNote

\* How the outcome of a run changes.
LEMMA OutcomeStep ==
    ASSUME Inv, Next, NEW q \in Proc, outcome'[q] # outcome[q]
    PROVE  \/ outcome'[q] = "running"
           \/ outcome'[q] = "ok" /\ Succeed(q)
           \/ outcome'[q] = "failed" /\ faults' > 0
  <1> DEFINE Goal == \/ outcome'[q] = outcome[q]
                     \/ outcome'[q] = "running"
                     \/ outcome'[q] = "ok" /\ Succeed(q)
                     \/ outcome'[q] = "failed" /\ faults' > 0
  <1> USE DEF Inv
  <1>1. outcome \in [Proc -> Outcome]
    BY DEF TypeOK
  <1>2. ASSUME NEW p \in Proc, Ends(p)
        PROVE  Goal
    <2>1. CASE Succeed(p)
      BY <1>1, <2>1 DEF Succeed
    <2>2. CASE ReadFails(p) \/ WriteFails(p)
      <3>1. Fault /\ outcome' = [outcome EXCEPT ![p] = "failed"]
        BY <2>2 DEF ReadFails, WriteFails, Fail
      <3>2. faults' > 0
        BY <3>1, FaultsGrow DEF Fault
      <3>3. QED
        BY <1>1, <3>1, <3>2
    <2>3. QED
      BY <1>2, <2>1, <2>2 DEF Ends
  <1>3. ASSUME NEW p \in Proc, Receive(p)
        PROVE  Goal
    <2>1. CASE worker[p][Head(reports[p])] = "error"
      <3>1. reports[p] \in Seq(Item) /\ reports[p] # <<>>
        BY <1>3 DEF TypeOK, Receive
      <3>2. Head(reports[p]) \in Item
        BY <3>1
      <3>3. faults > 0
        BY <2>1, <3>2 DEF Answers
      <3>4. faults' > 0
        BY <3>3, FaultsGrow
      <3>5. QED
        BY <1>1, <1>3, <2>1, <3>4 DEF Receive, Fail
    <2>2. CASE worker[p][Head(reports[p])] # "error"
      BY <1>3, <2>2 DEF Receive
    <2>3. QED
      BY <2>1, <2>2
  <1>4. ASSUME NEW p \in Proc, Restart(p)
        PROVE  Goal
    BY <1>1, <1>4 DEF Restart
  <1>5. ASSUME NEW p \in Proc, NoteCopy(p) \/ SaveFails(p)
        PROVE  Goal
    <2>1. stage[p] = "note" => MayNote(p, NextBundle(p))
      BY <1>5, NoteFacts, EveryBundleMayBeNoted
    <2>2. \/ UNCHANGED outcome
          \/ outcome' = [outcome EXCEPT ![p] = "failed"] /\ faults' > 0
      BY <1>5, <2>1, NoteFacts
    <2>3. QED
      BY <1>1, <2>2
  <1>6. ASSUME NEW p \in Proc, \/ Turn(p) \/ Done(p) \/ \E i \in Items[p] : Take(p, i) \/ Answer(p, i)
                               \/ \E i \in Item : WriteImage(p, i)
        PROVE  Goal
    <2>1. UNCHANGED outcome
      BY <1>6, Turns, AnswerTyped DEF Done, Take, WriteImage
    <2>2. QED
      BY <2>1
  <1>7. CASE UNCHANGED vars
    BY <1>7 DEF vars
  <1>8. Goal
    BY <1>2, <1>3, <1>4, <1>5, <1>6, <1>7, NextKinds
  <1>9. QED
    BY <1>8

\* A step after which a run reports success leaves nothing undone.
LEMMA SuccessStep ==
    ASSUME Inv, Next, NEW p \in Proc, outcome'[p] = "ok"
    PROVE  /\ Digests(Items[p]) \subseteq manifests'
           /\ Digests(Items[p]) \cap Bundle \subseteq locations'
           /\ \A i \in Items[p] : WantTag[i] # None => tags'[WantTag[i]] # None
  <1>1. \A i \in Items[p] : i \in Item /\ (WantTag[i] # None => WantTag[i] \in UserTag)
    BY RunAssumption, TagAssumption
  <1>2. SUFFICES /\ Digests(Items[p]) \subseteq manifests
                 /\ Digests(Items[p]) \cap Bundle \subseteq locations
                 /\ \A i \in Items[p] : WantTag[i] # None => tags[WantTag[i]] # None
    BY <1>1, RepoGrows, UserTagsStay
  <1>3. CASE outcome[p] = "ok"
    BY <1>3 DEF Inv, SuccessIsComplete
  <1>4. CASE outcome[p] # "ok"
    <2>1. Succeed(p)
      BY <1>4, OutcomeStep
    <2>2. stage[p] = "tag" /\ HeardAll(p) /\ outcome[p] = "running"
      BY <2>1 DEF Succeed, Runs
    <2>3. heard[p] = Team(p, "tag")
      BY <2>2, HeardAllMeans DEF Inv
    <2>4. \A i \in Items[p] : WantTag[i] # None => worker[p][i] = "ok"
      BY <2>2, <2>3 DEF Inv, Teams, Team
    <2>5. \A i \in Items[p] : WantTag[i] # None => tags[WantTag[i]] # None
      BY <1>1, <2>2, <2>4 DEF Inv, Answers
    <2>6. QED
      BY <2>2, <2>5, LastStage
  <1>5. QED
    BY <1>3, <1>4

\* No step panics, succeeds too early or fails without a failing call.
LEMMA OutcomesStep ==
    ASSUME Inv, Next
    PROVE  NeverPanics' /\ SuccessIsComplete' /\ FailureHasACause'
  <1>1. NeverPanics'
    BY OutcomeStep DEF Inv, NeverPanics
  <1>2. SuccessIsComplete'
    BY SuccessStep DEF SuccessIsComplete
  <1>3. FailureHasACause'
    BY OutcomeStep, FaultsGrow DEF Inv, FailureHasACause
  <1>4. QED
    BY <1>1, <1>2, <1>3
--------------------------------------------------------------------------------
(* The theorems *)

\* An empty repository and runs that have not begun satisfy the invariant.
LEMMA InitInv ==
    ASSUME Init
    PROVE  Inv
  <1>1. TypeOK
    <2>1. Concurrency \in 0..Concurrency /\ 0 \in 0..MaxFaults /\ 0 \in 0..MaxRestarts
      BY RunAssumption
    <2>2. "source" \in Stage /\ "running" \in Outcome /\ "none" \in Worker
      BY DEF Stage, Outcome, Worker
    <2>3. worker \in [Proc -> [Item -> Worker]]
      BY <2>2 DEF Init
    <2>4. tokens \in [Proc -> 0..Concurrency]
      BY <2>1 DEF Init
    <2>5. faults \in 0..MaxFaults /\ restarts \in 0..MaxRestarts
      BY <2>1 DEF Init
    <2>6. /\ stage \in [Proc -> Stage] /\ outcome \in [Proc -> Outcome]
          /\ leaving \in [Proc -> Nat] /\ noted \in [Proc -> Nat]
      BY <2>2 DEF Init
    <2>7. /\ reports \in [Proc -> Seq(Item)] /\ heard \in [Proc -> SUBSET Item]
          /\ collected \in [Proc -> SUBSET Item] /\ imported \in [Proc -> SUBSET Item]
          /\ tags \in [Tag -> Image \cup {None}]
          /\ manifests \subseteq Image /\ locations \subseteq Bundle
      BY DEF Init
    <2>8. QED
      BY <2>3, <2>4, <2>5, <2>6, <2>7 DEF TypeOK
  <1>2. ThrottleKept
    <2>1. Cardinality({}) = 0
      BY FS_EmptySet
    <2>2. \A p \in Proc : Working(p) = {}
      BY DEF Init, Working
    <2>3. \A p \in Proc : tokens[p] = Concurrency /\ leaving[p] = 0 /\ Concurrency \in Nat
      BY RunAssumption DEF Init
    <2>4. QED
      BY <2>1, <2>2, <2>3 DEF ThrottleKept
  <1>3. Teams
    <2>1. \A p \in Proc : DOMAIN reports[p] = {}
      BY DEF Init
    <2>2. QED
      BY <2>1 DEF Init, Teams
  <1>4. \A i \in Item : tags[UploadTag[i]] = None /\ Digest[i] # None
    BY RunAssumption, TagAssumption DEF Init
  <1>5. Uploads
    BY <1>4 DEF Init, Uploads, IsThere, Digests
  <1>6. \A p \in Proc : Progress(p) /\ Pushes(p) /\ Answers(p)
    <2>1. \A p \in Proc : Len(Order[p]) \in Nat
      BY WalkAssumption
    <2>2. QED
      BY <2>1 DEF Init, Progress, Pushes, Answers
  <1>7. LocationsTrusted /\ NeverPanics /\ SuccessIsComplete /\ FailureHasACause
    BY DEF Init, LocationsTrusted, NeverPanics, SuccessIsComplete, FailureHasACause
  <1>8. TagsComplete
    BY TagAssumption DEF Init, TagsComplete
  <1>9. QED
    BY <1>1, <1>2, <1>3, <1>5, <1>6, <1>7, <1>8 DEF Inv

\* Every step keeps the invariant.
LEMMA Invariance ==
    ASSUME Inv, [Next]_vars
    PROVE  Inv'
  <1>1. CASE Next
    BY <1>1, TypeStep, ThrottleStep, TeamsStep, UploadsStep, ProgressStep, LocationsStep,
       TagsStep, OutcomesStep DEF Inv
  <1>2. CASE UNCHANGED vars
    <2> USE <1>2 DEF vars, teamVars, runVars, repoVars
    <2>1. TypeOK' /\ Teams' /\ Uploads'
      BY DEF Inv, TypeOK, Teams, Team, Uploads, IsThere, Digests
    <2>2. ThrottleKept'
      BY DEF Inv, ThrottleKept, Working
    <2>3. \A p \in Proc : Progress(p)' /\ Pushes(p)' /\ Answers(p)'
      BY DEF Inv, Progress, Pushes, Answers, IsThere
    <2>4. LocationsTrusted' /\ TagsComplete'
      BY DEF Inv, LocationsTrusted, TagsComplete
    <2>5. NeverPanics' /\ SuccessIsComplete' /\ FailureHasACause'
      BY DEF Inv, NeverPanics, SuccessIsComplete, FailureHasACause
    <2>6. QED
      BY <2>1, <2>2, <2>3, <2>4, <2>5 DEF Inv
  <1>3. QED
    BY <1>1, <1>2

\* For any number of runs, failures and restarts, the stages of the copies keep the
\* order on which everything below rests: Inv holds in every state.
THEOREM Invariant == Spec => []Inv
  <1>1. Init => Inv
    BY InitInv
  <1>2. Inv /\ [Next]_vars => Inv'
    BY Invariance
  <1>3. QED
    BY <1>1, <1>2, PTL DEF Spec

\* Every variable keeps its type, and no throttle of CopyToRepository, Import or
\* tagAllImages lends out or takes back more than --concurrency tokens.
THEOREM TypesCorrect == Spec => []TypeOK
  <1>1. Inv => TypeOK
    BY DEF Inv
  <1>2. QED
    BY <1>1, Invariant, PTL

\* A locations image that NoteCopy has written is right about what it is read for:
\* every image of the bundle is in the repository.
THEOREM LocationsAreTrusted == Spec => []LocationsTrusted
  <1>1. Inv => LocationsTrusted
    BY DEF Inv
  <1>2. QED
    BY <1>1, Invariant, PTL

\* tagAllImages comes last: a tag of a user names something complete.
THEOREM TagsAreComplete == Spec => []TagsComplete
  <1>1. Inv => TagsComplete
    BY DEF Inv
  <1>2. QED
    BY <1>1, Invariant, PTL

\* The consistency check of NoteCopy never fails.
THEOREM NoPanic == Spec => []NeverPanics
  <1>1. Inv => NeverPanics
    BY DEF Inv
  <1>2. QED
    BY <1>1, Invariant, PTL

\* CopyToRepository returns without an error only when all is copied, noted and tagged.
THEOREM Success == Spec => []SuccessIsComplete
  <1>1. Inv => SuccessIsComplete
    BY DEF Inv
  <1>2. QED
    BY <1>1, Invariant, PTL

\* No run fails because another was there first: some call to the registry failed.
THEOREM Failure == Spec => []FailureHasACause
  <1>1. Inv => FailureHasACause
    BY DEF Inv
  <1>2. QED
    BY <1>1, Invariant, PTL
--------------------------------------------------------------------------------
(* The refinement *)

\* An empty repository is an initial state of TrustedRepo.
LEMMA RefinesInit == Init => Repo!Init
  BY TagAssumption DEF Init, Repo!Init

\* Every step is a step of TrustedRepo or changes nothing that it sees.
LEMMA RefinesStep ==
    ASSUME Inv, Next
    PROVE  [Repo!Next]_(Repo!vars)
  <1> USE DEF Inv
  <1>1. CASE UNCHANGED vars
    BY <1>1 DEF vars, repoVars, Repo!vars
  <1>2. ASSUME NEW p \in Proc, \/ Turn(p) \/ Ends(p) \/ Receive(p) \/ Restart(p) \/ Done(p)
                               \/ \E i \in Items[p] : Take(p, i)
        PROVE  UNCHANGED Repo!vars
    <2>1. UNCHANGED repoVars
      BY <1>2, Turns, EndsFacts DEF Receive, Restart, Done, Take
    <2>2. QED
      BY <2>1 DEF repoVars, Repo!vars
  <1>3. ASSUME NEW p \in Proc, NoteCopy(p) \/ SaveFails(p)
        PROVE  Repo!Next \/ UNCHANGED Repo!vars
    <2>1. manifests' = manifests /\ tags' = tags /\ Remaining(p)
      BY <1>3, NoteFacts
    <2>2. CASE locations' = locations
      BY <2>1, <2>2 DEF Repo!vars
    <2>3. CASE locations' # locations
      <3>1. MayNote(p, NextBundle(p)) /\ locations' = locations \cup {NextBundle(p)}
        BY <1>3, <2>3, NoteFacts
      <3>2. NextBundle(p) \in Bundle
        BY <2>1, NextBundleFacts
      <3>3. Repo!NoteBundle(NextBundle(p))
        BY <2>1, <3>1, NoteIsRight DEF Repo!NoteBundle
      <3>4. QED
        BY <3>2, <3>3 DEF Repo!Next
    <2>4. QED
      BY <2>2, <2>3
  <1>4. ASSUME NEW p \in Proc, NEW i \in Item, WriteImage(p, i)
        PROVE  Repo!Next
    <2>1. \A t \in UserTag : tags'[t] = tags[t]
      <3>1. tags' = [tags EXCEPT ![UploadTag[i]] = Digest[i]]
        BY <1>4 DEF WriteImage
      <3>2. \A t \in UserTag : t \in Tag /\ t # UploadTag[i]
        BY TagAssumption
      <3>3. QED
        BY <3>1, <3>2 DEF TypeOK
    <2>2. Digest[i] \in Image
      BY TagAssumption
    <2>3. Repo!StoreImage(Digest[i])
      BY <1>4, <2>1 DEF WriteImage, Repo!StoreImage
    <2>4. QED
      BY <2>2, <2>3 DEF Repo!Next
  <1>5. ASSUME NEW p \in Proc, NEW i \in Items[p], Answer(p, i)
        PROVE  Repo!Next \/ UNCHANGED Repo!vars
    <2>1. CASE WriteTag(p, i)
      <3>1. WantTag[i] \in UserTag /\ tags' = [tags EXCEPT ![WantTag[i]] = Digest[i]]
        BY <2>1, TagsWanted
      <3>2. tags \in [Tag -> Image \cup {None}] /\ UserTag \subseteq Tag
        BY TagAssumption DEF TypeOK
      <3>3. [t \in UserTag |-> tags'[t]] = [[t \in UserTag |-> tags[t]] EXCEPT ![WantTag[i]] = Digest[i]]
        BY <3>1, <3>2
      <3>4. manifests' = manifests /\ locations' = locations
        BY <2>1 DEF WriteTag
      <3>5. Repo!Publish(WantTag[i], Digest[i])
        BY <2>1, <3>3, <3>4, PublishIsRight DEF Repo!Publish
      <3>6. QED
        BY <2>1, <3>1, <3>5, PublishIsRight DEF Repo!Next
    <2>2. CASE ~WriteTag(p, i)
      <3>1. UNCHANGED repoVars
        BY <1>5, <2>2 DEF Answer, Collect, Verify, WorkFails, repoVars
      <3>2. QED
        BY <3>1 DEF repoVars, Repo!vars
    <2>3. QED
      BY <2>1, <2>2
  <1>6. QED
    BY <1>1, <1>2, <1>3, <1>4, <1>5, NextKinds

\* All runs of imgpkg copy together, killed, failing and restarted as they may be,
\* change the repository only as TrustedRepo allows.
THEOREM Refinement == Spec => ImplementsTrustedRepo
  <1>1. Init => Repo!Init
    BY RefinesInit
  <1>2. Inv /\ [Next]_vars => [Repo!Next]_(Repo!vars)
    <2>1. CASE Inv /\ UNCHANGED vars
      BY <2>1 DEF vars, repoVars, Repo!vars
    <2>2. QED
      BY <2>1, RefinesStep
  <1>3. QED
    BY <1>1, <1>2, Invariant, PTL DEF Spec, ImplementsTrustedRepo, Repo!Spec
================================================================================
