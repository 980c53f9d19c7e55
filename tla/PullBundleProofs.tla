---------------------------- MODULE PullBundleProofs ----------------------------
(***************************************************************************)
(* Proofs about PullBundle, for every graph, registry and number of pulls. *)
(* An invariant of all calls on the stack is stated as stack \in Seq(S),   *)
(* so that the lemmas on sequences below serve for each of them.           *)
(***************************************************************************)
EXTENDS PullBundle, TLAPS

\* The top of a stack is replaced.
LEMMA ReplaceTop ==
    ASSUME NEW S, NEW s \in Seq(S), s # <<>>, NEW f \in S
    PROVE  [s EXCEPT ![Len(s)] = f] \in Seq(S)
  OBVIOUS

\* The top is taken off, and what is on top then is replaced.
LEMMA PopTop ==
    ASSUME NEW S, NEW s \in Seq(S), Len(s) > 1, NEW f \in S
    PROVE  [n \in 1..Len(s) - 1 |-> IF n = Len(s) - 1 THEN f ELSE s[n]] \in Seq(S)
  OBVIOUS

\* The elements of a sequence.
LEMMA Elements ==
    ASSUME NEW S, NEW s \in Seq(S), s # <<>>
    PROVE  Len(s) \in Nat \ {0} /\ DOMAIN s = 1..Len(s) /\ \A n \in 1..Len(s) : s[n] \in S
  OBVIOUS

\* A sequence over a set is one over each larger set.
LEMMA Widen ==
    ASSUME NEW S, NEW T, S \subseteq T, NEW s \in Seq(S)
    PROVE  s \in Seq(T)
  OBVIOUS

\* What the fields of a frame are.
LEMMA FrameFacts ==
    ASSUME NEW f \in Frame
    PROVE  /\ f.name \in Name /\ f.repo \in Repo /\ f.step \in Step
           /\ f.next \in Nat /\ f.next \in 1..Len(List[f.name[2]]) + 1
           /\ f.located \in BOOLEAN /\ f.relocated \in BOOLEAN
           /\ f.name[2] \in Bundle
           /\ List[f.name[2]] \in Seq(Name)
           /\ f = [name |-> f.name, repo |-> f.repo, step |-> f.step, next |-> f.next,
                   located |-> f.located, relocated |-> f.relocated]
  BY GraphAssumption DEF Frame

\* What a frame is.
LEMMA FrameMade ==
    ASSUME NEW name \in Name, name[2] \in Bundle, NEW repo \in Repo, NEW step \in Step,
           NEW next \in 1..Len(List[name[2]]) + 1, NEW located \in BOOLEAN, NEW relocated \in BOOLEAN
    PROVE  [name |-> name, repo |-> repo, step |-> step, next |-> next,
            located |-> located, relocated |-> relocated] \in Frame
  <1>1. List[name[2]] \in Seq(Name)
    BY GraphAssumption
  <1>2. next \in Nat
    BY <1>1
  <1>3. QED
    BY <1>2 DEF Frame

\* The call that is running.
LEMMA TopFacts ==
    ASSUME TypeOK, stack # <<>>
    PROVE  /\ Top \in Frame /\ Len(stack) \in Nat \ {0} /\ Self \in Bundle
           /\ \A n \in 1..Len(stack) : stack[n] \in Frame
  <1>1. stack \in Seq(Frame)
    BY DEF TypeOK
  <1>2. Len(stack) \in Nat \ {0} /\ \A n \in 1..Len(stack) : stack[n] \in Frame
    BY <1>1, Elements
  <1>3. Top \in Frame
    BY <1>2 DEF Top
  <1>4. QED
    BY <1>2, <1>3, FrameFacts DEF Self

\* An entry of the ImagesLock at which a loop is.
LEMMA EntryFacts ==
    ASSUME TypeOK, stack # <<>>, ~AtEnd
    PROVE  /\ Top.next \in 1..Len(List[Self]) /\ Top.next + 1 \in 1..Len(List[Self]) + 1
           /\ Entry \in Name /\ Entry[1] \in Repo /\ Entry[2] \in Image /\ Entry[2] \in Contents[Self]
  <1>1. Top \in Frame /\ Self \in Bundle
    BY TopFacts
  <1>2. List[Self] \in Seq(Name) /\ Top.next \in Nat /\ Top.next \in 1..Len(List[Self]) + 1
    BY <1>1, FrameFacts DEF Self
  <1>3. Top.next \in 1..Len(List[Self]) /\ Top.next + 1 \in 1..Len(List[Self]) + 1
    BY <1>2 DEF AtEnd
  <1>4. Entry \in Name
    BY <1>2, <1>3 DEF Entry
  <1>5. Entry[1] \in Repo /\ Entry[2] \in Image
    BY <1>4 DEF Name
  <1>6. Entry \in Entries(Self)
    BY <1>2, <1>3 DEF Entry, Entries
  <1>7. Entry[2] \in Contents[Self]
    BY <1>1, <1>6 DEF Contents
  <1>8. QED
    BY <1>3, <1>4, <1>5, <1>7

\* The frames that the steps put on top.
LEMMA Moves ==
    ASSUME TypeOK, stack # <<>>
    PROVE  /\ \A s \in Step : [Top EXCEPT !.step = s] \in Frame
           /\ ~AtEnd => [Top EXCEPT !.next = @ + 1] \in Frame
           /\ [Top EXCEPT !.step = "walk", !.located = TRUE, !.relocated = TRUE] \in Frame
           /\ [Top EXCEPT !.step = "walk", !.next = 1] \in Frame
           /\ [Top EXCEPT !.step = "walk", !.next = 1, !.relocated = TRUE] \in Frame
  <1>1. Top \in Frame
    BY TopFacts
  <1>2. "walk" \in Step
    BY DEF Step
  <1>3. 1 \in 1..Len(List[Top.name[2]]) + 1
    <2>1. List[Top.name[2]] \in Seq(Name)
      BY <1>1, FrameFacts
    <2>2. QED
      BY <2>1
  <1>4. \A s \in Step : [Top EXCEPT !.step = s] \in Frame
    BY <1>1 DEF Frame
  <1>5. ASSUME ~AtEnd PROVE [Top EXCEPT !.next = @ + 1] \in Frame
    <2>1. Top.next + 1 \in 1..Len(List[Top.name[2]]) + 1
      BY <1>5, EntryFacts DEF Self
    <2>2. Top.next + 1 \in Nat
      BY <1>1, FrameFacts
    <2>3. QED
      BY <1>1, <2>1, <2>2 DEF Frame
  <1>6. [Top EXCEPT !.step = "walk", !.located = TRUE, !.relocated = TRUE] \in Frame
    BY <1>1, <1>2 DEF Frame
  <1>7. [Top EXCEPT !.step = "walk", !.next = 1] \in Frame
    BY <1>1, <1>2, <1>3 DEF Frame
  <1>8. [Top EXCEPT !.step = "walk", !.next = 1, !.relocated = TRUE] \in Frame
    BY <1>1, <1>2, <1>3 DEF Frame
  <1>9. QED
    BY <1>4, <1>5, <1>6, <1>7, <1>8

\* A call that is made at a directory of its own.
LEMMA Calls ==
    ASSUME NEW name \in Name, name[2] \in Bundle, NEW repo \in Repo, NEW step \in Step
    PROVE  Call(name, repo, step) \in Frame
  <1>1. 1 \in 1..Len(List[name[2]]) + 1
    <2>1. List[name[2]] \in Seq(Name)
      BY GraphAssumption
    <2>2. QED
      BY <2>1
  <1>2. QED
    BY <1>1, FrameMade DEF Call

\* Where a nested bundle is pulled from.
LEMMA NestedFacts ==
    ASSUME TypeOK, PullNested
    PROVE  /\ stack # <<>> /\ ~AtEnd /\ Entry \in Name /\ Entry[2] \in Bundle
           /\ PrimaryLocation[1] \in Repo
           /\ PrimaryLocation[1] = IF Top.relocated THEN Top.repo ELSE Entry[1]
           /\ \E s \in {"fetch", "clear"} :
                 stack' = Append(stack, Call(Entry, PrimaryLocation[1], s))
  <1>1. stack # <<>> /\ ~AtEnd /\ Entry[2] \in Bundle
    BY DEF PullNested, InLoop, At
  <1>2. Entry \in Name /\ Entry[1] \in Repo
    BY <1>1, EntryFacts
  <1>3. Top.repo \in Repo
    BY <1>1, TopFacts, FrameFacts
  <1>4. PrimaryLocation[1] = IF Top.relocated THEN Top.repo ELSE Entry[1]
    BY DEF PrimaryLocation
  <1>5. stack' = Append(stack, Call(Entry, PrimaryLocation[1], IF Known THEN "fetch" ELSE "clear"))
    BY DEF PullNested
  <1>6. QED
    BY <1>1, <1>2, <1>3, <1>4, <1>5
--------------------------------------------------------------------------------
(* Types *)

\* A call that waits for another one is in its loop, at an entry.
Callers == \A n \in 1..Len(stack) - 1 :
               stack[n].step = "walk" /\ stack[n].next <= Len(List[stack[n].name[2]])

TypeInv == TypeOK /\ Callers

\* Below the top nothing changes.
LEMMA CallersStay ==
    ASSUME TypeOK, Callers, stack # <<>>, NEW f \in Frame, SetTop(f)
    PROVE  Callers'
  <1>1. stack \in Seq(Frame)
    BY DEF TypeOK
  <1>2. /\ Len(stack') = Len(stack) /\ Len(stack) \in Nat
        /\ \A n \in 1..Len(stack) - 1 : stack'[n] = stack[n]
    BY <1>1 DEF SetTop
  <1>3. QED
    BY <1>2 DEF Callers

\* The steps that put another frame on top, and what it is.
Moved == \E f \in Frame : SetTop(f)

\* Each of them leaves a sequence of frames.
LEMMA MovedTyped ==
    ASSUME TypeInv, stack # <<>>, Moved
    PROVE  stack' \in Seq(Frame) /\ Callers'
  <1>1. PICK f \in Frame : SetTop(f)
    BY DEF Moved
  <1>2. stack \in Seq(Frame)
    BY DEF TypeInv, TypeOK
  <1>3. stack' \in Seq(Frame)
    BY <1>1, <1>2, ReplaceTop DEF SetTop
  <1>4. QED
    BY <1>1, <1>3, CallersStay DEF TypeInv

\* All steps within one call are such steps.
LEMMA WithinCall ==
    ASSUME TypeOK,
           \/ Fetch \/ Clear \/ Extract \/ Locate \/ NoLocations \/ Compare \/ NotRelocated
           \/ Relocated \/ Skip \/ PassContent
    PROVE  stack # <<>> /\ Moved
  <1>1. stack # <<>>
    BY DEF Fetch, Clear, Extract, Locate, NoLocations, Compare, NotRelocated, Relocated, Skip,
           PassContent, InLoop, At
  <1>2. {"clear", "layers", "locate", "compare"} \subseteq Step
    BY DEF Step
  <1>3. CASE Fetch \/ Clear \/ Extract \/ NoLocations
    <2>1. \E s \in Step : SetTop([Top EXCEPT !.step = s])
      BY <1>2, <1>3 DEF Fetch, Clear, Extract, NoLocations, Goto
    <2>2. QED
      BY <1>1, <2>1, Moves DEF Moved
  <1>4. CASE Compare \/ Skip \/ PassContent
    <2>1. ~AtEnd /\ SetTop([Top EXCEPT !.next = @ + 1])
      BY <1>4 DEF Compare, Skip, PassContent, InLoop, Advance
    <2>2. QED
      BY <1>1, <2>1, Moves DEF Moved
  <1>5. CASE Locate
    BY <1>1, <1>5, Moves DEF Locate, Moved
  <1>6. CASE NotRelocated
    BY <1>1, <1>6, Moves DEF NotRelocated, Moved
  <1>7. CASE Relocated
    BY <1>1, <1>7, Moves DEF Relocated, Moved
  <1>8. QED
    BY <1>3, <1>4, <1>5, <1>6, <1>7

\* A nested bundle is pulled by a call of its own.
LEMMA PushTyped ==
    ASSUME TypeInv, PullNested
    PROVE  stack' \in Seq(Frame) /\ Callers'
  <1>1. stack \in Seq(Frame) /\ stack # <<>>
    BY NestedFacts DEF TypeInv, TypeOK
  <1>2. PICK s \in {"fetch", "clear"} : stack' = Append(stack, Call(Entry, PrimaryLocation[1], s))
    BY NestedFacts DEF TypeInv
  <1>3. s \in Step
    BY DEF Step
  <1>4. Call(Entry, PrimaryLocation[1], s) \in Frame
    BY <1>3, NestedFacts, Calls DEF TypeInv
  <1>5. stack' \in Seq(Frame)
    BY <1>1, <1>2, <1>4
  <1>6. Len(stack') = Len(stack) + 1 /\ \A n \in 1..Len(stack) : stack'[n] = stack[n]
    BY <1>1, <1>2
  <1>7. Top.step = "walk" /\ Top.next <= Len(List[Top.name[2]])
    <2>1. Top.step = "walk" /\ ~AtEnd
      BY DEF PullNested, InLoop, At
    <2>2. Top.next \in Nat /\ Len(List[Top.name[2]]) \in Nat
      <3>1. List[Top.name[2]] \in Seq(Name) /\ Top.next \in Nat
        BY <1>1, TopFacts, FrameFacts DEF TypeInv
      <3>2. QED
        BY <3>1
    <2>3. QED
      BY <2>1, <2>2 DEF AtEnd, Self
  <1>8. QED
    <2>1. Len(stack) \in Nat
      BY <1>1
    <2>2. ASSUME NEW n \in 1..Len(stack') - 1
          PROVE  stack'[n].step = "walk" /\ stack'[n].next <= Len(List[stack'[n].name[2]])
      <3>1. n \in 1..Len(stack) /\ stack'[n] = stack[n]
        BY <1>6, <2>1
      <3>2. CASE n = Len(stack)
        BY <1>7, <3>1, <3>2 DEF Top
      <3>3. CASE n # Len(stack)
        <4>1. n \in 1..Len(stack) - 1
          BY <2>1, <3>1, <3>3
        <4>2. QED
          BY <3>1, <4>1 DEF TypeInv, Callers
      <3>4. QED
        BY <3>2, <3>3
    <2>3. QED
      BY <1>5, <2>2 DEF Callers

\* A call returns to one that goes on with its next entry.
LEMMA PopFacts ==
    ASSUME TypeInv, stack # <<>>, Len(stack) # 1
    PROVE  /\ Len(stack) > 1 /\ Len(stack) - 1 \in 1..Len(stack)
           /\ [stack[Len(stack) - 1] EXCEPT !.next = @ + 1] \in Frame
  <1>1. Len(stack) > 1 /\ Len(stack) - 1 \in 1..Len(stack) /\ Len(stack) - 1 \in 1..Len(stack) - 1
    <2>1. Len(stack) \in Nat \ {0}
      BY TopFacts DEF TypeInv
    <2>2. QED
      BY <2>1
  <1>2. DEFINE c == stack[Len(stack) - 1]
  <1>3. c \in Frame
    BY <1>1, TopFacts DEF TypeInv
  <1>4. c.next <= Len(List[c.name[2]])
    BY <1>1 DEF TypeInv, Callers
  <1> HIDE DEF c
  <1>5. c.next \in Nat /\ List[c.name[2]] \in Seq(Name) /\ c.next \in 1..Len(List[c.name[2]]) + 1
    BY <1>3, FrameFacts
  <1>6. c.next + 1 \in 1..Len(List[c.name[2]]) + 1 /\ c.next + 1 \in Nat
    BY <1>4, <1>5
  <1>7. [c EXCEPT !.next = @ + 1] \in Frame
    BY <1>3, <1>6 DEF Frame
  <1>8. QED
    BY <1>1, <1>7 DEF c

\* The end of a nested call.
LEMMA PopTyped ==
    ASSUME TypeInv, Finish, Len(stack) # 1
    PROVE  stack' \in Seq(Frame) /\ Callers' /\ Path \in Seq(Name)
  <1> DEFINE c == [stack[Len(stack) - 1] EXCEPT !.next = @ + 1]
  <1>1. stack # <<>> /\ stack \in Seq(Frame)
    BY DEF Finish, At, TypeInv, TypeOK
  <1>2. Len(stack) > 1 /\ c \in Frame
    BY <1>1, PopFacts
  <1>3. stack' = [n \in 1..Len(stack) - 1 |-> IF n = Len(stack) - 1 THEN c ELSE stack[n]]
    BY DEF Finish
  <1>4. Len(stack) \in Nat \ {0} /\ \A n \in 1..Len(stack) : stack[n] \in Frame
    BY <1>1, TopFacts DEF TypeInv
  <1> HIDE DEF c
  <1>5. stack' \in Seq(Frame)
    BY <1>1, <1>2, <1>3, PopTop
  <1>6. Len(stack') = Len(stack) - 1 /\ \A n \in 1..Len(stack') - 1 : stack'[n] = stack[n]
    BY <1>2, <1>3, <1>4
  <1>7. Callers'
    BY <1>4, <1>6 DEF TypeInv, Callers
  <1>8. \A n \in 1..Len(stack) - 1 : stack[n + 1].name \in Name
    <2> SUFFICES ASSUME NEW n \in 1..Len(stack) - 1 PROVE stack[n + 1].name \in Name
      OBVIOUS
    <2>1. n + 1 \in 1..Len(stack)
      BY <1>4
    <2>2. QED
      BY <1>4, <2>1, FrameFacts
  <1>9. Path \in Seq(Name)
    <2>1. Len(stack) - 1 \in Nat
      BY <1>4
    <2>2. Path \in [1..Len(stack) - 1 -> Name]
      BY <1>8 DEF Path
    <2>3. QED
      BY <2>1, <2>2
  <1>10. QED
    BY <1>5, <1>7, <1>9

\* What the copies do to the repository, whatever they copy.
LEMMA CopyFacts ==
    ASSUME CopyGoesOn
    PROVE  /\ UNCHANGED <<disk, stack, processed, graph, runVars, spentVars>>
           /\ \/ \E d \in Image : manifests' = manifests \cup {d} /\ UNCHANGED <<locations, published>>
              \/ \E b \in Bundle : /\ {b} \cup Contents[b] \subseteq manifests
                                   /\ locations' = locations \cup {b} /\ UNCHANGED <<manifests, published>>
              \/ \E t \in UserTag : /\ Closure[Root] \subseteq manifests
                                    /\ Closure[Root] \cap Bundle \subseteq locations
                                    /\ published' = [published EXCEPT ![t] = Root]
                                    /\ UNCHANGED <<manifests, locations>>
  BY DEF CopyGoesOn, Copy!StoreImage, Copy!NoteBundle, Copy!Publish

\* A pull starts with one call.
LEMMA FirstCall ==
    Call(<<RootRepo, Root>>, RootRepo, "fetch") \in Frame
  <1>1. <<RootRepo, Root>> \in Name /\ <<RootRepo, Root>>[2] \in Bundle
    BY GraphAssumption, RegistryAssumption DEF Name
  <1>2. "fetch" \in Step /\ RootRepo \in Repo
    BY RegistryAssumption DEF Step
  <1>3. QED
    BY <1>1, <1>2, Calls

\* The states of the directories and of the bookkeeping that steps assign.
LEMMA WorkTyped ==
    ASSUME TypeOK, Work
    PROVE  /\ disk' \in [Bundle -> {"absent", "partial", "original"} \cup Repo]
           /\ processed' \subseteq Name
           /\ outcome' \in {"none", "running", "ok", "failed"}
           /\ faults' \in 0..MaxFaults /\ refusals' \in 0..MaxRefusals
           /\ UNCHANGED <<repoVars, recursive, whole, online, pulls>>
  <1>1. /\ disk \in [Bundle -> {"absent", "partial", "original"} \cup Repo]
        /\ processed \subseteq Name /\ outcome \in {"none", "running", "ok", "failed"}
        /\ faults \in 0..MaxFaults /\ refusals \in 0..MaxRefusals
    BY DEF TypeOK
  <1>2. stack # <<>>
    BY DEF Work, Fetch, Clear, Extract, Locate, NoLocations, Compare, NotRelocated, Relocated,
           Skip, PassContent, PullNested, Finish, CallFails, DiskFails, NotFound, InLoop, At
  <1>3. Self \in Bundle /\ Top.repo \in Repo
    BY <1>2, TopFacts, FrameFacts
  <1>4. Cleared(Self) \in [Bundle -> {"absent", "partial", "original"} \cup Repo]
    BY <1>1, <1>3 DEF Cleared
  <1>5. \A x \in {"partial", "original"} \cup Repo :
            [disk EXCEPT ![Self] = x] \in [Bundle -> {"absent", "partial", "original"} \cup Repo]
    BY <1>1
  <1>6. Fault => faults' \in 0..MaxFaults /\ UNCHANGED <<refusals, pulls>>
    BY <1>1, RegistryAssumption DEF Fault
  <1>7. refusals < MaxRefusals /\ refusals' = refusals + 1 => refusals' \in 0..MaxRefusals
    BY <1>1, RegistryAssumption
  <1>8. ~AtEnd => Entry \in Name
    BY <1>2, EntryFacts
  <1>9. CASE Fetch \/ Clear \/ Extract \/ Locate \/ Compare \/ Relocated \/ Skip
    <2>1. /\ disk' \in {disk, Cleared(Self), [disk EXCEPT ![Self] = "original"]}
          /\ UNCHANGED <<repoVars, processed, runVars, spentVars>>
      BY <1>9 DEF Fetch, Clear, Extract, Locate, Compare, Relocated, Skip, Continue
    <2>2. QED
      BY <1>1, <1>4, <1>5, <2>1 DEF runVars, spentVars
  <1>10. CASE NoLocations \/ NotRelocated
    <2>1. /\ UNCHANGED <<disk, repoVars, processed, runVars, pulls, faults>>
          /\ UNCHANGED refusals \/ (refusals < MaxRefusals /\ refusals' = refusals + 1)
      BY <1>10 DEF NoLocations, NotRelocated, Continue
    <2>2. QED
      BY <1>1, <1>7, <2>1 DEF runVars
  <1>11. CASE PassContent \/ PullNested
    <2>1. /\ UNCHANGED <<disk, repoVars, runVars, spentVars>>
          /\ processed' = processed \cup {Entry} /\ ~AtEnd
      BY <1>11 DEF PassContent, PullNested, Continue, InLoop
    <2>2. QED
      BY <1>1, <1>8, <2>1 DEF runVars, spentVars
  <1>12. CASE Finish
    <2>1. /\ UNCHANGED <<repoVars, processed, recursive, whole, online, spentVars>>
          /\ disk' \in {disk, [disk EXCEPT ![Self] = Top.repo]}
          /\ outcome' \in {"ok", outcome}
      BY <1>12 DEF Finish
    <2>2. QED
      BY <1>1, <1>3, <1>5, <2>1 DEF spentVars
  <1>13. CASE CallFails \/ DiskFails \/ NotFound
    <2>1. /\ UNCHANGED <<repoVars, processed, recursive, whole, online>> /\ outcome' = "failed"
          /\ disk' \in {disk, Cleared(Self), [disk EXCEPT ![Self] = "partial"]}
          /\ Fault \/ UNCHANGED spentVars
      BY <1>13 DEF CallFails, DiskFails, NotFound, Fail
    <2>2. QED
      BY <1>1, <1>4, <1>5, <1>6, <2>1 DEF spentVars
  <1>14. QED
    BY <1>9, <1>10, <1>11, <1>12, <1>13 DEF Work

\* The stack and the graph keep their types.
LEMMA WorkStack ==
    ASSUME TypeInv, Work
    PROVE  stack' \in Seq(Frame) /\ graph' \subseteq Seq(Name) /\ Callers'
  <1>1. TypeOK /\ Callers /\ stack \in Seq(Frame) /\ graph \subseteq Seq(Name)
    BY DEF TypeInv, TypeOK
  <1>2. CASE \/ Fetch \/ Clear \/ Extract \/ Locate \/ NoLocations \/ Compare \/ NotRelocated
             \/ Relocated \/ Skip \/ PassContent
    <2>1. UNCHANGED graph
      BY <1>2 DEF Fetch, Clear, Extract, Locate, NoLocations, Compare, NotRelocated, Relocated,
                  Skip, PassContent
    <2>2. QED
      BY <1>1, <1>2, <2>1, WithinCall, MovedTyped
  <1>3. CASE PullNested
    <2>1. UNCHANGED graph
      BY <1>3 DEF PullNested
    <2>2. QED
      BY <1>1, <1>3, <2>1, PushTyped
  <1>4. CASE Finish
    <2>1. CASE Len(stack) = 1
      <3>1. UNCHANGED <<stack, graph>>
        BY <1>4, <2>1 DEF Finish
      <3>2. QED
        BY <1>1, <3>1 DEF Callers
    <2>2. CASE Len(stack) # 1
      <3>1. graph' = graph \cup {Path}
        BY <1>4, <2>2 DEF Finish
      <3>2. QED
        BY <1>1, <1>4, <2>2, <3>1, PopTyped
    <2>3. QED
      BY <2>1, <2>2
  <1>5. CASE CallFails \/ DiskFails \/ NotFound
    <2>1. UNCHANGED <<stack, graph>>
      BY <1>5 DEF CallFails, DiskFails, NotFound, Fail
    <2>2. QED
      BY <1>1, <2>1 DEF Callers
  <1>6. QED
    BY <1>2, <1>3, <1>4, <1>5 DEF Work

\* What a new pull sets.
LEMMA PullFacts ==
    ASSUME TypeOK, Pull
    PROVE  /\ stack' = <<Call(<<RootRepo, Root>>, RootRepo, "fetch")>>
           /\ stack' \in Seq(Frame) /\ Callers' /\ pulls' \in 0..MaxPulls
           /\ processed' = {} /\ graph' = {} /\ outcome' = "running"
           /\ recursive' \in BOOLEAN /\ whole' = Published /\ online' \in BOOLEAN
           /\ UNCHANGED <<repoVars, disk, faults, refusals>>
  <1>1. stack' = <<Call(<<RootRepo, Root>>, RootRepo, "fetch")>>
    BY DEF Pull
  <1>2. stack' \in Seq(Frame)
    BY <1>1, FirstCall
  <1>3. Len(stack') = 1
    BY <1>1
  <1>4. Callers'
    BY <1>3 DEF Callers
  <1>5. pulls' \in 0..MaxPulls
    BY RegistryAssumption DEF Pull, TypeOK
  <1>6. QED
    BY <1>1, <1>2, <1>4, <1>5 DEF Pull

\* The directory is as an earlier user left it, and nothing is pulled.
LEMMA InitTyped == Init => TypeInv
  <1> SUFFICES ASSUME Init PROVE TypeInv
    OBVIOUS
  <1>1. manifests = {} /\ locations = {} /\ published = [t \in UserTag |-> None]
    BY DEF Init, Copy!Init
  <1>2. stack = <<>> /\ Callers
    BY DEF Init, Callers
  <1>3. disk \in [Bundle -> {"absent", "partial", "original"} \cup Repo]
    BY DEF Init
  <1>4. stack \in Seq(Frame)
    BY <1>2
  <1>5. manifests \subseteq Image /\ locations \subseteq Bundle
    BY <1>1
  <1>6. published \in [UserTag -> Image \cup {None}]
    BY <1>1
  <1>7. pulls \in 0..MaxPulls /\ faults \in 0..MaxFaults /\ refusals \in 0..MaxRefusals
    BY RegistryAssumption DEF Init
  <1>8. /\ processed \subseteq Name /\ graph \subseteq Seq(Name) /\ recursive \in BOOLEAN
        /\ whole \in BOOLEAN /\ online \in BOOLEAN
        /\ outcome \in {"none", "running", "ok", "failed"}
    BY DEF Init
  <1>9. QED
    BY <1>2, <1>3, <1>4, <1>5, <1>6, <1>7, <1>8 DEF TypeInv, TypeOK

\* Every step keeps the types.
LEMMA TypeStep == TypeInv /\ [Next]_vars => TypeInv'
  <1> SUFFICES ASSUME TypeInv, [Next]_vars PROVE TypeInv'
    OBVIOUS
  <1>1. TypeOK /\ Callers
    BY DEF TypeInv
  <1>2. CASE Pull
    <2>1. whole' \in BOOLEAN
      BY <1>1, <1>2, PullFacts DEF Published
    <2>2. QED
      BY <1>1, <1>2, <2>1, PullFacts DEF TypeInv, TypeOK, repoVars
  <1>3. CASE Work
    <2>1. TypeOK'
      BY <1>1, <1>3, WorkTyped, WorkStack DEF TypeInv, TypeOK, repoVars
    <2>2. QED
      BY <1>1, <1>3, <2>1, WorkStack DEF TypeInv
  <1>4. CASE CopyGoesOn
    <2>1. /\ manifests' \subseteq Image /\ locations' \subseteq Bundle
          /\ published' \in [UserTag -> Image \cup {None}]
      BY <1>1, <1>4, CopyFacts, GraphAssumption DEF TypeOK
    <2>2. UNCHANGED <<disk, stack, processed, graph, runVars, spentVars>>
      BY <1>4, CopyFacts
    <2>3. Callers'
      BY <1>1, <2>2 DEF Callers
    <2>4. TypeOK'
      BY <1>1, <2>1, <2>2 DEF TypeOK, runVars, spentVars
    <2>5. QED
      BY <2>3, <2>4 DEF TypeInv
  <1>5. CASE UNCHANGED vars
    <2>1. UNCHANGED <<manifests, locations, published, disk, stack, processed, graph, recursive,
                      outcome, whole, online, pulls, faults, refusals>>
      BY <1>5 DEF vars, repoVars, runVars, spentVars
    <2>2. TypeOK'
      BY <1>1, <2>1 DEF TypeOK
    <2>3. Callers'
      BY <1>1, <2>1 DEF Callers
    <2>4. QED
      BY <2>2, <2>3 DEF TypeInv
  <1>6. QED
    BY <1>2, <1>3, <1>4, <1>5 DEF Next, Terminated

\* For every graph and registry, the state of the pulls keeps its types.
THEOREM TypesCorrect == Spec => []TypeOK
  <1>1. TypeInv => TypeOK
    BY DEF TypeInv
  <1>2. QED
    BY <1>1, InitTyped, TypeStep, PTL DEF Spec
--------------------------------------------------------------------------------
(* Locks that can be trusted *)

Stored(r) == IF r = RootRepo THEN manifests ELSE Elsewhere[r]

\* A locations image in the repository is a promise kept.
LocationsKept == \A b \in locations : Contents[b] \subseteq manifests

\* What a call has found out about its repository is true.
Sound == {f \in Frame :
            /\ f.step \notin {"compare", "walk"} => f.next = 1
            /\ f.step = "compare" =>
                   \A i \in 1..f.next - 1 : List[f.name[2]][i][2] \in Stored(f.repo)
            /\ f.relocated => f.step = "walk" /\ Contents[f.name[2]] \subseteq Stored(f.repo)}

TrustInv == TypeInv /\ LocationsKept /\ stack \in Seq(Sound) /\ LocksTrusted

\* Repositories lose nothing.
LEMMA Monotone ==
    ASSUME TypeInv, [Next]_vars
    PROVE  manifests \subseteq manifests' /\ \A r \in Repo : Stored(r) \subseteq Stored(r)'
  <1>1. manifests \subseteq manifests'
    <2>1. CASE Pull
      BY <2>1 DEF Pull, repoVars
    <2>2. CASE Work
      BY <2>2, WorkTyped DEF TypeInv, repoVars
    <2>3. CASE CopyGoesOn
      BY <2>3, CopyFacts
    <2>4. CASE UNCHANGED vars
      BY <2>4 DEF vars, repoVars
    <2>5. QED
      BY <2>1, <2>2, <2>3, <2>4 DEF Next, Terminated
  <1>2. QED
    BY <1>1 DEF Stored

\* What was sound stays so.
LEMMA SoundGrows ==
    ASSUME TypeInv, [Next]_vars
    PROVE  Sound \subseteq Sound'
  <1>1. ASSUME NEW f \in Sound PROVE f \in Sound'
    <2>1. f \in Frame /\ f.repo \in Repo
      BY FrameFacts DEF Sound
    <2>2. Stored(f.repo) \subseteq Stored(f.repo)'
      BY <2>1, Monotone
    <2>3. QED
      BY <2>1, <2>2 DEF Sound
  <1>2. QED
    BY <1>1

\* An image that a lookup finds is stored.
LEMMA HoldsMeansStored ==
    ASSUME NEW r, NEW d, Holds(r, d)
    PROVE  d \in Stored(r)
  BY DEF Holds, Stored

\* A locations image, wherever it is, can be trusted.
LEMMA LocatedMeansStored ==
    ASSUME LocationsKept, NEW r \in Repo, NEW b \in Bundle, Located(r, b)
    PROVE  Contents[b] \subseteq Stored(r)
  <1>1. CASE r = RootRepo
    BY <1>1 DEF Located, LocationsKept, Stored
  <1>2. CASE r # RootRepo
    BY <1>2, RegistryAssumption DEF Located, Stored
  <1>3. QED
    BY <1>1, <1>2

\* When the comparison is at its end, all images were found.
LEMMA ComparedAll ==
    ASSUME TypeOK, stack # <<>>, stack \in Seq(Sound), Top.step = "compare", AtEnd
    PROVE  Contents[Self] \subseteq Stored(Top.repo)
  <1>1. Top \in Sound
    BY Elements DEF Top
  <1>2. Top \in Frame /\ Self \in Bundle
    BY TopFacts
  <1>3. List[Self] \in Seq(Name) /\ Top.next \in Nat
    BY <1>2, FrameFacts DEF Self
  <1>4. ASSUME NEW i \in DOMAIN List[Self] PROVE List[Self][i][2] \in Stored(Top.repo)
    <2>1. i \in 1..Top.next - 1
      BY <1>3 DEF AtEnd
    <2>2. QED
      BY <1>1, <2>1 DEF Sound, Self
  <1>5. QED
    BY <1>2, <1>4 DEF Contents, Entries

\* The steps within a call leave sound what they put on top of the stack.
LEMMA SoundMoves ==
    ASSUME TypeOK, LocationsKept, stack \in Seq(Sound),
           \/ Fetch \/ Clear \/ Extract \/ Locate \/ NoLocations \/ Compare \/ NotRelocated
           \/ Relocated \/ Skip \/ PassContent
    PROVE  stack # <<>> /\ \E f \in Sound : SetTop(f)
  <1>1. stack # <<>>
    BY WithinCall
  <1>2. Top \in Sound /\ Top \in Frame /\ Self \in Bundle
    BY <1>1, Elements, TopFacts DEF Top
  <1>3. {"clear", "layers", "locate", "compare"} \subseteq Step
    BY DEF Step
  <1>4. /\ \A s \in Step : /\ [Top EXCEPT !.step = s].step = s
                           /\ [Top EXCEPT !.step = s].next = Top.next
                           /\ [Top EXCEPT !.step = s].relocated = Top.relocated
        /\ [Top EXCEPT !.next = @ + 1] = [name |-> Top.name, repo |-> Top.repo, step |-> Top.step,
               next |-> Top.next + 1, located |-> Top.located, relocated |-> Top.relocated]
    BY <1>2, FrameFacts
  <1>5. CASE Fetch \/ Clear \/ Extract \/ NoLocations
    <2>1. /\ Top.step \notin {"compare", "walk"}
          /\ \E s \in {"clear", "layers", "locate", "compare"} : SetTop([Top EXCEPT !.step = s])
      BY <1>5 DEF Fetch, Clear, Extract, NoLocations, Goto, At
    <2>2. ~Top.relocated /\ Top.next = 1
      BY <1>2, <2>1 DEF Sound
    <2>3. ASSUME NEW s \in {"clear", "layers", "locate", "compare"}
          PROVE  [Top EXCEPT !.step = s] \in Sound
      <3> DEFINE f == [Top EXCEPT !.step = s]
      <3>1. f \in Frame
        BY <1>1, <1>3, Moves
      <3>2. f.step = s /\ ~f.relocated /\ f.next = 1
        BY <1>3, <1>4, <2>2
      <3> HIDE DEF f
      <3>3. 1..f.next - 1 = {}
        BY <3>2
      <3>4. f \in Sound
        BY <3>1, <3>2, <3>3 DEF Sound
      <3>5. QED
        BY <3>4 DEF f
    <2>4. QED
      BY <1>1, <2>1, <2>3
  <1>6. CASE Compare
    <2> DEFINE f == [Top EXCEPT !.next = @ + 1]
    <2>1. Top.step = "compare" /\ ~AtEnd /\ Holds(Top.repo, Entry[2]) /\ SetTop(f)
      BY <1>6 DEF Compare, At, Advance
    <2>2. f \in Frame
      BY <1>1, <2>1, Moves
    <2>3. /\ f.name = Top.name /\ f.repo = Top.repo /\ f.step = "compare"
          /\ f.next = Top.next + 1 /\ f.relocated = Top.relocated
      BY <1>4, <2>1
    <2> HIDE DEF f
    <2>4. ~f.relocated
      BY <1>2, <2>1, <2>3 DEF Sound
    <2>5. ASSUME NEW i \in 1..f.next - 1 PROVE List[f.name[2]][i][2] \in Stored(f.repo)
      <3>1. Top.next \in Nat
        BY <1>2, FrameFacts
      <3>2. CASE i = Top.next
        <4>1. Entry[2] \in Stored(Top.repo)
          BY <2>1, HoldsMeansStored
        <4>2. QED
          BY <2>3, <3>2, <4>1 DEF Entry, Self
      <3>3. CASE i # Top.next
        <4>1. i \in 1..Top.next - 1
          BY <2>3, <3>1, <3>3
        <4>2. QED
          BY <1>2, <2>1, <2>3, <4>1 DEF Sound
      <3>4. QED
        BY <3>2, <3>3
    <2>6. f \in Sound
      BY <2>2, <2>3, <2>4, <2>5 DEF Sound
    <2>7. QED
      BY <1>1, <2>1, <2>6
  <1>7. CASE Skip \/ PassContent
    <2> DEFINE f == [Top EXCEPT !.next = @ + 1]
    <2>1. Top.step = "walk" /\ ~AtEnd /\ SetTop(f)
      BY <1>7 DEF Skip, PassContent, InLoop, At, Advance
    <2>2. f \in Frame
      BY <1>1, <2>1, Moves
    <2>3. /\ f.name = Top.name /\ f.repo = Top.repo /\ f.step = "walk" /\ f.relocated = Top.relocated
      BY <1>4, <2>1
    <2> HIDE DEF f
    <2>4. f \in Sound
      BY <1>2, <2>2, <2>3 DEF Sound
    <2>5. QED
      BY <1>1, <2>1, <2>4
  <1>8. CASE Locate
    <2> DEFINE f == [Top EXCEPT !.step = "walk", !.located = TRUE, !.relocated = TRUE]
    <2>1. Located(Top.repo, Self) /\ SetTop(f)
      BY <1>8 DEF Locate
    <2>2. f \in Frame
      BY <1>1, Moves
    <2>3. f.name = Top.name /\ f.repo = Top.repo /\ f.step = "walk"
      BY <1>2, FrameFacts
    <2>4. Contents[Self] \subseteq Stored(Top.repo)
      BY <1>2, <2>1, LocatedMeansStored, FrameFacts
    <2> HIDE DEF f
    <2>5. f \in Sound
      BY <2>2, <2>3, <2>4 DEF Sound, Self
    <2>6. QED
      BY <1>1, <2>1, <2>5
  <1>9. CASE NotRelocated
    <2> DEFINE f == [Top EXCEPT !.step = "walk", !.next = 1]
    <2>1. Top.step = "compare" /\ SetTop(f)
      BY <1>9 DEF NotRelocated, At
    <2>2. f \in Frame
      BY <1>1, Moves
    <2>3. f.step = "walk" /\ f.relocated = Top.relocated
      BY <1>2, FrameFacts
    <2>4. ~Top.relocated
      BY <1>2, <2>1 DEF Sound
    <2> HIDE DEF f
    <2>5. f \in Sound
      BY <2>2, <2>3, <2>4 DEF Sound
    <2>6. QED
      BY <1>1, <2>1, <2>5
  <1>10. CASE Relocated
    <2> DEFINE f == [Top EXCEPT !.step = "walk", !.next = 1, !.relocated = TRUE]
    <2>1. Top.step = "compare" /\ AtEnd /\ SetTop(f)
      BY <1>10 DEF Relocated, At
    <2>2. f \in Frame
      BY <1>1, Moves
    <2>3. f.name = Top.name /\ f.repo = Top.repo /\ f.step = "walk"
      BY <1>2, FrameFacts
    <2>4. Contents[Self] \subseteq Stored(Top.repo)
      BY <1>1, <2>1, ComparedAll
    <2> HIDE DEF f
    <2>5. f \in Sound
      BY <2>2, <2>3, <2>4 DEF Sound, Self
    <2>6. QED
      BY <1>1, <2>1, <2>5
  <1>11. QED
    BY <1>5, <1>6, <1>7, <1>8, <1>9, <1>10

\* A new call knows nothing yet.
LEMMA NewCallSound ==
    ASSUME NEW name, NEW repo, NEW step \in {"fetch", "clear"}, Call(name, repo, step) \in Frame
    PROVE  Call(name, repo, step) \in Sound
  BY DEF Sound, Call

\* The stack stays sound.
LEMMA SoundStep ==
    ASSUME TrustInv, [Next]_vars
    PROVE  stack' \in Seq(Sound')
  <1>1. TypeInv /\ TypeOK /\ LocationsKept /\ stack \in Seq(Sound) /\ Sound \subseteq Sound'
    BY SoundGrows DEF TrustInv, TypeInv
  <1>2. CASE UNCHANGED stack
    BY <1>1, <1>2, Widen
  <1>3. CASE Pull
    <2>1. stack' = <<Call(<<RootRepo, Root>>, RootRepo, "fetch")>>
      BY <1>1, <1>3, PullFacts
    <2>2. Call(<<RootRepo, Root>>, RootRepo, "fetch") \in Sound
      BY FirstCall, NewCallSound
    <2>3. QED
      BY <1>1, <2>1, <2>2
  <1>4. CASE \/ Fetch \/ Clear \/ Extract \/ Locate \/ NoLocations \/ Compare \/ NotRelocated
             \/ Relocated \/ Skip \/ PassContent
    <2>1. stack # <<>> /\ \E f \in Sound : SetTop(f)
      BY <1>1, <1>4, SoundMoves
    <2>2. stack' \in Seq(Sound)
      BY <1>1, <2>1, ReplaceTop DEF SetTop
    <2>3. QED
      BY <1>1, <2>2, Widen
  <1>5. CASE PullNested
    <2>1. PICK s \in {"fetch", "clear"} : stack' = Append(stack, Call(Entry, PrimaryLocation[1], s))
      BY <1>1, <1>5, NestedFacts
    <2>2. Call(Entry, PrimaryLocation[1], s) \in Frame
      <3>1. s \in Step
        BY DEF Step
      <3>2. QED
        BY <1>1, <1>5, <3>1, NestedFacts, Calls
    <2>3. Call(Entry, PrimaryLocation[1], s) \in Sound
      BY <2>2, NewCallSound
    <2>4. stack' \in Seq(Sound)
      BY <1>1, <2>1, <2>3
    <2>5. QED
      BY <1>1, <2>4, Widen
  <1>6. CASE Finish /\ Len(stack) # 1
    <2> DEFINE c == stack[Len(stack) - 1]
    <2> DEFINE f == [c EXCEPT !.next = @ + 1]
    <2>1. stack # <<>>
      BY <1>6 DEF Finish, At
    <2>2. Len(stack) > 1 /\ Len(stack) - 1 \in 1..Len(stack) /\ f \in Frame
      BY <1>1, <1>6, <2>1, PopFacts
    <2>3. c \in Sound /\ c \in Frame
      BY <1>1, <2>1, <2>2, Elements DEF Sound
    <2>4. c.step = "walk"
      <3>1. Len(stack) - 1 \in 1..Len(stack) - 1
        BY <2>2
      <3>2. QED
        BY <1>1, <3>1 DEF TypeInv, Callers
    <2>5. stack' = [n \in 1..Len(stack) - 1 |-> IF n = Len(stack) - 1 THEN f ELSE stack[n]]
      BY <1>6 DEF Finish
    <2> HIDE DEF c
    <2>6. f.name = c.name /\ f.repo = c.repo /\ f.step = c.step /\ f.relocated = c.relocated
      BY <2>3, FrameFacts
    <2> HIDE DEF f
    <2>7. f \in Sound
      BY <2>2, <2>3, <2>4, <2>6 DEF Sound
    <2>8. stack' \in Seq(Sound)
      BY <1>1, <2>2, <2>5, <2>7, PopTop
    <2>9. QED
      BY <1>1, <2>8, Widen
  <1>7. CASE (Finish /\ Len(stack) = 1) \/ CallFails \/ DiskFails \/ NotFound \/ CopyGoesOn \/ UNCHANGED vars
    <2>1. UNCHANGED stack
      BY <1>7 DEF Finish, CallFails, DiskFails, NotFound, Fail, CopyGoesOn, vars
    <2>2. QED
      BY <1>2, <2>1
  <1>8. QED
    BY <1>3, <1>4, <1>5, <1>6, <1>7 DEF Next, Work, Terminated

\* Locations images stay promises kept.
LEMMA LocationsStep ==
    ASSUME TrustInv, [Next]_vars
    PROVE  LocationsKept'
  <1>1. TypeInv /\ TypeOK /\ LocationsKept /\ manifests \subseteq manifests'
    BY Monotone DEF TrustInv, TypeInv
  <1>2. CASE UNCHANGED locations
    BY <1>1, <1>2 DEF LocationsKept
  <1>3. CASE CopyGoesOn /\ ~UNCHANGED locations
    <2>1. PICK b \in Bundle : Contents[b] \subseteq manifests /\ locations' = locations \cup {b}
      BY <1>3, CopyFacts
    <2>2. QED
      BY <1>1, <2>1 DEF LocationsKept
  <1>4. Pull \/ Work \/ UNCHANGED vars => UNCHANGED locations
    BY <1>1, PullFacts, WorkTyped DEF repoVars, vars
  <1>5. QED
    BY <1>2, <1>3, <1>4 DEF Next, Terminated

\* What work does to a directory: it leaves it, puts it in a state in which its
\* ImagesLock is not rewritten, or rewrites that, with all images stored.
LEMMA DiskFacts ==
    ASSUME TypeOK, stack \in Seq(Sound), Work, NEW b \in Bundle
    PROVE  \/ disk'[b] \in {disk[b], "absent", "partial", "original"}
           \/ disk'[b] \in Repo /\ Contents[b] \subseteq Stored(disk'[b])
  <1>1. disk \in [Bundle -> {"absent", "partial", "original"} \cup Repo]
    BY DEF TypeOK
  <1>2. stack # <<>>
    BY DEF Work, Fetch, Clear, Extract, Locate, NoLocations, Compare, NotRelocated, Relocated,
           Skip, PassContent, PullNested, Finish, CallFails, DiskFails, NotFound, InLoop, At
  <1>3. Self \in Bundle /\ Top \in Sound /\ Top.repo \in Repo
    BY <1>2, TopFacts, FrameFacts, Elements DEF Top
  <1>4. Cleared(Self)[b] \in {disk[b], "absent", "partial"}
    BY DEF Cleared
  <1>5. \A x \in {"partial", "original"} : [disk EXCEPT ![Self] = x][b] \in {disk[b], x}
    BY <1>1
  <1>6. CASE Finish /\ Top.relocated
    <2>1. disk' = [disk EXCEPT ![Self] = Top.repo]
      BY <1>6 DEF Finish
    <2>2. Contents[Self] \subseteq Stored(Top.repo)
      BY <1>3, <1>6 DEF Sound, Self
    <2>3. CASE b = Self
      BY <1>1, <1>3, <2>1, <2>2, <2>3
    <2>4. CASE b # Self
      BY <1>1, <2>1, <2>4
    <2>5. QED
      BY <2>3, <2>4
  <1>7. CASE ~(Finish /\ Top.relocated)
    <2>1. disk' \in {disk, Cleared(Self), [disk EXCEPT ![Self] = "original"],
                     [disk EXCEPT ![Self] = "partial"]}
      BY <1>7 DEF Work, Fetch, Clear, Extract, Locate, NoLocations, Compare, NotRelocated, Relocated,
             Skip, PassContent, PullNested, Finish, CallFails, DiskFails, NotFound
    <2>2. QED
      BY <1>4, <1>5, <2>1
  <1>8. QED
    BY <1>6, <1>7

\* Locks that can be trusted stay so.
LEMMA LocksStep ==
    ASSUME TrustInv, [Next]_vars
    PROVE  LocksTrusted'
  <1>1. TypeInv /\ TypeOK /\ stack \in Seq(Sound) /\ LocksTrusted
    BY DEF TrustInv, TypeInv
  <1>2. ASSUME NEW b \in Bundle, NEW r \in Repo, disk'[b] = r
        PROVE  Contents[b] \subseteq IF r = RootRepo THEN manifests' ELSE Elsewhere[r]
    <2>1. Stored(r) \subseteq IF r = RootRepo THEN manifests' ELSE Elsewhere[r]
      BY <1>1, Monotone DEF Stored
    <2>2. disk[b] = r => Contents[b] \subseteq Stored(r)
      BY <1>1 DEF LocksTrusted, Stored
    <2>3. CASE Work
      <3>1. r \notin {"absent", "partial", "original"}
        BY RegistryAssumption
      <3>2. disk[b] = r \/ Contents[b] \subseteq Stored(r)
        BY <1>1, <1>2, <2>3, <3>1, DiskFacts
      <3>3. QED
        BY <2>1, <2>2, <3>2
    <2>4. Pull \/ CopyGoesOn \/ UNCHANGED vars => UNCHANGED disk
      BY <1>1, PullFacts, CopyFacts DEF vars
    <2>5. QED
      BY <1>2, <2>1, <2>2, <2>3, <2>4 DEF Next, Terminated
  <1>3. QED
    BY <1>2 DEF LocksTrusted

\* For every graph and registry: a rewritten ImagesLock names only images that are
\* where it says, whatever is copied, pulled, killed or refused.
THEOREM LocksAreTrusted == Spec => []LocksTrusted
  <1>1. Init => TrustInv
    <2> SUFFICES ASSUME Init PROVE TrustInv
      OBVIOUS
    <2>1. TypeInv
      BY InitTyped
    <2>2. locations = {} /\ stack = <<>> /\ disk = [b \in Bundle |-> "absent"]
      BY DEF Init, Copy!Init
    <2>3. stack \in Seq(Sound) /\ LocationsKept
      BY <2>2 DEF LocationsKept
    <2>4. LocksTrusted
      BY <2>2, RegistryAssumption DEF LocksTrusted
    <2>5. QED
      BY <2>1, <2>3, <2>4 DEF TrustInv
  <1>2. TrustInv /\ [Next]_vars => TrustInv'
    BY TypeStep, LocationsStep, SoundStep, LocksStep DEF TrustInv
  <1>3. TrustInv => LocksTrusted
    BY DEF TrustInv
  <1>4. QED
    BY <1>1, <1>2, <1>3, PTL DEF Spec
--------------------------------------------------------------------------------
(* Bundles that were copied as a whole *)

RepoWhole == Closure[Root] \subseteq manifests /\ Closure[Root] \cap Bundle \subseteq locations

\* A tag promises the whole bundle, and what was promised when the pull began is kept.
WholeInv == (Published => RepoWhole) /\ (whole => RepoWhole)

\* The pull began after the copy was over, and no lookup was refused.
Copied == whole /\ refusals = 0

\* The calls of such a pull: below the root, in its repository, and without a comparison.
LocalFrame == {f \in Frame : /\ f.repo = RootRepo /\ f.name[2] \in Closure[Root]
                             /\ f.step # "compare" /\ (f.step = "walk" => f.relocated)}

OnStack == {stack[n].name[2] : n \in 1..Len(stack)}

\* Until the directory of the root is cleared, it holds what earlier pulls left.
NotCleared == Len(stack) = 1 /\ Top.step \in {"fetch", "clear"}

LocalDisk == /\ outcome = "running" /\ ~NotCleared =>
                    \A b \in OnDisk : disk[b] = RootRepo \/ b \in OnStack
             /\ outcome = "ok" => \A b \in OnDisk : disk[b] = RootRepo

Local == /\ stack \in Seq(LocalFrame) /\ (stack # <<>> => stack[1].name[2] = Root)
         /\ LocalDisk /\ (outcome = "failed" => faults > 0)

LocalInv == TypeInv /\ WholeInv /\ (Copied => Local)

\* All that a bundle lists is below whatever the bundle is below.
LEMMA ContentsBelow ==
    ASSUME NEW b \in Bundle, b \in Closure[Root], NEW d \in Contents[b]
    PROVE  d \in Closure[Root]
  <1>1. Root \in Image
    BY GraphAssumption
  <1>2. Contents[b] \subseteq Closure[Root]
    BY <1>1, GraphAssumption
  <1>3. QED
    BY <1>2

\* A repository that has the whole bundle goes on having it, and promises are kept.
LEMMA WholeStep ==
    ASSUME TypeInv, WholeInv, [Next]_vars
    PROVE  WholeInv'
  <1>1. TypeOK /\ (Published => RepoWhole) /\ (whole => RepoWhole)
    BY DEF TypeInv, WholeInv
  <1>2. CASE Pull
    <2>1. UNCHANGED repoVars /\ whole' = Published
      BY <1>1, <1>2, PullFacts
    <2>2. QED
      BY <1>1, <2>1 DEF WholeInv, RepoWhole, Published, repoVars
  <1>3. CASE Work \/ UNCHANGED vars
    <2>1. UNCHANGED <<repoVars, whole>>
      BY <1>1, <1>3, WorkTyped DEF vars, runVars
    <2>2. QED
      BY <1>1, <2>1 DEF WholeInv, RepoWhole, Published, repoVars
  <1>4. CASE CopyGoesOn
    <2>1. UNCHANGED whole
      BY <1>4, CopyFacts DEF runVars
    <2>2. RepoWhole => RepoWhole'
      BY <1>4, CopyFacts DEF RepoWhole
    <2>3. Published' => RepoWhole'
      <3>1. CASE UNCHANGED published
        BY <1>1, <2>2, <3>1 DEF Published
      <3>2. CASE ~UNCHANGED published
        BY <1>4, <3>2, CopyFacts DEF RepoWhole
      <3>3. QED
        BY <3>1, <3>2
    <2>4. QED
      BY <1>1, <2>1, <2>2, <2>3 DEF WholeInv
  <1>5. QED
    BY <1>2, <1>3, <1>4 DEF Next, Terminated

\* What such a call knows.
LEMMA LocalTop ==
    ASSUME TypeOK, RepoWhole, stack \in Seq(LocalFrame), stack # <<>>
    PROVE  /\ Top \in LocalFrame /\ Top \in Frame /\ Self \in Bundle
           /\ Top.repo = RootRepo /\ Self \in Closure[Root] /\ Self \in manifests /\ Self \in locations
           /\ Top.step # "compare" /\ (Top.step = "walk" => Top.relocated)
           /\ Holds(Top.repo, Self) /\ Located(Top.repo, Self)
  <1>1. Top \in LocalFrame /\ Top \in Frame /\ Self \in Bundle
    BY Elements, TopFacts DEF Top
  <1>2. /\ Top.repo = RootRepo /\ Self \in Closure[Root]
        /\ Top.step # "compare" /\ (Top.step = "walk" => Top.relocated)
    BY <1>1 DEF LocalFrame, Self
  <1>3. Self \in manifests /\ Self \in locations
    BY <1>1, <1>2 DEF RepoWhole
  <1>4. QED
    BY <1>1, <1>2, <1>3 DEF Holds, Located

\* What it lists is where it looks.
LEMMA LocalEntry ==
    ASSUME TypeOK, RepoWhole, stack \in Seq(LocalFrame), InLoop
    PROVE  /\ Entry[2] \in Closure[Root] /\ PrimaryLocation[1] = RootRepo
           /\ Holds(PrimaryLocation[1], Entry[2])
  <1>1. stack # <<>> /\ ~AtEnd /\ Top.step = "walk"
    BY DEF InLoop, At
  <1>2. Entry[2] \in Contents[Self]
    BY <1>1, EntryFacts
  <1>3. Entry[2] \in Closure[Root]
    BY <1>1, <1>2, LocalTop, ContentsBelow
  <1>4. PrimaryLocation[1] = RootRepo
    BY <1>1, LocalTop DEF PrimaryLocation
  <1>5. QED
    BY <1>3, <1>4 DEF RepoWhole, Holds

\* The steps within a call leave a call of this kind, for the same bundle.
LEMMA LocalMoves ==
    ASSUME TypeOK, RepoWhole, stack \in Seq(LocalFrame), refusals' = refusals,
           \/ Fetch \/ Clear \/ Extract \/ Locate \/ NoLocations \/ Compare \/ NotRelocated
           \/ Relocated \/ Skip \/ PassContent
    PROVE  \E f \in LocalFrame : f.name = Top.name /\ SetTop(f)
  <1>1. stack # <<>>
    BY WithinCall
  <1>2. /\ Top \in Frame /\ Top.repo = RootRepo /\ Top.name[2] \in Closure[Root]
        /\ Top.step # "compare" /\ (Top.step = "walk" => Top.relocated)
    BY <1>1, LocalTop DEF Self
  <1>3. {"clear", "layers", "locate", "compare"} \subseteq Step
    BY DEF Step
  <1>4. CASE Fetch \/ Clear \/ Extract
    <2>1. PICK s \in {"clear", "layers", "locate"} : SetTop([Top EXCEPT !.step = s])
      BY <1>4 DEF Fetch, Clear, Extract, Goto
    <2> DEFINE f == [Top EXCEPT !.step = s]
    <2>2. f \in Frame
      BY <1>1, <1>3, Moves
    <2>3. f.name = Top.name /\ f.repo = Top.repo /\ f.step = s
      BY <1>2, FrameFacts
    <2>4. SetTop(f)
      BY <2>1
    <2> HIDE DEF f
    <2>5. f \in LocalFrame
      BY <1>2, <2>2, <2>3 DEF LocalFrame
    <2>6. QED
      BY <2>3, <2>4, <2>5
  <1>5. CASE Locate
    <2> DEFINE f == [Top EXCEPT !.step = "walk", !.located = TRUE, !.relocated = TRUE]
    <2>1. SetTop(f)
      BY <1>5 DEF Locate
    <2>2. f \in Frame
      BY <1>1, Moves
    <2>3. f.name = Top.name /\ f.repo = Top.repo /\ f.step = "walk" /\ f.relocated
      BY <1>2, FrameFacts
    <2> HIDE DEF f
    <2>4. f \in LocalFrame
      BY <1>2, <2>2, <2>3 DEF LocalFrame
    <2>5. QED
      BY <2>1, <2>3, <2>4
  <1>6. CASE Skip \/ PassContent
    <2> DEFINE f == [Top EXCEPT !.next = @ + 1]
    <2>1. Top.step = "walk" /\ ~AtEnd /\ SetTop(f)
      BY <1>6 DEF Skip, PassContent, InLoop, At, Advance
    <2>2. f \in Frame
      BY <1>1, <2>1, Moves
    <2>3. f.name = Top.name /\ f.repo = Top.repo /\ f.step = "walk" /\ f.relocated
      BY <1>2, <2>1, FrameFacts
    <2> HIDE DEF f
    <2>4. f \in LocalFrame
      BY <1>2, <2>2, <2>3 DEF LocalFrame
    <2>5. QED
      BY <2>1, <2>3, <2>4
  <1>7. ~NoLocations
    <2>1. refusals \in Nat
      BY RegistryAssumption DEF TypeOK
    <2>2. Located(Top.repo, Self)
      BY <1>1, LocalTop
    <2>3. QED
      BY <2>1, <2>2 DEF NoLocations
  <1>8. ~(Compare \/ NotRelocated \/ Relocated)
    BY <1>2 DEF Compare, NotRelocated, Relocated, At
  <1>9. QED
    BY <1>4, <1>5, <1>6, <1>7, <1>8

\* Directories during the steps within a call: after the root cleared its own, only
\* calls on the stack have one without a rewritten ImagesLock.
LEMMA LocalWithinCall ==
    ASSUME TypeInv, RepoWhole, Local, refusals' = refusals,
           \/ Fetch \/ Clear \/ Extract \/ Locate \/ NoLocations \/ Compare \/ NotRelocated
           \/ Relocated \/ Skip \/ PassContent
    PROVE  Local'
  <1>1. TypeOK /\ stack \in Seq(LocalFrame) /\ LocalDisk
    BY DEF TypeInv, Local
  <1>2. PICK f \in LocalFrame : f.name = Top.name /\ SetTop(f)
    BY <1>1, LocalMoves
  <1>3. stack # <<>> /\ Len(stack) \in Nat \ {0} /\ stack[1].name[2] = Root
    BY <1>1, WithinCall, Elements DEF Local
  <1>4. /\ Len(stack') = Len(stack) /\ stack' # <<>>
        /\ \A n \in 1..Len(stack) : stack'[n] = IF n = Len(stack) THEN f ELSE stack[n]
    BY <1>1, <1>2, <1>3 DEF SetTop
  <1>5. \A n \in 1..Len(stack) : stack'[n].name = stack[n].name
    BY <1>2, <1>4 DEF Top
  <1>6. stack' \in Seq(LocalFrame) /\ stack'[1].name[2] = Root
    <2>1. stack' \in Seq(LocalFrame)
      BY <1>1, <1>2, <1>3, ReplaceTop DEF SetTop
    <2>2. 1 \in 1..Len(stack)
      BY <1>3
    <2>3. QED
      BY <1>3, <1>5, <2>1, <2>2
  <1>7. OnStack' = OnStack
    BY <1>4, <1>5 DEF OnStack
  <1>8. outcome = "running" /\ UNCHANGED outcome
    BY DEF Fetch, Clear, Extract, Locate, NoLocations, Compare, NotRelocated, Relocated, Skip,
           PassContent, Continue, runVars, InLoop, At
  <1>9. Self \in OnStack /\ Self \in Bundle
    BY <1>1, <1>3, TopFacts DEF OnStack, Self, Top
  <1>10. disk \in [Bundle -> {"absent", "partial", "original"} \cup Repo]
    BY <1>1 DEF TypeOK
  <1>11. ASSUME ~NotCleared', NEW b \in OnDisk'
         PROVE  disk'[b] = RootRepo \/ b \in OnStack
    <2>1. b \in Bundle /\ disk'[b] # "absent"
      BY <1>11 DEF OnDisk
    <2>2. CASE Fetch
      <3>1. UNCHANGED disk /\ Top.step = "fetch" /\ Goto("clear")
        BY <2>2 DEF Fetch, At
      <3>2. stack'[Len(stack)].step = "clear"
        <4>1. Top \in Frame
          BY <1>1, <1>3, TopFacts
        <4>2. [Top EXCEPT !.step = "clear"].step = "clear"
          BY <4>1, FrameFacts
        <4>3. stack'[Len(stack)] = [Top EXCEPT !.step = "clear"]
          BY <1>1, <1>3, <3>1 DEF Goto, SetTop
        <4>4. QED
          BY <4>2, <4>3
      <3>3. Len(stack) # 1
        BY <1>4, <1>11, <3>2 DEF NotCleared, Top
      <3>4. QED
        BY <1>1, <1>8, <2>1, <3>1, <3>3 DEF LocalDisk, NotCleared, OnDisk
    <2>3. CASE Clear
      <3>1. disk' = Cleared(Self)
        BY <2>3 DEF Clear
      <3>2. CASE Len(stack) = 1
        <4>1. Self = Root
          BY <1>3, <3>2 DEF Self, Top
        <4>2. b = Self
          BY <2>1, <3>1, <4>1 DEF Cleared
        <4>3. QED
          BY <1>9, <4>2
      <3>3. CASE Len(stack) # 1
        <4>1. b = Self \/ disk'[b] = disk[b]
          BY <2>1, <3>1 DEF Cleared
        <4>2. QED
          BY <1>1, <1>8, <1>9, <2>1, <3>3, <4>1 DEF LocalDisk, NotCleared, OnDisk
      <3>4. QED
        BY <3>2, <3>3
    <2>4. CASE ~(Fetch \/ Clear)
      <3>1. Top.step \notin {"fetch", "clear"}
        BY <2>4 DEF Extract, Locate, NoLocations, Compare, NotRelocated, Relocated, Skip,
                    PassContent, InLoop, At
      <3>2. disk' \in {disk, [disk EXCEPT ![Self] = "original"]}
        BY <2>4 DEF Extract, Locate, NoLocations, Compare, NotRelocated, Relocated, Skip, PassContent
      <3>3. b = Self \/ disk'[b] = disk[b]
        <4>1. b # Self => [disk EXCEPT ![Self] = "original"][b] = disk[b]
          BY <1>10, <2>1
        <4>2. QED
          BY <3>2, <4>1
      <3>4. QED
        BY <1>1, <1>8, <1>9, <2>1, <3>1, <3>3 DEF LocalDisk, NotCleared, OnDisk
    <2>5. QED
      BY <2>2, <2>3, <2>4
  <1>12. LocalDisk'
    BY <1>7, <1>8, <1>11 DEF LocalDisk
  <1>13. QED
    BY <1>6, <1>8, <1>12 DEF Local

\* A nested bundle is pulled from the repository of the root.
LEMMA LocalPush ==
    ASSUME TypeInv, RepoWhole, Local, PullNested
    PROVE  Local'
  <1>1. TypeOK /\ stack \in Seq(LocalFrame) /\ LocalDisk
    BY DEF TypeInv, Local
  <1>2. PICK s \in {"fetch", "clear"} : stack' = Append(stack, Call(Entry, PrimaryLocation[1], s))
    BY <1>1, NestedFacts
  <1> DEFINE f == Call(Entry, PrimaryLocation[1], s)
  <1>3. stack # <<>> /\ stack[1].name[2] = Root /\ Len(stack) \in Nat \ {0}
    BY <1>1, NestedFacts, Elements DEF Local
  <1>4. f \in LocalFrame
    <2>1. s \in Step
      BY DEF Step
    <2>2. f \in Frame
      BY <1>1, <2>1, NestedFacts, Calls
    <2>3. InLoop
      BY DEF PullNested
    <2>4. Entry[2] \in Closure[Root] /\ PrimaryLocation[1] = RootRepo
      BY <1>1, <2>3, LocalEntry
    <2>5. f.name = Entry /\ f.repo = PrimaryLocation[1] /\ f.step = s
      BY DEF Call
    <2> HIDE DEF f
    <2>6. QED
      BY <2>2, <2>4, <2>5 DEF LocalFrame
  <1> HIDE DEF f
  <1>5. stack' = Append(stack, f)
    BY <1>2 DEF f
  <1>6. /\ stack' \in Seq(LocalFrame) /\ Len(stack') = Len(stack) + 1 /\ stack' # <<>>
        /\ \A n \in 1..Len(stack) : stack'[n] = stack[n]
    BY <1>1, <1>4, <1>5
  <1>7. OnStack \subseteq OnStack'
    BY <1>3, <1>6 DEF OnStack
  <1>8. stack'[1].name[2] = Root
    BY <1>3, <1>6
  <1>9. UNCHANGED <<disk, outcome>> /\ outcome = "running" /\ ~NotCleared
    BY DEF PullNested, Continue, runVars, InLoop, At, NotCleared
  <1>10. LocalDisk'
    BY <1>1, <1>7, <1>9 DEF LocalDisk, OnDisk
  <1>11. QED
    BY <1>6, <1>8, <1>9, <1>10 DEF Local

\* A call returns after it rewrote its ImagesLock.
LEMMA LocalPop ==
    ASSUME TypeInv, RepoWhole, Local, Finish
    PROVE  Local'
  <1>1. TypeOK /\ stack \in Seq(LocalFrame) /\ LocalDisk
    BY DEF TypeInv, Local
  <1>2. stack # <<>> /\ stack[1].name[2] = Root /\ Len(stack) \in Nat \ {0} /\ outcome = "running"
    BY <1>1, Elements DEF Local, Finish, At
  <1>3. Top.step = "walk" /\ Top.relocated /\ Top.repo = RootRepo /\ Self \in Bundle /\ ~NotCleared
    BY <1>1, <1>2, LocalTop DEF Finish, At, NotCleared
  <1>4. disk' = [disk EXCEPT ![Self] = RootRepo]
    BY <1>3 DEF Finish
  <1>5. disk \in [Bundle -> {"absent", "partial", "original"} \cup Repo]
    BY <1>1 DEF TypeOK
  <1>6. \A b \in OnDisk' : disk'[b] = RootRepo \/ (b # Self /\ b \in OnStack /\ disk'[b] = disk[b])
    <2> SUFFICES ASSUME NEW b \in Bundle, disk'[b] # "absent"
                 PROVE  disk'[b] = RootRepo \/ (b # Self /\ b \in OnStack /\ disk'[b] = disk[b])
      BY DEF OnDisk
    <2>1. CASE b = Self
      BY <1>4, <1>5, <2>1
    <2>2. CASE b # Self
      <3>1. disk'[b] = disk[b]
        BY <1>4, <2>2
      <3>2. QED
        BY <1>1, <1>2, <1>3, <2>2, <3>1 DEF LocalDisk, OnDisk
    <2>3. QED
      BY <2>1, <2>2
  <1>7. CASE Len(stack) = 1
    <2>1. UNCHANGED stack /\ outcome' = "ok"
      BY <1>7 DEF Finish
    <2>2. OnStack = {Self}
      BY <1>7 DEF OnStack, Self, Top
    <2>3. LocalDisk'
      BY <1>6, <2>1, <2>2 DEF LocalDisk
    <2>4. QED
      BY <1>1, <1>2, <2>1, <2>3 DEF Local, LocalFrame
  <1>8. CASE Len(stack) # 1
    <2> DEFINE c == stack[Len(stack) - 1]
    <2> DEFINE f == [c EXCEPT !.next = @ + 1]
    <2>1. Len(stack) > 1 /\ Len(stack) - 1 \in 1..Len(stack) /\ f \in Frame
      BY <1>2, <1>8, PopFacts
    <2>2. c \in LocalFrame /\ c \in Frame
      BY <1>1, <1>2, <2>1, Elements DEF LocalFrame
    <2>3. stack' = [n \in 1..Len(stack) - 1 |-> IF n = Len(stack) - 1 THEN f ELSE stack[n]]
      BY <1>8 DEF Finish
    <2>4. UNCHANGED outcome
      BY <1>8 DEF Finish
    <2>5. \A n \in 1..Len(stack) - 1 : n = Len(stack) - 1 => stack[n] = c
      OBVIOUS
    <2> HIDE DEF c
    <2>6. f.name = c.name /\ f.repo = c.repo /\ f.step = c.step /\ f.relocated = c.relocated
      BY <2>2, FrameFacts
    <2> HIDE DEF f
    <2>7. f \in LocalFrame
      BY <2>1, <2>2, <2>6 DEF LocalFrame
    <2>8. stack' \in Seq(LocalFrame)
      BY <1>1, <2>1, <2>3, <2>7, PopTop
    <2>9. /\ Len(stack') = Len(stack) - 1
          /\ \A n \in 1..Len(stack) - 1 : stack'[n].name = stack[n].name
      BY <1>2, <2>1, <2>3, <2>5, <2>6
    <2>10. stack' # <<>> /\ stack'[1].name[2] = Root
      <3>1. 1 \in 1..Len(stack) - 1
        BY <1>2, <2>1
      <3>2. QED
        BY <1>2, <2>1, <2>8, <2>9, <3>1
    <2>11. ASSUME NEW b \in OnStack, b # Self
           PROVE  b \in OnStack'
      <3>1. PICK n \in 1..Len(stack) : b = stack[n].name[2]
        BY <2>11 DEF OnStack
      <3>2. n # Len(stack)
        BY <2>11, <3>1 DEF Self, Top
      <3>3. n \in 1..Len(stack) - 1
        BY <1>2, <3>2
      <3>4. b = stack'[n].name[2] /\ n \in 1..Len(stack')
        BY <2>9, <3>1, <3>3
      <3>5. QED
        BY <3>4 DEF OnStack
    <2>12. LocalDisk'
      BY <1>2, <1>6, <2>4, <2>11 DEF LocalDisk
    <2>13. QED
      BY <1>2, <2>4, <2>8, <2>10, <2>12 DEF Local
  <1>9. QED
    BY <1>7, <1>8

\* Every step keeps it.
LEMMA LocalStep == LocalInv /\ [Next]_vars => LocalInv'
  <1> SUFFICES ASSUME LocalInv, [Next]_vars PROVE LocalInv'
    OBVIOUS
  <1>1. TypeInv /\ TypeOK /\ WholeInv /\ (Copied => Local)
    BY DEF LocalInv, TypeInv
  <1>2. TypeInv' /\ WholeInv'
    BY <1>1, TypeStep, WholeStep
  <1>3. faults \in Nat /\ refusals \in Nat
    BY <1>1, RegistryAssumption DEF TypeOK
  <1>4. CASE Pull
    <2>1. /\ stack' = <<Call(<<RootRepo, Root>>, RootRepo, "fetch")>> /\ outcome' = "running"
      BY <1>1, <1>4, PullFacts
    <2> DEFINE f == Call(<<RootRepo, Root>>, RootRepo, "fetch")
    <2>2. f.name[2] = Root /\ f.repo = RootRepo /\ f.step = "fetch"
      BY DEF Call
    <2>3. f \in LocalFrame
      <3>1. Root \in Closure[Root]
        BY GraphAssumption
      <3>2. f \in Frame
        BY FirstCall
      <3> HIDE DEF f
      <3>3. QED
        BY <2>2, <3>1, <3>2 DEF LocalFrame
    <2>4. stack' = <<f>>
      BY <2>1
    <2> HIDE DEF f
    <2>5. stack' \in Seq(LocalFrame) /\ Len(stack') = 1 /\ stack'[1] = f
      BY <2>3, <2>4
    <2>6. NotCleared'
      BY <2>2, <2>5 DEF NotCleared, Top
    <2>7. LocalDisk'
      BY <2>1, <2>6 DEF LocalDisk
    <2>8. Local'
      BY <2>1, <2>2, <2>5, <2>7 DEF Local
    <2>9. QED
      BY <1>2, <2>8 DEF LocalInv
  <1>5. ASSUME Work, Copied'
        PROVE  Local'
    <2>1. UNCHANGED <<repoVars, whole>>
      BY <1>1, <1>5, WorkTyped
    <2>2. refusals' \in {refusals, refusals + 1}
      BY <1>5 DEF Work, Fetch, Clear, Extract, Locate, NoLocations, Compare, NotRelocated,
             Relocated, Skip, PassContent, PullNested, Finish, CallFails, DiskFails, NotFound,
             Fault, spentVars
    <2>3. refusals' = refusals /\ Copied
      BY <1>3, <1>5, <2>1, <2>2 DEF Copied
    <2>4. Local /\ RepoWhole
      BY <1>1, <2>3 DEF WholeInv, Copied
    <2>5. CASE \/ Fetch \/ Clear \/ Extract \/ Locate \/ NoLocations \/ Compare \/ NotRelocated
               \/ Relocated \/ Skip \/ PassContent
      BY <1>1, <2>3, <2>4, <2>5, LocalWithinCall
    <2>6. CASE PullNested
      BY <1>1, <2>4, <2>6, LocalPush
    <2>7. CASE Finish
      BY <1>1, <2>4, <2>7, LocalPop
    <2>8. CASE CallFails \/ DiskFails
      <3>1. UNCHANGED stack /\ outcome' = "failed" /\ faults' = faults + 1
        BY <2>8 DEF CallFails, DiskFails, Fail, Fault
      <3>2. LocalDisk'
        BY <3>1 DEF LocalDisk
      <3>3. QED
        BY <1>3, <2>4, <3>1, <3>2 DEF Local, LocalFrame
    <2>9. ~NotFound
      <3>1. stack \in Seq(LocalFrame)
        BY <2>4 DEF Local
      <3>2. ASSUME At("fetch") PROVE Holds(Top.repo, Self)
        BY <1>1, <2>4, <3>1, <3>2, LocalTop DEF At
      <3>3. ASSUME InLoop PROVE Typed
        BY <1>1, <2>4, <3>1, <3>3, LocalEntry DEF Typed
      <3>4. QED
        BY <3>2, <3>3 DEF NotFound
    <2>10. QED
      BY <1>5, <2>5, <2>6, <2>7, <2>8, <2>9 DEF Work
  <1>6. ASSUME CopyGoesOn \/ UNCHANGED vars, Copied'
        PROVE  Local'
    <2>1. UNCHANGED <<disk, stack, outcome, whole, faults, refusals>>
      BY <1>6, CopyFacts DEF vars, runVars, spentVars
    <2>2. Local
      BY <1>1, <1>6, <2>1 DEF Copied
    <2>3. LocalDisk'
      BY <2>1, <2>2 DEF Local, LocalDisk, NotCleared, OnDisk, OnStack, Top
    <2>4. QED
      BY <2>1, <2>2, <2>3 DEF Local, LocalFrame
  <1>7. QED
    BY <1>2, <1>4, <1>5, <1>6 DEF LocalInv, Next, Terminated

\* It holds at first, for nothing is pulled.
LEMMA LocalInit == Init => LocalInv
  <1> SUFFICES ASSUME Init PROVE LocalInv
    OBVIOUS
  <1>1. TypeInv /\ ~whole
    BY InitTyped DEF Init
  <1>2. ~Published
    <2>1. Root # None
      BY GraphAssumption, RegistryAssumption
    <2>2. published = [t \in UserTag |-> None]
      BY DEF Init, Copy!Init
    <2>3. QED
      BY <2>1, <2>2 DEF Published
  <1>3. QED
    BY <1>1, <1>2 DEF LocalInv, WholeInv, Copied

\* For every graph and registry: a bundle that was copied is pulled from its repository
\* alone, unless a lookup is refused.
THEOREM CopiedBundlesAreLocal == Spec => []PullStaysLocal
  <1>1. LocalInv => PullStaysLocal
    <2> SUFFICES ASSUME LocalInv, Copied PROVE
                 /\ \A n \in DOMAIN stack : stack[n].repo = RootRepo
                 /\ outcome = "ok" => \A b \in OnDisk : disk[b] = RootRepo
      BY DEF PullStaysLocal, Copied
    <2>1. stack \in Seq(LocalFrame) /\ LocalDisk
      BY DEF LocalInv, Local
    <2>2. \A n \in DOMAIN stack : stack[n] \in LocalFrame
      BY <2>1
    <2>3. QED
      BY <2>1, <2>2 DEF LocalDisk, LocalFrame
  <1>2. QED
    BY <1>1, LocalInit, LocalStep, PTL DEF Spec

\* For every graph and registry: pulling it fails only because a call did.
THEOREM CopiedBundlesArePulled == Spec => []CopiedBundlesPull
  <1>1. LocalInv => CopiedBundlesPull
    BY DEF LocalInv, Local, Copied, CopiedBundlesPull
  <1>2. QED
    BY <1>1, LocalInit, LocalStep, PTL DEF Spec
--------------------------------------------------------------------------------
(* Pulls that succeed *)

\* The bundle of the n-th call, and a directory whose image has been extracted.
Dir(n)   == stack[n].name[2]
Whole(b) == disk[b] \in {"original"} \cup Repo

\* What a call is below, the calls that it makes are below.
Ancestry == \A d \in Image : \A m, n \in 1..Len(stack) :
                m <= n /\ Dir(m) \in Closure[d] => Dir(n) \in Closure[d]

\* No bundle is pulled while it is being pulled.
DirsApart == \A m, n \in 1..Len(stack) : Dir(m) = Dir(n) => m = n

\* Each nested call is for the entry at which its caller is.
Nesting == \A n \in 1..Len(stack) - 1 :
               stack[n + 1].name = List[Dir(n)][stack[n].next] /\ stack[n + 1].name \in processed

\* A loop has processed the entries before the one at which it is.
Passed == \A n \in 1..Len(stack) :
              /\ stack[n].step \in {"fetch", "clear", "layers", "locate"} => stack[n].next = 1
              /\ stack[n].step = "walk" => \A i \in 1..stack[n].next - 1 : List[Dir(n)][i] \in processed

\* The bundles from d down are on disk, but for those being pulled; that is so for all
\* that has been processed, but for what is being pulled under that very name.
Settled(d) == \A c \in Closure[d] \cap Bundle : Whole(c) \/ c \in OnStack
Accounted  == \A e \in processed : Settled(e[2]) \/ \E n \in 2..Len(stack) : stack[n].name = e

\* A call has its directory from the extraction of the image until it returns.
DirsWhole == \A n \in 1..Len(stack) :
                 n < Len(stack) \/ stack[n].step \in {"locate", "compare", "walk"} => Whole(Dir(n))

\* The nodes of the graph are what is on disk, once the directory of the root is cleared.
Reported  == {p[Len(p)][2] : p \in graph}
Reporting == /\ \A c \in Reported : c \in Closure[Root] \cap Bundle /\ (Whole(c) \/ c \in OnStack)
             /\ ~NotCleared => OnDisk \subseteq OnStack \cup Reported

\* Nothing is processed before that.
Fresh == NotCleared => processed = {} /\ graph = {}

\* Without --recursive there is one call and no node besides the root.
Flat == ~recursive => Len(stack) = 1 /\ graph = {}

Calling == stack # <<>> /\ Dir(1) = Root /\ Ancestry /\ DirsApart /\ Nesting /\ Passed
Pulling == Calling /\ Accounted /\ DirsWhole /\ Reporting /\ Fresh /\ Flat

CompleteInv == TypeInv /\ (outcome = "running" => Pulling) /\ PullIsComplete /\ EveryDirectoryReported

\* Nothing from an entry down is being pulled while the loop is at its end or at an entry.
LEMMA EntriesApart ==
    ASSUME TypeInv, Calling, NEW e \in Entries(Self)
    PROVE  e[2] \in Image /\ e[2] \in Contents[Self] /\ Closure[e[2]] \cap OnStack = {}
  <1>1. TypeOK /\ stack # <<>> /\ Ancestry
    BY DEF TypeInv, Calling
  <1>2. Self \in Bundle /\ Len(stack) \in Nat \ {0}
    BY <1>1, TopFacts
  <1>3. e[2] \in Contents[Self]
    BY <1>2 DEF Contents
  <1>4. e[2] \in Image
    <2>1. List[Self] \in Seq(Name)
      BY <1>2, GraphAssumption
    <2>2. e \in Name
      BY <2>1 DEF Entries
    <2>3. QED
      BY <2>2 DEF Name
  <1>5. Self \notin Closure[e[2]]
    BY <1>2, <1>3, GraphAssumption
  <1>6. ASSUME NEW m \in 1..Len(stack), Dir(m) \in Closure[e[2]]
        PROVE  FALSE
    <2>1. m <= Len(stack) /\ Len(stack) \in 1..Len(stack)
      BY <1>2
    <2>2. Dir(Len(stack)) \in Closure[e[2]]
      BY <1>1, <1>4, <1>6, <2>1 DEF Ancestry
    <2>3. QED
      BY <1>5, <2>2 DEF Dir, Self, Top
  <1>7. Closure[e[2]] \cap OnStack = {}
    BY <1>6 DEF OnStack, Dir
  <1>8. QED
    BY <1>3, <1>4, <1>7

\* When a loop is over, all bundles below are on disk.
LEMMA BelowIsWhole ==
    ASSUME TypeInv, Pulling, Top.step = "walk", AtEnd
    PROVE  \A c \in Closure[Self] \cap Bundle : Whole(c)
  <1>1. TypeOK /\ stack # <<>> /\ Calling /\ Passed /\ Accounted /\ DirsWhole
    BY DEF TypeInv, Pulling, Calling
  <1>2. Self \in Bundle /\ Top \in Frame /\ Len(stack) \in Nat \ {0} /\ Len(stack) \in 1..Len(stack)
    BY <1>1, TopFacts
  <1>3. Whole(Self)
    BY <1>1, <1>2 DEF DirsWhole, Dir, Self, Top
  <1>4. ASSUME NEW e \in Entries(Self), NEW c \in Closure[e[2]] \cap Bundle
        PROVE  Whole(c)
    <2>1. e \in processed
      <3>1. List[Self] \in Seq(Name) /\ Top.next \in Nat
        BY <1>2, FrameFacts DEF Self
      <3>2. PICK i \in DOMAIN List[Self] : e = List[Self][i]
        BY DEF Entries
      <3>3. i \in 1..Top.next - 1
        BY <3>1, <3>2 DEF AtEnd
      <3>4. List[Dir(Len(stack))][i] \in processed
        BY <1>1, <1>2, <3>3 DEF Passed, Top
      <3>5. QED
        BY <3>2, <3>4 DEF Dir, Self, Top
    <2>2. Closure[e[2]] \cap OnStack = {} /\ e[2] \in Image
      BY <1>1, EntriesApart
    <2>3. ASSUME NEW n \in 2..Len(stack), stack[n].name = e
          PROVE  FALSE
      <3>1. e[2] \in OnStack
        BY <1>2, <2>3 DEF OnStack
      <3>2. e[2] \in Closure[e[2]]
        BY <2>2, GraphAssumption
      <3>3. QED
        BY <2>2, <3>1, <3>2
    <2>4. Settled(e[2])
      BY <1>1, <2>1, <2>3 DEF Accounted
    <2>5. QED
      BY <1>4, <2>2, <2>4 DEF Settled
  <1>5. Closure[Self] = {Self} \cup UNION {Closure[d] : d \in Contents[Self]}
    BY <1>2, GraphAssumption
  <1>6. ASSUME NEW d \in Contents[Self]
        PROVE  \E e \in Entries(Self) : d = e[2]
    BY <1>2 DEF Contents
  <1>7. QED
    BY <1>3, <1>4, <1>5, <1>6

\* What is settled stays so while a directory that is lost is one of a bundle being pulled.
LEMMA SettledStays ==
    ASSUME \A b \in Bundle : Whole(b) \/ b \in OnStack => Whole(b)' \/ b \in OnStack',
           NEW d, Settled(d)
    PROVE  Settled(d)'
  <1> SUFFICES ASSUME NEW c \in Closure[d] \cap Bundle PROVE Whole(c)' \/ c \in OnStack'
    BY DEF Settled
  <1>1. Whole(c) \/ c \in OnStack
    BY DEF Settled
  <1>2. QED
    BY <1>1
\* The frame that a step within a call puts on top, and what the step does besides.
LEMMA FrameAfter ==
    ASSUME TypeInv, Calling, DirsWhole,
           \/ Fetch \/ Clear \/ Extract \/ Locate \/ NoLocations \/ Compare \/ NotRelocated
           \/ Relocated \/ Skip \/ PassContent
    PROVE  \E f \in Frame :
              /\ SetTop(f) /\ f.name = Top.name
              /\ f.step \in {"clear", "layers", "locate"} => f.next = 1
              /\ f.step = "walk" => \A i \in 1..f.next - 1 : List[Self][i] \in processed'
              /\ f.step \in {"locate", "compare", "walk"} => disk'[Self] \in {"original"} \cup Repo
              /\ f.step # "fetch" /\ (f.step = "clear" => Fetch)
  <1>1. TypeOK /\ stack # <<>> /\ Passed
    BY DEF TypeInv, Calling
  <1>2. Top \in Frame /\ Self \in Bundle /\ Len(stack) \in 1..Len(stack)
    BY <1>1, TopFacts
  <1>3. /\ Top.step \in {"fetch", "clear", "layers", "locate"} => Top.next = 1
        /\ Top.step = "walk" => \A i \in 1..Top.next - 1 : List[Self][i] \in processed
    BY <1>1, <1>2 DEF Passed, Dir, Self, Top
  <1>4. Top.step \in {"locate", "compare", "walk"} => disk[Self] \in {"original"} \cup Repo
    BY <1>2 DEF DirsWhole, Dir, Self, Top, Whole
  <1>5. disk \in [Bundle -> {"absent", "partial", "original"} \cup Repo]
    BY <1>1 DEF TypeOK
  <1>6. Top.next \in Nat /\ 1..1 - 1 = {}
    BY <1>2, FrameFacts
  <1>7. \A s \in Step : /\ [Top EXCEPT !.step = s].name = Top.name
                        /\ [Top EXCEPT !.step = s].step = s
                        /\ [Top EXCEPT !.step = s].next = Top.next
    BY <1>2, FrameFacts
  <1>8. {"clear", "layers", "locate", "compare"} \subseteq Step
    BY DEF Step
  <1>9. CASE Fetch
    <2>1. SetTop([Top EXCEPT !.step = "clear"]) /\ Top.step = "fetch"
      BY <1>9 DEF Fetch, Goto, At
    <2>2. QED
      BY <1>1, <1>3, <1>7, <1>8, <1>9, <2>1, Moves
  <1>10. CASE Clear
    <2>1. SetTop([Top EXCEPT !.step = "layers"]) /\ Top.step = "clear"
      BY <1>10 DEF Clear, Goto, At
    <2>2. QED
      BY <1>1, <1>3, <1>7, <1>8, <2>1, Moves
  <1>11. CASE Extract
    <2>1. SetTop([Top EXCEPT !.step = "locate"]) /\ Top.step = "layers"
      BY <1>11 DEF Extract, Goto, At
    <2>2. disk'[Self] \in {"original"} \cup Repo
      <3>1. disk' = [disk EXCEPT ![Self] = "original"]
        BY <1>11 DEF Extract
      <3>2. QED
        BY <1>2, <1>5, <3>1
    <2>3. QED
      BY <1>1, <1>3, <1>7, <1>8, <2>1, <2>2, Moves
  <1>12. CASE NoLocations
    <2>1. SetTop([Top EXCEPT !.step = "compare"]) /\ Top.step = "locate" /\ UNCHANGED disk
      BY <1>12 DEF NoLocations, Goto, At
    <2>2. QED
      BY <1>1, <1>4, <1>7, <1>8, <2>1, Moves
  <1>13. CASE Locate
    <2> DEFINE f == [Top EXCEPT !.step = "walk", !.located = TRUE, !.relocated = TRUE]
    <2>1. SetTop(f) /\ Top.step = "locate" /\ UNCHANGED disk /\ f \in Frame
      BY <1>1, <1>13, Moves DEF Locate, At
    <2>2. f.name = Top.name /\ f.step = "walk" /\ f.next = Top.next
      BY <1>2, FrameFacts
    <2> HIDE DEF f
    <2>3. 1..f.next - 1 = {}
      BY <1>3, <1>6, <2>1, <2>2
    <2>4. QED
      BY <1>4, <2>1, <2>2, <2>3
  <1>14. CASE Compare
    <2> DEFINE f == [Top EXCEPT !.next = @ + 1]
    <2>1. SetTop(f) /\ Top.step = "compare" /\ UNCHANGED disk /\ f \in Frame
      BY <1>1, <1>14, Moves DEF Compare, Advance, At
    <2>2. f.name = Top.name /\ f.step = Top.step
      BY <1>2, FrameFacts
    <2> HIDE DEF f
    <2>3. QED
      BY <1>4, <2>1, <2>2
  <1>15. CASE NotRelocated
    <2> DEFINE f == [Top EXCEPT !.step = "walk", !.next = 1]
    <2>1. SetTop(f) /\ Top.step = "compare" /\ UNCHANGED disk /\ f \in Frame
      BY <1>1, <1>15, Moves DEF NotRelocated, At
    <2>2. f.name = Top.name /\ f.step = "walk" /\ f.next = 1
      BY <1>2, FrameFacts
    <2> HIDE DEF f
    <2>3. QED
      BY <1>4, <1>6, <2>1, <2>2
  <1>16. CASE Relocated
    <2> DEFINE f == [Top EXCEPT !.step = "walk", !.next = 1, !.relocated = TRUE]
    <2>1. SetTop(f) /\ Top.step = "compare" /\ UNCHANGED disk /\ f \in Frame
      BY <1>1, <1>16, Moves DEF Relocated, At
    <2>2. f.name = Top.name /\ f.step = "walk" /\ f.next = 1
      BY <1>2, FrameFacts
    <2> HIDE DEF f
    <2>3. QED
      BY <1>4, <1>6, <2>1, <2>2
  <1>17. CASE Skip \/ PassContent
    <2> DEFINE f == [Top EXCEPT !.next = @ + 1]
    <2>1. SetTop(f) /\ Top.step = "walk" /\ UNCHANGED disk /\ f \in Frame
      BY <1>1, <1>17, Moves DEF Skip, PassContent, InLoop, Advance, At
    <2>2. f.name = Top.name /\ f.step = "walk" /\ f.next = Top.next + 1
      BY <1>2, <2>1, FrameFacts
    <2> HIDE DEF f
    <2>3. processed \subseteq processed' /\ List[Self][Top.next] \in processed'
      BY <1>17 DEF Skip, PassContent, Entry
    <2>4. \A i \in 1..f.next - 1 : i \in 1..Top.next - 1 \/ i = Top.next
      BY <1>6, <2>2
    <2>5. QED
      BY <1>3, <1>4, <2>1, <2>2, <2>3, <2>4
  <1>18. QED
    BY <1>9, <1>10, <1>11, <1>12, <1>13, <1>14, <1>15, <1>16, <1>17

\* The steps within a call keep what holds of the calls.
LEMMA CallingWithinCall ==
    ASSUME TypeInv, Calling, DirsWhole,
           \/ Fetch \/ Clear \/ Extract \/ Locate \/ NoLocations \/ Compare \/ NotRelocated
           \/ Relocated \/ Skip \/ PassContent
    PROVE  /\ Calling' /\ OnStack' = OnStack /\ Len(stack') = Len(stack)
           /\ \A n \in 1..Len(stack) : stack'[n].name = stack[n].name
           /\ \A n \in 1..Len(stack) - 1 : stack'[n] = stack[n]
           /\ Top'.step # "fetch" /\ (Top'.step = "clear" <=> Fetch)
           /\ Top'.step \in {"locate", "compare", "walk"} => disk'[Self] \in {"original"} \cup Repo
  <1>1. PICK f \in Frame :
              /\ SetTop(f) /\ f.name = Top.name
              /\ f.step \in {"clear", "layers", "locate"} => f.next = 1
              /\ f.step = "walk" => \A i \in 1..f.next - 1 : List[Self][i] \in processed'
              /\ f.step \in {"locate", "compare", "walk"} => disk'[Self] \in {"original"} \cup Repo
              /\ f.step # "fetch" /\ (f.step = "clear" => Fetch)
    BY FrameAfter
  <1>2. /\ TypeOK /\ stack # <<>> /\ stack \in Seq(Frame) /\ Len(stack) \in Nat \ {0}
        /\ Dir(1) = Root /\ Ancestry /\ DirsApart /\ Nesting /\ Passed
    BY TopFacts DEF TypeInv, TypeOK, Calling
  <1>3. /\ Len(stack') = Len(stack) /\ stack' # <<>>
        /\ \A n \in 1..Len(stack) : stack'[n] = IF n = Len(stack) THEN f ELSE stack[n]
    BY <1>1, <1>2 DEF SetTop
  <1>4. \A n \in 1..Len(stack) : stack'[n].name = stack[n].name
    BY <1>1, <1>3 DEF Top
  <1>5. \A n \in 1..Len(stack) - 1 : stack'[n] = stack[n]
    BY <1>2, <1>3
  <1>6. OnStack' = OnStack
    BY <1>3, <1>4 DEF OnStack
  <1>7. Top' = f
    BY <1>2, <1>3 DEF Top
  <1>8. processed \subseteq processed'
    BY DEF Fetch, Clear, Extract, Locate, NoLocations, Compare, NotRelocated, Relocated, Skip,
           PassContent
  <1>9. Dir(1)' = Root
    BY <1>2, <1>4 DEF Dir
  <1>10. Ancestry' /\ DirsApart'
    BY <1>2, <1>3, <1>4 DEF Ancestry, DirsApart, Dir
  <1>11. Nesting'
    <2> SUFFICES ASSUME NEW n \in 1..Len(stack) - 1
                 PROVE  /\ stack'[n + 1].name = List[stack'[n].name[2]][stack'[n].next]
                        /\ stack'[n + 1].name \in processed'
      BY <1>3 DEF Nesting, Dir
    <2>1. stack'[n] = stack[n] /\ n + 1 \in 1..Len(stack) /\ n \in 1..Len(stack)
      BY <1>2, <1>5
    <2>2. stack'[n + 1].name = stack[n + 1].name
      BY <1>4, <2>1
    <2>3. QED
      BY <1>2, <1>8, <2>1, <2>2 DEF Nesting, Dir
  <1>12. Passed'
    <2> SUFFICES ASSUME NEW n \in 1..Len(stack)
                 PROVE  /\ stack'[n].step \in {"fetch", "clear", "layers", "locate"} => stack'[n].next = 1
                        /\ stack'[n].step = "walk" =>
                              \A i \in 1..stack'[n].next - 1 : List[stack'[n].name[2]][i] \in processed'
      BY <1>3 DEF Passed, Dir
    <2>1. CASE n = Len(stack)
      <3>1. stack'[n] = f /\ f.name[2] = Self
        BY <1>1, <1>3, <2>1 DEF Self
      <3>2. QED
        BY <1>1, <3>1
    <2>2. CASE n # Len(stack)
      <3>1. stack'[n] = stack[n]
        BY <1>3, <2>2
      <3>2. QED
        BY <1>2, <1>8, <3>1 DEF Passed, Dir
    <2>3. QED
      BY <2>1, <2>2
  <1>13. Calling'
    BY <1>3, <1>9, <1>10, <1>11, <1>12 DEF Calling
  <1>14. ASSUME Fetch PROVE Top'.step = "clear"
    <2>1. SetTop([Top EXCEPT !.step = "clear"])
      BY <1>14 DEF Fetch, Goto
    <2>2. stack'[Len(stack)] = [Top EXCEPT !.step = "clear"]
      BY <1>2, <2>1 DEF SetTop
    <2>3. Top' = [Top EXCEPT !.step = "clear"]
      BY <1>3, <2>2 DEF Top
    <2>4. QED
      BY <1>2, <2>3, TopFacts, FrameFacts
  <1>15. QED
    BY <1>1, <1>3, <1>4, <1>5, <1>6, <1>7, <1>13, <1>14

\* What the steps within a call do to the directories.
LEMMA DirsWithinCall ==
    ASSUME TypeInv, Calling,
           \/ Fetch \/ Clear \/ Extract \/ Locate \/ NoLocations \/ Compare \/ NotRelocated
           \/ Relocated \/ Skip \/ PassContent
    PROVE  /\ UNCHANGED <<graph, recursive, outcome>> /\ outcome = "running"
           /\ NotCleared => Fetch \/ Clear
           /\ Clear => Top.step = "clear" /\ UNCHANGED processed
           /\ \A b \in Bundle : b # Self /\ ~(Clear /\ Self = Root) => disk'[b] = disk[b]
           /\ \A b \in Bundle : b # Self /\ Clear /\ Self = Root => disk'[b] = "absent"
           /\ (Fetch => UNCHANGED <<disk, processed>>)
  <1>1. UNCHANGED <<graph, recursive, outcome>> /\ outcome = "running"
    BY DEF Fetch, Clear, Extract, Locate, NoLocations, Compare, NotRelocated, Relocated, Skip,
           PassContent, Continue, runVars, InLoop, At
  <1>2. CASE Clear
    <2>1. disk' = Cleared(Self) /\ Top.step = "clear" /\ UNCHANGED processed
      BY <1>2 DEF Clear, At
    <2>2. ~Fetch
      BY <2>1 DEF Fetch, At
    <2>3. \A b \in Bundle : b # Self => disk'[b] = IF Self = Root THEN "absent" ELSE disk[b]
      BY <2>1 DEF Cleared
    <2>4. QED
      BY <1>1, <1>2, <2>1, <2>2, <2>3
  <1>3. CASE Extract
    <2>1. disk' = [disk EXCEPT ![Self] = "original"] /\ Top.step = "layers"
      BY <1>3 DEF Extract, At
    <2>2. ~NotCleared /\ ~Clear /\ ~Fetch
      BY <2>1 DEF Clear, Fetch, NotCleared, At
    <2>3. disk \in [Bundle -> {"absent", "partial", "original"} \cup Repo]
      BY DEF TypeInv, TypeOK
    <2>4. \A b \in Bundle : b # Self => disk'[b] = disk[b]
      BY <2>1, <2>3
    <2>5. QED
      BY <1>1, <2>2, <2>4
  <1>4. CASE ~Clear /\ ~Extract
    <2>1. UNCHANGED disk /\ (Fetch => UNCHANGED processed)
      BY <1>4 DEF Fetch, Locate, NoLocations, Compare, NotRelocated, Relocated, Skip, PassContent
    <2>2. Fetch \/ Top.step \notin {"fetch", "clear"}
      BY <1>4 DEF Locate, NoLocations, Compare, NotRelocated, Relocated, Skip, PassContent,
                  InLoop, At
    <2>3. QED
      BY <1>1, <1>4, <2>1, <2>2 DEF NotCleared
  <1>5. QED
    BY <1>2, <1>3, <1>4

\* The steps within a call keep what holds of the directories.
LEMMA PullingWithinCall ==
    ASSUME TypeInv, Pulling,
           \/ Fetch \/ Clear \/ Extract \/ Locate \/ NoLocations \/ Compare \/ NotRelocated
           \/ Relocated \/ Skip \/ PassContent
    PROVE  Pulling' /\ UNCHANGED outcome
  <1>1. /\ Calling /\ Accounted /\ DirsWhole /\ Reporting /\ Fresh /\ Flat /\ TypeOK
        /\ stack # <<>> /\ Dir(1) = Root /\ DirsApart
    BY DEF Pulling, TypeInv, Calling
  <1>2. /\ Calling' /\ OnStack' = OnStack /\ Len(stack') = Len(stack)
        /\ \A n \in 1..Len(stack) : stack'[n].name = stack[n].name
        /\ \A n \in 1..Len(stack) - 1 : stack'[n] = stack[n]
        /\ Top'.step # "fetch" /\ (Top'.step = "clear" <=> Fetch)
        /\ Top'.step \in {"locate", "compare", "walk"} => disk'[Self] \in {"original"} \cup Repo
    BY <1>1, CallingWithinCall
  <1>3. /\ UNCHANGED <<graph, recursive, outcome>>
        /\ NotCleared => Fetch \/ Clear
        /\ Clear => Top.step = "clear" /\ UNCHANGED processed
        /\ \A b \in Bundle : b # Self /\ ~(Clear /\ Self = Root) => disk'[b] = disk[b]
        /\ \A b \in Bundle : b # Self /\ Clear /\ Self = Root => disk'[b] = "absent"
        /\ Fetch => UNCHANGED <<disk, processed>>
    BY <1>1, DirsWithinCall
  <1>4. Len(stack) \in Nat \ {0} /\ Len(stack) \in 1..Len(stack) /\ 1 \in 1..Len(stack) /\ Self \in Bundle
    BY <1>1, TopFacts
  <1>5. Self \in OnStack /\ Root \in OnStack /\ Self = Dir(Len(stack))
    BY <1>1, <1>4 DEF OnStack, Self, Top, Dir
  <1>6. Self = Root => Len(stack) = 1
    BY <1>1, <1>4, <1>5 DEF DirsApart
  <1>7. Clear /\ Self = Root => processed = {} /\ processed' = {} /\ graph = {}
    BY <1>1, <1>3, <1>6 DEF Fresh, NotCleared
  <1>8. ~(Clear /\ Self = Root) =>
            \A b \in Bundle : Whole(b) \/ b \in OnStack => Whole(b)' \/ b \in OnStack'
    BY <1>2, <1>3, <1>5 DEF Whole
  <1>9. Accounted'
    <2>1. CASE Clear /\ Self = Root
      BY <1>7, <2>1 DEF Accounted
    <2>2. CASE ~(Clear /\ Self = Root)
      <3>1. ASSUME NEW e \in processed
            PROVE  Settled(e[2])' \/ \E n \in 2..Len(stack') : stack'[n].name = e
        <4>1. CASE Settled(e[2])
          BY <1>8, <2>2, <4>1, SettledStays
        <4>2. CASE \E n \in 2..Len(stack) : stack[n].name = e
          BY <1>2, <1>4, <4>2
        <4>3. QED
          BY <1>1, <3>1, <4>1, <4>2 DEF Accounted
      <3>2. CASE PassContent
        <4>1. processed' = processed \cup {Entry} /\ Entry[2] \notin Bundle /\ ~AtEnd
          BY <3>2 DEF PassContent, InLoop
        <4>2. Entry[2] \in Image
          BY <1>1, <4>1, EntryFacts
        <4>3. Closure[Entry[2]] = {Entry[2]}
          BY <4>1, <4>2, GraphAssumption
        <4>4. \A c \in Closure[Entry[2]] \cap Bundle : FALSE
          BY <4>1, <4>3
        <4>5. ASSUME NEW e, e = Entry PROVE Settled(e[2])'
          BY <4>4, <4>5 DEF Settled
        <4>6. QED
          BY <3>1, <4>1, <4>5 DEF Accounted
      <3>3. CASE ~PassContent
        <4>1. UNCHANGED processed
          BY <3>3 DEF Fetch, Clear, Extract, Locate, NoLocations, Compare, NotRelocated, Relocated,
                      Skip
        <4>2. QED
          BY <3>1, <4>1 DEF Accounted
      <3>4. QED
        BY <3>2, <3>3
    <2>3. QED
      BY <2>1, <2>2
  <1>10. DirsWhole'
    <2> SUFFICES ASSUME NEW n \in 1..Len(stack),
                        n < Len(stack) \/ stack'[n].step \in {"locate", "compare", "walk"}
                 PROVE  disk'[stack'[n].name[2]] \in {"original"} \cup Repo
      BY <1>2 DEF DirsWhole, Whole, Dir
    <2>1. CASE n = Len(stack)
      <3>1. Top' = stack'[n] /\ stack'[n].name[2] = Self
        BY <1>2, <2>1 DEF Top, Self
      <3>2. QED
        BY <1>2, <1>4, <2>1, <3>1
    <2>2. CASE n # Len(stack)
      <3>1. n < Len(stack) /\ Dir(n) # Self /\ Self # Root
        BY <1>1, <1>4, <1>5, <1>6, <2>2 DEF DirsApart
      <3>2. Whole(Dir(n)) /\ Dir(n) \in Bundle
        BY <1>1, <3>1, TopFacts, FrameFacts DEF DirsWhole, Dir
      <3>3. disk'[Dir(n)] = disk[Dir(n)]
        BY <1>3, <3>1, <3>2
      <3>4. QED
        BY <1>2, <3>2, <3>3 DEF Whole, Dir
    <2>3. QED
      BY <2>1, <2>2
  <1>11. Reported' = Reported
    BY <1>3 DEF Reported
  <1>12. ASSUME NEW c \in Reported
         PROVE  c \in Closure[Root] \cap Bundle /\ (Whole(c)' \/ c \in OnStack')
    <2>1. c \in Closure[Root] \cap Bundle /\ (Whole(c) \/ c \in OnStack)
      BY <1>1 DEF Reporting
    <2>2. ~(Clear /\ Self = Root)
      BY <1>7 DEF Reported
    <2>3. QED
      BY <1>8, <2>1, <2>2
  <1>13. ASSUME ~NotCleared', NEW b \in OnDisk'
         PROVE  b \in OnStack \cup Reported
    <2>1. b \in Bundle /\ disk'[b] # "absent"
      BY DEF OnDisk
    <2>2. CASE b = Self
      BY <1>5, <2>2
    <2>3. CASE b # Self
      <3>1. disk'[b] = disk[b] /\ ~(Clear /\ Self = Root)
        BY <1>3, <2>1, <2>3
      <3>2. ~NotCleared
        <4> SUFFICES ASSUME NotCleared PROVE FALSE
          OBVIOUS
        <4>1. CASE Fetch
          <5>1. Len(stack') = 1 /\ Top'.step = "clear"
            BY <1>2, <4>1 DEF NotCleared
          <5>2. QED
            BY <1>13, <5>1 DEF NotCleared
        <4>2. CASE Clear
          <5>1. Len(stack) = 1
            BY DEF NotCleared
          <5>2. Self = Root
            BY <1>1, <1>5, <5>1
          <5>3. QED
            BY <3>1, <4>2, <5>2
        <4>3. QED
          BY <1>3, <4>1, <4>2
      <3>3. QED
        BY <1>1, <2>1, <3>1, <3>2 DEF Reporting, OnDisk
    <2>4. QED
      BY <2>2, <2>3
  <1>14. Reporting'
    BY <1>2, <1>11, <1>12, <1>13 DEF Reporting
  <1>15. Fresh'
    <2> SUFFICES ASSUME NotCleared' PROVE processed' = {} /\ graph' = {}
      BY DEF Fresh
    <2>1. Fetch /\ Len(stack) = 1
      BY <1>2 DEF NotCleared
    <2>2. NotCleared
      BY <2>1 DEF NotCleared, Fetch, At
    <2>3. QED
      BY <1>1, <1>3, <2>1, <2>2 DEF Fresh
  <1>16. Flat'
    BY <1>1, <1>2, <1>3 DEF Flat
  <1>17. QED
    BY <1>2, <1>3, <1>9, <1>10, <1>14, <1>15, <1>16 DEF Pulling

\* So does the call for a nested bundle.
LEMMA PullingPush ==
    ASSUME TypeInv, Pulling, PullNested
    PROVE  Pulling' /\ UNCHANGED outcome
  <1>1. /\ Calling /\ Accounted /\ DirsWhole /\ Reporting /\ Fresh /\ Flat /\ TypeOK
        /\ stack # <<>> /\ Dir(1) = Root /\ Ancestry /\ DirsApart /\ Nesting /\ Passed
    BY DEF Pulling, TypeInv, Calling
  <1>2. /\ Top.step = "walk" /\ recursive /\ ~AtEnd /\ processed' = processed \cup {Entry}
        /\ UNCHANGED <<disk, graph, recursive, outcome>>
    BY DEF PullNested, InLoop, At, Continue, runVars
  <1>3. PICK s \in {"fetch", "clear"} : stack' = Append(stack, Call(Entry, PrimaryLocation[1], s))
    BY <1>1, NestedFacts
  <1> DEFINE f == Call(Entry, PrimaryLocation[1], s)
  <1>4. f.name = Entry /\ f.step = s /\ f.next = 1
    BY DEF Call
  <1>5. stack' = Append(stack, f)
    BY <1>3
  <1> HIDE DEF f
  <1>6. stack \in Seq(Frame) /\ Len(stack) \in Nat \ {0} /\ Self \in Bundle
    BY <1>1, TopFacts DEF TypeOK
  <1>7. /\ Len(stack') = Len(stack) + 1 /\ stack' # <<>> /\ stack'[Len(stack) + 1] = f
        /\ \A n \in 1..Len(stack) : stack'[n] = stack[n]
    BY <1>5, <1>6
  <1>8. \A n \in 1..Len(stack') : n \in 1..Len(stack) \/ n = Len(stack) + 1
    BY <1>6, <1>7
  <1>9. Dir(Len(stack)) = Self /\ 1 \in 1..Len(stack) /\ Len(stack) \in 1..Len(stack)
    BY <1>6 DEF Dir, Self, Top
  <1>10. Entry \in Entries(Self) /\ Entry[2] \in Contents[Self] /\ Entry[2] \in Image
    <2>1. List[Self] \in Seq(Name)
      BY <1>6, GraphAssumption
    <2>2. Top.next \in DOMAIN List[Self]
      BY <1>1, <1>2, <2>1, EntryFacts
    <2>3. QED
      BY <1>1, <1>2, <2>2, EntryFacts DEF Entries, Entry
  <1>11. Entry[2] \notin OnStack
    <2>1. Entry[2] \in Closure[Entry[2]]
      BY <1>10, GraphAssumption
    <2>2. QED
      BY <1>1, <1>10, <2>1, EntriesApart
  <1>12. \A n \in 1..Len(stack) : stack'[n].name[2] = Dir(n) /\ Dir(n) # Entry[2]
    BY <1>7, <1>11 DEF Dir, OnStack
  <1>13. stack'[Len(stack) + 1].name[2] = Entry[2]
    BY <1>4, <1>7
  <1>14. Dir(1)' = Root
    BY <1>1, <1>9, <1>12 DEF Dir
  <1>15. Ancestry'
    <2> SUFFICES ASSUME NEW d \in Image, NEW m \in 1..Len(stack'), NEW n \in 1..Len(stack'),
                        m <= n, stack'[m].name[2] \in Closure[d]
                 PROVE  stack'[n].name[2] \in Closure[d]
      BY DEF Ancestry, Dir
    <2>1. CASE n \in 1..Len(stack)
      <3>1. m \in 1..Len(stack)
        BY <1>6, <1>8, <2>1
      <3>2. QED
        BY <1>1, <1>12, <2>1, <3>1 DEF Ancestry
    <2>2. CASE n = Len(stack) + 1 /\ m \in 1..Len(stack)
      <3>1. m <= Len(stack)
        BY <1>6, <2>2
      <3>2. Self \in Closure[d]
        BY <1>1, <1>9, <1>12, <2>2, <3>1 DEF Ancestry
      <3>3. Contents[Self] \subseteq Closure[d]
        BY <1>6, <3>2, GraphAssumption
      <3>4. QED
        BY <1>10, <1>13, <2>2, <3>3
    <2>3. CASE n = Len(stack) + 1 /\ m = n
      BY <2>3
    <2>4. QED
      BY <1>8, <2>1, <2>2, <2>3
  <1>16. DirsApart'
    <2> SUFFICES ASSUME NEW m \in 1..Len(stack'), NEW n \in 1..Len(stack'),
                        stack'[m].name[2] = stack'[n].name[2]
                 PROVE  m = n
      BY DEF DirsApart, Dir
    <2>1. CASE m \in 1..Len(stack) /\ n \in 1..Len(stack)
      BY <1>1, <1>12, <2>1 DEF DirsApart
    <2>2. CASE ~(m \in 1..Len(stack) /\ n \in 1..Len(stack))
      BY <1>8, <1>12, <1>13, <2>2
    <2>3. QED
      BY <2>1, <2>2
  <1>17. Nesting'
    <2> SUFFICES ASSUME NEW n \in 1..Len(stack)
                 PROVE  /\ stack'[n + 1].name = List[stack'[n].name[2]][stack'[n].next]
                        /\ stack'[n + 1].name \in processed'
      BY <1>6, <1>7 DEF Nesting, Dir
    <2>1. CASE n = Len(stack)
      BY <1>2, <1>4, <1>7, <1>9, <2>1 DEF Entry, Self, Top
    <2>2. CASE n # Len(stack)
      <3>1. n \in 1..Len(stack) - 1 /\ n + 1 \in 1..Len(stack)
        BY <1>6, <2>2
      <3>2. stack'[n] = stack[n] /\ stack'[n + 1] = stack[n + 1]
        BY <1>7, <3>1
      <3>3. QED
        BY <1>1, <1>2, <3>1, <3>2 DEF Nesting, Dir
    <2>3. QED
      BY <2>1, <2>2
  <1>18. Passed'
    <2> SUFFICES ASSUME NEW n \in 1..Len(stack')
                 PROVE  /\ stack'[n].step \in {"fetch", "clear", "layers", "locate"} => stack'[n].next = 1
                        /\ stack'[n].step = "walk" =>
                              \A i \in 1..stack'[n].next - 1 : List[stack'[n].name[2]][i] \in processed'
      BY DEF Passed, Dir
    <2>1. CASE n \in 1..Len(stack)
      <3>1. stack'[n] = stack[n]
        BY <1>7, <2>1
      <3>2. QED
        BY <1>1, <1>2, <2>1, <3>1 DEF Passed, Dir
    <2>2. CASE n = Len(stack) + 1
      BY <1>4, <1>7, <2>2
    <2>3. QED
      BY <1>8, <2>1, <2>2
  <1>19. OnStack \subseteq OnStack'
    BY <1>6, <1>7 DEF OnStack
  <1>20. Accounted'
    <2>1. \A b \in Bundle : Whole(b) \/ b \in OnStack => Whole(b)' \/ b \in OnStack'
      BY <1>2, <1>19 DEF Whole
    <2>2. ASSUME NEW e \in processed
          PROVE  Settled(e[2])' \/ \E n \in 2..Len(stack') : stack'[n].name = e
      <3>1. CASE Settled(e[2])
        BY <2>1, <3>1, SettledStays
      <3>2. CASE \E n \in 2..Len(stack) : stack[n].name = e
        BY <1>6, <1>7, <3>2
      <3>3. QED
        BY <1>1, <3>1, <3>2 DEF Accounted
    <2>3. stack'[Len(stack) + 1].name = Entry /\ Len(stack) + 1 \in 2..Len(stack')
      BY <1>4, <1>6, <1>7
    <2>4. QED
      BY <1>2, <2>2, <2>3 DEF Accounted
  <1>21. DirsWhole'
    <2> SUFFICES ASSUME NEW n \in 1..Len(stack'),
                        n < Len(stack') \/ stack'[n].step \in {"locate", "compare", "walk"}
                 PROVE  disk[stack'[n].name[2]] \in {"original"} \cup Repo
      BY <1>2 DEF DirsWhole, Whole, Dir
    <2>1. n \in 1..Len(stack)
      BY <1>4, <1>6, <1>7, <1>8
    <2>2. Whole(Dir(n))
      <3>1. CASE n = Len(stack)
        BY <1>1, <1>2, <2>1, <3>1 DEF DirsWhole, Top
      <3>2. CASE n # Len(stack)
        <4>1. n < Len(stack)
          BY <1>6, <2>1, <3>2
        <4>2. QED
          BY <1>1, <2>1, <4>1 DEF DirsWhole
      <3>3. QED
        BY <3>1, <3>2
    <2>3. QED
      BY <1>12, <2>1, <2>2 DEF Whole
  <1>22. ~NotCleared /\ ~NotCleared'
    BY <1>2, <1>6, <1>7 DEF NotCleared
  <1>23. Reported' = Reported /\ OnDisk' = OnDisk
    BY <1>2 DEF Reported, OnDisk
  <1>24. Reporting'
    <2>1. ASSUME NEW c \in Reported
          PROVE  c \in Closure[Root] \cap Bundle /\ (Whole(c)' \/ c \in OnStack')
      BY <1>1, <1>2, <1>19 DEF Reporting, Whole
    <2>2. QED
      BY <1>1, <1>19, <1>22, <1>23, <2>1 DEF Reporting
  <1>25. Fresh' /\ Flat'
    BY <1>2, <1>22 DEF Fresh, Flat
  <1>26. Calling'
    BY <1>7, <1>14, <1>15, <1>16, <1>17, <1>18 DEF Calling
  <1>27. QED
    BY <1>2, <1>20, <1>21, <1>24, <1>25, <1>26 DEF Pulling

\* Rewriting an ImagesLock leaves what is on disk.
LEMMA FinishDirs ==
    ASSUME TypeInv, Pulling, Finish
    PROVE  /\ Top.step = "walk" /\ outcome = "running" /\ Self \in Bundle
           /\ Whole(Self) /\ disk'[Self] \in {"original"} \cup Repo
           /\ \A b \in Bundle : b # Self => disk'[b] = disk[b]
           /\ UNCHANGED <<processed, recursive>>
  <1>1. TypeOK /\ stack # <<>> /\ DirsWhole
    BY DEF Pulling, TypeInv, Calling
  <1>2. /\ Top.step = "walk" /\ outcome = "running" /\ UNCHANGED <<processed, recursive>>
        /\ disk' = IF Top.relocated THEN [disk EXCEPT ![Self] = Top.repo] ELSE disk
    BY DEF Finish, At
  <1>3. Self \in Bundle /\ Len(stack) \in 1..Len(stack) /\ Top.repo \in Repo
    BY <1>1, TopFacts, FrameFacts
  <1>4. disk[Self] \in {"original"} \cup Repo
    BY <1>1, <1>2, <1>3 DEF DirsWhole, Whole, Dir, Self, Top
  <1>5. disk \in [Bundle -> {"absent", "partial", "original"} \cup Repo]
    BY <1>1 DEF TypeOK
  <1>6. /\ disk'[Self] \in {"original"} \cup Repo
        /\ \A b \in Bundle : b # Self => disk'[b] = disk[b]
    BY <1>2, <1>3, <1>4, <1>5
  <1>7. QED
    BY <1>2, <1>3, <1>4, <1>6 DEF Whole

\* So does the return of a nested call.
LEMMA PullingPop ==
    ASSUME TypeInv, Pulling, Finish, Len(stack) # 1
    PROVE  Pulling' /\ UNCHANGED outcome
  <1>1. /\ Calling /\ Accounted /\ DirsWhole /\ Reporting /\ Fresh /\ Flat /\ TypeOK /\ Callers
        /\ stack # <<>> /\ Dir(1) = Root /\ Ancestry /\ DirsApart /\ Nesting /\ Passed
    BY DEF Pulling, TypeInv, Calling
  <1>2. /\ Top.step = "walk" /\ Self \in Bundle
        /\ Whole(Self) /\ disk'[Self] \in {"original"} \cup Repo
        /\ \A b \in Bundle : b # Self => disk'[b] = disk[b]
        /\ UNCHANGED <<processed, recursive>>
    BY FinishDirs
  <1>3. recursive /\ AtEnd /\ graph' = graph \cup {Path} /\ UNCHANGED outcome
    BY <1>1 DEF Finish, Flat
  <1>4. Len(stack) > 1 /\ Len(stack) \in Nat
    BY <1>1, TopFacts, PopFacts
  <1> DEFINE last == Len(stack) - 1
  <1> DEFINE c == stack[last]
  <1> DEFINE f == [c EXCEPT !.next = @ + 1]
  <1>5. stack' = [n \in 1..last |-> IF n = last THEN f ELSE stack[n]]
    BY <1>1 DEF Finish
  <1>6. c \in Frame /\ last \in 1..Len(stack) /\ last \in Nat \ {0} /\ last \in 1..Len(stack) - 1
    BY <1>1, <1>4, TopFacts
  <1>7. f.name = c.name /\ f.step = c.step /\ f.next = c.next + 1 /\ c.next \in Nat
    BY <1>6, FrameFacts
  <1>8. c.step = "walk"
    BY <1>1, <1>6 DEF Callers
  <1>9. Len(stack) = last + 1
    BY <1>4
  <1> HIDE DEF f
  <1>10. /\ Len(stack') = last /\ stack' # <<>> /\ stack'[last] = f
         /\ \A n \in 1..last : n # last => stack'[n] = stack[n]
    <2>1. stack' \in Seq(Frame)
      BY <1>1, PopTyped
    <2>2. Len(stack') = last
      BY <1>5, <1>6
    <2>3. QED
      BY <1>5, <1>6, <2>1, <2>2
  <1>11. c = stack[last]
    OBVIOUS
  <1> HIDE DEF c, last
  <1>12. \A n \in 1..last : n \in 1..Len(stack) /\ stack'[n].name = stack[n].name
    <2>1. \A n \in 1..last : n \in 1..Len(stack)
      BY <1>6, <1>9
    <2>2. stack'[last].name = stack[last].name
      BY <1>7, <1>10, <1>11
    <2>3. QED
      BY <1>10, <2>1, <2>2
  <1>13. \A n \in 1..Len(stack) : n \in 1..last \/ n = Len(stack)
    BY <1>6, <1>9
  <1>14. Self = Dir(Len(stack)) /\ 1 \in 1..last /\ Len(stack) \in 1..Len(stack)
    BY <1>4, <1>6 DEF Dir, Self, Top
  <1>15. Dir(1)' = Root
    BY <1>1, <1>12, <1>14 DEF Dir
  <1>16. Ancestry' /\ DirsApart'
    <2>1. \A n \in 1..Len(stack') : n \in 1..Len(stack) /\ stack'[n].name[2] = Dir(n)
      BY <1>10, <1>12 DEF Dir
    <2>2. Ancestry'
      BY <1>1, <2>1 DEF Ancestry, Dir
    <2>3. DirsApart'
      BY <1>1, <2>1 DEF DirsApart, Dir
    <2>4. QED
      BY <2>2, <2>3
  <1>17. Nesting'
    <2> SUFFICES ASSUME NEW n \in 1..last - 1
                 PROVE  /\ stack'[n + 1].name = List[stack'[n].name[2]][stack'[n].next]
                        /\ stack'[n + 1].name \in processed
      BY <1>2, <1>10 DEF Nesting, Dir
    <2>1. n \in 1..Len(stack) - 1 /\ n \in 1..last /\ n # last /\ n + 1 \in 1..last
      BY <1>6, <1>9
    <2>2. stack'[n] = stack[n] /\ stack'[n + 1].name = stack[n + 1].name
      BY <1>10, <1>12, <2>1
    <2>3. QED
      BY <1>1, <2>1, <2>2 DEF Nesting, Dir
  <1>18. Passed'
    <2> SUFFICES ASSUME NEW n \in 1..last
                 PROVE  /\ stack'[n].step \in {"fetch", "clear", "layers", "locate"} => stack'[n].next = 1
                        /\ stack'[n].step = "walk" =>
                              \A i \in 1..stack'[n].next - 1 : List[stack'[n].name[2]][i] \in processed
      BY <1>2, <1>10 DEF Passed, Dir
    <2>1. CASE n = last
      <3>1. stack'[n] = f /\ f.step = "walk" /\ f.name[2] = Dir(last)
        BY <1>7, <1>8, <1>10, <1>11, <2>1 DEF Dir
      <3>2. List[Dir(last)][c.next] \in processed
        BY <1>1, <1>6, <1>11 DEF Nesting
      <3>3. \A i \in 1..c.next - 1 : List[Dir(last)][i] \in processed
        BY <1>1, <1>6, <1>8, <1>11 DEF Passed
      <3>4. \A i \in 1..f.next - 1 : i \in 1..c.next - 1 \/ i = c.next
        BY <1>7
      <3>5. QED
        BY <3>1, <3>2, <3>3, <3>4
    <2>2. CASE n # last
      BY <1>1, <1>10, <1>12, <2>2 DEF Passed, Dir
    <2>3. QED
      BY <2>1, <2>2
  <1>19. Calling'
    BY <1>10, <1>15, <1>16, <1>17, <1>18 DEF Calling
  <1>20. \A b \in OnStack : b = Self \/ b \in OnStack'
    <2> SUFFICES ASSUME NEW n \in 1..Len(stack), stack[n].name[2] # Self
                 PROVE  stack[n].name[2] \in OnStack'
      BY DEF OnStack
    <2>1. n \in 1..last
      BY <1>13, <1>14 DEF Dir
    <2>2. QED
      BY <1>10, <1>12, <2>1 DEF OnStack
  <1>21. \A b \in Bundle : Whole(b) \/ b \in OnStack => Whole(b)' \/ b \in OnStack'
    BY <1>2, <1>20 DEF Whole
  <1>22. \A b \in Closure[Self] \cap Bundle : Whole(b)'
    BY <1>1, <1>2, <1>3, BelowIsWhole DEF Whole
  <1>23. Accounted'
    <2> SUFFICES ASSUME NEW e \in processed
                 PROVE  Settled(e[2])' \/ \E n \in 2..last : stack'[n].name = e
      BY <1>2, <1>10 DEF Accounted
    <2>1. CASE Settled(e[2])
      BY <1>21, <2>1, SettledStays
    <2>2. ASSUME NEW n \in 2..Len(stack), stack[n].name = e
          PROVE  Settled(e[2])' \/ \E k \in 2..last : stack'[k].name = e
      <3>1. CASE n = Len(stack)
        <4>1. e[2] = Self
          BY <2>2, <3>1 DEF Self, Top
        <4>2. QED
          BY <1>22, <4>1 DEF Settled
      <3>2. CASE n # Len(stack)
        <4>1. n \in 2..last /\ n \in 1..last
          BY <1>6, <1>9, <3>2
        <4>2. QED
          BY <1>12, <2>2, <4>1
      <3>3. QED
        BY <3>1, <3>2
    <2>3. QED
      BY <1>1, <2>1, <2>2 DEF Accounted
  <1>24. DirsWhole'
    <2> SUFFICES ASSUME NEW n \in 1..last
                 PROVE  disk'[stack'[n].name[2]] \in {"original"} \cup Repo
      BY <1>10 DEF DirsWhole, Whole, Dir
    <2>1. n \in 1..Len(stack) /\ n < Len(stack) /\ stack'[n].name[2] = Dir(n)
      BY <1>6, <1>9, <1>12 DEF Dir
    <2>2. Whole(Dir(n)) /\ Dir(n) \in Bundle
      BY <1>1, <2>1, TopFacts, FrameFacts DEF DirsWhole, Dir
    <2>3. QED
      BY <1>2, <2>1, <2>2 DEF Whole
  <1>25. Reported' = Reported \cup {Self}
    <2>1. Len(Path) = last /\ Path[last] = stack[last + 1].name
      BY <1>6, <1>9 DEF Path
    <2>2. Path[Len(Path)][2] = Self
      BY <1>9, <2>1 DEF Self, Top
    <2>3. Reported' = {p[Len(p)][2] : p \in graph \cup {Path}}
      BY <1>3 DEF Reported
    <2>4. QED
      BY <2>2, <2>3 DEF Reported
  <1>26. Self \in Closure[Root]
    <2>1. Root \in Image /\ Root \in Closure[Root] /\ 1 <= Len(stack) /\ 1 \in 1..Len(stack)
      BY <1>4, GraphAssumption
    <2>2. QED
      BY <1>1, <1>14, <2>1 DEF Ancestry
  <1>27. ~NotCleared /\ ~NotCleared'
    <2>1. Top'.step = "walk"
      BY <1>7, <1>8, <1>10 DEF Top
    <2>2. QED
      BY <1>2, <2>1 DEF NotCleared
  <1>28. Reporting'
    <2>1. ASSUME NEW b \in Reported \cup {Self}
          PROVE  b \in Closure[Root] \cap Bundle /\ (Whole(b)' \/ b \in OnStack')
      BY <1>1, <1>2, <1>21, <1>26 DEF Reporting, Whole
    <2>2. ASSUME NEW b \in OnDisk'
          PROVE  b \in OnStack' \cup Reported \cup {Self}
      BY <1>1, <1>2, <1>20, <1>27 DEF OnDisk, Reporting
    <2>3. QED
      BY <1>25, <2>1, <2>2 DEF Reporting
  <1>29. Fresh' /\ Flat'
    BY <1>2, <1>3, <1>27 DEF Fresh, Flat
  <1>30. QED
    BY <1>3, <1>19, <1>23, <1>24, <1>28, <1>29 DEF Pulling

\* When the first call returns, all is on disk that should be, and all of it is reported.
LEMMA PullingEnds ==
    ASSUME TypeInv, Pulling, Finish, Len(stack) = 1
    PROVE  PullIsComplete' /\ EveryDirectoryReported' /\ outcome' = "ok"
  <1>1. Calling /\ Reporting /\ Flat /\ stack # <<>> /\ Dir(1) = Root
    BY DEF Pulling, Calling
  <1>2. /\ Top.step = "walk" /\ Self \in Bundle
        /\ Whole(Self) /\ disk'[Self] \in {"original"} \cup Repo
        /\ \A b \in Bundle : b # Self => disk'[b] = disk[b]
        /\ UNCHANGED <<processed, recursive>>
    BY FinishDirs
  <1>3. UNCHANGED graph /\ outcome' = "ok" /\ (recursive => AtEnd)
    BY DEF Finish
  <1>4. Self = Root /\ OnStack = {Root}
    BY <1>1 DEF Self, Top, Dir, OnStack
  <1>5. OnDisk \subseteq {Root} \cup Reported
    BY <1>1, <1>2, <1>4 DEF Reporting, NotCleared
  <1>6. \A c \in Reported : c \in Closure[Root] \cap Bundle /\ disk'[c] \in {"original"} \cup Repo
    BY <1>1, <1>2, <1>4 DEF Reporting, Whole
  <1>7. "absent" \notin {"original"} \cup Repo /\ "partial" \notin {"original"} \cup Repo
    BY RegistryAssumption
  <1>8. OnDisk' = {Root} \cup Reported
    <2>1. ASSUME NEW b \in OnDisk' PROVE b \in {Root} \cup Reported
      BY <1>2, <1>4, <1>5 DEF OnDisk
    <2>2. ASSUME NEW b \in {Root} \cup Reported PROVE b \in OnDisk'
      BY <1>2, <1>4, <1>6, <1>7 DEF OnDisk
    <2>3. QED
      BY <2>1, <2>2
  <1>9. \A b \in OnDisk' : disk'[b] # "partial"
    BY <1>2, <1>4, <1>6, <1>7, <1>8
  <1>10. OnDisk' = IF recursive THEN Closure[Root] \cap Bundle ELSE {Root}
    <2>1. CASE recursive
      <3>1. \A c \in Closure[Root] \cap Bundle : disk'[c] \in {"original"} \cup Repo
        BY <1>2, <1>3, <1>4, <2>1, BelowIsWhole DEF Whole
      <3>2. Root \in Closure[Root] \cap Bundle
        BY GraphAssumption
      <3>3. \A c \in Closure[Root] \cap Bundle : c \in OnDisk'
        BY <1>7, <3>1 DEF OnDisk
      <3>4. QED
        BY <1>6, <1>8, <2>1, <3>2, <3>3
    <2>2. CASE ~recursive
      <3>1. Reported = {}
        BY <1>1, <2>2 DEF Flat, Reported
      <3>2. QED
        BY <1>8, <2>2, <3>1
    <2>3. QED
      BY <2>1, <2>2
  <1>11. PullIsComplete'
    BY <1>2, <1>9, <1>10 DEF PullIsComplete
  <1>12. EveryDirectoryReported'
    <2>1. Reported' = Reported
      BY <1>3 DEF Reported
    <2>2. OnDisk' = {Root} \cup Reported'
      BY <1>8, <2>1
    <2>3. QED
      BY <2>2 DEF EveryDirectoryReported, Reported
  <1>13. QED
    BY <1>3, <1>11, <1>12

\* Every step keeps it.
LEMMA CompleteStep == CompleteInv /\ [Next]_vars => CompleteInv'
  <1> SUFFICES ASSUME CompleteInv, [Next]_vars PROVE CompleteInv'
    OBVIOUS
  <1>1. /\ TypeInv /\ TypeOK /\ (outcome = "running" => Pulling)
        /\ PullIsComplete /\ EveryDirectoryReported
    BY DEF CompleteInv, TypeInv
  <1>2. TypeInv'
    BY <1>1, TypeStep
  <1>3. CASE Pull
    <2> DEFINE f == Call(<<RootRepo, Root>>, RootRepo, "fetch")
    <2>1. stack' = <<f>> /\ processed' = {} /\ graph' = {} /\ outcome' = "running"
      BY <1>1, <1>3, PullFacts
    <2>2. f.name[2] = Root /\ f.step = "fetch" /\ f.next = 1
      BY DEF Call
    <2> HIDE DEF f
    <2>3. Len(stack') = 1 /\ stack' # <<>> /\ stack'[1] = f
      BY <2>1
    <2>4. NotCleared' /\ Fresh' /\ Flat' /\ Accounted'
      BY <2>1, <2>2, <2>3 DEF NotCleared, Top, Fresh, Flat, Accounted
    <2>5. Reporting' /\ DirsWhole'
      BY <2>1, <2>2, <2>3, <2>4 DEF Reporting, Reported, DirsWhole
    <2>6. Dir(1)' = Root /\ Ancestry' /\ DirsApart' /\ Nesting' /\ Passed'
      BY <2>2, <2>3 DEF Dir, Ancestry, DirsApart, Nesting, Passed
    <2>7. Pulling'
      BY <2>3, <2>4, <2>5, <2>6 DEF Pulling, Calling
    <2>8. QED
      BY <1>2, <2>1, <2>7 DEF CompleteInv, PullIsComplete, EveryDirectoryReported
  <1>4. CASE Work
    <2>1. outcome = "running"
      BY <1>4 DEF Work, Fetch, Clear, Extract, Locate, NoLocations, Compare, NotRelocated,
             Relocated, Skip, PassContent, PullNested, Finish, CallFails, DiskFails, NotFound,
             InLoop, At
    <2>2. Pulling
      BY <1>1, <2>1
    <2>3. ASSUME Pulling', UNCHANGED outcome PROVE CompleteInv'
      BY <1>2, <2>1, <2>3 DEF CompleteInv, PullIsComplete, EveryDirectoryReported
    <2>4. CASE \/ Fetch \/ Clear \/ Extract \/ Locate \/ NoLocations \/ Compare \/ NotRelocated
               \/ Relocated \/ Skip \/ PassContent
      BY <1>1, <2>2, <2>3, <2>4, PullingWithinCall
    <2>5. CASE PullNested
      BY <1>1, <2>2, <2>3, <2>5, PullingPush
    <2>6. CASE Finish
      <3>1. CASE Len(stack) = 1
        BY <1>1, <1>2, <2>2, <2>6, <3>1, PullingEnds DEF CompleteInv
      <3>2. CASE Len(stack) # 1
        BY <1>1, <2>2, <2>3, <2>6, <3>2, PullingPop
      <3>3. QED
        BY <3>1, <3>2
    <2>7. CASE CallFails \/ DiskFails \/ NotFound
      <3>1. outcome' = "failed"
        BY <2>7 DEF CallFails, DiskFails, NotFound, Fail
      <3>2. QED
        BY <1>2, <3>1 DEF CompleteInv, PullIsComplete, EveryDirectoryReported
    <2>8. QED
      BY <1>4, <2>4, <2>5, <2>6, <2>7 DEF Work
  <1>5. CASE CopyGoesOn \/ UNCHANGED vars
    <2>1. UNCHANGED <<disk, stack, processed, graph, recursive, outcome>>
      BY <1>5, CopyFacts DEF vars, runVars
    <2>2. PullIsComplete' /\ EveryDirectoryReported'
      BY <1>1, <2>1 DEF PullIsComplete, EveryDirectoryReported, OnDisk
    <2>3. ASSUME Pulling PROVE Pulling'
      <3>1. UNCHANGED <<OnStack, NotCleared, Reported, OnDisk>>
        BY <2>1 DEF OnStack, NotCleared, Top, Reported, OnDisk
      <3>2. Calling'
        BY <2>1, <2>3 DEF Pulling, Calling, Dir, Ancestry, DirsApart, Nesting, Passed
      <3>3. Accounted' /\ DirsWhole'
        BY <2>1, <2>3, <3>1 DEF Pulling, Accounted, Settled, DirsWhole, Whole, Dir
      <3>4. Reporting' /\ Fresh' /\ Flat'
        BY <2>1, <2>3, <3>1 DEF Pulling, Reporting, Fresh, Flat, Whole
      <3>5. QED
        BY <3>2, <3>3, <3>4 DEF Pulling
    <2>4. QED
      BY <1>1, <1>2, <2>1, <2>2, <2>3 DEF CompleteInv
  <1>6. QED
    BY <1>3, <1>4, <1>5 DEF Next, Terminated

\* It holds at first, for nothing is pulled.
LEMMA CompleteInit == Init => CompleteInv
  BY InitTyped DEF Init, CompleteInv, PullIsComplete, EveryDirectoryReported

\* For every graph and registry, whatever earlier pulls left: a pull that succeeds leaves the
\* directories of its bundles, each with a whole ImagesLock, and no other.
THEOREM PullsAreComplete == Spec => []PullIsComplete
  <1>1. CompleteInv => PullIsComplete
    BY DEF CompleteInv
  <1>2. QED
    BY <1>1, CompleteInit, CompleteStep, PTL DEF Spec

\* For every graph and registry: what such a pull reports is what it left.
THEOREM DirectoriesAreReported == Spec => []EveryDirectoryReported
  <1>1. CompleteInv => EveryDirectoryReported
    BY DEF CompleteInv
  <1>2. QED
    BY <1>1, CompleteInit, CompleteStep, PTL DEF Spec

\* A step that rewrites an ImagesLock is the end of a loop, with all below on disk.
LEMMA RewriteStep ==
    ASSUME CompleteInv, [Next]_vars, NEW b \in Bundle,
           recursive, disk'[b] \in Repo, disk[b] \notin Repo
    PROVE  \A c \in (Closure[b] \cap Bundle) \ {b} : disk[c] \in {"original"} \cup Repo
  <1>1. TypeInv /\ TypeOK /\ (outcome = "running" => Pulling)
    BY DEF CompleteInv, TypeInv
  <1>2. "absent" \notin Repo /\ "partial" \notin Repo /\ "original" \notin Repo
    BY RegistryAssumption
  <1>3. disk \in [Bundle -> {"absent", "partial", "original"} \cup Repo]
    BY <1>1 DEF TypeOK
  <1>4. disk'[b] # disk[b]
    OBVIOUS
  <1>5. ~(Pull \/ CopyGoesOn \/ UNCHANGED vars)
    BY <1>4, CopyFacts DEF Pull, vars
  <1>6. Work
    BY <1>5 DEF Next, Terminated
  <1>7. Cleared(Self)[b] \notin Repo
    BY <1>2 DEF Cleared
  <1>8. [disk EXCEPT ![Self] = "original"][b] \notin Repo /\ [disk EXCEPT ![Self] = "partial"][b] \notin Repo
    BY <1>2, <1>3
  <1>9. Finish
    <2>1. CASE \/ Fetch \/ Clear \/ Extract \/ Locate \/ NoLocations \/ Compare \/ NotRelocated
               \/ Relocated \/ Skip \/ PassContent \/ PullNested
      <3>1. disk' \in {disk, Cleared(Self), [disk EXCEPT ![Self] = "original"]}
        BY <2>1 DEF Fetch, Clear, Extract, Locate, NoLocations, Compare, NotRelocated, Relocated,
                    Skip, PassContent, PullNested
      <3>2. QED
        BY <1>4, <1>7, <1>8, <3>1
    <2>2. CASE CallFails \/ DiskFails \/ NotFound
      <3>1. disk' \in {disk, Cleared(Self), [disk EXCEPT ![Self] = "partial"]}
        BY <2>2 DEF CallFails, DiskFails, NotFound
      <3>2. QED
        BY <1>4, <1>7, <1>8, <3>1
    <2>3. QED
      BY <1>6, <2>1, <2>2 DEF Work
  <1>10. Pulling
    BY <1>1, <1>9 DEF Finish, At
  <1>11. b = Self /\ Top.step = "walk"
    BY <1>1, <1>4, <1>9, <1>10, FinishDirs
  <1>12. AtEnd
    BY <1>9 DEF Finish
  <1>13. QED
    BY <1>1, <1>10, <1>11, <1>12, BelowIsWhole DEF Whole

\* For every graph and registry: an ImagesLock is rewritten after all below it is on disk.
THEOREM LocksRewrittenLast == Spec => RewrittenLast
  <1>1. CompleteInv /\ [Next]_vars =>
            [\A b \in Bundle :
                recursive /\ disk'[b] \in Repo /\ disk[b] \notin Repo =>
                    \A c \in (Closure[b] \cap Bundle) \ {b} : disk[c] \in {"original"} \cup Repo]_vars
    BY RewriteStep
  <1>2. QED
    BY <1>1, CompleteInit, CompleteStep, PTL DEF Spec, RewrittenLast

================================================================================
