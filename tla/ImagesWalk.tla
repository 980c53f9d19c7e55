------------------------------ MODULE ImagesWalk ------------------------------
(***************************************************************************)
(* What walking the graph of nested bundles promises, without goroutines,  *)
(* locks or registries: a reference is visited once everything it refers   *)
(* to has been visited, and the walk reports success only when the whole   *)
(* graph under the root has been visited.  BundleTraversal implements it.  *)
(***************************************************************************)
CONSTANTS Task,     \* one task per occurrence of an image reference
          Root,     \* the task of the bundle the user named
          Under     \* Under[t]: the occurrences listed in the ImagesLock of t

VARIABLES walked,   \* the tasks whose part of the graph is completely visited
          outcome   \* what the caller of the walk has been told

vars == <<walked, outcome>>

Outcome == {"running", "ok", "failed"}

Init == /\ walked = {}
        /\ outcome = "running"

Visit(t) == /\ t \notin walked \cup {Root}
            /\ Under[t] \subseteq walked
            /\ walked' = walked \cup {t}
            /\ UNCHANGED outcome

Succeed == /\ outcome = "running"
           /\ Under[Root] \subseteq walked
           /\ walked' = walked \cup {Root}
           /\ outcome' = "ok"

\* Goroutines that were already running keep visiting after a failure.
Fail == /\ outcome = "running"
        /\ outcome' = "failed"
        /\ UNCHANGED walked

Report == Succeed \/ Fail

Next == Report \/ \E t \in Task : Visit(t)

Spec == Init /\ [][Next]_vars

FairSpec == Spec /\ WF_vars(Next)
================================================================================
