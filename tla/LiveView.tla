------------------------------ MODULE LiveView ------------------------------
(* What the live connection promises a tab, without saying how: the stored   *)
(* state moves through versions, and the tab shows, of each thing it shows,  *)
(* some version the server has had, never one older than it already showed.  *)
(* A tab that is left and opened again starts with nothing.                  *)
EXTENDS Naturals

CONSTANT Parts          \* the things a tab shows, each by its version; 0 is nothing yet

VARIABLES db,           \* the version of the stored state
          shown         \* [Parts -> the version the tab shows]

Nothing == [p \in Parts |-> 0]

Init == db = 1 /\ shown = Nothing

Change == db' = db + 1 /\ UNCHANGED shown

\* One thing catches up, perhaps not all the way.
Show == /\ \E p \in Parts, v \in 1 .. db : v > shown[p] /\ shown' = [shown EXCEPT ![p] = v]
        /\ UNCHANGED db

\* A refetch may bring two things forward at once, each to a version of its own.
ShowTwo == /\ \E p, q \in Parts, v, w \in 1 .. db :
                 /\ p # q /\ v > shown[p] /\ w > shown[q]
                 /\ shown' = [shown EXCEPT ![p] = v, ![q] = w]
           /\ UNCHANGED db

Forget == shown' = Nothing /\ UNCHANGED db

Next == Change \/ Show \/ ShowTwo \/ Forget

Spec == Init /\ [][Next]_<<db, shown>>
=============================================================================
