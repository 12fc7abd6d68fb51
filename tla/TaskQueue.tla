------------------------------ MODULE TaskQueue ------------------------------
(***************************************************************************)
(* What Task.hpp promises of the tasks it runs: each runs at most once, in *)
(* the order in which addTask accepted them.                               *)
(***************************************************************************)
EXTENDS Naturals, Sequences

CONSTANTS Tasks

VARIABLES added,  \* tasks in the order of their addTask
          ran     \* tasks in the order in which they ran

Init == added = <<>> /\ ran = <<>>

Add(t) == added' = Append(added, t) /\ UNCHANGED ran

Run ==
  /\ Len(ran) < Len(added)
  /\ ran' = Append(ran, added[Len(ran) + 1])
  /\ UNCHANGED added

Next == Run \/ \E t \in Tasks : Add(t)

Spec == Init /\ [][Next]_<<added, ran>>
=============================================================================
