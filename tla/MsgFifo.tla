------------------------------- MODULE MsgFifo -------------------------------
(***************************************************************************)
(* What a connection promises to the two programs that use it: messages    *)
(* that Client::SendData accepted arrive one by one, whole, in the same    *)
(* order, and all of them as long as the connection holds.                 *)
(***************************************************************************)
EXTENDS Naturals, Sequences

CONSTANTS Message   \* what a message can be

VARIABLES accepted,  \* messages that SendData accepted
          handled    \* messages given to OnNetMsg

fvars == <<accepted, handled>>

Init == accepted = <<>> /\ handled = <<>>

Accept == \E m \in Message : accepted' = Append(accepted, m) /\ UNCHANGED handled

Handle ==
  /\ Len(handled) < Len(accepted)
  /\ handled' = Append(handled, accepted[Len(handled) + 1])
  /\ UNCHANGED accepted

Next == Accept \/ Handle

Safety == Init /\ [][Next]_fvars
Spec == Safety /\ WF_fvars(Handle)
=============================================================================
