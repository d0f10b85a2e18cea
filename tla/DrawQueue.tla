------------------------------- MODULE DrawQueue -------------------------------
(***************************************************************************)
(* What the render link promises: rendering done later, but of the picture *)
(* each draw had when the program issued it, in the order of the draws.  A *)
(* picture is what the draw reads of its resources.  Only a worker that is *)
(* given up (lost) takes the draws not shown yet with it.                  *)
(***************************************************************************)
EXTENDS Naturals, Sequences

CONSTANTS Pictures, NoPicture

VARIABLES queue, shown, lost

Init == queue = <<>> /\ shown = NoPicture /\ lost = FALSE

(* A draw is issued, its picture added at the end of the queue. *)
Issue ==
  /\ ~lost
  /\ Len(queue') = Len(queue) + 1 /\ queue'[Len(queue')] \in Pictures
  /\ queue' = Append(queue, queue'[Len(queue')])
  /\ UNCHANGED <<shown, lost>>

Render ==
  /\ ~lost /\ queue # <<>>
  /\ shown' = Head(queue)
  /\ queue' = Tail(queue)
  /\ UNCHANGED lost

Lose ==
  /\ ~lost /\ lost' = TRUE
  /\ queue' = <<>>
  /\ UNCHANGED shown

Next == Issue \/ Render \/ Lose

Spec == Init /\ [][Next]_<<queue, shown, lost>>
==============================================================================
