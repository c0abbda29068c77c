----------------------------- MODULE FrameQueue ------------------------------
(***************************************************************************)
(* What buf_list is for: the frames that came in and were not released,    *)
(* oldest first.  The newest frame stays; when another comes in, the       *)
(* oldest goes.  Module Preview uses this queue; BufList implements it.    *)
(***************************************************************************)
EXTENDS Sequences, Naturals

CONSTANT Bufs

VARIABLE queue

Init == queue = <<>>

(* A start of the preview. *)
Reset == queue' = <<>>

(* A frame that is not in the queue comes in. *)
Arrive(b) == (\A i \in 1..Len(queue) : queue[i] # b) /\ queue' = Append(queue, b)

Release == Len(queue) > 1 /\ queue' = Tail(queue)

Next == Reset \/ (\E b \in Bufs : Arrive(b)) \/ Release

Spec == Init /\ [][Next]_queue
=============================================================================
