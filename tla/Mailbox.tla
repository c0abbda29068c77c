------------------------------ MODULE Mailbox --------------------------------
(***************************************************************************)
(* What a pipe of message_queue.c promises: messages go in and come out    *)
(* whole, each once, in the order in which they went in.                   *)
(***************************************************************************)
EXTENDS Naturals, Sequences

CONSTANTS Senders, Receivers

VARIABLES
  queue,     \* of the senders of the messages
  received   \* per receiver, the sender of the message it got last, or <<>>

Init == queue = <<>> /\ received = [r \in Receivers |-> <<>>]

Send(s) == queue' = Append(queue, s) /\ UNCHANGED received

Receive(r) ==
  /\ queue # <<>>
  /\ queue' = Tail(queue)
  /\ received' = [received EXCEPT ![r] = <<Head(queue)>>]

Return(r) == received' = [received EXCEPT ![r] = <<>>] /\ UNCHANGED queue

Next ==
  \/ \E s \in Senders : Send(s)
  \/ \E r \in Receivers : Receive(r) \/ Return(r)

Spec == Init /\ [][Next]_<<queue, received>>
=============================================================================
