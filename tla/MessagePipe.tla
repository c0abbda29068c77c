----------------------------- MODULE MessagePipe -----------------------------
(***************************************************************************)
(* One pipe of common/message_queue.c, byte by byte: message_queue_put and *)
(* message_queue_get repeat write(2) and read(2) until a struct message is *)
(* through.  Several threads use a pipe without a lock, so that it is the  *)
(* kernel (external) that keeps messages whole: a write of at most         *)
(* PIPE_BUF bytes, as these are, waits until there is room for all of it.  *)
(* This is why module Messenger can take the pipes for sequences of        *)
(* messages.  A call that a signal interrupts is restarted and changes     *)
(* nothing.                                                                *)
(*                                                                         *)
(* A byte is [from, nr]: whose message, and which of its bytes.            *)
(***************************************************************************)
EXTENDS Integers, Sequences

CONSTANTS
  Senders,
  Receivers,
  Size,       \* bytes of a struct message (32)
  Capacity    \* of the pipe (65536), at least Size

VARIABLES
  pipe,         \* the bytes in the pipe
  write_bytes,  \* per sender, written of its message, -1 outside of a put
  at,           \* per receiver: "get", or "got" when get has returned
  read_into     \* per receiver, the bytes it has read of its message

vars == <<pipe, write_bytes, at, read_into>>

Init ==
  /\ pipe = <<>>
  /\ write_bytes = [s \in Senders |-> -1]
  /\ at = [r \in Receivers |-> "get"]
  /\ read_into = [r \in Receivers |-> <<>>]

Least(a, b) == IF a < b THEN a ELSE b

-----------------------------------------------------------------------------
(* message_queue_put *)
EnterPut(s) ==
  /\ write_bytes[s] = -1
  /\ write_bytes' = [write_bytes EXCEPT ![s] = 0]
  /\ UNCHANGED <<pipe, at, read_into>>

Room == Capacity - Len(pipe)

(* How many bytes one write(2) of so many puts into the pipe at once. *)
Accepted(wanted) == {wanted} \cap 0..Room

Progress_OffByOne(written) == IF written > Size THEN -1 ELSE written

(* The loop ends with the last byte. *)
Progress(written) == IF written = Size THEN -1 ELSE written

Write_ByteByByte(s) ==
  /\ write_bytes[s] \in 0..(Size - 1)
  /\ \E n \in Accepted(1) :
       LET bytes == [i \in 1..n |-> [from |-> s, nr |-> write_bytes[s] + i]]
       IN  /\ pipe' = pipe \o bytes
           /\ write_bytes' = [write_bytes EXCEPT ![s] = Progress(@ + n)]
  /\ UNCHANGED <<at, read_into>>

Write(s) ==
  /\ write_bytes[s] \in 0..(Size - 1)
  /\ \E n \in Accepted(Size - write_bytes[s]) :
       LET bytes == [i \in 1..n |-> [from |-> s, nr |-> write_bytes[s] + i]]
       IN  /\ pipe' = pipe \o bytes
           /\ write_bytes' = [write_bytes EXCEPT ![s] = Progress(@ + n)]
  /\ UNCHANGED <<at, read_into>>

-----------------------------------------------------------------------------
(* message_queue_get, one read(2).  A receiver that has not come yet is    *)
(* one that has not read yet.                                              *)
Read(r) ==
  /\ at[r] = "get" /\ pipe # <<>>
  /\ LET n == Least(Size - Len(read_into[r]), Len(pipe))
         got == read_into[r] \o SubSeq(pipe, 1, n)
     IN  /\ read_into' = [read_into EXCEPT ![r] = got]
         /\ at' = [at EXCEPT ![r] = IF Len(got) = Size THEN "got" ELSE "get"]
         /\ pipe' = SubSeq(pipe, n + 1, Len(pipe))
  /\ UNCHANGED write_bytes

LeaveGet(r) ==
  /\ at[r] = "got"
  /\ at' = [at EXCEPT ![r] = "get"]
  /\ read_into' = [read_into EXCEPT ![r] = <<>>]
  /\ UNCHANGED <<pipe, write_bytes>>

Next ==
  \/ \E s \in Senders : EnterPut(s) \/ Write(s)
  \/ \E r \in Receivers : Read(r) \/ LeaveGet(r)

Spec == Init /\ [][Next]_vars

-----------------------------------------------------------------------------
Bytes == [from : Senders, nr : 1..Size]

TypeOK ==
  /\ pipe \in Seq(Bytes) /\ Len(pipe) <= Capacity
  /\ write_bytes \in [Senders -> -1..(Size - 1)]
  /\ at \in [Receivers -> {"get", "got"}]
  /\ \A r \in Receivers : read_into[r] \in Seq(Bytes) /\ Len(read_into[r]) <= Size

-----------------------------------------------------------------------------
(* A receiver has a message when all its bytes are of one, in order.       *)
Whole(bytes) == \A i \in 1..Size : bytes[i] = [from |-> bytes[1].from, nr |-> i]

(* A message counts as received when its last byte was read. *)
Box == INSTANCE Mailbox WITH
         queue <- [i \in 1..(Len(pipe) \div Size) |-> pipe[Size * i].from],
         received <- [r \in Receivers |->
                        IF at[r] = "get" THEN <<>>
                        ELSE IF Whole(read_into[r]) THEN <<read_into[r][1].from>>
                        ELSE <<"torn">>]

(* Without a lock among the senders, and without one among the receivers,  *)
(* the pipe is a mailbox of whole messages (message_queue.c:58-111).       *)
IsMailbox == Box!Spec
=============================================================================
