----------------------------- MODULE PartsProofs ------------------------------
(***************************************************************************)
(* Proofs about the parts that share nothing with the preview nor with     *)
(* each other (see Parts): the pipe is a mailbox of whole messages, the  *)
(* list in memory is a queue, and captured files keep the order of the     *)
(* frames, for any number of threads, buffers, frames and processes.       *)
(***************************************************************************)
EXTENDS Parts, FiniteSetTheorems, SequenceTheorems, TLAPS

-----------------------------------------------------------------------------
LEMMA Multiple ==
  ASSUME NEW s \in Nat \ {0}, NEW n \in Nat
  PROVE  (s * n) \div s = n
OBVIOUS

LEMMA TimesMore ==
  ASSUME NEW s \in Nat, NEW a \in Nat, NEW b \in Nat, a <= b
  PROVE  s * a <= s * b /\ s * a \in Nat /\ s * b \in Nat
OBVIOUS

LEMMA NextMultiple ==
  ASSUME NEW s \in Nat, NEW a \in Nat
  PROVE  /\ s * (a + 1) = s * a + s /\ s * (a + 1) \in Nat /\ s * a \in Nat
         /\ s * ((a + 1) - 1) = s * a
OBVIOUS

(* n whole messages. *)
Holds(n) ==
  /\ Len(pipe) = Size * n
  /\ \A k \in 1..n, j \in 1..Size : pipe[Size * (k - 1) + j] = [from |-> pipe[Size * k].from, nr |-> j]

PipeInv ==
  /\ pipe \in Seq(M!Bytes)
  /\ write_bytes \in [Senders -> {-1, 0}]
  /\ at \in [Receivers -> {"get", "got"}]
  /\ read_into \in [Receivers -> Seq(M!Bytes)]
  /\ \A r \in Receivers : at[r] = "get" => read_into[r] = <<>>
  /\ \E n \in Nat : Holds(n)

Queue == [i \in 1..(Len(pipe) \div Size) |-> pipe[Size * i].from]

Received ==
  [r \in Receivers |->
     IF at[r] = "get" THEN <<>>
     ELSE IF M!Whole(read_into[r]) THEN <<read_into[r][1].from>>
     ELSE <<"torn">>]

LEMMA QueueIs ==
  ASSUME PipeAssumption
  PROVE  \A n \in Nat : Holds(n) =>
            Queue = [i \in 1..n |-> pipe[Size * i].from] 
BY Multiple DEF PipeAssumption, Holds, Queue

LEMMA QueueWas ==
  ASSUME PipeAssumption
  PROVE  \A n \in Nat : Holds(n)' =>
            Queue' = [i \in 1..n |-> pipe'[Size * i].from] 
BY Multiple DEF PipeAssumption, Holds, Queue

LEMMA PipeInit ==
  ASSUME PipeAssumption, M!Init
  PROVE  PipeInv /\ Queue = <<>> /\ Received = [r \in Receivers |-> <<>>]
<1>1. Holds(0)
  BY DEF PipeAssumption, M!Init, Holds
<1>2. Queue = <<>>
  BY <1>1, QueueIs
<1> QED  BY <1>1, <1>2 DEF M!Init, PipeInv, Received

(* The bytes of message k of n. *)
LEMMA Places ==
  ASSUME PipeAssumption, NEW n \in Nat, NEW k \in 1..n, NEW j \in 1..Size
  PROVE  /\ Size * (k - 1) + j \in 1..(Size * n)
         /\ Size * k \in 1..(Size * n) /\ Size * k = Size * (k - 1) + Size
         /\ Size * n \in Nat
<1>1. k - 1 \in Nat /\ (k - 1) + 1 = k
  OBVIOUS
<1>2. PICK h \in Nat : h = k - 1 /\ h + 1 = k
  BY <1>1
<1>3. /\ Size * k = Size * h + Size /\ Size * k \in Nat /\ Size * h \in Nat
  BY <1>2, NextMultiple DEF PipeAssumption
<1>4. Size * k <= Size * n /\ Size * n \in Nat
  BY TimesMore DEF PipeAssumption
<1> QED  BY <1>2, <1>3, <1>4 DEF PipeAssumption

LEMMA WriteStep ==
  ASSUME PipeAssumption, PipeInv, NEW s \in Senders, M!Write(s)
  PROVE  PipeInv' /\ Queue' = Append(Queue, s) /\ Received' = Received
<1>0. PICK n \in Nat : Holds(n)
  BY DEF PipeInv
<1>1. PICK bytes : bytes = [i \in 1..Size |-> [from |-> s, nr |-> i]]
  OBVIOUS
<1>2. write_bytes[s] = 0
  BY DEF PipeInv, M!Write
<1>3. pipe' = pipe \o bytes /\ write_bytes' = [write_bytes EXCEPT ![s] = -1] /\ UNCHANGED <<at, read_into>>
  <2>1. PICK m \in M!Accepted(Size - 0) :
          /\ pipe' = pipe \o [i \in 1..m |-> [from |-> s, nr |-> 0 + i]]
          /\ write_bytes' = [write_bytes EXCEPT ![s] = M!Progress(@ + m)]
          /\ UNCHANGED <<at, read_into>>
    BY <1>2 DEF M!Write
  <2>2. m = Size
    BY <2>1 DEF M!Accepted, PipeAssumption
  <2>3. [i \in 1..m |-> [from |-> s, nr |-> 0 + i]] = bytes
    BY <1>1, <2>2
  <2>4. M!Progress(write_bytes[s] + m) = -1
    BY <1>2, <2>2 DEF M!Progress, PipeAssumption
  <2> QED  BY <2>1, <2>3, <2>4
<1>4. bytes \in Seq(M!Bytes) /\ Len(bytes) = Size
  BY <1>1 DEF M!Bytes, PipeAssumption
<1>5. /\ pipe' \in Seq(M!Bytes) /\ Len(pipe') = Size * n + Size
      /\ \A i \in 1..(Size * n) : pipe'[i] = pipe[i]
      /\ \A j \in 1..Size : pipe'[Size * n + j] = bytes[j]
  <2>1. pipe \in Seq(M!Bytes) /\ Len(pipe) = Size * n /\ Size * n \in Nat
    BY <1>0 DEF PipeInv, Holds
  <2>2. /\ pipe' \in Seq(M!Bytes) /\ Len(pipe') = Len(pipe) + Len(bytes)
        /\ \A i \in 1..(Len(pipe) + Len(bytes)) :
             pipe'[i] = IF i <= Len(pipe) THEN pipe[i] ELSE bytes[i - Len(pipe)]
    BY <1>3, <1>4, <2>1, ConcatProperties
  <2>3. PICK top \in Nat : top = Size * n
    BY <2>1
  <2>4. /\ \A i \in 1..top : pipe'[i] = pipe[i]
        /\ \A j \in 1..Size : pipe'[top + j] = bytes[j]
    BY <1>4, <2>1, <2>2, <2>3 DEF PipeAssumption
  <2> QED  BY <1>4, <2>1, <2>2, <2>3, <2>4
<1>6. /\ Size * (n + 1) = Size * n + Size /\ Size * n \in Nat /\ Size * (n + 1) \in Nat
      /\ Size * ((n + 1) - 1) = Size * n
  BY NextMultiple DEF PipeAssumption
<1>7. pipe'[Size * (n + 1)].from = s
  BY <1>1, <1>5, <1>6 DEF PipeAssumption
<1>8. Holds(n + 1)'
  <2>1. ASSUME NEW k \in 1..(n + 1), NEW j \in 1..Size
        PROVE  pipe'[Size * (k - 1) + j] = [from |-> pipe'[Size * k].from, nr |-> j]
    <3>1. CASE k \in 1..n
      <4>1. Size * (k - 1) + j \in 1..(Size * n) /\ Size * k \in 1..(Size * n)
        BY <3>1, Places
      <4>2. /\ pipe'[Size * (k - 1) + j] = pipe[Size * (k - 1) + j]
            /\ pipe'[Size * k] = pipe[Size * k]
        BY <1>5, <4>1, Zenon
      <4>3. pipe[Size * (k - 1) + j] = [from |-> pipe[Size * k].from, nr |-> j]
        BY <1>0, <3>1, Zenon DEF Holds
      <4> QED  BY <4>2, <4>3, Zenon
    <3>2. CASE k = n + 1
      <4>1. pipe'[Size * (k - 1) + j] = bytes[j] /\ pipe'[Size * k].from = s
        BY <1>5, <1>6, <1>7, <3>2
      <4> QED  BY <1>1, <4>1
    <3> QED  BY <3>1, <3>2
  <2> QED  BY <1>5, <1>6, <2>1 DEF Holds
<1>9. Queue' = Append(Queue, s)
  <2>1. Queue = [i \in 1..n |-> pipe[Size * i].from] /\ Queue' = [i \in 1..(n + 1) |-> pipe'[Size * i].from]
    BY <1>0, <1>8, QueueIs, QueueWas
  <2>2. \A i \in 1..n : pipe'[Size * i] = pipe[Size * i]
    <3> SUFFICES ASSUME NEW i \in 1..n  PROVE pipe'[Size * i] = pipe[Size * i]
      OBVIOUS
    <3>1. Size \in 1..Size
      BY DEF PipeAssumption
    <3> QED  BY <1>5, <3>1, Places
  <2>3. PICK q : q = [i \in 1..n |-> pipe[Size * i].from]
    OBVIOUS
  <2>4. \A i \in 1..(n + 1) : Queue'[i] = IF i <= n THEN q[i] ELSE s
    BY <1>7, <2>1, <2>2, <2>3
  <2>5. DOMAIN Queue' = 1..(n + 1)
    BY <2>1
  <2>6. Queue' = [i \in 1..(n + 1) |-> IF i <= n THEN q[i] ELSE s]
    BY <2>1, <2>4, <2>5
  <2>7. Append(q, s) = [i \in 1..(n + 1) |-> IF i <= n THEN q[i] ELSE s]
    BY <2>3
  <2> QED  BY <2>1, <2>3, <2>6, <2>7
<1>10. PipeInv'
  BY <1>3, <1>5, <1>8 DEF PipeInv
<1> QED  BY <1>3, <1>9, <1>10 DEF Received

LEMMA ReadStep ==
  ASSUME PipeAssumption, PipeInv, NEW r \in Receivers, M!Read(r)
  PROVE  /\ PipeInv' /\ Queue # <<>> /\ Queue' = Tail(Queue)
         /\ Received' = [Received EXCEPT ![r] = <<Head(Queue)>>]
<1>0. PICK n \in Nat : Holds(n)
  BY DEF PipeInv
<1>1. pipe \in Seq(M!Bytes) /\ Len(pipe) = Size * n /\ pipe # <<>> /\ at[r] = "get" /\ read_into[r] = <<>>
  BY <1>0 DEF PipeInv, Holds, M!Read
<1>2. n # 0
  <2>1. CASE n = 0
    <3>1. Len(pipe) = 0
      BY <1>1, <2>1 DEF PipeAssumption
    <3> QED  BY <1>1, <3>1
  <2> QED  BY <2>1
<1>3. PICK m \in Nat : n = m + 1
  <2>1. n - 1 \in Nat /\ (n - 1) + 1 = n
    BY <1>2
  <2> QED  BY <2>1
<1>4. Size * n = Size * m + Size /\ Size * m \in Nat /\ Size * n \in Nat
  BY <1>3, NextMultiple DEF PipeAssumption
<1>5. PICK top \in Nat : top = Size * m
  BY <1>4
<1>6. Len(pipe) = top + Size
  BY <1>1, <1>4, <1>5
<1>7. PICK got : got = SubSeq(pipe, 1, Size)
  OBVIOUS
<1>8. /\ got \in Seq(M!Bytes) /\ Len(got) = Size /\ \A i \in 1..Size : got[i] = pipe[i]
  BY <1>1, <1>6, <1>7, SubSeqProperties DEF PipeAssumption
<1>9. /\ pipe' = SubSeq(pipe, Size + 1, Len(pipe)) /\ write_bytes' = write_bytes
      /\ read_into' = [read_into EXCEPT ![r] = got] /\ at' = [at EXCEPT ![r] = "got"]
  <2>1. M!Least(Size - Len(read_into[r]), Len(pipe)) = Size
    BY <1>1, <1>6 DEF M!Least, PipeAssumption
  <2>2. read_into[r] \o SubSeq(pipe, 1, Size) = got
    BY <1>1, <1>7, <1>8
  <2> QED  BY <1>8, <2>1, <2>2 DEF M!Read
<1>10. /\ pipe' \in Seq(M!Bytes) /\ Len(pipe') = top /\ \A i \in 1..top : pipe'[i] = pipe[Size + i]
  BY <1>1, <1>6, <1>9, SubSeqProperties DEF PipeAssumption
<1>11. Holds(m)'
  <2>1. ASSUME NEW k \in 1..m, NEW j \in 1..Size
        PROVE  pipe'[Size * (k - 1) + j] = [from |-> pipe'[Size * k].from, nr |-> j]
    <3>1. PICK h \in 1..n : h = k + 1
      BY <1>3
    <3>2. pipe[Size * (h - 1) + j] = [from |-> pipe[Size * h].from, nr |-> j]
      BY <1>0, <3>1 DEF Holds
    <3>3. /\ Size * (k - 1) + j \in 1..top /\ Size * k \in 1..top /\ Size * k = Size * (k - 1) + Size
      BY <1>5, Places
    <3>4. Size * (h - 1) = Size * k /\ Size * h = Size * k + Size
      BY <3>1, NextMultiple DEF PipeAssumption
    <3>5. Size + (Size * (k - 1) + j) = Size * (h - 1) + j /\ Size + Size * k = Size * h
      <4>1. PICK x \in Int : x = Size * (k - 1)
        BY <3>3 DEF PipeAssumption
      <4>2. PICK y \in Int : y = Size * k
        BY <3>3
      <4> QED  BY <3>3, <3>4, <4>1, <4>2 DEF PipeAssumption
    <3>6. /\ pipe'[Size * (k - 1) + j] = pipe[Size + (Size * (k - 1) + j)]
          /\ pipe'[Size * k] = pipe[Size + Size * k]
      BY <1>10, <3>3
    <3> QED  BY <3>2, <3>5, <3>6
  <2> QED  BY <1>5, <1>10, <2>1 DEF Holds
<1>12. M!Whole(got) /\ got[1].from = pipe[Size].from
  <2>1. \A i \in 1..Size : pipe[i] = [from |-> pipe[Size].from, nr |-> i]
    <3>1. \A i \in 1..Size : pipe[Size * (1 - 1) + i] = [from |-> pipe[Size * 1].from, nr |-> i]
      BY <1>0, <1>3 DEF Holds
    <3>2. Size * (1 - 1) = 0 /\ Size * 1 = Size
      BY DEF PipeAssumption
    <3> QED  BY <3>1, <3>2 DEF PipeAssumption
  <2>2. PICK x : x = pipe[Size].from
    OBVIOUS
  <2>3. \A i \in 1..Size : got[i] = [from |-> x, nr |-> i]
    BY <1>8, <2>1, <2>2
  <2>4. got[1].from = x
    <3>1. 1 \in 1..Size
      BY DEF PipeAssumption
    <3>2. got[1] = [from |-> x, nr |-> 1]
      BY <2>3, <3>1
    <3> QED  BY <3>2
  <2> QED  BY <2>2, <2>3, <2>4 DEF M!Whole
<1>13. /\ Queue # <<>> /\ Head(Queue) = pipe[Size].from /\ Queue' = Tail(Queue)
  <2>1. Queue = [i \in 1..n |-> pipe[Size * i].from] /\ Queue' = [i \in 1..m |-> pipe'[Size * i].from]
    BY <1>0, <1>11, QueueIs, QueueWas
  <2>2. PICK q : q = [i \in 1..n |-> pipe[Size * i].from]
    OBVIOUS
  <2>3. q # <<>> /\ Head(q) = pipe[Size].from /\ Tail(q) = [i \in 1..m |-> q[i + 1]]
    <3>1. Size * 1 = Size
      BY DEF PipeAssumption
    <3> QED  BY <1>3, <2>2, <3>1
  <2>4. \A i \in 1..m : pipe'[Size * i] = pipe[Size * (i + 1)]
    <3> SUFFICES ASSUME NEW i \in 1..m  PROVE pipe'[Size * i] = pipe[Size * (i + 1)]
      OBVIOUS
    <3>1. Size * i \in 1..top
      <4>1. Size \in 1..Size
        BY DEF PipeAssumption
      <4> QED  BY <1>5, <4>1, Places
    <3>2. Size * (i + 1) = Size + Size * i
      BY NextMultiple DEF PipeAssumption
    <3> QED  BY <1>10, <3>1, <3>2
  <2>5. Queue' = [i \in 1..m |-> q[i + 1]]
    BY <1>3, <2>1, <2>2, <2>4
  <2> QED  BY <2>1, <2>2, <2>3, <2>5
<1>14. Received' = [Received EXCEPT ![r] = <<Head(Queue)>>]
  <2>1. at'[r] = "got" /\ read_into'[r] = got
    BY <1>9 DEF PipeInv
  <2>2. \A s \in Receivers : s # r => at'[s] = at[s] /\ read_into'[s] = read_into[s]
    BY <1>9 DEF PipeInv
  <2>3. Received'[r] = <<Head(Queue)>> /\ \A s \in Receivers : s # r => Received'[s] = Received[s]
    BY <1>12, <1>13, <2>1, <2>2 DEF Received, M!Whole
  <2>4. Received' = [s \in Receivers |-> Received'[s]] /\ Received = [s \in Receivers |-> Received[s]]
    BY DEF Received
  <2> HIDE DEF Received
  <2> QED  BY <2>3, <2>4
<1>15. PipeInv'
  BY <1>8, <1>9, <1>10, <1>11 DEF PipeInv
<1> QED  BY <1>13, <1>14, <1>15

LEMMA LeaveStep ==
  ASSUME PipeInv, NEW r \in Receivers, M!LeaveGet(r)
  PROVE  PipeInv' /\ Queue' = Queue /\ Received' = [Received EXCEPT ![r] = <<>>]
<1>1. /\ at' = [at EXCEPT ![r] = "get"] /\ read_into' = [read_into EXCEPT ![r] = <<>>]
      /\ UNCHANGED <<pipe, write_bytes>>
  BY DEF M!LeaveGet
<1>2. PipeInv'
  BY <1>1 DEF PipeInv, Holds
<1>3. /\ Received'[r] = <<>>
      /\ \A s \in Receivers : s # r => Received'[s] = Received[s]
  BY <1>1 DEF PipeInv, Received, M!Whole
<1>4. Received' = [s \in Receivers |-> Received'[s]] /\ Received = [s \in Receivers |-> Received[s]]
  BY DEF Received
<1>5. Received' = [Received EXCEPT ![r] = <<>>]
  <2> HIDE DEF Received
  <2> QED  BY <1>3, <1>4
<1> QED  BY <1>1, <1>2, <1>5 DEF Queue

LEMMA PipeStep ==
  ASSUME PipeAssumption, PipeInv, [M!Next]_(M!vars)
  PROVE  PipeInv' /\ [M!Box!Next]_<<Queue, Received>>
<1>1. ASSUME NEW s \in Senders, M!EnterPut(s)
      PROVE  PipeInv' /\ Queue' = Queue /\ Received' = Received
  BY <1>1 DEF M!EnterPut, PipeInv, Holds, Queue, Received
<1>2. ASSUME NEW s \in Senders, M!Write(s)
      PROVE  PipeInv' /\ M!Box!Send(s)
  BY <1>2, WriteStep DEF M!Box!Send, Queue, Received
<1>3. ASSUME NEW r \in Receivers, M!Read(r)
      PROVE  PipeInv' /\ M!Box!Receive(r)
  BY <1>3, ReadStep DEF M!Box!Receive, Queue, Received
<1>4. ASSUME NEW r \in Receivers, M!LeaveGet(r)
      PROVE  PipeInv' /\ M!Box!Return(r)
  BY <1>4, LeaveStep DEF M!Box!Return, Queue, Received
<1>5. CASE UNCHANGED M!vars
  BY <1>5 DEF M!vars, PipeInv, Holds, Queue, Received
<1> QED  BY <1>1, <1>2, <1>3, <1>4, <1>5 DEF M!Next, M!Box!Next

(* Whatever the size of a message and the capacity of the pipe, and        *)
(* however many threads put into it and get from it without a lock, the    *)
(* pipe is a mailbox of whole messages (message_queue.c:58-111).           *)
THEOREM PipeIsMailbox ==
  ASSUME PipeAssumption
  PROVE  M!Spec => M!IsMailbox
<1>1. M!Init => PipeInv /\ M!Box!Init
  BY PipeInit DEF M!Box!Init, Queue, Received
<1>2. PipeInv /\ [M!Next]_(M!vars) => PipeInv' /\ [M!Box!Next]_<<Queue, Received>>
  BY PipeStep
<1> QED  BY <1>1, <1>2, PTL DEF M!Spec, M!IsMailbox, M!Box!Spec, Queue, Received

(* What is in the pipe and what a receiver has read stay within their      *)
(* sizes.                                                                  *)
Fits ==
  /\ Len(pipe) <= Capacity
  /\ \A r \in Receivers : Len(read_into[r]) <= Size

LEMMA FitsStep ==
  ASSUME PipeAssumption, PipeInv, Fits, [M!Next]_(M!vars)
  PROVE  Fits'
<1>1. ASSUME NEW s \in Senders, M!EnterPut(s)
      PROVE  Fits'
  BY <1>1 DEF M!EnterPut, Fits
<1>2. ASSUME NEW s \in Senders, M!Write(s)
      PROVE  Fits'
  <2>0. write_bytes[s] = 0 /\ pipe \in Seq(M!Bytes)
    BY <1>2 DEF M!Write, PipeInv
  <2>1. PICK m \in M!Accepted(Size - 0) :
          pipe' = pipe \o [i \in 1..m |-> [from |-> s, nr |-> 0 + i]]
    BY <1>2, <2>0 DEF M!Write
  <2>2. m \in 0..(Capacity - Len(pipe)) /\ m = Size
    BY <2>1 DEF M!Accepted, M!Room, PipeAssumption
  <2>3. PICK bytes : bytes = [i \in 1..m |-> [from |-> s, nr |-> 0 + i]]
    OBVIOUS
  <2>4. bytes \in Seq(M!Bytes) /\ Len(bytes) = m
    BY <2>2, <2>3 DEF M!Bytes, PipeAssumption
  <2>5. Len(pipe') = Len(pipe) + m
    <3>1. pipe' = pipe \o bytes
      BY <2>1, <2>3
    <3>2. Len(pipe \o bytes) = Len(pipe) + Len(bytes)
      BY <2>0, <2>4, ConcatProperties
    <3> QED  BY <2>4, <3>1, <3>2
  <2>6. UNCHANGED read_into
    BY <1>2 DEF M!Write
  <2> QED  BY <2>0, <2>2, <2>5, <2>6 DEF Fits, PipeAssumption
<1>3. ASSUME NEW r \in Receivers, M!Read(r)
      PROVE  Fits'
  <2>1. /\ at[r] = "get" /\ read_into[r] = <<>> /\ pipe \in Seq(M!Bytes)
        /\ pipe' = SubSeq(pipe, M!Least(Size - 0, Len(pipe)) + 1, Len(pipe))
        /\ read_into' = [read_into EXCEPT ![r] =
                           <<>> \o SubSeq(pipe, 1, M!Least(Size - 0, Len(pipe)))]
    <3>1. at[r] = "get" /\ pipe \in Seq(M!Bytes) /\ read_into[r] = <<>>
      BY <1>3 DEF M!Read, PipeInv
    <3>2. Len(read_into[r]) = 0
      BY <3>1
    <3> QED  BY <1>3, <3>1, <3>2, Zenon DEF M!Read
  <2>2. PICK m \in Nat : m = M!Least(Size - 0, Len(pipe)) /\ m <= Size /\ m <= Len(pipe)
    BY <2>1 DEF M!Least, PipeAssumption
  <2>3. Len(pipe') <= Len(pipe) /\ Len(pipe) \in Nat /\ Len(pipe') \in Nat
    BY <2>1, <2>2, SubSeqProperties
  <2>4. Len(<<>> \o SubSeq(pipe, 1, m)) = m
    BY <2>1, <2>2
  <2>5. \A q \in Receivers : Len(read_into'[q]) <= Size
    BY <2>1, <2>2, <2>4 DEF Fits, PipeInv
  <2> QED  BY <2>3, <2>5 DEF Fits, PipeAssumption
<1>4. ASSUME NEW r \in Receivers, M!LeaveGet(r)
      PROVE  Fits'
  BY <1>4 DEF M!LeaveGet, Fits, PipeInv, PipeAssumption
<1>5. CASE UNCHANGED M!vars
  BY <1>5 DEF M!vars, Fits
<1> QED  BY <1>1, <1>2, <1>3, <1>4, <1>5 DEF M!Next

LEMMA PipeTypes == ASSUME PipeAssumption PROVE M!Spec => []M!TypeOK
<1>1. M!Init => PipeInv /\ Fits
  BY PipeInit DEF M!Init, Fits, PipeAssumption
<1>2. PipeInv /\ Fits /\ [M!Next]_(M!vars) => PipeInv' /\ Fits'
  BY PipeStep, FitsStep
<1>3. PipeInv /\ Fits => M!TypeOK
  <2> SUFFICES ASSUME PipeInv, Fits  PROVE M!TypeOK
    OBVIOUS
  <2>1. write_bytes \in [Senders -> -1..(Size - 1)]
    <3>1. -1 \in -1..(Size - 1) /\ 0 \in -1..(Size - 1)
      BY DEF PipeAssumption
    <3> QED  BY <3>1 DEF PipeInv
  <2> QED  BY <2>1 DEF PipeInv, Fits, M!TypeOK
<1> QED  BY <1>1, <1>2, <1>3, PTL DEF M!Spec

-----------------------------------------------------------------------------
(* The nodes on the way along the pointers in links, from the first on. *)
Onward(links, g, i) ==
  IF i = 0 THEN links[buf_list] ELSE IF g[i - 1] \in Entries THEN links[g[i - 1]] ELSE Wild
Way(links) == CHOOSE g : g = [i \in 0..L!Cardinality(L!Nodes) |-> Onward(links, g, i)]
Top(way) == CHOOSE i \in DOMAIN way : way[i] \notin Entries /\ \A j \in 0..(i - 1) : way[j] \in Entries

LEMMA WalkIs ==
  ASSUME NEW links
  PROVE  L!Walk(links) = [i \in 1..Top(Way(links)) |-> Way(links)[i - 1]]
BY Zenon DEF L!Walk, Top, Way, Onward

(* A circle through the head and the entries in q, of which there are no   *)
(* more than two between the steps of handle_preview_buffer.               *)
Circle(links, q) ==
  \/ /\ q = <<>> /\ links[buf_list] = buf_list
  \/ \E b \in Entries : q = <<b>> /\ links[buf_list] = b /\ links[b] = buf_list
  \/ \E b, c \in Entries : /\ b # c /\ q = <<b, c>>
                        /\ links[buf_list] = b /\ links[b] = c /\ links[c] = buf_list

LEMMA NodesAtLeast ==
  ASSUME ListAssumption
  PROVE  /\ L!Cardinality(L!Nodes) \in Nat /\ L!Cardinality(L!Nodes) >= 1
         /\ \A b \in Entries : L!Cardinality(L!Nodes) >= 2
         /\ \A b, c \in Entries : b # c => L!Cardinality(L!Nodes) >= 3
<1>0. L!Cardinality(L!Nodes) = Cardinality(L!Nodes)
  BY DEF L!Cardinality, Cardinality
<1>1. IsFiniteSet(L!Nodes) /\ L!Nodes = Entries \cup {buf_list}
  BY FS_AddElement DEF ListAssumption, L!Nodes
<1>2. IsFiniteSet({buf_list}) /\ Cardinality({buf_list}) = 1
  BY FS_Singleton
<1>3. ASSUME NEW S \in SUBSET L!Nodes
      PROVE  Cardinality(S) <= Cardinality(L!Nodes)
  BY <1>1, FS_Subset
<1>4. Cardinality(L!Nodes) \in Nat
  BY <1>1, FS_CardinalityType
<1>5. \A b \in Entries : IsFiniteSet({buf_list} \cup {b}) /\ Cardinality({buf_list} \cup {b}) = 2
  <2> SUFFICES ASSUME NEW b \in Entries
               PROVE  IsFiniteSet({buf_list} \cup {b}) /\ Cardinality({buf_list} \cup {b}) = 2
    OBVIOUS
  <2>1. PICK S : S = {buf_list}
    OBVIOUS
  <2>2. b \notin S /\ IsFiniteSet(S) /\ Cardinality(S) = 1
    BY <1>2, <2>1 DEF ListAssumption
  <2>3. IsFiniteSet(S \cup {b}) /\ Cardinality(S \cup {b}) = 1 + 1
    BY <2>2, FS_AddElement
  <2> QED  BY <2>1, <2>3
<1>6. \A b, c \in Entries : b # c => Cardinality(({buf_list} \cup {b}) \cup {c}) = 3
  <2> SUFFICES ASSUME NEW b \in Entries, NEW c \in Entries, b # c
               PROVE  Cardinality(({buf_list} \cup {b}) \cup {c}) = 3
    OBVIOUS
  <2>1. PICK S : S = {buf_list} \cup {b}
    OBVIOUS
  <2>2. c \notin S /\ IsFiniteSet(S) /\ Cardinality(S) = 2
    BY <1>5, <2>1 DEF ListAssumption
  <2>3. Cardinality(S \cup {c}) = 2 + 1
    BY <2>2, FS_AddElement
  <2> QED  BY <2>1, <2>3
<1>7. {buf_list} \subseteq L!Nodes
  BY <1>1
<1>8. \A b \in Entries : {buf_list} \cup {b} \subseteq L!Nodes
  BY <1>1
<1>9. \A b, c \in Entries : ({buf_list} \cup {b}) \cup {c} \subseteq L!Nodes
  BY <1>1
<1>10. 1 <= Cardinality(L!Nodes)
  BY <1>2, <1>3, <1>7
<1>11. \A b \in Entries : 2 <= Cardinality(L!Nodes)
  BY <1>3, <1>5, <1>8
<1>12. \A b, c \in Entries : b # c => 3 <= Cardinality(L!Nodes)
  BY ZenonT(60), <1>3, <1>6, <1>9
<1> QED  BY <1>0, <1>4, <1>10, <1>11, <1>12

LEMMA WayIs ==
  ASSUME ListAssumption, NEW links, NEW q, Circle(links, q)
  PROVE  Way(links) = [i \in 0..L!Cardinality(L!Nodes) |-> Onward(links, Way(links), i)]
<1>0. PICK n \in Nat : n = L!Cardinality(L!Nodes)
  BY NodesAtLeast
<1>1. \E g : g = [i \in 0..n |-> Onward(links, g, i)]
  <2>1. CASE q = <<>> /\ links[buf_list] = buf_list
    <3>1. PICK g : g = [i \in 0..n |-> IF i = 0 THEN buf_list ELSE Wild]
      OBVIOUS
    <3>2. \A i \in 0..n : g[i] = Onward(links, g, i)
      BY <2>1, <3>1 DEF Onward, ListAssumption
    <3>3. g = [i \in 0..n |-> Onward(links, g, i)]
      BY <3>1, <3>2
    <3> QED  BY <3>3
  <2>2. ASSUME NEW b \in Entries, q = <<b>>, links[buf_list] = b, links[b] = buf_list
        PROVE  \E g : g = [i \in 0..n |-> Onward(links, g, i)]
    <3>1. PICK g : g = [i \in 0..n |-> IF i = 0 THEN b ELSE IF i = 1 THEN buf_list ELSE Wild]
      OBVIOUS
    <3>2. \A i \in 0..n : g[i] = Onward(links, g, i)
      BY <2>2, <3>1 DEF Onward, ListAssumption
    <3>3. g = [i \in 0..n |-> Onward(links, g, i)]
      BY <3>1, <3>2
    <3> QED  BY <3>3
  <2>3. ASSUME NEW b \in Entries, NEW c \in Entries, b # c, q = <<b, c>>,
               links[buf_list] = b, links[b] = c, links[c] = buf_list
        PROVE  \E g : g = [i \in 0..n |-> Onward(links, g, i)]
    <3>1. PICK g : g = [i \in 0..n |-> IF i = 0 THEN b ELSE IF i = 1 THEN c
                                       ELSE IF i = 2 THEN buf_list ELSE Wild]
      OBVIOUS
    <3>2. \A i \in 0..n : g[i] = Onward(links, g, i)
      BY <2>3, <3>1 DEF Onward, ListAssumption
    <3>3. g = [i \in 0..n |-> Onward(links, g, i)]
      BY <3>1, <3>2
    <3> QED  BY <3>3
  <2> QED  BY <2>1, <2>2, <2>3 DEF Circle
<1> QED  BY <1>0, <1>1, Zenon DEF Way

LEMMA TopIs ==
  ASSUME NEW way, NEW n \in Nat, DOMAIN way = 0..n, NEW k \in 0..n,
         way[k] \notin Entries, \A j \in 0..(k - 1) : way[j] \in Entries
  PROVE  Top(way) = k
<1>1. \A i \in 0..n : way[i] \notin Entries /\ (\A j \in 0..(i - 1) : way[j] \in Entries) => i = k
  <2> SUFFICES ASSUME NEW i \in 0..n, way[i] \notin Entries, \A j \in 0..(i - 1) : way[j] \in Entries
               PROVE  i = k
    OBVIOUS
  <2>1. ~(i < k)
    OBVIOUS
  <2>2. ~(k < i)
    OBVIOUS
  <2> QED  BY <2>1, <2>2
<1> QED  BY <1>1 DEF Top

LEMMA WalkCircle ==
  ASSUME ListAssumption, NEW links, NEW q, Circle(links, q)
  PROVE  L!Walk(links) = q /\ L!Circular(links)
<1>0. PICK n \in Nat : n = L!Cardinality(L!Nodes)
  BY NodesAtLeast
<1>1. PICK w : w = Way(links)
  OBVIOUS
<1>2. w = [i \in 0..n |-> Onward(links, w, i)]
  BY <1>0, <1>1, WayIs
<1>3. DOMAIN w = 0..n /\ w[0] = links[buf_list]
  BY <1>2 DEF Onward
<1>4. n >= 1 /\ w[0] \in Entries => w[1] = links[w[0]]
  <2> SUFFICES ASSUME n >= 1, w[0] \in Entries  PROVE w[1] = links[w[0]]
    OBVIOUS
  <2>1. w[1] = Onward(links, w, 1)
    BY <1>2
  <2> QED  BY <2>1 DEF Onward
<1>5. n >= 2 /\ w[1] \in Entries => w[2] = links[w[1]]
  <2> SUFFICES ASSUME n >= 2, w[1] \in Entries  PROVE w[2] = links[w[1]]
    OBVIOUS
  <2>1. w[2] = Onward(links, w, 2)
    BY <1>2
  <2> QED  BY <2>1 DEF Onward
<1>6. L!Walk(links) = [i \in 1..Top(w) |-> w[i - 1]]
  BY <1>1, WalkIs
<1>7. CASE q = <<>> /\ links[buf_list] = buf_list
  <2>1. w[0] = buf_list
    BY <1>3, <1>7
  <2>2. Top(w) = 0
    BY <1>3, <2>1, TopIs DEF ListAssumption
  <2>3. L!Walk(links) = <<>>
    BY <1>6, <2>2
  <2> QED  BY <1>7, <2>3 DEF L!Circular
<1>8. ASSUME NEW b \in Entries, q = <<b>>, links[buf_list] = b, links[b] = buf_list
      PROVE  L!Walk(links) = q /\ L!Circular(links)
  <2>0. n >= 2
    BY <1>0, NodesAtLeast
  <2>1. w[0] = b
    BY <1>3, <1>8
  <2>2. w[1] = buf_list
    BY <1>4, <1>8, <2>0, <2>1
  <2>3. Top(w) = 1
    <3>1. 1 \in 0..n /\ \A j \in 0..(1 - 1) : w[j] \in Entries
      BY <2>0, <2>1
    <3> QED  BY <1>3, <2>2, <3>1, TopIs DEF ListAssumption
  <2>4. L!Walk(links) = <<b>>
    BY <1>6, <2>1, <2>3
  <2> QED  BY <1>8, <2>4 DEF L!Circular
<1>9. ASSUME NEW b \in Entries, NEW c \in Entries, b # c, q = <<b, c>>,
             links[buf_list] = b, links[b] = c, links[c] = buf_list
      PROVE  L!Walk(links) = q /\ L!Circular(links)
  <2>0. n >= 3
    BY <1>0, <1>9, NodesAtLeast
  <2>1. w[0] = b
    BY <1>3, <1>9
  <2>2. w[1] = c
    BY <1>4, <1>9, <2>0, <2>1
  <2>3. w[2] = buf_list
    BY <1>5, <1>9, <2>0, <2>2
  <2>4. Top(w) = 2
    <3>1. 2 \in 0..n /\ \A j \in 0..(2 - 1) : w[j] \in Entries
      BY <2>0, <2>1, <2>2
    <3> QED  BY <1>3, <2>3, <3>1, TopIs DEF ListAssumption
  <2>5. L!Walk(links) = <<b, c>>
    BY <1>6, <2>1, <2>2, <2>4
  <2> QED  BY <1>9, <2>5 DEF L!Circular
<1> QED  BY <1>7, <1>8, <1>9 DEF Circle

-----------------------------------------------------------------------------
(* The list with the entries in q. *)
Linked(q) ==
  \/ q = <<>> /\ next[buf_list] = buf_list /\ prev[buf_list] = buf_list
  \/ \E b \in Entries :
       /\ q = <<b>>
       /\ next[buf_list] = b /\ next[b] = buf_list
       /\ prev[buf_list] = b /\ prev[b] = buf_list
  \/ \E b, c \in Entries :
       /\ b # c /\ q = <<b, c>>
       /\ next[buf_list] = b /\ next[b] = c /\ next[c] = buf_list
       /\ prev[buf_list] = c /\ prev[c] = b /\ prev[b] = buf_list

(* One entry at most while the thread waits for a frame, and one at least  *)
(* when it looks at the list.                                              *)
ListInv ==
  /\ DOMAIN next = L!Nodes /\ DOMAIN prev = L!Nodes
  /\ pc \in {"wait", "look"}
  /\ pc = "look" => live
  /\ sound
  /\ live => \E q : Linked(q) /\ (pc = "wait" => Len(q) <= 1) /\ (pc = "look" => q # <<>>)

LEMMA LinkedGives ==
  ASSUME ListAssumption
  PROVE  \A q : Linked(q) => L!Frames = q /\ L!WellLinked
<1> SUFFICES ASSUME NEW q, Linked(q)  PROVE L!Frames = q /\ L!WellLinked
  OBVIOUS
<1>1. Circle(next, q)
  BY DEF Linked, Circle
<1>2. \E r : Circle(prev, r) /\ r = L!Reverse(q)
  <2>1. CASE q = <<>> /\ prev[buf_list] = buf_list
    <3>1. Len(q) = 0 /\ 1..0 = {}
      BY <2>1
    <3>2. L!Reverse(q) = [i \in 1..0 |-> q[(0 - i) + 1]]
      BY <3>1 DEF L!Reverse
    <3>3. L!Reverse(q) = <<>>
      BY <3>1, <3>2
    <3>4. Circle(prev, <<>>)
      BY <2>1 DEF Circle
    <3> QED  BY <3>3, <3>4
  <2>2. ASSUME NEW b \in Entries, q = <<b>>, prev[buf_list] = b, prev[b] = buf_list
        PROVE  \E r : Circle(prev, r) /\ r = L!Reverse(q)
    <3>1. L!Reverse(q) = <<b>>
      BY <2>2 DEF L!Reverse
    <3> QED  BY <2>2, <3>1 DEF Circle
  <2>3. ASSUME NEW b \in Entries, NEW c \in Entries, b # c, q = <<b, c>>,
               prev[buf_list] = c, prev[c] = b, prev[b] = buf_list
        PROVE  \E r : Circle(prev, r) /\ r = L!Reverse(q)
    <3>1. L!Reverse(q) = <<c, b>>
      BY <2>3 DEF L!Reverse
    <3>2. Circle(prev, <<c, b>>)
      BY <2>3 DEF Circle
    <3> QED  BY <3>1, <3>2
  <2> QED  BY <2>1, <2>2, <2>3 DEF Linked
<1>3. PICK r : Circle(prev, r) /\ r = L!Reverse(q)
  BY <1>2
<1>4. L!Walk(next) = q /\ L!Circular(next)
  BY <1>1, WalkCircle
<1>5. L!Walk(prev) = r /\ L!Circular(prev)
  BY <1>3, WalkCircle
<1> QED  BY <1>3, <1>4, <1>5 DEF L!Frames, L!WellLinked

LEMMA LinkedWas ==
  ASSUME ListAssumption
  PROVE  \A q : Linked(q)' => L!Frames' = q
<1>1. ListAssumption => \A q : Linked(q) => L!Frames = q
  BY LinkedGives
<1>2. ListAssumption' => (\A q : Linked(q) => L!Frames = q)'
  BY <1>1, PTL
<1> QED  BY <1>2 DEF ListAssumption

LEMMA AppendTo ==
  ASSUME NEW b \in Entries, NEW one \in Seq(Entries), NEW n \in Nat, Len(one) = n
  PROVE  /\ Append(one, b) \in Seq(Entries) /\ Len(Append(one, b)) = n + 1
         /\ Append(one, b)[n + 1] = b /\ \A i \in 1..n : Append(one, b)[i] = one[i]
BY AppendProperties

LEMMA AppendToOne ==
  ASSUME NEW b \in Entries, NEW c \in Entries
  PROVE  Append(<<c>>, b) = <<c, b>>
<1>1. <<c>> \in Seq(Entries)
  OBVIOUS
<1>2. PICK one \in Seq(Entries) : one = <<c>>
  BY <1>1
<1>3. PICK n \in Nat : n = 1
  OBVIOUS
<1>4. Len(one) = n /\ one[1] = c
  BY <1>2, <1>3
<1>5. PICK two : two = Append(one, b)
  OBVIOUS
<1>6. two \in Seq(Entries) /\ Len(two) = n + 1 /\ two[n + 1] = b /\ \A i \in 1..n : two[i] = one[i]
  BY <1>4, <1>5, AppendTo
<1>7. two \in Seq(Entries) /\ Len(two) = 2 /\ two[2] = b /\ two[1] = c
  BY <1>3, <1>4, <1>6
<1>8. two = <<c, b>>
  BY <1>7
<1> QED  BY <1>2, <1>5, <1>8, Zenon

LEMMA ArriveStep ==
  ASSUME ListAssumption, ListInv, NEW b \in Entries, L!Arrive(b)
  PROVE  /\ ListInv' /\ live /\ live' = live
         /\ L!Frames' = Append(L!Frames, b)
<1>0. /\ pc = "wait" /\ live /\ pc' = "look" /\ live' = live
      /\ \A i \in 1..Len(L!Frames) : L!Frames[i] # b
      /\ L!ListAdd(b, prev[buf_list], buf_list)
  BY DEF L!Arrive, L!ListAddTail
<1>1. PICK q : Linked(q) /\ Len(q) <= 1
  BY <1>0 DEF ListInv
<1>2. L!Frames = q
  BY <1>1, LinkedGives
<1>3. PICK last : last = prev[buf_list]
  OBVIOUS
<1>4. /\ next' = [next EXCEPT ![b] = buf_list, ![last] = b]
      /\ prev' = [prev EXCEPT ![b] = last, ![buf_list] = b]
      /\ L!Followed({b, last, buf_list})
  BY <1>0, <1>3 DEF L!ListAdd
<1>5. b \in L!Nodes /\ buf_list \in L!Nodes /\ b # buf_list
  BY DEF L!Nodes, ListAssumption
<1>6. last \in L!Nodes /\ Linked(Append(q, b))'
  <2>1. CASE q = <<>> /\ next[buf_list] = buf_list /\ prev[buf_list] = buf_list
    <3>1. last = buf_list /\ Append(q, b) = <<b>>
      BY <1>3, <2>1
    <3> QED  BY <1>4, <1>5, <2>1, <3>1 DEF Linked, ListInv
  <2>2. ASSUME NEW c \in Entries, q = <<c>>, next[buf_list] = c, next[c] = buf_list,
               prev[buf_list] = c, prev[c] = buf_list
        PROVE  last \in L!Nodes /\ Linked(Append(q, b))'
    <3>0. c # b
      <4>1. Len(L!Frames) = 1 /\ L!Frames[1] = c
        BY <1>2, <2>2
      <4> QED  BY <1>0, <4>1
    <3>1. last = c /\ Append(q, b) = <<c, b>> /\ c \in L!Nodes /\ c # buf_list /\ c # b
      <4>1. Append(q, b) = <<c, b>>
        BY <2>2, AppendToOne
      <4>2. last = c /\ c \in L!Nodes /\ c # buf_list
        BY <1>3, <2>2 DEF L!Nodes, ListAssumption
      <4> QED  BY <3>0, <4>1, <4>2
    <3>2. /\ next'[buf_list] = c /\ next'[c] = b /\ next'[b] = buf_list
          /\ prev'[buf_list] = b /\ prev'[b] = c /\ prev'[c] = buf_list
      BY <1>4, <1>5, <2>2, <3>1 DEF ListInv
    <3> QED  BY <3>1, <3>2 DEF Linked
  <2>3. \A x, y \in Entries : q # <<x, y>>
    <3>1. \A x, y \in Entries : Len(<<x, y>>) = 2
      OBVIOUS
    <3>2. Len(q) # 2
      <4>1. ~(2 <= 1)
        OBVIOUS
      <4> QED  BY <1>1, <4>1, Zenon
    <3> QED  BY <3>1, <3>2, Zenon
  <2> QED  BY <1>1, <2>1, <2>2, <2>3, Zenon DEF Linked
<1>7. sound'
  <2>1. sound /\ {b, last, buf_list} \subseteq L!Nodes /\ live
    BY <1>0, <1>5, <1>6 DEF ListInv
  <2> QED  BY <1>4, <2>1, Zenon DEF L!Followed
<1>8. DOMAIN next' = L!Nodes /\ DOMAIN prev' = L!Nodes
  BY <1>4 DEF ListInv
<1>9. Append(q, b) # <<>>
  BY <1>1 DEF Linked
<1>10. ListInv'
  BY <1>0, <1>6, <1>7, <1>8, <1>9 DEF ListInv, L!Nodes
<1> QED  BY <1>0, <1>2, <1>6, <1>10, LinkedWas

LEMMA LookSingular ==
  ASSUME ListAssumption, ListInv, pc = "look"
  PROVE  \/ \E b \in Entries : Linked(<<b>>) /\ L!ListIsSingular
         \/ \E b, c \in Entries : /\ b # c /\ Linked(<<b, c>>) /\ ~L!ListIsSingular
                               /\ next[buf_list] = b /\ next[b] = c /\ next[c] = buf_list
                               /\ prev[buf_list] = c /\ prev[c] = b /\ prev[b] = buf_list
<1>1. PICK q : Linked(q) /\ q # <<>>
  BY DEF ListInv
<1>2. ASSUME NEW b \in Entries, q = <<b>>, next[buf_list] = b, next[b] = buf_list,
             prev[buf_list] = b, prev[b] = buf_list
      PROVE  Linked(<<b>>) /\ L!ListIsSingular
  BY <1>1, <1>2 DEF L!ListIsSingular, L!ListEmpty, ListAssumption
<1>3. ASSUME NEW b \in Entries, NEW c \in Entries, b # c, q = <<b, c>>,
             next[buf_list] = b, next[b] = c, next[c] = buf_list,
             prev[buf_list] = c, prev[c] = b, prev[b] = buf_list
      PROVE  Linked(<<b, c>>) /\ ~L!ListIsSingular
  BY <1>1, <1>3 DEF L!ListIsSingular, L!ListEmpty, ListAssumption
<1> QED  BY <1>1, <1>2, <1>3, Zenon DEF Linked

LEMMA KeepStep ==
  ASSUME ListAssumption, ListInv, L!Keep
  PROVE  ListInv' /\ UNCHANGED <<next, prev, live>>
<1>1. UNCHANGED <<next, prev, live, sound>> /\ pc' = "wait" /\ L!ListIsSingular /\ pc = "look"
  BY DEF L!Keep
<1>2. PICK b \in Entries : Linked(<<b>>)
  BY <1>1, LookSingular
<1>3. Linked(<<b>>)'
  BY <1>1, <1>2 DEF Linked
<1>4. Len(<<b>>) <= 1
  OBVIOUS
<1> QED  BY <1>1, <1>3, <1>4 DEF ListInv

LEMMA ReleaseStep ==
  ASSUME ListAssumption, ListInv, L!Release
  PROVE  /\ ListInv' /\ live /\ live' = live
         /\ Len(L!Frames) > 1 /\ L!Frames' = Tail(L!Frames)
<1>0. /\ pc = "look" /\ ~L!ListIsSingular /\ pc' = "wait" /\ live' = live /\ live
      /\ L!ListDel(next[buf_list])
  BY DEF L!Release, ListInv
<1>1. PICK b \in Entries, c \in Entries :
        /\ b # c /\ Linked(<<b, c>>)
        /\ next[buf_list] = b /\ next[b] = c /\ next[c] = buf_list
        /\ prev[buf_list] = c /\ prev[c] = b /\ prev[b] = buf_list
  BY <1>0, LookSingular
<1>2. L!Frames = <<b, c>>
  BY <1>1, LinkedGives
<1>3. /\ next' = [next EXCEPT ![buf_list] = c, ![b] = LIST_POISON1]
      /\ prev' = [prev EXCEPT ![c] = buf_list, ![b] = LIST_POISON2]
      /\ L!Followed({b, buf_list, c})
  BY <1>0, <1>1 DEF L!ListDel
<1>4. b \in L!Nodes /\ c \in L!Nodes /\ buf_list \in L!Nodes /\ b # buf_list /\ c # buf_list
  BY DEF L!Nodes, ListAssumption
<1>5. /\ next'[buf_list] = c /\ next'[c] = buf_list
      /\ prev'[buf_list] = c /\ prev'[c] = buf_list
  BY <1>1, <1>3, <1>4 DEF ListInv
<1>6. Linked(<<c>>)'
  BY <1>5 DEF Linked
<1>7. sound'
  <2>1. sound /\ {b, buf_list, c} \subseteq L!Nodes /\ live
    BY <1>0, <1>4 DEF ListInv
  <2> QED  BY <1>3, <2>1, Zenon DEF L!Followed
<1>8. DOMAIN next' = L!Nodes /\ DOMAIN prev' = L!Nodes
  BY <1>3 DEF ListInv
<1>9. Len(<<c>>) <= 1
  OBVIOUS
<1>10. ListInv'
  BY <1>0, <1>6, <1>7, <1>8, <1>9 DEF ListInv, L!Nodes
<1>11. L!Frames' = <<c>>
  BY <1>6, LinkedWas
<1>12. Len(L!Frames) > 1 /\ Tail(L!Frames) = <<c>>
  BY <1>2
<1> QED  BY <1>0, <1>10, <1>11, <1>12

LEMMA StartStep ==
  ASSUME ListAssumption, ListInv, L!Start
  PROVE  ListInv' /\ (live' => L!Frames' = <<>>)
<1>1. /\ next' = L!Fresh(buf_list) /\ prev' = L!Fresh(buf_list)
      /\ pc' = "wait" /\ sound' = sound
  BY DEF L!Start, ListInv
<1>2. /\ DOMAIN next' = L!Nodes /\ DOMAIN prev' = L!Nodes
      /\ next'[buf_list] = buf_list /\ prev'[buf_list] = buf_list
  BY <1>1 DEF L!Fresh, L!Nodes
<1>3. Linked(<<>>)' /\ Len(<<>>) <= 1
  BY <1>2 DEF Linked
<1>4. L!Frames' = <<>>
  BY <1>3, LinkedWas
<1>5. ListInv'
  BY <1>1, <1>2, <1>3 DEF ListInv, L!Nodes
<1> QED  BY <1>4, <1>5

LEMMA StopStep ==
  ASSUME ListInv, L!Stop
  PROVE  ListInv' /\ ~live'
BY DEF L!Stop, ListInv, L!Nodes

LEMMA ListInvariant == ASSUME ListAssumption PROVE L!Spec => []ListInv
<1>1. L!Init => ListInv
  BY DEF L!Init, ListInv
<1>2. ListInv /\ [L!Next]_L!vars => ListInv'
  <2> SUFFICES ASSUME ListInv, [L!Next]_L!vars  PROVE ListInv'
    OBVIOUS
  <2>1. CASE UNCHANGED L!vars
    BY <2>1 DEF ListInv, Linked, L!vars, L!Nodes
  <2> QED  BY <2>1, ArriveStep, KeepStep, ReleaseStep, StartStep, StopStep DEF L!Next
<1> QED  BY <1>1, <1>2, PTL DEF L!Spec

(* However often the preview stops and starts, and whatever a freed or new *)
(* array holds, no pointer but one of the live list is followed, and its   *)
(* two directions agree (list.h:62-118, video_input.c:852-892).            *)
THEOREM ListSound == ASSUME ListAssumption PROVE L!Spec => []L!Sound
<1>1. ListInv => L!Sound
  BY LinkedGives, Zenon DEF ListInv, L!Sound
<1> QED  BY <1>1, ListInvariant, PTL

(* The queue that the list is. *)
Kept == IF live THEN L!Frames ELSE <<>>

LEMMA SameWalk == UNCHANGED <<next, live>> => Kept' = Kept
BY DEF Kept, L!Frames, L!Walk, L!Nodes

(* For any number of buffers, the list in memory is the queue that module  *)
(* Preview takes it for: every operation on the pointers is one of the     *)
(* queue, or changes nothing of it (camera.c:1186-1241).                   *)
THEOREM ListIsAQueue == ASSUME ListAssumption PROVE L!Spec => L!IsAQueue
<1>1. L!Init => L!Queue!Init
  BY DEF L!Init, L!Queue!Init
<1>2. ListInv /\ [L!Next]_L!vars => [L!Queue!Next]_Kept
  <2> SUFFICES ASSUME ListInv, [L!Next]_L!vars  PROVE [L!Queue!Next]_Kept
    OBVIOUS
  <2>1. CASE L!Start
    <3>1. Kept' = <<>>
      BY <2>1, StartStep DEF Kept
    <3> QED  BY <3>1 DEF L!Queue!Next, L!Queue!Reset, Kept
  <2>2. CASE L!Stop
    <3>1. Kept' = <<>>
      BY <2>2, StopStep DEF Kept
    <3> QED  BY <3>1 DEF L!Queue!Next, L!Queue!Reset, Kept
  <2>3. ASSUME NEW b \in Entries, L!Arrive(b)  PROVE L!Queue!Next
    <3>1. Kept = L!Frames /\ Kept' = Append(L!Frames, b)
      BY <2>3, ArriveStep DEF Kept
    <3>2. \A i \in 1..Len(L!Frames) : L!Frames[i] # b
      BY <2>3 DEF L!Arrive
    <3> QED  BY <3>1, <3>2 DEF L!Queue!Next, L!Queue!Arrive, Kept
  <2>4. CASE L!Keep
    <3>1. UNCHANGED <<next, live>>
      BY <2>4, KeepStep
    <3> QED  BY <3>1, SameWalk DEF Kept
  <2>5. CASE L!Release
    <3>1. Kept = L!Frames /\ Kept' = Tail(L!Frames) /\ Len(L!Frames) > 1
      BY <2>5, ReleaseStep DEF Kept
    <3> QED  BY <3>1 DEF L!Queue!Next, L!Queue!Release, Kept
  <2>6. CASE UNCHANGED L!vars
    BY <2>6, SameWalk DEF Kept, L!vars
  <2> QED  BY <2>1, <2>2, <2>3, <2>4, <2>5, <2>6 DEF L!Next
<1> QED  BY <1>1, <1>2, ListInvariant, PTL DEF L!Spec, L!IsAQueue, L!Queue!Spec, Kept

-----------------------------------------------------------------------------
Once(s) == \A i, j \in 1..Len(s) : s[i] = s[j] => i = j
Apart(s, t) == \A i \in 1..Len(s), j \in 1..Len(t) : s[i] # t[j]

(* The bytes of b when the buffers hold c, and what they say of the frames *)
(* in b, in the buffers of s, and of s and t.                              *)
Bytes(c, b) == {c[b][i] : i \in DOMAIN c[b]}
Marked(c, b, last) ==
  (\A f, g \in Bytes(c, b) : f = g) /\ \A f \in Bytes(c, b) : f \in Int /\ f <= last
Older(c, a, b) == \A f \in Bytes(c, a), g \in Bytes(c, b) : f < g
AllMarked(c, s, last) == \A i \in 1..Len(s) : Marked(c, s[i], last)
Sorted(c, s) == \A i, j \in 1..Len(s) : i < j => Older(c, s[i], s[j])
AllOlder(c, s, t) == \A i \in 1..Len(s), j \in 1..Len(t) : Older(c, s[i], t[j])

(* The frames in F come before those in s, from an entry on. *)
Before(F, c, s, from) == \A f \in F, i \in 1..Len(s) : i >= from => \A g \in Bytes(c, s[i]) : f < g

(* The last frame that the driver has finished. *)
Last == IF filling THEN frames - 1 ELSE frames

(* A buffer is in one line, and there once. *)
InLines ==
  /\ queue \in Seq(K!Bufs) /\ done \in Seq(K!Bufs) /\ list \in Seq(K!Bufs)
  /\ held \in {"poll", "open", "write", "qbuf"}
  /\ held = "poll" => Len(list) <= 1
  /\ held # "poll" => Len(list) = 2
  /\ filling \in BOOLEAN
  /\ filling => queue # <<>>
  /\ Once(queue) /\ Once(done) /\ Once(list)
  /\ Apart(queue, done) /\ Apart(queue, list) /\ Apart(done, list)

(* The buffers that the driver gave back hold one frame each, and those of *)
(* the list are older than those that the driver has not been asked for.   *)
Stamps ==
  /\ content \in [K!Bufs -> Seq(Int)]
  /\ \A b \in K!Bufs : Len(content[b]) = K!PlaneSize(format)
  /\ frames \in Nat
  /\ AllMarked(content, done, Last) /\ AllMarked(content, list, Last)
  /\ Sorted(content, done) /\ Sorted(content, list)
  /\ AllOlder(content, list, done)

Numbers ==
  /\ capture_idx \in Int /\ cnt_to_capture \in Int /\ to_capture \in Int
  /\ capture_idx + cnt_to_capture = to_capture
  /\ held \in {"open", "write"} => cnt_to_capture > 0
  /\ held = "write" => size = 0 /\ pos = 0

(* The frame at the head of the list may be in a file once it was written. *)
Unsaved == IF held = "qbuf" THEN 2 ELSE 1

(* The files of this process have the frames before those it holds. *)
Files ==
  /\ since \in Nat \ {0}
  /\ disk \in [0..(MaxFrames - 1) -> Seq(Int)]
  /\ \A k \in DOMAIN disk : \A i \in DOMAIN disk[k] : disk[k][i] <= Last
  /\ \A k \in DOMAIN disk :
       /\ K!In(k) # {} => k < capture_idx
       /\ Before(K!In(k), content, done, 1)
       /\ Before(K!In(k), content, list, Unsaved)
  /\ K!FramesInOrder
  /\ K!NoMoreThanAsked

CaptureInv == InLines /\ Stamps /\ Numbers /\ Files

LEMMA HeadTail ==
  ASSUME NEW S, NEW s \in Seq(S), s # <<>>
  PROVE  /\ Len(s) \in Nat /\ Len(s) >= 1 /\ Head(s) = s[1] /\ s[1] \in S
         /\ Tail(s) \in Seq(S) /\ Len(Tail(s)) = Len(s) - 1
         /\ \A i \in 1..(Len(s) - 1) : Tail(s)[i] = s[i + 1]
OBVIOUS

LEMMA EmptyIs ==
  ASSUME NEW S, NEW s \in Seq(S)
  PROVE  s = <<>> <=> Len(s) = 0
BY EmptySeq

LEMMA MustBeOne ==
  ASSUME NEW n \in Nat, n # 0, n <= 1
  PROVE  n = 1
OBVIOUS

LEMMA Appended ==
  ASSUME NEW S, NEW s \in Seq(S), NEW e \in S
  PROVE  /\ Append(s, e) \in Seq(S) /\ Len(s) \in Nat /\ Len(Append(s, e)) = Len(s) + 1
         /\ \A i \in 1..Len(s) : Append(s, e)[i] = s[i]
         /\ Append(s, e)[Len(s) + 1] = e
OBVIOUS

LEMMA PlaneSizeIs == \A f : K!PlaneSize(f) \in Nat
BY DEF K!PlaneSize, K!SizeImage, K!Pixels

LEMMA CaptureInit ==
  ASSUME CaptureAssumption, K!Init
  PROVE  CaptureInv
<1>0. /\ queue = [i \in 1..NUM_VIDBUF |-> i - 1] /\ done = <<>> /\ list = <<>>
      /\ content = K!Fresh(format) /\ filling = FALSE /\ frames = 0
      /\ held = "poll" /\ since = 1 /\ disk = [k \in 0..(MaxFrames - 1) |-> <<>>]
      /\ to_capture \in Counts /\ cnt_to_capture = to_capture /\ capture_idx = 0
  BY DEF K!Init
<1>1. InLines
  <2>1. queue \in Seq(K!Bufs) /\ Len(queue) = NUM_VIDBUF /\ \A i \in 1..NUM_VIDBUF : queue[i] = i - 1
    BY <1>0 DEF K!Bufs, CaptureAssumption
  <2>2. Once(queue)
    BY <2>1 DEF Once, CaptureAssumption
  <2>3. /\ done \in Seq(K!Bufs) /\ Len(done) = 0 /\ list \in Seq(K!Bufs) /\ Len(list) = 0
    BY <1>0
  <2>4. Once(done) /\ Once(list) /\ Apart(queue, done) /\ Apart(queue, list) /\ Apart(done, list)
    BY <2>3 DEF Once, Apart
  <2>5. /\ held \in {"poll", "open", "write", "qbuf"} /\ (held = "poll" => Len(list) <= 1)
        /\ (held # "poll" => Len(list) = 2)
    BY <1>0, <2>3
  <2>6. filling \in BOOLEAN /\ ~filling
    BY <1>0, Zenon
  <2> QED  BY <2>1, <2>2, <2>3, <2>4, <2>5, <2>6, Zenon DEF InLines
<1>2. Stamps
  <2>1. content = [b \in K!Bufs |-> [i \in 1..K!PlaneSize(format) |-> 0]]
    BY <1>0 DEF K!Fresh, K!Blank
  <2>2. [i \in 1..K!PlaneSize(format) |-> 0] \in Seq(Int)
        /\ Len([i \in 1..K!PlaneSize(format) |-> 0]) = K!PlaneSize(format)
    BY PlaneSizeIs
  <2>3. content \in [K!Bufs -> Seq(Int)] /\ \A b \in K!Bufs : Len(content[b]) = K!PlaneSize(format)
    BY <2>1, <2>2
  <2>4. Len(done) = 0 /\ Len(list) = 0
    BY <1>0
  <2> QED  BY <1>0, <2>3, <2>4 DEF Stamps, AllMarked, Sorted, AllOlder
<1>3. Numbers
  BY <1>0 DEF Numbers, CaptureAssumption
<1>4. Files
  <2>1. disk \in [0..(MaxFrames - 1) -> Seq(Int)] /\ \A k \in DOMAIN disk : DOMAIN disk[k] = {}
    BY <1>0
  <2>2. \A k \in DOMAIN disk : K!In(k) = {}
    BY <2>1 DEF K!In
  <2> QED  BY <1>0, <2>1, <2>2 DEF Files, K!FramesInOrder, K!NoMoreThanAsked, Before
<1> QED  BY <1>1, <1>2, <1>3, <1>4 DEF CaptureInv
-----------------------------------------------------------------------------
LEMMA ApartSwap ==
  ASSUME NEW s, NEW t, Apart(s, t)
  PROVE  Apart(t, s)
BY DEF Apart

(* The head of s goes to the end of t. *)
LEMMA Moved ==
  ASSUME NEW S, NEW s \in Seq(S), NEW t \in Seq(S), NEW u \in Seq(S), s # <<>>,
         Once(s), Once(t), Once(u), Apart(s, t), Apart(s, u), Apart(t, u)
  PROVE  /\ Tail(s) \in Seq(S) /\ Append(t, Head(s)) \in Seq(S)
         /\ Once(Tail(s)) /\ Once(Append(t, Head(s)))
         /\ Apart(Tail(s), Append(t, Head(s))) /\ Apart(Tail(s), u)
         /\ Apart(Append(t, Head(s)), u)
<1>1. PICK h, r : h = Head(s) /\ r = Tail(s)
  OBVIOUS
<1>2. /\ h = s[1] /\ h \in S /\ r \in Seq(S) /\ Len(s) \in Nat /\ Len(s) >= 1 /\ Len(r) = Len(s) - 1
      /\ \A i \in 1..(Len(s) - 1) : r[i] = s[i + 1]
  BY <1>1, HeadTail
<1>3. PICK a : a = Append(t, h)
  OBVIOUS
<1>4. /\ a \in Seq(S) /\ Len(t) \in Nat /\ Len(a) = Len(t) + 1
      /\ \A i \in 1..Len(t) : a[i] = t[i]
      /\ a[Len(t) + 1] = h
  BY <1>2, <1>3, Appended
<1>5. \A i \in 1..Len(a) : (i \in 1..Len(t) /\ a[i] = t[i]) \/ (i = Len(t) + 1 /\ a[i] = s[1])
  BY <1>2, <1>4
<1>6. \A i \in 1..Len(r) : i + 1 \in 1..Len(s) /\ i + 1 # 1 /\ r[i] = s[i + 1]
  BY <1>2
<1>7. 1 \in 1..Len(s)
  BY <1>2
<1>8. Once(r)
  <2> SUFFICES ASSUME NEW i \in 1..Len(r), NEW j \in 1..Len(r), r[i] = r[j]  PROVE i = j
    BY DEF Once
  <2>1. s[i + 1] = s[j + 1] /\ i + 1 \in 1..Len(s) /\ j + 1 \in 1..Len(s)
    BY <1>6
  <2>2. i + 1 = j + 1
    BY <2>1 DEF Once
  <2> QED  BY <2>2
<1>9. Once(a)
  BY <1>4, <1>5, <1>7 DEF Once, Apart
<1>10. Apart(r, a)
  <2> SUFFICES ASSUME NEW i \in 1..Len(r), NEW j \in 1..Len(a), r[i] = a[j]  PROVE FALSE
    BY DEF Apart
  <2>1. r[i] = s[i + 1] /\ i + 1 \in 1..Len(s) /\ i + 1 # 1
    BY <1>6
  <2>2. CASE j \in 1..Len(t) /\ a[j] = t[j]
    BY <2>1, <2>2 DEF Apart
  <2>3. CASE a[j] = s[1]
    BY <2>1, <2>3, <1>7 DEF Once
  <2> QED  BY <1>5, <2>2, <2>3
<1>11. Apart(r, u)
  BY <1>6 DEF Apart
<1>12. Apart(a, u)
  BY <1>5, <1>7 DEF Apart
<1> QED  BY <1>1, <1>2, <1>3, <1>4, <1>8, <1>9, <1>10, <1>11, <1>12

LEMMA TailSorted ==
  ASSUME NEW S, NEW c, NEW s \in Seq(S), NEW t, NEW last, s # <<>>,
         AllMarked(c, s, last), Sorted(c, s), AllOlder(c, s, t)
  PROVE  AllMarked(c, Tail(s), last) /\ Sorted(c, Tail(s)) /\ AllOlder(c, Tail(s), t)
<1>1. PICK r : r = Tail(s)
  OBVIOUS
<1>2. \A i \in 1..Len(r) : i \in Int /\ i + 1 \in 1..Len(s) /\ r[i] = s[i + 1]
  BY <1>1, HeadTail
<1>3. AllMarked(c, r, last)
  BY <1>2 DEF AllMarked
<1>4. Sorted(c, r)
  <2> SUFFICES ASSUME NEW i \in 1..Len(r), NEW j \in 1..Len(r), i < j  PROVE Older(c, r[i], r[j])
    BY DEF Sorted
  <2>1. i + 1 < j + 1 /\ i + 1 \in 1..Len(s) /\ j + 1 \in 1..Len(s) /\ r[i] = s[i + 1] /\ r[j] = s[j + 1]
    BY <1>2
  <2> QED  BY <2>1 DEF Sorted
<1>5. AllOlder(c, r, t)
  BY <1>2 DEF AllOlder
<1> QED  BY <1>1, <1>3, <1>4, <1>5

LEMMA AppendSorted ==
  ASSUME NEW S, NEW c, NEW s \in Seq(S), NEW e \in S, NEW last,
         AllMarked(c, s, last), Sorted(c, s), Marked(c, e, last),
         \A i \in 1..Len(s) : Older(c, s[i], e)
  PROVE  AllMarked(c, Append(s, e), last) /\ Sorted(c, Append(s, e))
<1>1. PICK a : a = Append(s, e)
  OBVIOUS
<1>2. Len(s) \in Nat /\ Len(a) = Len(s) + 1
  BY <1>1, Appended
<1>3. \A i \in 1..Len(a) : (i \in 1..Len(s) /\ a[i] = s[i]) \/ (i = Len(s) + 1 /\ a[i] = e)
  BY <1>1, Appended
<1>4. AllMarked(c, a, last)
  BY <1>3 DEF AllMarked
<1>5. Sorted(c, a)
  <2> SUFFICES ASSUME NEW i \in 1..Len(a), NEW j \in 1..Len(a), i < j  PROVE Older(c, a[i], a[j])
    BY DEF Sorted
  <2>1. i \in 1..Len(s) /\ a[i] = s[i]
    BY <1>2, <1>3
  <2>2. CASE j \in 1..Len(s) /\ a[j] = s[j]
    BY <2>1, <2>2 DEF Sorted
  <2>3. CASE a[j] = e
    BY <2>1, <2>3
  <2> QED  BY <1>3, <2>2, <2>3
<1> QED  BY <1>1, <1>4, <1>5
-----------------------------------------------------------------------------
(* Nothing of the lines, the frames and the files changes. *)
LEMMA SameLines ==
  ASSUME CaptureInv, UNCHANGED <<queue, done, list, content, filling, frames, since, format>>
  PROVE  /\ Last' = Last
         /\ Stamps'
         /\ \A k : disk' = disk => K!In(k)' = K!In(k)
<1>1. Last' = Last
  BY Zenon DEF Last
<1>2. Stamps'
  BY <1>1 DEF CaptureInv, Stamps, K!Bufs
<1>3. \A k : disk' = disk => K!In(k)' = K!In(k)
  BY DEF K!In
<1> QED  BY <1>1, <1>2, <1>3

LEMMA HalfFilled ==
  ASSUME NEW s \in Seq(Int), NEW e \in Nat, NEW t,
         t = [i \in DOMAIN s |-> IF 2 * i <= Len(s) THEN e + 1 ELSE s[i]]
  PROVE  t \in Seq(Int) /\ Len(t) = Len(s)
<1>1. PICK n \in Nat : n = Len(s) /\ DOMAIN s = 1..n /\ \A i \in 1..n : s[i] \in Int
  OBVIOUS
<1>2. t = [i \in 1..n |-> IF 2 * i <= n THEN e + 1 ELSE s[i]]
  BY <1>1
<1>3. \A i \in 1..n : (IF 2 * i <= n THEN e + 1 ELSE s[i]) \in Int
  BY <1>1
<1> QED  BY <1>1, <1>2, <1>3

LEMMA FillTopStep ==
  ASSUME CaptureAssumption, CaptureInv, K!FillTop
  PROVE  CaptureInv'
<1>0. /\ queue # <<>> /\ ~filling /\ filling' = TRUE /\ frames' = frames + 1
      /\ content' = [content EXCEPT ![Head(queue)] =
                       [i \in DOMAIN @ |-> IF 2 * i <= Len(@) THEN frames + 1 ELSE @[i]]]
      /\ UNCHANGED <<boot, since, format, to_capture, cnt_to_capture, capture_idx, initialized, queue, done,
                     list, held, size, pos, disk>>
  BY DEF K!FillTop, K!options
<1>1. PICK b \in K!Bufs : b = Head(queue) /\ b = queue[1] /\ 1 \in 1..Len(queue)
  BY <1>0, HeadTail DEF CaptureInv, InLines
<1>2. InLines'
  <2>1. filling' \in BOOLEAN /\ queue' # <<>>
    BY <1>0, Zenon
  <2>2. UNCHANGED <<queue, done, list, held>>
    BY <1>0
  <2> QED  BY <2>1, <2>2, Zenon DEF CaptureInv, InLines, K!Bufs
<1>3. Last' = Last
  <2>1. Last = frames
    BY <1>0, Zenon DEF Last
  <2>2. Last' = frames' - 1
    BY <1>0, Zenon DEF Last
  <2> QED  BY <1>0, <2>1, <2>2 DEF CaptureInv, Stamps
<1>4. PICK bytes : bytes = [i \in DOMAIN content[b] |->
                              IF 2 * i <= Len(content[b]) THEN frames + 1 ELSE content[b][i]]
  OBVIOUS
<1>5. content[b] \in Seq(Int) /\ frames \in Nat
  BY DEF CaptureInv, Stamps
<1>6. bytes \in Seq(Int) /\ Len(bytes) = Len(content[b])
  BY <1>4, <1>5, HalfFilled
<1>7. content' = [content EXCEPT ![b] = bytes]
  BY <1>0, <1>1, <1>4 DEF CaptureInv, Stamps
<1>8. /\ content' \in [K!Bufs -> Seq(Int)]
      /\ \A a \in K!Bufs : Len(content'[a]) = K!PlaneSize(format)
      /\ \A a \in K!Bufs : a # b => content'[a] = content[a]
  BY <1>6, <1>7 DEF CaptureInv, Stamps
<1>9. \A a \in K!Bufs : a # b => Bytes(content', a) = Bytes(content, a)
  BY <1>8 DEF Bytes
<1>10. /\ \A i \in 1..Len(done) : Bytes(content', done[i]) = Bytes(content, done[i])
       /\ \A i \in 1..Len(list) : Bytes(content', list[i]) = Bytes(content, list[i])
  <2>1. \A i \in 1..Len(done) : done[i] \in K!Bufs /\ done[i] # b
    BY <1>1 DEF CaptureInv, InLines, Apart
  <2>2. \A i \in 1..Len(list) : list[i] \in K!Bufs /\ list[i] # b
    BY <1>1 DEF CaptureInv, InLines, Apart
  <2> QED  BY <1>9, <2>1, <2>2
<1>11. Stamps'
  <2>1. UNCHANGED <<done, list, format>> /\ frames' \in Nat
    BY <1>0, <1>5
  <2>2. /\ AllMarked(content', done, Last) /\ AllMarked(content', list, Last)
        /\ Sorted(content', done) /\ Sorted(content', list) /\ AllOlder(content', list, done)
    BY <1>10, Zenon DEF CaptureInv, Stamps, AllMarked, Sorted, AllOlder, Marked, Older
  <2> QED  BY <1>3, <1>8, <2>1, <2>2 DEF Stamps, K!Bufs
<1>12. Numbers'
  BY <1>0 DEF CaptureInv, Numbers
<1>13. Files'
  <2>1. UNCHANGED <<since, disk, done, list, held, capture_idx, to_capture>>
    BY <1>0
  <2>2. \A k : K!In(k)' = K!In(k)
    BY <2>1 DEF K!In
  <2>3. \A k \in DOMAIN disk : /\ Before(K!In(k), content', done, 1)
                               /\ Before(K!In(k), content', list, Unsaved)
    BY <1>10, Zenon DEF CaptureInv, Files, Before
  <2>4. Unsaved' = Unsaved
    BY <2>1 DEF Unsaved
  <2>5. K!FramesInOrder' /\ K!NoMoreThanAsked'
    BY <2>1, <2>2 DEF CaptureInv, Files, K!FramesInOrder, K!NoMoreThanAsked
  <2> QED  BY <1>3, <2>1, <2>2, <2>3, <2>4, <2>5 DEF CaptureInv, Files
<1> QED  BY <1>2, <1>11, <1>12, <1>13 DEF CaptureInv
LEMMA Filled ==
  ASSUME NEW s \in Seq(Int), NEW e \in Nat, NEW t, t = [i \in DOMAIN s |-> e]
  PROVE  t \in Seq(Int) /\ Len(t) = Len(s) /\ \A i \in DOMAIN t : t[i] = e
<1>1. PICK n \in Nat : n = Len(s) /\ DOMAIN s = 1..n
  OBVIOUS
<1>2. t = [i \in 1..n |-> e]
  BY <1>1
<1> QED  BY <1>1, <1>2

LEMMA FillRestStep ==
  ASSUME CaptureAssumption, CaptureInv, K!FillRest
  PROVE  CaptureInv'
<1>0. /\ filling /\ filling' = FALSE
      /\ content' = [content EXCEPT ![Head(queue)] = [i \in DOMAIN @ |-> frames]]
      /\ queue' = Tail(queue) /\ done' = Append(done, Head(queue))
      /\ UNCHANGED <<boot, since, format, to_capture, cnt_to_capture, capture_idx, initialized, list,
                     frames, held, size, pos, disk>>
  BY DEF K!FillRest, K!options
<1>1. queue # <<>> /\ queue \in Seq(K!Bufs) /\ done \in Seq(K!Bufs) /\ list \in Seq(K!Bufs)
  BY <1>0, Zenon DEF CaptureInv, InLines
<1>2. PICK b \in K!Bufs : b = Head(queue) /\ b = queue[1] /\ 1 \in 1..Len(queue)
  BY <1>1, HeadTail
<1>3. /\ queue' \in Seq(K!Bufs) /\ done' \in Seq(K!Bufs) /\ Once(queue') /\ Once(done')
      /\ Apart(queue', done') /\ Apart(queue', list) /\ Apart(done', list)
  BY <1>0, <1>1, Moved DEF CaptureInv, InLines
<1>4. InLines'
  <2>1. filling' \in BOOLEAN /\ ~filling'
    BY <1>0, Zenon
  <2>2. UNCHANGED <<list, held>>
    BY <1>0
  <2> QED  BY <1>3, <2>1, <2>2, Zenon DEF CaptureInv, InLines, K!Bufs
<1>5. frames \in Nat /\ content[b] \in Seq(Int)
  BY DEF CaptureInv, Stamps
<1>6. Last = frames - 1 /\ Last' = frames
  <2>1. Last = frames - 1
    BY <1>0, Zenon DEF Last
  <2>2. Last' = frames'
    BY <1>0, Zenon DEF Last
  <2> QED  BY <1>0, <2>1, <2>2
<1>7. PICK bytes : bytes = [i \in DOMAIN content[b] |-> frames]
  OBVIOUS
<1>8. bytes \in Seq(Int) /\ Len(bytes) = Len(content[b]) /\ \A i \in DOMAIN bytes : bytes[i] = frames
  BY <1>5, <1>7, Filled
<1>9. content' = [content EXCEPT ![b] = bytes]
  BY <1>0, <1>2, <1>7 DEF CaptureInv, Stamps
<1>10. /\ content' \in [K!Bufs -> Seq(Int)]
       /\ \A a \in K!Bufs : Len(content'[a]) = K!PlaneSize(format)
       /\ \A a \in K!Bufs : a # b => content'[a] = content[a]
       /\ content'[b] = bytes
  BY <1>8, <1>9 DEF CaptureInv, Stamps
<1>11. \A f \in Bytes(content', b) : f = frames
  BY <1>8, <1>10 DEF Bytes
<1>12. \A a \in K!Bufs : a # b => Bytes(content', a) = Bytes(content, a)
  BY <1>10 DEF Bytes
<1>13. /\ \A i \in 1..Len(done) : Bytes(content', done[i]) = Bytes(content, done[i])
       /\ \A i \in 1..Len(list) : Bytes(content', list[i]) = Bytes(content, list[i])
  <2>1. \A i \in 1..Len(done) : done[i] \in K!Bufs /\ done[i] # b
    BY <1>2 DEF CaptureInv, InLines, Apart
  <2>2. \A i \in 1..Len(list) : list[i] \in K!Bufs /\ list[i] # b
    BY <1>2 DEF CaptureInv, InLines, Apart
  <2> QED  BY <1>12, <2>1, <2>2
<1>14. /\ AllMarked(content', done, Last) /\ AllMarked(content', list, Last)
       /\ Sorted(content', done) /\ Sorted(content', list) /\ AllOlder(content', list, done)
  BY <1>13, Zenon DEF CaptureInv, Stamps, AllMarked, Sorted, AllOlder, Marked, Older
<1>15. /\ AllMarked(content', done, frames) /\ AllMarked(content', list, frames)
       /\ \A i \in 1..Len(done) : Older(content', done[i], b)
       /\ \A i \in 1..Len(list) : Older(content', list[i], b)
       /\ Marked(content', b, frames)
  <2>1. ASSUME NEW c, Marked(content', c, Last)
        PROVE  Marked(content', c, frames) /\ Older(content', c, b)
    <3>1. \A f \in Bytes(content', c) : f \in Int /\ f <= frames - 1
      BY <1>6, <2>1 DEF Marked
    <3>2. \A f \in Bytes(content', c) : f < frames /\ f <= frames
      BY <1>5, <3>1
    <3>3. Older(content', c, b)
      BY <1>11, <3>2 DEF Older
    <3> QED  BY <2>1, <3>2, <3>3, Zenon DEF Marked
  <2>2. Marked(content', b, frames)
    BY <1>5, <1>11 DEF Marked
  <2> QED  BY <1>14, <2>1, <2>2, Zenon DEF AllMarked
<1>16. AllMarked(content', done', frames) /\ Sorted(content', done')
  BY <1>0, <1>1, <1>2, <1>14, <1>15, AppendSorted
<1>17. \A i \in 1..Len(done') : (i \in 1..Len(done) /\ done'[i] = done[i]) \/ done'[i] = b
  BY <1>0, <1>1, <1>2, Appended
<1>18. AllOlder(content', list, done')
  BY <1>14, <1>15, <1>17 DEF AllOlder
<1>19. Stamps'
  <2>1. UNCHANGED <<list, format, frames>>
    BY <1>0
  <2> QED  BY <1>5, <1>6, <1>10, <1>14, <1>15, <1>16, <1>18, <2>1 DEF Stamps, K!Bufs
<1>20. Numbers'
  BY <1>0 DEF CaptureInv, Numbers
<1>21. Files'
  <2>1. UNCHANGED <<since, disk, list, held, capture_idx, to_capture>>
    BY <1>0
  <2>2. \A k : K!In(k)' = K!In(k)
    BY <2>1 DEF K!In
  <2>3. \A k \in DOMAIN disk : Before(K!In(k), content', list, Unsaved)
    BY <1>13, Zenon DEF CaptureInv, Files, Before
  <2>4. \A k \in DOMAIN disk : \A i \in DOMAIN disk[k] : disk[k][i] \in Int /\ disk[k][i] < frames
    BY <1>5, <1>6 DEF CaptureInv, Files
  <2>5. \A k \in DOMAIN disk : \A f \in K!In(k) : f < frames
    BY <2>4 DEF K!In
  <2>6. \A k \in DOMAIN disk : Before(K!In(k), content', done', 1)
    <3> SUFFICES ASSUME NEW k \in DOMAIN disk, NEW f \in K!In(k), NEW i \in 1..Len(done'),
                        NEW g \in Bytes(content', done'[i])
                 PROVE  f < g
      BY DEF Before
    <3>1. CASE i \in 1..Len(done) /\ done'[i] = done[i]
      <4>1. Before(K!In(k), content, done, 1)
        BY DEF CaptureInv, Files
      <4>2. g \in Bytes(content, done[i]) /\ i >= 1
        BY <1>13, <3>1
      <4> QED  BY <3>1, <4>1, <4>2 DEF Before
    <3>2. CASE done'[i] = b
      BY <1>11, <2>5, <3>2
    <3> QED  BY <1>17, <3>1, <3>2
  <2>7. Unsaved' = Unsaved
    BY <2>1 DEF Unsaved
  <2>8. K!FramesInOrder' /\ K!NoMoreThanAsked'
    BY <2>1, <2>2 DEF CaptureInv, Files, K!FramesInOrder, K!NoMoreThanAsked
  <2>9. \A k \in DOMAIN disk : \A i \in DOMAIN disk[k] : disk[k][i] <= frames
    BY <1>5, <2>4
  <2> QED  BY <1>6, <2>1, <2>2, <2>3, <2>6, <2>7, <2>8, <2>9 DEF CaptureInv, Files
<1> QED  BY <1>4, <1>19, <1>20, <1>21 DEF CaptureInv
LEMMA DequeueStep ==
  ASSUME CaptureAssumption, CaptureInv, K!Dequeue
  PROVE  CaptureInv'
<1>0. /\ held = "poll" /\ done # <<>> /\ done' = Tail(done) /\ list' = Append(list, Head(done))
      /\ UNCHANGED <<boot, since, format, to_capture, cnt_to_capture, capture_idx, content, queue,
                     filling, frames, size, pos, disk>>
      /\ list = <<>> => held' = "poll"
      /\ list # <<>> => held' \in {"open", "qbuf"} /\ (held' = "open" => cnt_to_capture > 0)
  BY DEF K!Dequeue, K!options, K!Saves
<1>1. queue \in Seq(K!Bufs) /\ done \in Seq(K!Bufs) /\ list \in Seq(K!Bufs)
  BY DEF CaptureInv, InLines
<1>2. PICK b \in K!Bufs : b = Head(done) /\ b = done[1] /\ 1 \in 1..Len(done)
  BY <1>0, <1>1, HeadTail
<1>3. Len(list') = Len(list) + 1 /\ Len(list) \in Nat /\ Len(list) <= 1
  BY <1>0, <1>1, <1>2, Appended DEF CaptureInv, InLines
<1>4. /\ list' \in Seq(K!Bufs) /\ done' \in Seq(K!Bufs) /\ Once(list') /\ Once(done')
      /\ Apart(done', list') /\ Apart(done', queue) /\ Apart(list', queue)
  BY <1>0, <1>1, Moved, ApartSwap DEF CaptureInv, InLines
<1>5. InLines'
  <2>1. filling' = filling /\ queue' = queue
    BY <1>0, Zenon
  <2>2. /\ held' \in {"poll", "open", "write", "qbuf"} /\ (held' = "poll" => Len(list') <= 1)
        /\ (held' # "poll" => Len(list') = 2)
    <3>1. CASE list = <<>>
      BY <1>0, <1>3, <3>1
    <3>2. CASE list # <<>>
      <4>1. Len(list) # 0
        BY <1>1, <3>2, EmptyIs
      <4>2. Len(list) = 1
        BY <1>3, <4>1, MustBeOne
      <4> QED  BY <1>0, <1>3, <3>2, <4>2
    <3> QED  BY <3>1, <3>2
  <2>3. Apart(queue, done') /\ Apart(queue, list')
    BY <1>4, ApartSwap
  <2> QED  BY <1>4, <2>1, <2>2, <2>3, Zenon DEF CaptureInv, InLines, K!Bufs
<1>6. Last' = Last
  BY <1>0, Zenon DEF Last
<1>7. \A i \in 1..Len(done) : Marked(content, done[i], Last)
  BY DEF CaptureInv, Stamps, AllMarked
<1>8. \A i \in 1..Len(list) : Older(content, list[i], b)
  BY <1>2 DEF CaptureInv, Stamps, AllOlder
<1>9. AllMarked(content, list', Last) /\ Sorted(content, list')
  BY <1>0, <1>1, <1>2, <1>7, <1>8, AppendSorted DEF CaptureInv, Stamps
<1>10. AllMarked(content, done', Last) /\ Sorted(content, done') /\ AllOlder(content, done', <<>>)
  <2>1. AllOlder(content, done, <<>>)
    BY DEF AllOlder
  <2> QED  BY <1>0, <1>1, <2>1, TailSorted DEF CaptureInv, Stamps
<1>11. \A i \in 1..Len(done') : i \in Int /\ i >= 1 /\ i + 1 \in 1..Len(done) /\ i + 1 > 1 /\ done'[i] = done[i + 1]
  BY <1>0, <1>1, HeadTail
<1>12. \A i \in 1..Len(list') : (i \in 1..Len(list) /\ list'[i] = list[i]) \/ list'[i] = b
  BY <1>0, <1>1, <1>2, Appended
<1>13. AllOlder(content, list', done')
  <2> SUFFICES ASSUME NEW i \in 1..Len(list'), NEW j \in 1..Len(done')
               PROVE  Older(content, list'[i], done'[j])
    BY DEF AllOlder
  <2>1. CASE i \in 1..Len(list) /\ list'[i] = list[i]
    BY <1>11, <2>1 DEF CaptureInv, Stamps, AllOlder
  <2>2. CASE list'[i] = b
    <3>1. 1 < j + 1 /\ j + 1 \in 1..Len(done)
      BY <1>11
    <3>2. Older(content, done[1], done[j + 1])
      BY <1>2, <3>1 DEF CaptureInv, Stamps, Sorted
    <3> QED  BY <1>2, <1>11, <2>2, <3>2
  <2> QED  BY <1>12, <2>1, <2>2
<1>14. Stamps'
  <2>1. UNCHANGED <<content, format, frames>>
    BY <1>0
  <2> QED  BY <1>6, <1>9, <1>10, <1>13, <2>1 DEF CaptureInv, Stamps, K!Bufs
<1>15. Numbers'
  <2>1. held' \in {"open", "write"} => cnt_to_capture > 0
    BY <1>0
  <2>2. held' # "write"
    BY <1>0
  <2> QED  BY <1>0, <2>1, <2>2 DEF CaptureInv, Numbers
<1>16. Files'
  <2>1. UNCHANGED <<since, disk, content, capture_idx, to_capture>>
    BY <1>0
  <2>2. \A k : K!In(k)' = K!In(k)
    BY <2>1 DEF K!In
  <2>3. \A k \in DOMAIN disk : Before(K!In(k), content, done, 1) /\ Before(K!In(k), content, list, 1)
    BY <1>0 DEF CaptureInv, Files, Unsaved
  <2>4. \A k \in DOMAIN disk : Before(K!In(k), content, done', 1)
    BY <1>11, <2>3 DEF Before
  <2>5. \A k \in DOMAIN disk : Before(K!In(k), content, list', 1)
    <3> SUFFICES ASSUME NEW k \in DOMAIN disk, NEW f \in K!In(k), NEW i \in 1..Len(list'), i >= 1,
                        NEW g \in Bytes(content, list'[i])
                 PROVE  f < g
      BY DEF Before
    <3>1. CASE i \in 1..Len(list) /\ list'[i] = list[i]
      BY <2>3, <3>1 DEF Before
    <3>2. CASE list'[i] = b
      <4>1. 1 >= 1
        OBVIOUS
      <4> QED  BY <1>2, <2>3, <3>2, <4>1 DEF Before
    <3> QED  BY <1>12, <3>1, <3>2
  <2>6. \A k \in DOMAIN disk : Before(K!In(k), content, list', Unsaved')
    <3>1. Unsaved' \in {1, 2} /\ \A i \in 1..Len(list') : i >= Unsaved' => i >= 1
      BY DEF Unsaved
    <3> QED  BY <2>5, <3>1, Zenon DEF Before
  <2>7. K!FramesInOrder' /\ K!NoMoreThanAsked'
    BY <2>1, <2>2 DEF CaptureInv, Files, K!FramesInOrder, K!NoMoreThanAsked
  <2> QED  BY <1>6, <2>1, <2>2, <2>4, <2>6, <2>7 DEF CaptureInv, Files
<1> QED  BY <1>5, <1>14, <1>15, <1>16 DEF CaptureInv
LEMMA OpenStep ==
  ASSUME CaptureAssumption, CaptureInv, K!Open
  PROVE  CaptureInv'
<1>0. /\ held = "open"
      /\ UNCHANGED <<boot, since, format, to_capture, initialized, queue, done, list, content, filling,
                     frames, disk>>
      /\ \/ held' = "write" /\ size' = 0 /\ pos' = 0 /\ UNCHANGED <<cnt_to_capture, capture_idx>>
         \/ /\ held' = "qbuf" /\ cnt_to_capture' = cnt_to_capture - 1
            /\ capture_idx' = capture_idx + 1
  BY DEF K!Open, K!options, K!line, K!Counted
<1>1. Last' = Last /\ Stamps' /\ \A k : K!In(k)' = K!In(k)
  BY <1>0, SameLines
<1>2. held' \in {"write", "qbuf"}
  BY <1>0
<1>3. InLines'
  <2>1. /\ held' \in {"poll", "open", "write", "qbuf"} /\ held' # "poll" /\ held # "poll"
    BY <1>0, <1>2
  <2>2. UNCHANGED <<queue, done, list, filling>>
    BY <1>0
  <2> QED  BY <2>1, <2>2, Zenon DEF CaptureInv, InLines, K!Bufs
<1>4. Numbers' /\ capture_idx' >= capture_idx /\ capture_idx \in Int /\ capture_idx' \in Int
  BY <1>0 DEF CaptureInv, Numbers
<1>5. Files'
  <2>1. UNCHANGED <<since, disk, content, done, list, to_capture>>
    BY <1>0
  <2>2. \A k \in DOMAIN disk : k \in Int /\ (K!In(k) # {} => k < capture_idx')
    BY <1>4 DEF CaptureInv, Files
  <2>3. Unsaved = 1 /\ Unsaved' \in {1, 2}
    BY <1>0, <1>2 DEF Unsaved
  <2>4. \A k \in DOMAIN disk : Before(K!In(k), content, list, Unsaved')
    <3>1. \A k \in DOMAIN disk : Before(K!In(k), content, list, 1)
      BY <2>3 DEF CaptureInv, Files
    <3>2. \A i \in 1..Len(list) : i >= Unsaved' => i >= 1
      BY <2>3
    <3> QED  BY <3>1, <3>2, Zenon DEF Before
  <2>5. K!FramesInOrder' /\ K!NoMoreThanAsked'
    BY <1>1, <2>1 DEF CaptureInv, Files, K!FramesInOrder, K!NoMoreThanAsked
  <2> QED  BY <1>1, <2>1, <2>2, <2>4, <2>5 DEF CaptureInv, Files
<1> QED  BY <1>1, <1>3, <1>4, <1>5 DEF CaptureInv

LEMMA QBufStep ==
  ASSUME CaptureAssumption, CaptureInv, K!QBuf
  PROVE  CaptureInv'
<1>0. /\ held = "qbuf" /\ held' = "poll" /\ list' = Tail(list) /\ queue' = Append(queue, Head(list))
      /\ UNCHANGED <<boot, since, format, to_capture, cnt_to_capture, capture_idx, initialized, done,
                     content, filling, frames, size, pos, disk>>
  BY DEF K!QBuf, K!options
<1>1. queue \in Seq(K!Bufs) /\ done \in Seq(K!Bufs) /\ list \in Seq(K!Bufs) /\ Len(list) = 2
  BY <1>0 DEF CaptureInv, InLines
<1>2. list # <<>>
  <2>1. Len(list) # 0
    BY <1>1
  <2> QED  BY <1>1, <2>1, EmptyIs
<1>3. /\ queue' \in Seq(K!Bufs) /\ list' \in Seq(K!Bufs) /\ Once(queue') /\ Once(list')
      /\ Apart(list', queue') /\ Apart(list', done) /\ Apart(queue', done)
  BY <1>0, <1>1, <1>2, Moved, ApartSwap DEF CaptureInv, InLines
<1>4. /\ Len(list') = 1
      /\ \A i \in 1..Len(list') : i + 1 \in 1..Len(list) /\ i + 1 >= 2 /\ list'[i] = list[i + 1]
  BY <1>0, <1>1, <1>2, HeadTail
<1>5. InLines'
  <2>1. UNCHANGED <<done, filling>>
    BY <1>0
  <2>2. held' = "poll" /\ Len(list') <= 1
    BY <1>0, <1>4
  <2>3. held' \in {"poll", "open", "write", "qbuf"}
    BY <1>0
  <2>4. queue' # <<>>
    <3>1. Head(list) \in K!Bufs
      BY <1>1, <1>2, HeadTail
    <3> QED  BY <1>0, <1>1, <3>1, AppendProperties
  <2>5. Apart(queue', list') /\ Apart(done, list')
    BY <1>3, ApartSwap
  <2> QED  BY <1>3, <2>1, <2>2, <2>3, <2>4, <2>5, Zenon DEF CaptureInv, InLines, K!Bufs
<1>6. Last' = Last
  BY <1>0, Zenon DEF Last
<1>7. AllMarked(content, list', Last) /\ Sorted(content, list') /\ AllOlder(content, list', done)
  BY <1>0, <1>1, <1>2, TailSorted DEF CaptureInv, Stamps
<1>8. Stamps'
  <2>1. UNCHANGED <<content, format, frames, done>>
    BY <1>0
  <2> QED  BY <1>6, <1>7, <2>1 DEF CaptureInv, Stamps, K!Bufs
<1>9. Numbers'
  BY <1>0 DEF CaptureInv, Numbers
<1>10. Files'
  <2>1. UNCHANGED <<since, disk, content, done, capture_idx, to_capture>>
    BY <1>0
  <2>2. \A k : K!In(k)' = K!In(k)
    BY <2>1 DEF K!In
  <2>3. Unsaved = 2 /\ Unsaved' = 1
    BY <1>0 DEF Unsaved
  <2>4. \A k \in DOMAIN disk : Before(K!In(k), content, list, 2)
    BY <2>3 DEF CaptureInv, Files
  <2>5. \A k \in DOMAIN disk : Before(K!In(k), content, list', 1)
    BY <1>4, <2>4 DEF Before
  <2>6. K!FramesInOrder' /\ K!NoMoreThanAsked'
    BY <2>1, <2>2 DEF CaptureInv, Files, K!FramesInOrder, K!NoMoreThanAsked
  <2> QED  BY <1>6, <2>1, <2>2, <2>3, <2>5, <2>6 DEF CaptureInv, Files
<1> QED  BY <1>5, <1>8, <1>9, <1>10 DEF CaptureInv

(* The lines and the buffers of a preview that starts. *)
LEMMA FreshLines ==
  ASSUME CaptureAssumption, NEW F, K!Streaming(F)
  PROVE  /\ queue' \in Seq(K!Bufs) /\ Once(queue') /\ done' = <<>> /\ list' = <<>> /\ ~filling'
         /\ filling' \in BOOLEAN
         /\ content' \in [K!Bufs -> Seq(Int)]
         /\ \A b \in K!Bufs : Len(content'[b]) = K!PlaneSize(F)
<1>0. /\ queue' = [i \in 1..NUM_VIDBUF |-> i - 1] /\ done' = <<>> /\ list' = <<>>
      /\ content' = K!Fresh(F)
  BY DEF K!Streaming
<1>1. filling' \in BOOLEAN /\ ~filling'
  BY Zenon DEF K!Streaming
<1>2. queue' \in Seq(K!Bufs) /\ Len(queue') = NUM_VIDBUF /\ \A i \in 1..NUM_VIDBUF : queue'[i] = i - 1
  BY <1>0 DEF K!Bufs, CaptureAssumption
<1>3. Once(queue')
  BY <1>2 DEF Once, CaptureAssumption
<1>4. content' = [b \in K!Bufs |-> [i \in 1..K!PlaneSize(F) |-> 0]]
  BY <1>0 DEF K!Fresh, K!Blank
<1>5. [i \in 1..K!PlaneSize(F) |-> 0] \in Seq(Int)
      /\ Len([i \in 1..K!PlaneSize(F) |-> 0]) = K!PlaneSize(F)
  BY PlaneSizeIs
<1>6. content' \in [K!Bufs -> Seq(Int)] /\ \A b \in K!Bufs : Len(content'[b]) = K!PlaneSize(F)
  BY <1>4, <1>5
<1> QED  BY <1>0, <1>1, <1>2, <1>3, <1>6, Zenon

LEMMA NothingHeld ==
  /\ <<>> \in Seq(K!Bufs) /\ Len(<<>>) = 0 /\ Once(<<>>)
  /\ \A s : Apart(s, <<>>)
  /\ \A c, last : AllMarked(c, <<>>, last) /\ Sorted(c, <<>>) /\ AllOlder(c, <<>>, <<>>)
  /\ \A F, c, from : Before(F, c, <<>>, from)
<1>1. Len(<<>>) = 0 /\ 1..0 = {} /\ <<>> \in Seq(K!Bufs)
  OBVIOUS
<1> QED  BY <1>1 DEF Once, Apart, AllMarked, Sorted, AllOlder, Before
LEMMA RestartStep ==
  ASSUME CaptureAssumption, CaptureInv, K!Restart
  PROVE  CaptureInv'
<1>0. /\ held = "poll" /\ K!Streaming(format)
      /\ UNCHANGED <<boot, since, format, to_capture, cnt_to_capture, capture_idx, frames, held, size, pos, disk>>
  BY DEF K!Restart, K!options
<1>1. /\ queue' \in Seq(K!Bufs) /\ Once(queue') /\ done' = <<>> /\ list' = <<>> /\ ~filling'
      /\ filling' \in BOOLEAN
      /\ content' \in [K!Bufs -> Seq(Int)]
      /\ \A b \in K!Bufs : Len(content'[b]) = K!PlaneSize(format)
  BY <1>0, FreshLines
<1>2. held' = "poll" /\ 0 <= 1
  BY <1>0
<1>3. InLines'
  BY <1>1, <1>2, NothingHeld, Zenon DEF InLines, K!Bufs
<1>4. Last' = frames /\ frames \in Nat /\ (Last = frames \/ Last = frames - 1)
  <2>1. Last' = frames'
    BY <1>1, Zenon DEF Last
  <2> QED  BY <1>0, <2>1 DEF CaptureInv, Stamps, Last
<1>5. Stamps'
  <2>1. UNCHANGED <<format, frames>>
    BY <1>0
  <2> QED  BY <1>1, <1>4, <2>1, NothingHeld, Zenon DEF Stamps, K!Bufs
<1>6. Numbers'
  BY <1>0 DEF CaptureInv, Numbers
<1>7. Files'
  <2>1. UNCHANGED <<since, disk, capture_idx, to_capture>>
    BY <1>0
  <2>2. \A k : K!In(k)' = K!In(k)
    BY <2>1 DEF K!In
  <2>3. \A k \in DOMAIN disk : \A i \in DOMAIN disk[k] : disk[k][i] \in Int /\ disk[k][i] <= Last
    BY DEF CaptureInv, Files
  <2>4. \A k \in DOMAIN disk : \A i \in DOMAIN disk[k] : disk[k][i] <= frames
    BY <1>4, <2>3
  <2>5. K!FramesInOrder' /\ K!NoMoreThanAsked'
    BY <2>1, <2>2 DEF CaptureInv, Files, K!FramesInOrder, K!NoMoreThanAsked
  <2>6. \A k \in DOMAIN disk : /\ Before(K!In(k), content', done', 1)
                               /\ Before(K!In(k), content', list', Unsaved')
    BY <1>1, NothingHeld, Zenon
  <2>7. since \in Nat \ {0} /\ disk \in [0..(MaxFrames - 1) -> Seq(Int)]
        /\ \A k \in DOMAIN disk : K!In(k) # {} => k < capture_idx
    BY DEF CaptureInv, Files
  <2> QED  BY <1>4, <2>1, <2>2, <2>4, <2>5, <2>6, <2>7, Zenon DEF Files
<1> QED  BY <1>3, <1>5, <1>6, <1>7 DEF CaptureInv

LEMMA NoneAndAll == \A a \in Int : 0 + a = a /\ 0 \in Int
OBVIOUS

LEMMA RebootStep ==
  ASSUME CaptureAssumption, CaptureInv, K!Reboot
  PROVE  CaptureInv'
<1>0. /\ since' = frames + 1 /\ K!Streaming(format') /\ held' = "poll" /\ size' = 0 /\ pos' = 0
      /\ to_capture' \in Counts /\ cnt_to_capture' = to_capture' /\ capture_idx' = 0
      /\ UNCHANGED <<frames, disk>>
  BY DEF K!Reboot, K!Booted
<1>1. /\ queue' \in Seq(K!Bufs) /\ Once(queue') /\ done' = <<>> /\ list' = <<>> /\ ~filling'
      /\ filling' \in BOOLEAN
      /\ content' \in [K!Bufs -> Seq(Int)]
      /\ \A b \in K!Bufs : Len(content'[b]) = K!PlaneSize(format')
  BY <1>0, FreshLines
<1>2. held' = "poll" /\ 0 <= 1
  BY <1>0
<1>3. InLines'
  BY <1>1, <1>2, NothingHeld, Zenon DEF InLines, K!Bufs
<1>4. Last' = frames /\ frames \in Nat /\ (Last = frames \/ Last = frames - 1)
  <2>1. Last' = frames'
    BY <1>1, Zenon DEF Last
  <2> QED  BY <1>0, <2>1 DEF CaptureInv, Stamps, Last
<1>5. Stamps'
  <2>1. frames' = frames
    BY <1>0
  <2> QED  BY <1>1, <1>4, <2>1, NothingHeld, Zenon DEF Stamps, K!Bufs, K!PlaneSize
<1>6. Numbers'
  <2>1. PICK a \in Int : a = to_capture'
    BY <1>0 DEF CaptureAssumption
  <2>2. cnt_to_capture' = a /\ capture_idx' = 0 /\ held' = "poll"
    BY <1>0, <2>1, Zenon
  <2>4. 0 + a = a /\ 0 \in Int
    BY NoneAndAll
  <2>3. held' \notin {"open", "write"} /\ held' # "write"
    BY <2>2
  <2> QED  BY <2>1, <2>2, <2>3, <2>4, Zenon DEF Numbers
<1>7. Files'
  <2>1. \A k \in DOMAIN disk : \A i \in DOMAIN disk[k] : disk[k][i] \in Int /\ disk[k][i] <= Last
    BY DEF CaptureInv, Files
  <2>2. \A k \in DOMAIN disk : \A i \in DOMAIN disk[k] : disk[k][i] \in Int /\ disk[k][i] <= frames
    BY <1>4, <2>1
  <2>3. \A k \in DOMAIN disk : \A i \in DOMAIN disk[k] : disk[k][i] \notin (frames + 1)..MaxFrames
    BY <1>4, <2>2
  <2>4. \A k \in DOMAIN disk' : K!In(k)' = {}
    BY <1>0, <2>3 DEF K!In
  <2>5. \A k \in DOMAIN disk' : /\ Before(K!In(k)', content', done', 1)
                                /\ Before(K!In(k)', content', list', Unsaved')
    BY <1>1, NothingHeld, Zenon
  <2>6. K!FramesInOrder' /\ K!NoMoreThanAsked'
    BY <2>4 DEF K!FramesInOrder, K!NoMoreThanAsked
  <2>7. since' \in Nat \ {0} /\ disk' \in [0..(MaxFrames - 1) -> Seq(Int)]
    BY <1>0, <1>4 DEF CaptureInv, Files
  <2>8. \A k \in DOMAIN disk' : \A i \in DOMAIN disk'[k] : disk'[k][i] <= Last'
    BY <1>0, <1>4, <2>2
  <2> QED  BY <2>4, <2>5, <2>6, <2>7, <2>8, Zenon DEF Files
<1> QED  BY <1>3, <1>5, <1>6, <1>7 DEF CaptureInv
(* What a write may answer, whatever of it is counted. *)
LEMMA WrittenIs ==
  ASSUME CaptureInv, held = "write", NEW n \in K!Written
  PROVE  n \in Int /\ n <= 8 /\ K!S64ToS32(n) = 0
<1>1. size = 0 /\ K!buf_len = 8
  BY DEF CaptureInv, Numbers, K!buf_len, K!Pixels
<1>2. PICK p \in Nat : p = K!PlaneSize(format) /\ p <= 8
  BY DEF K!PlaneSize, K!SizeImage, K!Pixels
<1>3. n \in {8} \/ n = p \/ n = -1 \/ n \in 0..7
  BY <1>1, <1>2 DEF K!Written
<1>4. n \in Int /\ -1 <= n /\ n <= 8
  BY <1>2, <1>3
<1> QED  BY <1>4 DEF K!S64ToS32, K!INT_MAX

LEMMA WriteFileStep ==
  ASSUME CaptureAssumption, CaptureInv, K!Write
  PROVE  CaptureInv'
<1>0. /\ held = "write"
      /\ UNCHANGED <<boot, since, format, to_capture, initialized, queue, done, list, content, filling, frames>>
  BY DEF K!Write, K!options, K!line
<1>1. PICK n \in K!Written :
        LET len == K!S64ToS32(n)
            file == K!FileWith(disk[capture_idx], IF n > 0 THEN n ELSE 0)
        IN  /\ disk' = [disk EXCEPT ![capture_idx] = file]
            /\ IF len > 0 /\ size + len # K!buf_len
               THEN /\ size' = size + len
                    /\ pos' = pos + n
                    /\ UNCHANGED <<held, cnt_to_capture, capture_idx>>
               ELSE K!Closed /\ UNCHANGED <<size, pos>>
  BY DEF K!Write
<1>2. n \in Int /\ K!S64ToS32(n) = 0 /\ size = 0 /\ pos = 0
  BY <1>0, WrittenIs DEF CaptureInv, Numbers
<1>3. K!Closed
  BY <1>1, <1>2
<1>4. PICK m \in Nat : m = IF n > 0 THEN n ELSE 0
  BY <1>2
<1>5. PICK file : file = K!FileWith(disk[capture_idx], m)
  OBVIOUS
<1>6. disk' = [disk EXCEPT ![capture_idx] = file]
  BY <1>1, <1>4, <1>5
<1>7. /\ held' = "qbuf" /\ cnt_to_capture' = cnt_to_capture - 1 /\ capture_idx' = capture_idx + 1
  BY <1>3 DEF K!Closed, K!Counted
<1>8. PICK b \in K!Bufs : b = Head(list) /\ b = list[1] /\ 1 \in 1..Len(list) /\ Len(list) = 2
  <2>1. list \in Seq(K!Bufs) /\ Len(list) = 2
    BY <1>0 DEF CaptureInv, InLines
  <2>2. list # <<>>
    <3>1. Len(list) # 0
      BY <2>1
    <3> QED  BY <2>1, <3>1, EmptyIs
  <2> QED  BY <2>1, <2>2, HeadTail
<1>9. Last' = Last /\ Stamps'
  BY <1>0, SameLines
<1>10. InLines'
  <2>1. /\ held' \in {"poll", "open", "write", "qbuf"} /\ held' # "poll" /\ held # "poll"
    BY <1>0, <1>7
  <2>2. UNCHANGED <<queue, done, list, filling>>
    BY <1>0
  <2> QED  BY <2>1, <2>2, Zenon DEF CaptureInv, InLines, K!Bufs
<1>11. Numbers'
  BY <1>0, <1>7 DEF CaptureInv, Numbers
<1>12. ASSUME capture_idx \in DOMAIN disk
       PROVE  /\ file \in Seq(Int)
              /\ \A i \in DOMAIN file : \/ file[i] \in Bytes(content, b)
                                        \/ file[i] = -1
                                        \/ i \in DOMAIN disk[capture_idx] /\ file[i] = disk[capture_idx][i]
  <2>1. PICK old \in Seq(Int) : old = disk[capture_idx]
    BY <1>12 DEF CaptureInv, Files
  <2>2. file = [i \in 1..(IF m > Len(old) THEN m ELSE Len(old)) |-> IF 0 < i /\ i <= m THEN K!Byte(i) ELSE old[i]]
    <3>1. \A i \in 1..(IF m > Len(old) THEN m ELSE Len(old)) : 0 + i - 0 = i
      BY <2>1
    <3> QED  BY <1>2, <1>5, <2>1, <3>1 DEF K!FileWith
  <2>3. \A i \in Nat \ {0} : (K!Byte(i) \in Bytes(content, b) /\ K!Byte(i) \in Int) \/ K!Byte(i) = -1
    <3>1. content[b] \in Seq(Int) /\ Len(content[b]) = K!PlaneSize(format)
      BY DEF CaptureInv, Stamps
    <3>2. \A i \in 1..K!PlaneSize(format) : content[b][i] \in Bytes(content, b) /\ content[b][i] \in Int
      BY <3>1 DEF Bytes
    <3>3. \A i \in Nat \ {0} : i <= K!PlaneSize(format) => i \in 1..K!PlaneSize(format)
      BY PlaneSizeIs
    <3> QED  BY <1>8, <3>2, <3>3 DEF K!Byte, K!Foreign
  <2>4. PICK top \in Nat : top = IF m > Len(old) THEN m ELSE Len(old)
    BY <2>1
  <2>5. file = [i \in 1..top |-> IF 0 < i /\ i <= m THEN K!Byte(i) ELSE old[i]]
    BY <2>2, <2>4
  <2>6. \A i \in 1..top : i \in Nat \ {0} /\ ((0 < i /\ i <= m) \/ (i \in 1..Len(old) /\ old[i] \in Int /\ i \in DOMAIN old))
    BY <2>1, <2>4
  <2>7. \A i \in 1..top : (IF 0 < i /\ i <= m THEN K!Byte(i) ELSE old[i]) \in Int
    BY <2>3, <2>6
  <2>8. file \in Seq(Int)
    BY <2>5, <2>7
  <2>9. DOMAIN file = 1..top
    BY <2>5
  <2>10. ASSUME NEW i \in 1..top
         PROVE  \/ file[i] \in Bytes(content, b)
                \/ file[i] = -1
                \/ i \in DOMAIN old /\ file[i] = old[i]
    <3>1. CASE 0 < i /\ i <= m
      BY <2>3, <2>5, <2>6, <3>1
    <3>2. CASE ~(0 < i /\ i <= m)
      BY <2>5, <2>6, <3>2
    <3> QED  BY <3>1, <3>2
  <2> QED  BY <2>1, <2>8, <2>9, <2>10
<1>13. /\ DOMAIN disk' = DOMAIN disk /\ since' = since /\ capture_idx \in Int
       /\ DOMAIN disk = 0..(MaxFrames - 1) /\ since \in Nat \ {0} /\ frames \in Nat
       /\ \A k \in DOMAIN disk : disk[k] \in Seq(Int)
  BY <1>0, <1>6 DEF CaptureInv, Files, Numbers, Stamps
<1>27. PICK c \in Int : c = capture_idx
  BY <1>13
<1>14. \A k \in DOMAIN disk : k # c => disk'[k] = disk[k] /\ K!In(k)' = K!In(k)
  <2>1. \A k \in DOMAIN disk : k # c => disk'[k] = disk[k]
    BY <1>6, <1>27
  <2> QED  BY <1>13, <2>1 DEF K!In
<1>15. c \in DOMAIN disk => disk'[c] = file
  BY <1>6, <1>27
<1>16. Marked(content, b, Last) /\ \A f \in Bytes(content, b) : f \in Int /\ f <= Last
  BY <1>8 DEF CaptureInv, Stamps, AllMarked, Marked
<1>17. \A k \in DOMAIN disk : /\ k \in Int
                              /\ K!In(k) # {} => k < c
                              /\ Before(K!In(k), content, done, 1)
                              /\ Before(K!In(k), content, list, 1)
  BY <1>0, <1>13, <1>27 DEF CaptureInv, Files, Unsaved
<1>18. c \in DOMAIN disk => K!In(c) = {}
  BY <1>13, <1>17, <1>27
<1>19. c \in DOMAIN disk => \A f \in K!In(c)' : f \in Bytes(content, b)
  <2> SUFFICES ASSUME c \in DOMAIN disk, NEW f, f \in K!In(c)'
               PROVE  f \in Bytes(content, b)
    OBVIOUS
  <2>1. PICK i \in DOMAIN file : f = file[i] /\ f \in since..MaxFrames
    <3>1. \E i \in DOMAIN disk'[c] : f = disk'[c][i] /\ f \in since'..MaxFrames
      BY DEF K!In
    <3> QED  BY <1>13, <1>15, <3>1
  <2>2. f # -1
    BY <1>13, <2>1
  <2>3. ~(i \in DOMAIN disk[c] /\ file[i] = disk[c][i])
    BY <1>18, <2>1 DEF K!In
  <2> QED  BY <1>12, <1>27, <2>1, <2>2, <2>3
<1>20. \A k \in DOMAIN disk : \A i \in DOMAIN disk'[k] : disk'[k][i] <= Last
  <2>1. ASSUME NEW k \in DOMAIN disk, k # c
        PROVE  \A i \in DOMAIN disk'[k] : disk'[k][i] <= Last
    BY <1>14, <2>1 DEF CaptureInv, Files
  <2>2. -1 <= Last
    <3>1. Last = frames \/ Last = frames - 1
      BY DEF Last
    <3> QED  BY <1>13, <3>1
  <2>3. ASSUME c \in DOMAIN disk
        PROVE  \A i \in DOMAIN disk'[c] : disk'[c][i] <= Last
    <3> SUFFICES ASSUME NEW i \in DOMAIN file  PROVE file[i] <= Last
      BY <1>15, <2>3
    <3>1. i \in DOMAIN disk[c] => disk[c][i] <= Last
      BY <2>3 DEF CaptureInv, Files
    <3> QED  BY <1>12, <1>27, <1>16, <2>2, <2>3, <3>1
  <2> QED  BY <2>1, <2>3
<1>21. disk' \in [0..(MaxFrames - 1) -> Seq(Int)]
  BY <1>6, <1>12, <1>13, <1>27 DEF CaptureInv, Files
<1>22. Before(Bytes(content, b), content, done, 1) /\ Before(Bytes(content, b), content, list, 2)
  <2>1. \A j \in 1..Len(done) : Older(content, b, done[j])
    BY <1>8 DEF CaptureInv, Stamps, AllOlder
  <2>2. \A j \in 1..Len(list) : j >= 2 => Older(content, b, list[j])
    <3>1. \A j \in 1..Len(list) : j >= 2 => 1 < j
      BY <1>8
    <3> QED  BY <1>8, <3>1 DEF CaptureInv, Stamps, Sorted
  <2> QED  BY <2>1, <2>2, Zenon DEF Before, Older
<1>23. \A k \in DOMAIN disk : Before(K!In(k)', content, done, 1) /\ Before(K!In(k)', content, list, 2)
  <2>1. \A k \in DOMAIN disk : Before(K!In(k), content, list, 2)
    <3>1. \A i \in 1..Len(list) : i >= 2 => i >= 1
      BY <1>8
    <3> QED  BY <1>17, <3>1, Zenon DEF Before
  <2>2. ASSUME NEW k \in DOMAIN disk, k # c
        PROVE  Before(K!In(k)', content, done, 1) /\ Before(K!In(k)', content, list, 2)
    BY <1>14, <1>17, <2>1, <2>2
  <2>3. ASSUME c \in DOMAIN disk
        PROVE  /\ Before(K!In(c)', content, done, 1)
               /\ Before(K!In(c)', content, list, 2)
    BY <1>19, <1>22, <2>3, Zenon DEF Before
  <2> QED  BY <2>2, <2>3, Zenon
<1>24. K!FramesInOrder'
  <2> SUFFICES ASSUME NEW k \in DOMAIN disk, NEW l \in DOMAIN disk,
                      NEW f, f \in K!In(k)', NEW g, g \in K!In(l)'
               PROVE  (k = l => f = g) /\ (k < l => f < g)
    BY <1>13 DEF K!FramesInOrder
  <2>1. CASE k # c /\ l # c
    BY <1>14, <2>1 DEF CaptureInv, Files, K!FramesInOrder
  <2>2. CASE k = c /\ l = c
    <3>1. f \in Bytes(content, b) /\ g \in Bytes(content, b) /\ ~(k < l)
      BY <1>19, <2>2
    <3> QED  BY <1>16, <3>1, Zenon DEF Marked
  <2>3. CASE k # c /\ l = c
    <3>1. f \in K!In(k) /\ g \in Bytes(content, list[1]) /\ 1 >= 1
      BY <1>8, <1>14, <1>19, <2>3
    <3> QED  BY <1>8, <1>17, <2>3, <3>1 DEF Before
  <2>4. CASE k = c /\ l # c
    <3>1. l < c
      BY <1>14, <1>17, <2>4
    <3> QED  BY <1>13, <1>17, <2>4, <3>1
  <2> QED  BY <2>1, <2>2, <2>3, <2>4
<1>25. K!NoMoreThanAsked'
  <2>1. capture_idx < to_capture /\ to_capture' = to_capture
    BY <1>0 DEF CaptureInv, Numbers
  <2> QED  BY <1>13, <1>14, <1>27, <2>1 DEF CaptureInv, Files, K!NoMoreThanAsked
<1>26. Files'
  <2>1. UNCHANGED <<since, content, done, list>> /\ Unsaved' = 2
    BY <1>0, <1>7 DEF Unsaved
  <2>2. \A k \in DOMAIN disk : K!In(k)' # {} => k < capture_idx'
    BY <1>7, <1>13, <1>14, <1>17, <1>27
  <2> QED  BY <1>9, <1>13, <1>20, <1>21, <1>23, <1>24, <1>25, <2>1, <2>2 DEF Files
<1> QED  BY <1>9, <1>10, <1>11, <1>26 DEF CaptureInv

LEMMA CaptureInvariant == ASSUME CaptureAssumption PROVE K!Spec => []CaptureInv
<1>1. CaptureInv /\ [K!Next]_(K!vars) => CaptureInv'
  <2> SUFFICES ASSUME CaptureInv, [K!Next]_(K!vars)  PROVE CaptureInv'
    OBVIOUS
  <2>1. CASE UNCHANGED K!vars
    <3>1. /\ UNCHANGED <<queue, done, list, content, filling, frames, since, format>>
          /\ UNCHANGED <<to_capture, cnt_to_capture, capture_idx, held, size, pos, disk>>
      BY <2>1 DEF K!vars, K!options, K!line
    <3>2. Last' = Last /\ Stamps' /\ \A k : K!In(k)' = K!In(k)
      BY <3>1, SameLines
    <3>3. InLines'
      BY <3>1 DEF CaptureInv, InLines, K!Bufs
    <3>4. Numbers'
      BY <3>1 DEF CaptureInv, Numbers
    <3>5. Unsaved' = Unsaved
      BY <3>1 DEF Unsaved
    <3>6. Files'
      BY <3>1, <3>2, <3>5 DEF CaptureInv, Files, K!FramesInOrder, K!NoMoreThanAsked
    <3> QED  BY <3>2, <3>3, <3>4, <3>6 DEF CaptureInv
  <2> QED  BY <2>1, FillTopStep, FillRestStep, DequeueStep, OpenStep, WriteFileStep, QBufStep, RestartStep,
              RebootStep DEF K!Next
<1> QED  BY <1>1, CaptureInit, PTL DEF K!Spec

(* A file never mixes two frames of a process and the files are in their   *)
(* order, for any number of buffers, frames, restarts and processes, and   *)
(* whatever open and write fail at (camera.c:972-1025, 1150-1196).         *)
THEOREM CaptureInOrder == ASSUME CaptureAssumption PROVE K!Spec => []K!FramesInOrder
<1>1. CaptureInv => K!FramesInOrder
  BY DEF CaptureInv, Files
<1> QED  BY <1>1, CaptureInvariant, PTL

(* A process writes no file but the first ones it was asked for, however   *)
(* open and write fail (camera.c:972-1025).                                *)
THEOREM CaptureAsked == ASSUME CaptureAssumption PROVE K!Spec => []K!NoMoreThanAsked
<1>1. CaptureInv => K!NoMoreThanAsked
  BY DEF CaptureInv, Files
<1> QED  BY <1>1, CaptureInvariant, PTL

-----------------------------------------------------------------------------
LEMMA LeastPlace ==
  ASSUME NEW S, S \subseteq 1..13, S # {}
  PROVE  \E i \in S : \A j \in S : i <= j
<1> SUFFICES ASSUME \A i \in S : \E j \in S : j < i
             PROVE  FALSE
  OBVIOUS
<1>1. \A i \in S : i > 2
  OBVIOUS
<1>2. \A i \in S : i > 4
  BY <1>1
<1>3. \A i \in S : i > 6
  BY <1>2
<1>4. \A i \in S : i > 8
  BY <1>3
<1>5. \A i \in S : i > 10
  BY <1>4
<1>6. \A i \in S : i > 12
  BY <1>5
<1>7. \A i \in S : i > 13
  BY <1>6
<1>8. PICK i \in S : TRUE
  OBVIOUS
<1> QED  BY <1>7, <1>8

LEMMA TableIs ==
  /\ DOMAIN K!video_format_table = 1..13
  /\ \A i \in 1..13 : K!video_format_table[i].planes \in 1..3
BY DEF K!video_format_table, K!Entry

(* A search of the table ends at an entry that has what is looked for. *)
LEMMA LookUpFinds ==
  ASSUME NEW field, NEW value, NEW i \in DOMAIN K!video_format_table,
         K!video_format_table[i][field] = value
  PROVE  \E j \in DOMAIN K!video_format_table :
           K!LookUp(field, value) = K!video_format_table[j]
<1> DEFINE found == {j \in DOMAIN K!video_format_table : K!video_format_table[j][field] = value}
<1>1. found # {} /\ found \subseteq 1..13
  BY TableIs
<1>2. \E k \in found : \A j \in found : k <= j
  BY <1>1, LeastPlace
<1>3. (CHOOSE k \in found : \A j \in found : k <= j) \in found
  <2> HIDE DEF found
  <2> QED  BY <1>2
<1>4. K!LookUp(field, value) = K!video_format_table[CHOOSE k \in found : \A j \in found : k <= j]
  BY <1>1 DEF K!LookUp
<1> QED  BY <1>3, <1>4

(* A name of the table has a format, and a format planes. *)
LEMMA KnownHasPlanes ==
  ASSUME NEW name \in K!Known
  PROVE  K!PlanesOf(K!FormatByName(name)) > 0
<1>1. PICK i \in DOMAIN K!video_format_table : K!video_format_table[i].name = name
  BY DEF K!Known
<1>2. PICK j \in DOMAIN K!video_format_table :
        K!LookUp("name", name) = K!video_format_table[j]
  BY <1>1, LookUpFinds
<1>3. K!FormatByName(name) = K!video_format_table[j].v4l2
  BY <1>2 DEF K!FormatByName
<1>4. PICK k \in DOMAIN K!video_format_table :
        K!LookUp("v4l2", K!FormatByName(name)) = K!video_format_table[k]
  BY <1>3, LookUpFinds
<1> QED  BY <1>4, TableIs DEF K!PlanesOf

(* What of the types the order of the files does not need: each number was *)
(* used for a frame that came in, and what a byte says is a frame.         *)
Half == IF filling THEN 1 ELSE 0
Counted == IF held = "qbuf" THEN 1 ELSE 0
Used == capture_idx + Len(done) + Len(list) + Half - Counted

InRange ==
  /\ boot \in 1..MaxBoots /\ since \in 1..(MaxFrames + 1)
  /\ format \in {K!FormatByName(name) : name \in Names} /\ to_capture \in Counts
  /\ initialized \in {0, 1}
  /\ frames <= MaxFrames /\ capture_idx >= 0 /\ Used <= frames
  /\ size = 0 /\ pos = 0
  /\ \A b \in K!Bufs : \A i \in DOMAIN content[b] : content[b][i] \in K!Frames
  /\ \A k \in DOMAIN disk :
       /\ Len(disk[k]) <= K!buf_len
       /\ \A i \in DOMAIN disk[k] : disk[k][i] \in K!Frames \cup {K!Foreign}

LEMMA CountsAre ==
  /\ Half \in 0..1 /\ Counted \in 0..1
  /\ filling = TRUE => Half = 1
  /\ filling = FALSE => Half = 0
  /\ held = "qbuf" => Counted = 1
  /\ held # "qbuf" => Counted = 0
BY DEF Half, Counted

LEMMA CountsWillBe ==
  /\ Half' \in 0..1 /\ Counted' \in 0..1
  /\ filling' = TRUE => Half' = 1
  /\ filling' = FALSE => Half' = 0
  /\ held' = "qbuf" => Counted' = 1
  /\ held' # "qbuf" => Counted' = 0
  /\ filling' = filling => Half' = Half
  /\ held' = held => Counted' = Counted
BY DEF Half, Counted

LEMMA InRangeInit ==
  ASSUME CaptureAssumption, K!Init
  PROVE  InRange
<1>1. /\ done = <<>> /\ list = <<>> /\ filling = FALSE /\ capture_idx = 0 /\ frames = 0 /\ held = "poll"
      /\ boot = 1 /\ since = 1 /\ format \in {K!FormatByName(name) : name \in Names}
      /\ to_capture \in Counts /\ initialized = 0 /\ size = 0 /\ pos = 0
      /\ content = K!Fresh(format) /\ disk = [k \in 0..(MaxFrames - 1) |-> <<>>]
  BY DEF K!Init
<1>2. Used = 0
  BY <1>1, CountsAre, CountsWillBe DEF Used
<1>3. \A b \in K!Bufs : \A i \in DOMAIN content[b] : content[b][i] \in K!Frames
  BY <1>1 DEF K!Fresh, K!Blank, K!Frames, CaptureAssumption
<1>4. \A k \in DOMAIN disk : disk[k] = <<>>
  BY <1>1
<1> QED  BY <1>1, <1>2, <1>3, <1>4 DEF InRange, CaptureAssumption, K!buf_len, K!Pixels

LEMMA InRangeStep ==
  ASSUME CaptureAssumption, CaptureInv, InRange, [K!Next]_(K!vars)
  PROVE  InRange'
<1>0. /\ Len(done) \in Nat /\ Len(list) \in Nat /\ frames \in Nat /\ capture_idx \in Int
      /\ done \in Seq(K!Bufs) /\ list \in Seq(K!Bufs) /\ queue \in Seq(K!Bufs)
      /\ content \in [K!Bufs -> Seq(Int)] /\ filling \in BOOLEAN
      /\ held \in {"poll", "open", "write", "qbuf"}
  BY DEF CaptureInv, InLines, Stamps, Numbers
<1>11. Len(done) \in Nat /\ Len(list) \in Nat /\ capture_idx \in Int
  BY <1>0
<1>1. CASE K!FillTop
  <2>0. filling = FALSE
    BY <1>0, <1>1, Zenon DEF K!FillTop
  <2>1. /\ queue # <<>> /\ ~filling /\ frames < MaxFrames /\ filling' = TRUE /\ frames' = frames + 1
        /\ content' = [content EXCEPT ![Head(queue)] =
                         [i \in DOMAIN @ |-> IF 2 * i <= Len(@) THEN frames + 1 ELSE @[i]]]
        /\ UNCHANGED <<boot, since, format, to_capture, capture_idx, initialized, done, list, held,
                       size, pos, disk>>
    BY <1>1 DEF K!FillTop, K!options
  <2>2. Used' = Used + 1
    BY <1>0, <2>0, <2>1, CountsAre, CountsWillBe DEF Used
  <2>3. frames + 1 \in K!Frames /\ frames' <= MaxFrames
    BY <1>0, <2>1 DEF K!Frames, CaptureAssumption
  <2>4. \A b \in K!Bufs : \A i \in DOMAIN content'[b] : content'[b][i] \in K!Frames
    BY <1>0, <2>1, <2>3 DEF InRange
  <2>5. Used' <= frames'
    BY <1>0, <2>1, <2>2, CountsAre, CountsWillBe DEF InRange, Used
  <2> QED  BY <2>1, <2>3, <2>4, <2>5 DEF InRange
<1>2. CASE K!FillRest
  <2>0. filling = TRUE
    BY <1>0, <1>2, Zenon DEF K!FillRest
  <2>1. /\ filling /\ filling' = FALSE
        /\ content' = [content EXCEPT ![Head(queue)] = [i \in DOMAIN @ |-> frames]]
        /\ done' = Append(done, Head(queue))
        /\ UNCHANGED <<boot, since, format, to_capture, capture_idx, initialized, list, frames, held,
                       size, pos, disk>>
    BY <1>2 DEF K!FillRest, K!options
  <2>2. Used' = Used
    <3>1. Head(queue) \in K!Bufs
      <4>1. queue # <<>>
        BY <2>1 DEF CaptureInv, InLines
      <4> QED  BY <1>0, <4>1, HeadTail
    <3>2. Len(done') = Len(done) + 1
      BY <1>0, <2>1, <3>1, Appended
    <3> QED  BY <1>0, <2>0, <2>1, <3>2, CountsAre, CountsWillBe DEF Used
  <2>3. frames \in K!Frames
    BY <1>0 DEF InRange, K!Frames, CaptureAssumption
  <2>4. \A b \in K!Bufs : \A i \in DOMAIN content'[b] : content'[b][i] \in K!Frames
    BY <1>0, <2>1, <2>3 DEF InRange
  <2> QED  BY <2>1, <2>2, <2>4 DEF InRange
<1>3. CASE K!Dequeue
  <2>1. /\ held = "poll" /\ done # <<>> /\ done' = Tail(done) /\ list' = Append(list, Head(done))
        /\ UNCHANGED <<boot, since, format, to_capture, capture_idx, content, filling, frames,
                       size, pos, disk>>
    BY <1>3 DEF K!Dequeue, K!options
  <2>2. initialized' \in {0, 1} /\ held' \in {"poll", "open", "qbuf"}
    BY <1>3 DEF K!Dequeue, InRange
  <2>3. Len(done') = Len(done) - 1 /\ Len(list') = Len(list) + 1
    BY <1>0, <2>1, HeadTail, Appended
  <2>4. Half' = Half /\ Counted = 0 /\ Half \in 0..1 /\ Counted' \in 0..1
    BY <2>1, CountsAre, CountsWillBe
  <2>5. Used' <= Used /\ Used' \in Int /\ Used \in Int
    <3>1. Used' = capture_idx + Len(done') + Len(list') + Half - Counted'
      BY <2>1, <2>4 DEF Used
    <3>2. Used = capture_idx + Len(done) + Len(list) + Half - 0
      BY <2>4 DEF Used
    <3> QED  BY <1>11, <2>3, <2>4, <3>1, <3>2
  <2>6. Used' <= frames'
    BY <1>0, <2>1, <2>5 DEF InRange
  <2> QED  BY <2>1, <2>2, <2>6 DEF InRange
<1>4. CASE K!Open
  <2>1. /\ held = "open"
        /\ \/ held' = "write" /\ size' = 0 /\ pos' = 0 /\ capture_idx' = capture_idx
           \/ held' = "qbuf" /\ capture_idx' = capture_idx + 1 /\ UNCHANGED <<size, pos>>
        /\ UNCHANGED <<boot, since, format, to_capture, initialized, done, list, content, filling,
                       frames, disk>>
    BY <1>4 DEF K!Open, K!Counted, K!options, K!line
  <2>2. Used' = Used /\ capture_idx' >= 0
    BY <1>0, <2>1, CountsAre, CountsWillBe DEF Used, InRange
  <2> QED  BY <2>1, <2>2 DEF InRange
<1>5. CASE K!Write
  <2>1. /\ held = "write"
        /\ UNCHANGED <<boot, since, format, to_capture, initialized, queue, done, list, content,
                       filling, frames>>
    BY <1>5 DEF K!Write, K!options, K!line
  <2>2. PICK n \in K!Written :
          LET len == K!S64ToS32(n)
              file == K!FileWith(disk[capture_idx], IF n > 0 THEN n ELSE 0)
          IN  /\ disk' = [disk EXCEPT ![capture_idx] = file]
              /\ IF len > 0 /\ size + len # K!buf_len
                 THEN /\ size' = size + len
                      /\ pos' = pos + n
                      /\ UNCHANGED <<held, cnt_to_capture, capture_idx>>
                 ELSE K!Closed /\ UNCHANGED <<size, pos>>
    BY <1>5 DEF K!Write
  <2>3. n \in Int /\ n <= 8 /\ K!S64ToS32(n) = 0
    BY <2>1, WrittenIs
  <2>4. PICK m \in 0..8 : m = IF n > 0 THEN n ELSE 0
    BY <2>3
  <2>5. PICK file : file = K!FileWith(disk[capture_idx], m)
    OBVIOUS
  <2>6. /\ disk' = [disk EXCEPT ![capture_idx] = file]
        /\ held' = "qbuf" /\ capture_idx' = capture_idx + 1 /\ UNCHANGED <<size, pos>>
    BY <2>2, <2>3, <2>4, <2>5 DEF K!Closed, K!Counted
  <2>7. Used' = Used /\ capture_idx' >= 0
    BY <1>0, <2>1, <2>6, CountsAre, CountsWillBe DEF Used, InRange
  <2>8. ASSUME NEW k \in DOMAIN disk
        PROVE  /\ Len(disk'[k]) <= K!buf_len
               /\ \A i \in DOMAIN disk'[k] : disk'[k][i] \in K!Frames \cup {K!Foreign}
    <3>1. CASE k # capture_idx
      BY <2>6, <3>1 DEF InRange
    <3>2. CASE k = capture_idx
      <4>1. disk'[k] = file
        BY <2>6, <3>2
      <4>2. disk[k] \in Seq(Int) /\ Len(disk[k]) <= 8 /\ Len(disk[k]) \in Nat
        BY DEF InRange, K!buf_len, K!Pixels, CaptureInv, Files
      <4>3. PICK top \in Nat : top = (IF 0 + m > Len(disk[k]) THEN 0 + m ELSE Len(disk[k])) /\ top <= 8
        BY <4>2
      <4>4. file = [i \in 1..top |->
                      IF 0 < i /\ i <= 0 + m THEN K!Byte(0 + i - 0) ELSE disk[k][i]]
        BY <2>5, <3>2, <4>3 DEF K!FileWith, InRange
      <4>5. Len(file) = top /\ DOMAIN file = 1..top
        BY <4>4
      <4>6. ASSUME NEW i \in 1..top
            PROVE  file[i] \in K!Frames \cup {K!Foreign}
        <5>1. CASE i <= m
          <6>1. file[i] = K!Byte(i)
            BY <4>4, <5>1
          <6>2. Head(list) \in K!Bufs
            <7>1. Len(list) = 2
              BY <2>1 DEF CaptureInv, InLines
            <7>2. Len(list) # 0
              BY <7>1
            <7>3. list # <<>>
              BY <1>0, <7>2, EmptyIs
            <7> QED  BY <1>0, <7>3, HeadTail
          <6>3. i <= K!PlaneSize(format) => i \in DOMAIN content[Head(list)]
            BY <1>0, <6>2, PlaneSizeIs DEF CaptureInv, Stamps
          <6> QED  BY <6>1, <6>2, <6>3 DEF K!Byte, InRange
        <5>2. CASE ~(i <= m)
          <6>1. file[i] = disk[k][i] /\ i \in DOMAIN disk[k]
            BY <4>2, <4>3, <4>4, <5>2
          <6> QED  BY <6>1 DEF InRange
        <5> QED  BY <5>1, <5>2
      <4> QED  BY <4>1, <4>3, <4>5, <4>6 DEF K!buf_len, K!Pixels
    <3> QED  BY <3>1, <3>2
  <2>9. DOMAIN disk' = DOMAIN disk
    BY <2>6
  <2> QED  BY <2>1, <2>6, <2>7, <2>8, <2>9 DEF InRange
<1>6. CASE K!QBuf
  <2>1. /\ held = "qbuf" /\ held' = "poll" /\ list' = Tail(list)
        /\ UNCHANGED <<boot, since, format, to_capture, capture_idx, initialized, done, content,
                       filling, frames, size, pos, disk>>
    BY <1>6 DEF K!QBuf, K!options
  <2>2. Len(list') = Len(list) - 1
    <3>1. Len(list) = 2
      BY <2>1 DEF CaptureInv, InLines
    <3>2. Len(list) # 0
      BY <3>1
    <3>3. list # <<>>
      BY <1>0, <3>2, EmptyIs
    <3> QED  BY <1>0, <2>1, <3>3, HeadTail
  <2>3. Used' = Used
    <3>1. Half' = Half /\ Counted = 1 /\ Counted' = 0 /\ Half \in 0..1
      BY <2>1, CountsAre, CountsWillBe
    <3>2. Used' = capture_idx + Len(done) + Len(list') + Half - 0
      BY <2>1, <3>1 DEF Used
    <3>3. Used = capture_idx + Len(done) + Len(list) + Half - 1
      BY <3>1 DEF Used
    <3> QED  BY <1>11, <2>2, <3>1, <3>2, <3>3
  <2> QED  BY <2>1, <2>3 DEF InRange
<1>7. ASSUME NEW f, K!Streaming(f), held = "poll", held' = "poll"
      PROVE  /\ Used' = capture_idx' + 0 + 0 + 0 - 0
             /\ \A b \in K!Bufs : \A i \in DOMAIN content'[b] : content'[b][i] \in K!Frames
  <2>1. /\ done' = <<>> /\ list' = <<>> /\ filling' = FALSE /\ content' = K!Fresh(f)
    BY <1>7 DEF K!Streaming
  <2>2. Used' = capture_idx' + 0 + 0 + 0 - 0
    BY <1>7, <2>1, CountsWillBe DEF Used
  <2> QED  BY <2>1, <2>2 DEF K!Fresh, K!Blank, K!Frames, CaptureAssumption
<1>8. CASE K!Restart
  <2>1. /\ held = "poll" /\ held' = "poll" /\ K!Streaming(format) /\ initialized' = 0
        /\ UNCHANGED <<boot, since, format, to_capture, capture_idx, frames, size, pos, disk>>
    BY <1>8 DEF K!Restart, K!options
  <2>2. Used' = capture_idx
    BY <1>11, <1>7, <2>1
  <2>3. Used' <= frames'
    BY <1>0, <2>1, <2>2, CountsAre, CountsWillBe DEF Used, InRange
  <2> QED  BY <1>7, <2>1, <2>3 DEF InRange
<1>9. CASE K!Reboot
  <2>1. /\ boot < MaxBoots /\ boot' = boot + 1 /\ since' = frames + 1 /\ held' = "poll"
        /\ format' \in {K!FormatByName(name) : name \in Names} /\ to_capture' \in Counts
        /\ capture_idx' = 0 /\ initialized' = 0 /\ size' = 0 /\ pos' = 0
        /\ UNCHANGED <<frames, disk>>
        /\ done' = <<>> /\ list' = <<>> /\ filling' = FALSE /\ content' = K!Fresh(format')
    BY <1>9 DEF K!Reboot, K!Booted, K!Streaming
  <2>2. Used' = 0
    BY <2>1, CountsAre, CountsWillBe DEF Used
  <2>3. boot' \in 1..MaxBoots /\ since' \in 1..(MaxFrames + 1)
    BY <1>0, <2>1 DEF InRange, CaptureAssumption
  <2>4. \A b \in K!Bufs : \A i \in DOMAIN content'[b] : content'[b][i] \in K!Frames
    BY <2>1 DEF K!Fresh, K!Blank, K!Frames, CaptureAssumption
  <2> QED  BY <1>0, <2>1, <2>2, <2>3, <2>4 DEF InRange
<1>10. CASE UNCHANGED K!vars
  <2>1. UNCHANGED <<boot, since, format, to_capture, capture_idx, initialized, done, list, content,
                    filling, frames, held, size, pos, disk>>
    BY <1>10 DEF K!vars, K!options, K!line
  <2>2. Used' = Used
    BY <2>1, CountsAre, CountsWillBe DEF Used
  <2> QED  BY <2>1, <2>2 DEF InRange
<1> QED  BY <1>1, <1>2, <1>3, <1>4, <1>5, <1>6, <1>8, <1>9, <1>10 DEF K!Next

LEMMA CaptureTypes == ASSUME CaptureAssumption PROVE K!Spec => []K!TypeOK
<1>1. CaptureInv /\ InRange => K!TypeOK
  <2> SUFFICES ASSUME CaptureInv, InRange  PROVE K!TypeOK
    OBVIOUS
  <2>1. PICK name \in K!Known : format = K!FormatByName(name)
    BY DEF InRange, CaptureAssumption
  <2>2. K!PlanesOf(format) > 0
    BY <2>1, KnownHasPlanes
  <2>3. /\ frames \in Nat /\ done \in Seq(K!Bufs) /\ list \in Seq(K!Bufs)
        /\ capture_idx \in Int /\ cnt_to_capture \in Int /\ filling \in BOOLEAN
        /\ held \in {"poll", "open", "write", "qbuf"} /\ (held # "poll" => Len(list) = 2)
    BY DEF CaptureInv, InLines, Stamps, Numbers
  <2>8. Len(done) \in Nat /\ Len(list) \in Nat /\ (held = "qbuf" => Len(list) = 2)
    BY <2>3
  <2>4. capture_idx \in 0..MaxFrames /\ frames \in K!Frames
    <3>1. Len(done) \in Nat /\ Len(list) \in Nat /\ Counted <= Len(list)
      BY <2>8, CountsAre
    <3>2. capture_idx <= Used /\ Used \in Int
      BY <2>3, <3>1, CountsAre DEF Used
    <3> QED  BY <2>3, <3>2 DEF InRange, K!Frames, CaptureAssumption
  <2>5. ASSUME NEW b \in K!Bufs
        PROVE  content[b] \in [1..K!PlaneSize(format) -> K!Frames]
    BY DEF CaptureInv, Stamps, InRange
  <2>6. ASSUME NEW k \in DOMAIN disk
        PROVE  disk[k] \in Seq(K!Frames \cup {K!Foreign})
    <3>1. disk[k] \in Seq(Int) /\ \A i \in DOMAIN disk[k] : disk[k][i] \in K!Frames \cup {K!Foreign}
      BY DEF CaptureInv, Files, InRange
    <3> QED  BY <3>1
  <2>7. 0 \in 0..K!buf_len
    BY DEF K!buf_len, K!Pixels
  <2> QED  BY <2>2, <2>3, <2>4, <2>5, <2>6, <2>7 DEF InRange, K!TypeOK
<1>2. K!Init => CaptureInv /\ InRange
  BY CaptureInit, InRangeInit
<1>3. CaptureInv /\ InRange /\ [K!Next]_(K!vars) => InRange'
  BY InRangeStep
<1> QED  BY <1>1, <1>2, <1>3, CaptureInvariant, PTL DEF K!Spec

-----------------------------------------------------------------------------
(* The run parts: a step is one of one part, and leaves the others alone.  *)
WP == INSTANCE WindowPriorityProofs
BP == INSTANCE BootLogProofs

LEMMA PartsInit == Init => L!Init /\ M!Init /\ W!Init /\ B!Init /\ K!Init
BY DEF Init

LEMMA PartsStep ==
  ASSUME [Next]_vars
  PROVE  /\ [L!Next]_L!vars /\ [M!Next]_M!vars /\ [W!Next]_W!vars
         /\ [B!Next]_B!vars /\ [K!Next]_K!vars
<1>1. /\ UNCHANGED list_vars => UNCHANGED L!vars
      /\ UNCHANGED pipe_vars => UNCHANGED M!vars
      /\ UNCHANGED screen_vars => UNCHANGED W!vars
      /\ UNCHANGED log_vars => UNCHANGED B!vars
      /\ UNCHANGED capture_vars => UNCHANGED K!vars
  BY DEF list_vars, pipe_vars, screen_vars, log_vars, capture_vars,
    L!vars, M!vars, W!vars, B!vars, K!vars, K!options, K!line
<1>2. CASE UNCHANGED vars
  BY <1>1, <1>2 DEF vars
<1>3. CASE Next
  BY <1>1, <1>3 DEF Next
<1> QED  BY <1>2, <1>3

LEMMA PartsOfEach ==
  Spec => /\ L!Spec /\ M!Spec /\ W!Spec /\ K!Spec
          /\ B!Init /\ [][B!Next]_B!vars
BY PartsInit, PartsStep, PTL DEF Spec, L!Spec, M!Spec, W!Spec, K!Spec

LEMMA SameScreen ==
  /\ W!Init <=> WP!Init
  /\ [W!Next]_W!vars <=> [WP!Next]_WP!vars
  /\ W!ShowsAndHides <=> WP!ShowsAndHides
BY DEF W!Init, WP!Init, W!vars, WP!vars, W!Next, WP!Next, W!InitParams,
  WP!InitParams, W!Show, WP!Show, W!Hide, WP!Hide, W!Push, WP!Push,
  W!Order, WP!Order, W!ShowVideoOutput, WP!ShowVideoOutput, W!Enabled,
  WP!Enabled, W!Register, WP!Register, W!Corresponding, WP!Corresponding,
  W!DefaultOvps, WP!DefaultOvps, W!IdxOvp, WP!IdxOvp, W!PrioValue,
  WP!PrioValue, W!ovp_list, WP!ovp_list, W!NUM_OF_OVPS, WP!NUM_OF_OVPS,
  W!Calls, WP!Calls, W!ShowsAndHides, WP!ShowsAndHides,
  W!Camera, WP!Camera, W!OnTop, WP!OnTop, W!Defaults, WP!Defaults,
  W!Obeyed, WP!Obeyed, W!Raised, WP!Raised, W!EitherHides, WP!EitherHides

LEMMA SameLog ==
  /\ B!Init <=> BP!Init
  /\ [B!Next]_B!vars <=> [BP!Next]_BP!vars
  /\ B!Sync!Init <=> BP!Sync!Init
  /\ [B!Sync!Next]_B!Phase <=> [BP!Sync!Next]_BP!Phase
BY DEF B!Init, BP!Init, B!vars, BP!vars, B!Next, BP!Next, B!ParseArgs,
  BP!ParseArgs, B!Put, BP!Put, B!Get, BP!Get, B!At, BP!At, B!Take,
  BP!Take, B!Work, BP!Work, B!Acknowledge, BP!Acknowledge, B!Goes,
  BP!Goes, B!Forked, BP!Forked, B!LogLine, BP!LogLine, B!MessageThread,
  BP!MessageThread, B!Executed, BP!Executed, B!Phase, BP!Phase,
  B!Sync!Init, BP!Sync!Init, B!Sync!Next, BP!Sync!Next, B!Sync!Step,
  BP!Sync!Step, B!Sync!Request, BP!Sync!Request, B!Sync!Execute,
  BP!Sync!Execute, B!Sync!Return, BP!Sync!Return

(* In the run parts, for every value of its constants: the buffer list     *)
(* follows no wild, poisoned or freed pointer (list.h:62-118).             *)
THEOREM PartsSound == Spec => []Sound
BY PartsAssumption, PartsOfEach, ListSound, PTL DEF Sound

(* In the run parts the list is a queue (camera.c:1186-1241).              *)
THEOREM PartsIsAQueue == Spec => IsAQueue
BY PartsAssumption, PartsOfEach, ListIsAQueue, PTL DEF IsAQueue

(* In the run parts the pipe is a mailbox (message_queue.c:58-111).        *)
THEOREM PartsIsMailbox == Spec => IsMailbox
BY PartsAssumption, PartsOfEach, PipeIsMailbox, PTL DEF IsMailbox

(* In the run parts an order to show shows and an order to hide hides      *)
(* (overlay.c:128-152, camera.c:467-544).                                  *)
THEOREM PartsShowsAndHides == Spec => []ShowsAndHides
<1>1. WP!Spec => []WP!ShowsAndHides
  BY PartsAssumption, WP!WindowShowsAndHides DEF ScreenAssumption
<1> QED  BY <1>1, SameScreen, PartsOfEach, PTL DEF ShowsAndHides, W!Spec, WP!Spec

(* In the run parts the message thread with its children is one            *)
(* synchronous message thread (klog.c:25-43, camera.c:1263-1306).          *)
THEOREM PartsSyncCalls == Spec => SyncCalls
<1>1. BP!Init /\ [][BP!Next]_BP!vars => BP!SyncCalls
  BY BP!StepsSyncCalls
<1> QED  BY <1>1, SameLog, PartsOfEach, PTL
         DEF SyncCalls, B!SyncCalls, BP!SyncCalls, B!Sync!Spec, BP!Sync!Spec

(* In the run parts files keep the order of the frames                     *)
(* (camera.c:972-1025, 1150-1196).                                         *)
THEOREM PartsFramesInOrder == Spec => []FramesInOrder
BY PartsAssumption, PartsOfEach, CaptureInOrder, PTL DEF FramesInOrder

(* In the run parts no more files are written than were asked for          *)
(* (camera.c:972-1025).                                                    *)
THEOREM PartsNoMoreThanAsked == Spec => []NoMoreThanAsked
BY PartsAssumption, PartsOfEach, CaptureAsked, PTL DEF NoMoreThanAsked

(* In the run parts the types hold: the pipe and the files stay within     *)
(* their sizes, the search for the default ovps within its table, and no   *)
(* number is used for a file without a frame that came in                  *)
(* (message_queue.c:58-111, overlay.c:128-152, camera.c:972-1025).         *)
THEOREM PartsTypes == Spec => []TypeOK
<1>1. WP!Spec => []WP!TypeOK
  BY PartsAssumption, WP!WindowTypes DEF ScreenAssumption
<1>2. W!TypeOK <=> WP!TypeOK
  BY DEF W!TypeOK, WP!TypeOK, W!ovp_list, WP!ovp_list, W!NUM_OF_OVPS, WP!NUM_OF_OVPS,
    W!Calls, WP!Calls
<1> QED  BY <1>1, <1>2, PartsAssumption, SameScreen, PartsOfEach, PipeTypes, CaptureTypes, PTL
         DEF TypeOK, W!Spec, WP!Spec
=============================================================================
