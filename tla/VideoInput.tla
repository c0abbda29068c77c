----------------------------- MODULE VideoInput ------------------------------
(***************************************************************************)
(* framework/video_input/video_input.c over the V4L2 driver, as operators  *)
(* on the record that module Preview keeps: each function of the code is   *)
(* the set of results [v, ret] it may produce, one per combination of the  *)
(* failures that Faults allows.                                            *)
(*                                                                         *)
(* The driver is external.  It owns the buffers in queue (to be filled, in *)
(* the order they were queued) and in done (filled, in the order they were *)
(* filled); REQBUFS is refused while it streams, and STREAMOFF returns     *)
(* every buffer.                                                           *)
(*                                                                         *)
(*   streaming        between STREAMON and STREAMOFF                       *)
(*   queue, done      the driver's two lines of buffer indices             *)
(*   n_allocated_buf  what REQBUFS last answered                           *)
(*   buffers          dev->buffers: "null", "live" or "freed"              *)
(*   vaddr            per buffer: "uninit" (fresh from malloc), "null",    *)
(*                    "mapped", or "failed" for MAP_FAILED                 *)
(*   list             dev->buf_list                                        *)
(*   leaked           a live array was overwritten by a new one            *)
(*   alive            no access went through memory the process has not    *)
(***************************************************************************)
EXTENDS Integers, Sequences

CONSTANTS
  NUM_VIDBUF,  \* buffers requested of the driver (4 in video_input.h)
  Faults,      \* the calls that may fail
  io_mode      \* what atoi made of --io-mode (0 for a word), default 1

ASSUME BuffersAssumption == NUM_VIDBUF \in Nat \ {0, 1}

V4L2_MEMORY_MMAP == 1

Bufs == 0..(NUM_VIDBUF - 1)

Ok(v) == [v |-> v, ret |-> 0]
Bad(v) == [v |-> v, ret |-> -1]

(* The results of a call that fails and leaves v. *)
Fails(call, v) == IF call \in Faults THEN {Bad(v)} ELSE {}

In(b, line) == \E i \in 1..Len(line) : line[i] = b

-----------------------------------------------------------------------------
(* The first k buffers after mmap of their planes; a mmap that fails is    *)
(* logged and leaves MAP_FAILED in vaddr.                                  *)
Unmappable(k) == IF "mmap" \in Faults THEN SUBSET (0..(k - 1)) ELSE {{}}

Mapping(k, failed) ==
  [b \in Bufs |-> IF b >= k THEN "uninit" ELSE IF b \in failed THEN "failed" ELSE "mapped"]

FirstBufs(k) == [i \in 1..k |-> i - 1]

(* video_input_init_buf_addr for each buffer, up to the first that cannot  *)
(* be queried (its addresses were cleared) or queued (they were mapped).   *)
AllQueued(v, m) == Ok([v EXCEPT !.queue = FirstBufs(NUM_VIDBUF), !.vaddr = Mapping(NUM_VIDBUF, m)])

Unready == (IF "querybuf" \in Faults THEN {"null"} ELSE {})
           \cup (IF "init_qbuf" \in Faults THEN {"mapped"} ELSE {})

StuckAt(v, k, m, a) ==
  Bad([v EXCEPT !.queue = FirstBufs(k), !.vaddr = [Mapping(k, m) EXCEPT ![k] = a]])

StopsAt(v, k) == {StuckAt(v, k, m, a) : m \in Unmappable(k), a \in Unready}

InitBufAddrs(v) ==
  {AllQueued(v, m) : m \in Unmappable(NUM_VIDBUF)} \cup UNION {StopsAt(v, k) : k \in Bufs}

(* video_input_allocate_buffers: REQBUFS, then malloc of dev->buffers. *)
Requested(v) ==
  [v EXCEPT !.n_allocated_buf = NUM_VIDBUF, !.queue = <<>>, !.done = <<>>]

Allocated(v) ==
  [v EXCEPT !.buffers = "live", !.leaked = v.leaked \/ v.buffers = "live",
            !.vaddr = [b \in Bufs |-> "uninit"]]

AllocateBuffers(v) ==
  IF v.streaming THEN {Bad(v)}
  ELSE Fails("reqbufs", v)
       \cup Fails("malloc", [Requested(v) EXCEPT !.buffers = "null",
                                !.leaked = v.leaked \/ v.buffers = "live"])
       \cup {Ok(Allocated(Requested(v)))}

InitBuffers_KeepsList(v) ==
  UNION {IF r.ret = 0 THEN InitBufAddrs(r.v) ELSE {r} : r \in AllocateBuffers(v)}

(* video_input_init_buffers: the only mode of allocation is mmap. *)
InitBuffers(v) ==
  IF io_mode # V4L2_MEMORY_MMAP THEN {Bad(v)}
  ELSE UNION {IF r.ret = 0 THEN InitBufAddrs(r.v) ELSE {r} :
                r \in AllocateBuffers([v EXCEPT !.list = <<>>])}

(* Compose (the result of crop is not looked at), then STREAMON. *)
EnableStream(v) ==
  Fails("selection", v) \cup Fails("streamon", v) \cup {Ok([v EXCEPT !.streaming = TRUE])}

(* video_input_start_preview: the steps in order up to the first failure;  *)
(* what the steps before it did stays.  Format and frame rate are the      *)
(* steps that leave nothing behind; the driver grants as many buffers as   *)
(* it is asked for.                                                        *)
StartPreview(v) ==
  Fails("format", v)
  \cup UNION {IF r.ret = 0 THEN EnableStream(r.v) ELSE {r} : r \in InitBuffers(v)}

-----------------------------------------------------------------------------
StopStream(v) ==
  Fails("streamoff", v)
  \cup {Ok([v EXCEPT !.streaming = FALSE, !.queue = <<>>, !.done = <<>>])}

(* The loop of munmap reads the addresses of n_allocated_buf buffers; then *)
(* REQBUFS(0) and, if it succeeds, free.                                   *)
Unmapped(v) ==
  [v EXCEPT !.vaddr = [b \in Bufs |-> IF b < v.n_allocated_buf THEN "null" ELSE v.vaddr[b]],
            !.alive = v.alive /\ (v.n_allocated_buf = 0
                                  \/ (v.buffers = "live" /\ \A b \in Bufs : v.vaddr[b] # "uninit"))]

Freed_KeepsArray(v) ==
  [v EXCEPT !.n_allocated_buf = 0, !.queue = <<>>, !.done = <<>>]

Freed(v) ==
  [v EXCEPT !.n_allocated_buf = 0, !.queue = <<>>, !.done = <<>>,
            !.buffers = "freed", !.alive = v.alive /\ v.buffers # "freed"]

DeallocateBuffers(v) ==
  IF v.streaming THEN {Bad(Unmapped(v))}
  ELSE Fails("reqbufs", Unmapped(v)) \cup {Ok(Freed(Unmapped(v)))}

UninitBuffers(v) == IF io_mode # V4L2_MEMORY_MMAP THEN {Bad(v)} ELSE DeallocateBuffers(v)

StopPreview_KeepsStream(v) == UninitBuffers(v)

(* video_input_stop_preview: the buffers are released even if the stream   *)
(* could not be stopped.                                                   *)
StopPreview(v) == UNION {UninitBuffers(r.v) : r \in StopStream(v)}

-----------------------------------------------------------------------------
(* VIDIOC_DQBUF: the oldest filled buffer leaves the driver. *)
Dequeued(v) == [v EXCEPT !.done = Tail(v.done)]

(* VIDIOC_QBUF: refused for a buffer the driver already has. *)
QBuf(v, b) ==
  IF In(b, v.queue) \/ In(b, v.done) THEN {Bad(v)}
  ELSE Fails("qbuf", v) \cup {Ok([v EXCEPT !.queue = Append(v.queue, b)])}

(* The driver fills the buffer at the head of its line. *)
Filled(v) == [v EXCEPT !.queue = Tail(v.queue), !.done = Append(v.done, Head(v.queue))]
=============================================================================
