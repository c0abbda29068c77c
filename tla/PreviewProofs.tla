---------------------------- MODULE PreviewProofs ----------------------------
(***************************************************************************)
(* Preview for any number of buffers (two at least), any calls that fail   *)
(* and any options.                                                        *)
(*                                                                         *)
(* The functions of video_input.c are operators, so that the proof goes up *)
(* the calls of the code: what StartPreview and StopPreview leave behind,  *)
(* then what an order does, then what a look at a frame does, and last     *)
(* the steps.  Everything is said of a record s of Devs, the state before, *)
(* and t, a state after.                                                   *)
(***************************************************************************)
EXTENDS Preview, SequenceTheorems, TLAPS

(* What video_input.c never touches. *)
SameCamera(s, t) ==
  /\ t.status = s.status
  /\ t.initialized = s.initialized
  /\ t.idxRecovery = s.idxRecovery
  /\ t.displayed = s.displayed
  /\ t.good_seen = s.good_seen
  /\ t.wanted = s.wanted

(* The buffers as a start that succeeds leaves them. *)
Queued(s) == s.queue = FirstBufs(NUM_VIDBUF) /\ s.done = <<>> /\ s.list = <<>>

AllMapped(s) == \A b \in Bufs : s.vaddr[b] = "mapped"

(* An array that is live is one that the driver streams into: nothing      *)
(* would free it before the next start allocates another.                  *)
Tidy(s) == ~s.leaked /\ (s.buffers = "live" => s.streaming)

NoMmapFault == "mmap" \notin Faults

NoStartFault == Faults \cap {"reqbufs", "querybuf", "init_qbuf", "selection", "streamon"} = {}

-----------------------------------------------------------------------------
LEMMA NoBuffers == <<>> \in Seq(Bufs)
BY EmptySeq

LEMMA FirstBufsType ==
  ASSUME NEW k \in 0..NUM_VIDBUF
  PROVE  /\ FirstBufs(k) \in Seq(Bufs)
         /\ Len(FirstBufs(k)) = k
         /\ \A i \in 1..k : FirstBufs(k)[i] = i - 1
BY BuffersAssumption DEF FirstBufs, Bufs

LEMMA MappingType ==
  ASSUME NEW k \in Nat, NEW m \in Unmappable(k)
  PROVE  /\ Mapping(k, m) \in [Bufs -> {"uninit", "mapped", "failed"}]
         /\ k >= NUM_VIDBUF => \A b \in Bufs : Mapping(k, m)[b] \in {"mapped", "failed"}
         /\ k >= NUM_VIDBUF /\ NoMmapFault => \A b \in Bufs : Mapping(k, m)[b] = "mapped"
BY BuffersAssumption DEF Mapping, Unmappable, Bufs, NoMmapFault

(* video_input_init_buf_addr, over all buffers. *)
Initialised(s, r) ==
  /\ r.v \in Devs /\ r.ret \in {0, -1}
  /\ SameCamera(s, r.v)
  /\ r.v.streaming = s.streaming /\ r.v.n_allocated_buf = s.n_allocated_buf
  /\ r.v.buffers = s.buffers /\ r.v.leaked = s.leaked /\ r.v.alive = s.alive
  /\ r.v.done = s.done /\ r.v.list = s.list
  /\ r.ret = 0 =>
       /\ r.v.queue = FirstBufs(NUM_VIDBUF)
       /\ \A b \in Bufs : r.v.vaddr[b] \in {"mapped", "failed"}
       /\ NoMmapFault => AllMapped(r.v)
  /\ NoStartFault => r.ret = 0

LEMMA InitBufAddrsResults ==
  ASSUME NEW s \in Devs, NEW r \in InitBufAddrs(s)
  PROVE  Initialised(s, r)
<1>1. ASSUME NEW m \in Unmappable(NUM_VIDBUF), r = AllQueued(s, m)
      PROVE  Initialised(s, r)
  <2> DEFINE q == FirstBufs(NUM_VIDBUF)
             a == Mapping(NUM_VIDBUF, m)
             t == [s EXCEPT !.queue = q, !.vaddr = a]
  <2>1. r.v = t /\ r.ret = 0
    BY <1>1 DEF Ok, AllQueued
  <2>2. q \in Seq(Bufs)
    BY FirstBufsType, BuffersAssumption
  <2>3. /\ a \in [Bufs -> {"uninit", "null", "mapped", "failed"}]
        /\ \A b \in Bufs : a[b] \in {"mapped", "failed"}
        /\ NoMmapFault => \A b \in Bufs : a[b] = "mapped"
    BY MappingType, BuffersAssumption
  <2> HIDE DEF q, a
  <2>4. /\ t \in Devs /\ SameCamera(s, t) /\ t.queue = q /\ t.vaddr = a
        /\ t.streaming = s.streaming /\ t.n_allocated_buf = s.n_allocated_buf
        /\ t.buffers = s.buffers /\ t.leaked = s.leaked /\ t.alive = s.alive
        /\ t.done = s.done /\ t.list = s.list
    BY <2>2, <2>3 DEF Devs, SameCamera
  <2> QED  BY <2>1, <2>3, <2>4 DEF q, a, AllMapped, Initialised
<1>2. ASSUME NEW k \in Bufs, r \in StopsAt(s, k)
      PROVE  Initialised(s, r)
  <2>1. PICK m \in Unmappable(k), a \in Unready : r = StuckAt(s, k, m, a)
    BY <1>2, SMT DEF StopsAt
  <2> DEFINE q == FirstBufs(k)
             f == [Mapping(k, m) EXCEPT ![k] = a]
             t == [s EXCEPT !.queue = q, !.vaddr = f]
  <2>2. r.v = t /\ r.ret = -1
    BY <2>1 DEF Bad, StuckAt
  <2>3. k \in 0..NUM_VIDBUF /\ k \in Nat
    BY BuffersAssumption DEF Bufs
  <2>4. q \in Seq(Bufs)
    BY <2>3, FirstBufsType
  <2>5. a \in {"null", "mapped"}
    BY DEF Unready
  <2>6. f \in [Bufs -> {"uninit", "null", "mapped", "failed"}]
    BY <2>3, <2>5, MappingType
  <2>7. ~NoStartFault
    BY Zenon DEF NoStartFault, Unready
  <2> HIDE DEF q, f
  <2>8. /\ t \in Devs /\ SameCamera(s, t)
        /\ t.streaming = s.streaming /\ t.n_allocated_buf = s.n_allocated_buf
        /\ t.buffers = s.buffers /\ t.leaked = s.leaked /\ t.alive = s.alive
        /\ t.done = s.done /\ t.list = s.list
    BY <2>4, <2>6 DEF Devs, SameCamera
  <2> QED  BY <2>2, <2>7, <2>8 DEF Initialised
<1> QED  BY <1>1, <1>2, Zenon DEF InitBufAddrs

(* video_input_allocate_buffers: refused while the driver streams; an      *)
(* array that is live is only overwritten by an allocation that finds one. *)
AllocatedFrom(s, r) ==
  /\ r.v \in Devs /\ r.ret \in {0, -1}
  /\ SameCamera(s, r.v)
  /\ r.v.streaming = s.streaming /\ r.v.alive = s.alive
  /\ Tidy(s) => ~r.v.leaked
  /\ r.ret = 0 => /\ ~s.streaming /\ r.v.n_allocated_buf = NUM_VIDBUF
                  /\ r.v.buffers = "live" /\ r.v.done = <<>> /\ r.v.list = s.list
  /\ r.ret # 0 => r.v.buffers = s.buffers \/ r.v.buffers = "null"

LEMMA AllocateBuffersResults ==
  ASSUME NEW s \in Devs, NEW r \in AllocateBuffers(s)
  PROVE  AllocatedFrom(s, r)
<1> DEFINE null == [Requested(s) EXCEPT !.buffers = "null",
                      !.leaked = s.leaked \/ s.buffers = "live"]
           live == Allocated(Requested(s))
<1>1. \/ r = Bad(s)
      \/ ~s.streaming /\ r = Bad(null)
      \/ ~s.streaming /\ r = Ok(live)
  BY DEF AllocateBuffers, Fails
<1>2. Requested(s) \in Devs
  BY NoBuffers DEF Requested, Devs
<1>3. /\ null \in Devs /\ SameCamera(s, null)
      /\ null.streaming = s.streaming /\ null.alive = s.alive
      /\ null.leaked <=> s.leaked \/ s.buffers = "live"
      /\ null.buffers = "null"
  BY ZenonT(60), <1>2 DEF Requested, Devs, SameCamera
<1>4. /\ live \in Devs /\ SameCamera(s, live)
      /\ live.streaming = s.streaming /\ live.alive = s.alive
      /\ live.leaked <=> s.leaked \/ s.buffers = "live"
      /\ live.buffers = "live" /\ live.n_allocated_buf = NUM_VIDBUF
      /\ live.done = <<>> /\ live.list = s.list
  <2> DEFINE q == Requested(s)
  <2>1. /\ SameCamera(s, q) /\ q.streaming = s.streaming /\ q.alive = s.alive
        /\ q.leaked = s.leaked /\ q.buffers = s.buffers
        /\ q.n_allocated_buf = NUM_VIDBUF /\ q.done = <<>> /\ q.list = s.list
    BY DEF Requested, Devs, SameCamera
  <2>2. q \in Devs
    BY <1>2
  <2> HIDE DEF q
  <2>3. /\ Allocated(q) \in Devs /\ SameCamera(q, Allocated(q))
        /\ Allocated(q).streaming = q.streaming /\ Allocated(q).alive = q.alive
        /\ Allocated(q).leaked <=> q.leaked \/ q.buffers = "live"
        /\ Allocated(q).buffers = "live"
        /\ Allocated(q).n_allocated_buf = q.n_allocated_buf
        /\ Allocated(q).done = q.done /\ Allocated(q).list = q.list
    BY ZenonT(60), <2>2 DEF Allocated, Devs, SameCamera
  <2> QED  BY <2>1, <2>3 DEF q, SameCamera
<1> HIDE DEF null, live
<1>5. CASE r = Bad(s)
  BY <1>5 DEF Bad, AllocatedFrom, SameCamera, Tidy
<1>6. CASE ~s.streaming /\ r = Bad(null)
  BY <1>3, <1>6 DEF Bad, AllocatedFrom, Tidy
<1>7. CASE ~s.streaming /\ r = Ok(live)
  BY <1>4, <1>7 DEF Ok, AllocatedFrom, Tidy
<1> QED  BY <1>1, <1>5, <1>6, <1>7

(* video_input_start_preview.  It succeeds only from a stream that is off, *)
(* and one that fails leaves no stream behind that was not there.          *)
StartedFrom(s, r) ==
  /\ r.v \in Devs /\ r.ret \in {0, -1}
  /\ SameCamera(s, r.v)
  /\ r.v.alive = s.alive
  /\ r.ret = 0 => /\ Runs(r.v) /\ Queued(r.v) /\ io_mode = V4L2_MEMORY_MMAP
                  /\ NoMmapFault => AllMapped(r.v)
  /\ r.ret # 0 => r.v.streaming = s.streaming
  /\ NoStartFault /\ Tidy(s) => Tidy(r.v)

LEMMA StartPreviewResults ==
  ASSUME NEW s \in Devs, NEW r \in StartPreview(s)
  PROVE  StartedFrom(s, r)
<1> DEFINE c == [s EXCEPT !.list = <<>>]
<1>1. CASE r = Bad(s)
  BY <1>1 DEF Bad, StartedFrom, SameCamera
<1>2. c \in Devs /\ SameCamera(s, c) /\ c.streaming = s.streaming /\ c.alive = s.alive
      /\ c.list = <<>> /\ c.leaked = s.leaked /\ c.buffers = s.buffers
  BY NoBuffers DEF Devs, SameCamera
<1>3. ASSUME NEW a \in AllocateBuffers(c), a.ret # 0, r = a
      PROVE  StartedFrom(s, r)
  <2>1. AllocatedFrom(c, a)
    BY <1>2, <1>3, AllocateBuffersResults
  <2> HIDE DEF c
  <2> QED  BY <1>2, <1>3, <2>1 DEF AllocatedFrom, StartedFrom, SameCamera, Tidy
<1>4. ASSUME NEW a \in AllocateBuffers(c), a.ret = 0, NEW q \in InitBufAddrs(a.v),
             r = q, q.ret # 0
      PROVE  StartedFrom(s, r)
  <2>1. AllocatedFrom(c, a)
    BY <1>2, <1>4, AllocateBuffersResults
  <2>2. Initialised(a.v, q)
    BY <2>1, <1>4, InitBufAddrsResults DEF AllocatedFrom
  <2> HIDE DEF c
  <2> QED  BY <1>2, <1>4, <2>1, <2>2 DEF AllocatedFrom, Initialised, StartedFrom, SameCamera
<1>5. ASSUME NEW a \in AllocateBuffers(c), a.ret = 0, NEW q \in InitBufAddrs(a.v), q.ret = 0,
             NEW e \in EnableStream(q.v), r = e, io_mode = V4L2_MEMORY_MMAP
      PROVE  StartedFrom(s, r)
  <2>1. AllocatedFrom(c, a)
    BY <1>2, <1>5, AllocateBuffersResults
  <2>2. Initialised(a.v, q)
    BY <2>1, <1>5, InitBufAddrsResults DEF AllocatedFrom
  <2> DEFINE u == q.v
             t == [u EXCEPT !.streaming = TRUE]
  <2>3. (e = Bad(u) /\ ~NoStartFault) \/ e = Ok(t)
    BY <1>5, Zenon DEF EnableStream, Fails, NoStartFault
  <2>4. u \in Devs
    BY <2>2 DEF Initialised
  <2>5. /\ t \in Devs /\ SameCamera(u, t) /\ t.alive = u.alive /\ t.streaming
        /\ t.n_allocated_buf = u.n_allocated_buf /\ t.buffers = u.buffers
        /\ t.vaddr = u.vaddr /\ t.queue = u.queue /\ t.done = u.done /\ t.list = u.list
        /\ t.leaked = u.leaked
    <3> HIDE DEF u
    <3> QED  BY <2>4 DEF Devs, SameCamera
  <2> HIDE DEF c, t
  <2>6. CASE e = Bad(u) /\ ~NoStartFault
    BY <1>2, <1>5, <2>1, <2>2, <2>6
       DEF Bad, AllocatedFrom, Initialised, StartedFrom, SameCamera
  <2>7. CASE e = Ok(t)
    <3>1. t = r.v /\ r.ret = 0
      BY <1>5, <2>7 DEF Ok
    <3>2. Runs(t) /\ Queued(t) /\ (NoMmapFault => AllMapped(t))
      BY <2>1, <2>2, <2>5, <1>2, <1>5 DEF AllocatedFrom, Initialised, Runs, Queued, AllMapped
    <3>3. SameCamera(s, t) /\ t.alive = s.alive
      BY <1>2, <2>1, <2>2, <2>5 DEF AllocatedFrom, Initialised, SameCamera
    <3>4. Tidy(s) => Tidy(t)
      BY <1>2, <2>1, <2>2, <2>5 DEF AllocatedFrom, Initialised, Tidy
    <3> QED  BY <1>5, <2>5, <3>1, <3>2, <3>3, <3>4 DEF StartedFrom
  <2> QED  BY <2>3, <2>6, <2>7
<1>6. \/ r = Bad(s)
      \/ \E i \in InitBuffers(s) : i.ret # 0 /\ r = i
      \/ \E i \in InitBuffers(s) : i.ret = 0 /\ r \in EnableStream(i.v)
  BY DEF StartPreview, Fails
<1>7. ASSUME NEW i \in InitBuffers(s)
      PROVE  \/ i = Bad(s)
             \/ \E a \in AllocateBuffers(c) : a.ret # 0 /\ i = a
             \/ /\ io_mode = V4L2_MEMORY_MMAP
                /\ \E a \in AllocateBuffers(c) : a.ret = 0 /\ i \in InitBufAddrs(a.v)
  BY DEF InitBuffers
<1>8. Bad(s).ret # 0
  BY DEF Bad
<1> HIDE DEF c
<1> QED  BY <1>1, <1>3, <1>4, <1>5, <1>6, <1>7, <1>8

-----------------------------------------------------------------------------
LEMMA UnmappedResult ==
  ASSUME NEW s \in Devs
  PROVE  LET t == Unmapped(s)
         IN  /\ t \in Devs /\ SameCamera(s, t)
             /\ Runs(s) => (t.alive <=> s.alive)
             /\ t.streaming = s.streaming /\ t.buffers = s.buffers /\ t.leaked = s.leaked
<1> DEFINE f == [b \in Bufs |-> IF b < s.n_allocated_buf THEN "null" ELSE s.vaddr[b]]
           safe == s.n_allocated_buf = 0
                   \/ (s.buffers = "live" /\ \A b \in Bufs : s.vaddr[b] # "uninit")
           t == [s EXCEPT !.vaddr = f, !.alive = s.alive /\ safe]
<1>1. f \in [Bufs -> {"uninit", "null", "mapped", "failed"}]
  BY DEF Devs
<1>2. Runs(s) => safe
  BY DEF Runs
<1>3. Unmapped(s) = t
  BY DEF Unmapped
<1> HIDE DEF f, safe
<1>4. /\ t \in Devs /\ SameCamera(s, t) /\ (t.alive <=> s.alive /\ safe)
      /\ t.streaming = s.streaming /\ t.buffers = s.buffers /\ t.leaked = s.leaked
  BY <1>1 DEF Devs, SameCamera
<1> QED  BY <1>2, <1>3, <1>4

LEMMA FreedResult ==
  ASSUME NEW s \in Devs
  PROVE  LET t == Freed(s)
         IN  /\ t \in Devs /\ SameCamera(s, t)
             /\ s.buffers = "live" => (t.alive <=> s.alive)
             /\ t.streaming = s.streaming /\ t.buffers = "freed" /\ t.leaked = s.leaked
<1> DEFINE x == s.alive /\ s.buffers # "freed"
           t == [s EXCEPT !.n_allocated_buf = 0, !.queue = <<>>, !.done = <<>>,
                          !.buffers = "freed", !.alive = x]
<1>1. Freed(s) = t
  BY DEF Freed
<1>2. s.buffers = "live" => (x <=> s.alive)
  OBVIOUS
<1>3. x \in BOOLEAN
  OBVIOUS
<1> HIDE DEF x
<1>4. /\ t \in Devs /\ SameCamera(s, t) /\ t.alive = x
      /\ t.streaming = s.streaming /\ t.buffers = "freed" /\ t.leaked = s.leaked
  BY <1>3, NoBuffers DEF Devs, SameCamera
<1> QED  BY <1>1, <1>2, <1>4

(* video_input_stop_preview, of a preview that runs.                       *)
StoppedFrom(s, t) ==
  /\ t \in Devs
  /\ SameCamera(s, t)
  /\ t.alive <=> s.alive
  /\ "streamoff" \notin Faults => ~t.streaming
  /\ NoStartFault /\ Tidy(s) => Tidy(t)

LEMMA StopPreviewResults ==
  ASSUME NEW s \in Devs, Runs(s), io_mode = V4L2_MEMORY_MMAP, NEW r \in StopPreview(s)
  PROVE  StoppedFrom(s, r.v)
<1> DEFINE off == [s EXCEPT !.streaming = FALSE, !.queue = <<>>, !.done = <<>>]
<1>1. \/ "streamoff" \in Faults /\ r \in UninitBuffers(s)
      \/ r \in UninitBuffers(off)
  BY DEF StopPreview, StopStream, Fails, Ok, Bad
<1>2. off \in Devs /\ SameCamera(s, off) /\ ~off.streaming /\ off.alive = s.alive
      /\ off.buffers = s.buffers /\ off.leaked = s.leaked
      /\ off.n_allocated_buf = s.n_allocated_buf /\ off.vaddr = s.vaddr
  BY NoBuffers DEF Devs, SameCamera
<1> HIDE DEF off
<1>3. CASE "streamoff" \in Faults /\ r \in UninitBuffers(s)
  <2>1. r.v = Unmapped(s)
    BY <1>3 DEF UninitBuffers, DeallocateBuffers, Bad, Runs
  <2> QED  BY <1>3, <2>1, UnmappedResult DEF StoppedFrom, Runs, Tidy
<1>4. CASE r \in UninitBuffers(off)
  <2> DEFINE u == Unmapped(off)
  <2>1. u \in Devs /\ SameCamera(off, u) /\ ~u.streaming /\ u.buffers = off.buffers /\ u.leaked = off.leaked
    BY <1>2, UnmappedResult
  <2>2. u.alive <=> off.alive
    <3> DEFINE safe == off.n_allocated_buf = 0
                       \/ (off.buffers = "live" /\ \A b \in Bufs : off.vaddr[b] # "uninit")
    <3>1. safe
      BY <1>2 DEF Runs
    <3> HIDE DEF safe
    <3>2. u.alive <=> off.alive /\ safe
      BY <1>2 DEF Unmapped, Devs, safe
    <3> QED  BY <3>1, <3>2
  <2>3. \/ "reqbufs" \in Faults /\ r = Bad(u)
        \/ r = Ok(Freed(u))
    BY <1>2, <1>4 DEF UninitBuffers, DeallocateBuffers, Fails, Unmapped
  <2> HIDE DEF u
  <2>4. CASE "reqbufs" \in Faults /\ r = Bad(u)
    <3>1. ~NoStartFault
      BY <2>4, Zenon DEF NoStartFault
    <3> QED  BY <1>2, <2>1, <2>2, <2>4, <3>1 DEF Bad, StoppedFrom, SameCamera
  <2>5. CASE r = Ok(Freed(u))
    <3>1. u.buffers = "live"
      BY <1>2, <2>1 DEF Runs
    <3>2. LET t == Freed(u)
          IN  /\ t \in Devs /\ SameCamera(u, t) /\ (t.alive <=> u.alive)
              /\ t.streaming = u.streaming /\ t.buffers = "freed" /\ t.leaked = u.leaked
      BY <2>1, <3>1, FreedResult
    <3> QED  BY <1>2, <2>1, <2>2, <2>5, <3>2 DEF Ok, StoppedFrom, SameCamera, Tidy
  <2> QED  BY <2>3, <2>4, <2>5
<1> QED  BY <1>1, <1>3, <1>4

-----------------------------------------------------------------------------
(* What the code relies on while the status says STARTED: StartedRuns,     *)
(* Ownership and HeldBack, and that no start succeeds in another io_mode.  *)
Consistent(s) ==
  s.status = "STARTED" =>
    /\ Runs(s)
    /\ Owned(s)
    /\ Len(s.list) <= 1
    /\ io_mode = V4L2_MEMORY_MMAP

NoHandoverFault == "s_handover" \notin Faults

NoHideFault == ignore_ovp = 0 /\ "disable" \notin Faults

LEMMA QueuedIsOwned ==
  ASSUME NEW s \in Devs, Queued(s)
  PROVE  Owned(s) /\ Len(s.list) <= 1
<1>1. /\ Len(s.queue) = NUM_VIDBUF /\ \A i \in 1..NUM_VIDBUF : s.queue[i] = i - 1
      /\ Len(s.done) = 0 /\ Len(s.list) = 0
  BY FirstBufsType, BuffersAssumption, EmptySeq DEF Queued
<1> QED  BY <1>1, BuffersAssumption DEF Owned, Distinct, Apart

(* An attempt to start the preview, by an order, a recovery or the         *)
(* handover, from a status that is not STARTED.                            *)
Begun(s, t) ==
  /\ t \in Devs
  /\ t.alive = s.alive
  /\ t.initialized = 0
  /\ t.idxRecovery = s.idxRecovery
  /\ t.displayed \in {s.displayed, LastFrame, NullFrame}
  /\ t.status \in {s.status, "STARTED"}
  /\ Consistent(t)
  /\ t.status = "STARTED" => (NoMmapFault => AllMapped(t))
  /\ t.status # "STARTED" => (NoHandoverFault => t.streaming = s.streaming)
  /\ NoStartFault /\ Tidy(s) => Tidy(t)

(* start_stream and what follows it, from u, which differs from s in       *)
(* nothing that matters here.                                              *)
Prepared(s, u) ==
  /\ u \in Devs
  /\ u.status = s.status /\ u.status # "STARTED"
  /\ u.initialized = 0 /\ u.idxRecovery = s.idxRecovery
  /\ u.displayed \in {s.displayed, LastFrame, NullFrame}
  /\ u.streaming = s.streaming /\ u.alive = s.alive
  /\ u.buffers = s.buffers /\ u.leaked = s.leaked

LEMMA StartStreamResults ==
  ASSUME NEW s \in Devs, NEW u, Prepared(s, u), NEW r \in StartStream(u)
  PROVE  /\ Prepared(s, [u EXCEPT !.good_seen = FALSE])
         /\ StartedFrom([u EXCEPT !.good_seen = FALSE], r)
<1> DEFINE v == [u EXCEPT !.good_seen = FALSE]
<1>1. v \in Devs /\ Prepared(s, v)
  BY ZenonT(60) DEF Prepared, Devs
<1>2. r \in StartPreview(v)
  BY DEF StartStream
<1> HIDE DEF v
<1>3. StartedFrom(v, r)
  BY <1>1, <1>2, StartPreviewResults
<1> QED  BY <1>1, <1>3 DEF v

LEMMA NotStarted ==
  ASSUME NEW s \in Devs, NEW u, Prepared(s, u)
  PROVE  Begun(s, u)
BY DEF Prepared, Begun, Consistent, Tidy

LEMMA StreamBegins ==
  ASSUME NEW s \in Devs, NEW u, Prepared(s, u), NEW r, StartedFrom(u, r)
  PROVE  /\ r.ret # 0 => Begun(s, r.v)
         /\ r.ret = 0 => Begun(s, Shown(r.v))
<1>1. CASE r.ret # 0
  BY <1>1 DEF Prepared, StartedFrom, SameCamera, Begun, Consistent, Tidy
<1>2. CASE r.ret = 0
  <2> DEFINE v == r.v
             t == Shown(v)
  <2>1. v \in Devs
    BY DEF StartedFrom
  <2>2. /\ t \in Devs /\ t.status = "STARTED"
        /\ t.initialized = v.initialized /\ t.idxRecovery = v.idxRecovery
        /\ t.displayed = v.displayed /\ t.alive = v.alive
        /\ t.streaming = v.streaming /\ t.buffers = v.buffers /\ t.leaked = v.leaked
        /\ t.n_allocated_buf = v.n_allocated_buf /\ t.vaddr = v.vaddr
        /\ t.queue = v.queue /\ t.done = v.done /\ t.list = v.list
    <3> HIDE DEF v
    <3> QED  BY <2>1 DEF Shown, Devs
  <2> HIDE DEF t
  <2>3. Runs(t) /\ Queued(t) /\ io_mode = V4L2_MEMORY_MMAP /\ (NoMmapFault => AllMapped(t))
    BY <1>2, <2>2 DEF StartedFrom, Runs, Queued, AllMapped
  <2>4. Consistent(t)
    BY <2>2, <2>3, QueuedIsOwned DEF Consistent
  <2>5. NoStartFault /\ Tidy(s) => Tidy(t)
    BY <2>2 DEF StartedFrom, Tidy, Prepared
  <2>6. /\ v.initialized = u.initialized /\ v.idxRecovery = u.idxRecovery
        /\ v.displayed = u.displayed /\ v.alive = u.alive
    BY DEF StartedFrom, SameCamera
  <2> HIDE DEF v
  <2>7. /\ t.initialized = 0 /\ t.idxRecovery = s.idxRecovery /\ t.alive = s.alive
        /\ t.displayed \in {s.displayed, LastFrame, NullFrame}
    BY <2>2, <2>6 DEF Prepared
  <2>8. Begun(s, t)
    BY <2>2, <2>3, <2>4, <2>5, <2>7 DEF Begun
  <2> QED  BY <1>2, <2>8 DEF t, v
<1> QED  BY <1>1, <1>2

LEMMA DoStartPreviewResults ==
  ASSUME NEW s \in Devs, s.status # "STARTED", NEW t \in DoStartPreview(s)
  PROVE  Begun(s, t) /\ t.displayed = s.displayed
<1> DEFINE u == [s EXCEPT !.initialized = 0]
           v == [u EXCEPT !.good_seen = FALSE]
<1>1. Prepared(s, u) /\ u.displayed = s.displayed
  BY DEF Prepared, Devs
<1>2. PICK l \in SetLut(u) : \E r \in (IF l.ret = 0 THEN StartStream(l.v) ELSE {l}) :
             t = IF r.ret = 0 THEN Shown(r.v) ELSE r.v
  BY SMT DEF DoStartPreview
<1>3. PICK r \in (IF l.ret = 0 THEN StartStream(l.v) ELSE {l}) :
             t = IF r.ret = 0 THEN Shown(r.v) ELSE r.v
  BY <1>2
<1> HIDE DEF u
<1>4. l = Bad(u) \/ l = Ok(u)
  BY DEF SetLut, Fails
<1>5. CASE l = Bad(u)
  BY <1>1, <1>3, <1>5, NotStarted DEF Bad
<1>6. CASE l = Ok(u)
  <2>1. r \in StartStream(u)
    BY <1>3, <1>6 DEF Ok
  <2>2. Prepared(s, v) /\ StartedFrom(v, r)
    BY <1>1, <2>1, StartStreamResults
  <2>3. Begun(s, t)
    BY <1>3, <2>2, StreamBegins
  <2>4. v.displayed = s.displayed /\ v \in Devs
    BY <1>1, <2>2 DEF Prepared, Devs
  <2>5. r.v.displayed = s.displayed /\ r.v \in Devs
    <3> HIDE DEF v
    <3> QED  BY <2>2, <2>4 DEF StartedFrom, SameCamera
  <2>6. Shown(r.v).displayed = r.v.displayed
    BY <2>5 DEF Shown, Devs
  <2> QED  BY <1>3, <2>3, <2>5, <2>6
<1> QED  BY <1>4, <1>5, <1>6

LEMMA SkipAllResults ==
  ASSUME NEW u \in Devs, NEW q, StartedFrom(u, q), q.ret = 0, NEW flag \in BOOLEAN
  PROVE  StartedFrom(u, Ok([q.v EXCEPT !.skip_all = flag]))
<1> DEFINE v == q.v
           t == [v EXCEPT !.skip_all = flag]
<1>1. v \in Devs
  BY DEF StartedFrom
<1>2. /\ t \in Devs /\ SameCamera(v, t) /\ t.alive = v.alive /\ t.streaming = v.streaming
      /\ t.buffers = v.buffers /\ t.leaked = v.leaked /\ t.vaddr = v.vaddr
      /\ t.n_allocated_buf = v.n_allocated_buf
      /\ t.queue = v.queue /\ t.done = v.done /\ t.list = v.list
  <2> HIDE DEF v
  <2> QED  BY ZenonT(60), <1>1 DEF Devs, SameCamera
<1> HIDE DEF t
<1>3. SameCamera(u, t) /\ t.alive = u.alive
  BY <1>2 DEF StartedFrom, SameCamera
<1>4. Runs(t) /\ Queued(t) /\ io_mode = V4L2_MEMORY_MMAP /\ (NoMmapFault => AllMapped(t))
  BY <1>2 DEF StartedFrom, Runs, Queued, AllMapped
<1>5. NoStartFault /\ Tidy(u) => Tidy(t)
  BY <1>2 DEF StartedFrom, Tidy
<1>6. StartedFrom(u, Ok(t))
  BY <1>2, <1>3, <1>4, <1>5 DEF StartedFrom, Ok
<1> QED  BY <1>6 DEF t, v

(* The results of the steps of the handover, up to the stream. *)
LEMMA HandoverStepsResults ==
  ASSUME NEW s \in Devs, NEW u, Prepared(s, u), NEW r \in HandoverSteps(u)
  PROVE  Begun(s, IF r.ret = 0 THEN Shown(r.v) ELSE r.v)
<1> DEFINE H1 == SetLastFrame(u)
           H2 == Then(H1, LAMBDA t : SetHandover(t, TRUE))
           H3 == Then(H2, SetLut)
           H4 == Then(H3, StartStream)
<1>1. ASSUME NEW q \in H1  PROVE  Prepared(s, q.v)
  <2>1. q = Bad(u) \/ \E f \in {LastFrame, NullFrame} : q = Ok([u EXCEPT !.displayed = f])
    BY DEF SetLastFrame, Fails
  <2>2. ASSUME NEW f \in {LastFrame, NullFrame}  PROVE  Prepared(s, [u EXCEPT !.displayed = f])
    BY ZenonT(60) DEF Prepared, Devs
  <2> QED  BY <2>1, <2>2 DEF Ok, Bad
<1>2. ASSUME NEW q \in H2  PROVE  Prepared(s, q.v)
  <2>0. q \in UNION {IF h.ret = 0 THEN SetHandover(h.v, TRUE) ELSE {h} : h \in H1}
    BY DEF Then
  <2> HIDE DEF H1
  <2>1. PICK p \in H1 : q \in IF p.ret = 0 THEN SetHandover(p.v, TRUE) ELSE {p}
    BY <2>0, Zenon
  <2> DEFINE v == p.v
             t == [v EXCEPT !.skip_all = TRUE]
  <2>2. Prepared(s, v)
    BY <1>1
  <2>3. q = p \/ q = Bad(v) \/ q = Ok(t)
    BY <2>1 DEF SetHandover, Fails
  <2> HIDE DEF v
  <2>4. Prepared(s, t)
    BY <2>2 DEF Prepared, Devs
  <2> HIDE DEF t
  <2>5. q.v = p.v \/ q.v = t
    BY <2>3 DEF Ok, Bad, v
  <2> QED  BY <2>2, <2>4, <2>5 DEF v
<1>3. ASSUME NEW q \in H3  PROVE  Prepared(s, q.v)
  <2>0. q \in UNION {IF h.ret = 0 THEN SetLut(h.v) ELSE {h} : h \in H2}
    BY DEF Then
  <2>1. PICK p \in H2 : q \in IF p.ret = 0 THEN SetLut(p.v) ELSE {p}
    BY <2>0, Zenon
  <2>2. Prepared(s, p.v)
    BY <1>2
  <2>3. q = p \/ q = Bad(p.v) \/ q = Ok(p.v)
    BY <2>1 DEF SetLut, Fails
  <2> HIDE DEF H2
  <2> QED  BY <2>2, <2>3 DEF Ok, Bad
<1>4. ASSUME NEW q \in H4
      PROVE  \/ q.ret # 0 /\ Prepared(s, q.v)
             \/ \E v \in Devs : Prepared(s, v) /\ StartedFrom(v, q)
  <2>0. q \in UNION {IF h.ret = 0 THEN StartStream(h.v) ELSE {h} : h \in H3}
    BY DEF Then
  <2>1. PICK p \in H3 : q \in IF p.ret = 0 THEN StartStream(p.v) ELSE {p}
    BY <2>0, Zenon
  <2>2. Prepared(s, p.v)
    BY <1>3
  <2> HIDE DEF H3
  <2>3. CASE q \in StartStream(p.v)
    <3> DEFINE v == [p.v EXCEPT !.good_seen = FALSE]
    <3>1. Prepared(s, v) /\ StartedFrom(v, q)
      BY <2>2, <2>3, StartStreamResults
    <3>2. v \in Devs
      BY <3>1 DEF Prepared
    <3> QED  BY <3>1, <3>2
  <2> QED  BY <2>1, <2>2, <2>3
<1>5. r \in UNION {IF h.ret = 0 THEN SetHandover(h.v, FALSE) ELSE {h} : h \in H4}
  BY DEF HandoverSteps, Then
<1>6. PICK q \in H4 : r \in IF q.ret = 0 THEN SetHandover(q.v, FALSE) ELSE {q}
  BY <1>5, Zenon
<1> HIDE DEF H4
<1>7. CASE q.ret # 0 /\ r = q
  BY <1>4, <1>7, NotStarted, StreamBegins
<1>8. CASE q.ret = 0 /\ r \in SetHandover(q.v, FALSE)
  <2> DEFINE y == [q.v EXCEPT !.skip_all = FALSE]
  <2>1. PICK v \in Devs : Prepared(s, v) /\ StartedFrom(v, q)
    BY <1>4, <1>8
  <2>2. ("s_handover" \in Faults /\ r = Bad(q.v)) \/ r = Ok(y)
    BY <1>8 DEF SetHandover, Fails
  <2>3. CASE "s_handover" \in Faults /\ r = Bad(q.v)
    <3>1. r.ret # 0 /\ r.v = q.v
      BY <2>3 DEF Bad
    <3>2. Begun(s, q.v)
      BY <2>1, <2>3, <1>8
         DEF StartedFrom, SameCamera, Prepared, Begun, Consistent, Tidy, NoHandoverFault
    <3> QED  BY <3>1, <3>2
  <2>4. CASE r = Ok(y)
    <3>1. StartedFrom(v, Ok(y))
      BY <1>8, <2>1, SkipAllResults
    <3> QED  BY <2>1, <2>4, <3>1, StreamBegins
  <2> QED  BY <2>2, <2>3, <2>4
<1> QED  BY <1>6, <1>7, <1>8

LEMMA DoHandoverResults ==
  ASSUME NEW s \in Devs, s.status # "STARTED", NEW t \in DoHandover(s)
  PROVE  Begun(s, t)
<1> DEFINE u == [s EXCEPT !.initialized = 0]
<1>1. Prepared(s, u)
  BY DEF Prepared, Devs
<1>2. t = u \/ \E r \in HandoverSteps(u) : t = IF r.ret = 0 THEN Shown(r.v) ELSE r.v
  BY SMT DEF DoHandover
<1> HIDE DEF u
<1> QED  BY <1>1, <1>2, NotStarted, HandoverStepsResults

-----------------------------------------------------------------------------
(* do_stop_preview, of a preview in any status. *)
Ended(s, t) ==
  /\ t \in Devs
  /\ t.status = "STOPPED"
  /\ t.alive = s.alive
  /\ t.idxRecovery = s.idxRecovery
  /\ t.displayed \in {s.displayed, NoFrame}
  /\ s.status = "STARTED" /\ NoHideFault => t.displayed = NoFrame
  /\ s.status = "STARTED" /\ "streamoff" \notin Faults => ~t.streaming
  /\ s.status # "STARTED" => t.streaming = s.streaming /\ t.displayed = s.displayed
  /\ NoStartFault /\ Tidy(s) => Tidy(t)

LEMMA DoStopPreviewResults ==
  ASSUME NEW s \in Devs, Consistent(s), NEW t \in DoStopPreview(s)
  PROVE  Ended(s, t)
<1>1. CASE s.status # "STARTED"
  <2>1. t = [s EXCEPT !.status = "STOPPED"]
    BY <1>1 DEF DoStopPreview
  <2> QED  BY <1>1, <2>1 DEF Ended, Devs, Tidy
<1>2. CASE s.status = "STARTED"
  <2>1. PICK h \in HideVideoOutput(s) : \E r \in StopPreview(h) : t = [r.v EXCEPT !.status = "STOPPED"]
    BY <1>2, SMT DEF DoStopPreview
  <2>2. PICK r \in StopPreview(h) : t = [r.v EXCEPT !.status = "STOPPED"]
    BY <2>1
  <2>3. \/ h = s /\ ~NoHideFault
        \/ h = [s EXCEPT !.displayed = NoFrame]
    BY OptionsAssumption, SMT DEF HideVideoOutput, NoHideFault
  <2>4. /\ h \in Devs /\ h.status = s.status /\ h.alive = s.alive /\ h.idxRecovery = s.idxRecovery
        /\ h.displayed \in {s.displayed, NoFrame} /\ (NoHideFault => h.displayed = NoFrame)
        /\ h.streaming = s.streaming /\ h.n_allocated_buf = s.n_allocated_buf
        /\ h.buffers = s.buffers /\ h.vaddr = s.vaddr /\ h.leaked = s.leaked
    BY SMTT(30), <2>3 DEF Devs
  <2>5. Runs(h) /\ io_mode = V4L2_MEMORY_MMAP
    BY <1>2, <2>4 DEF Consistent, Runs
  <2> DEFINE v == r.v
  <2>6. StoppedFrom(h, v)
    BY <2>4, <2>5, StopPreviewResults
  <2>7. t = [v EXCEPT !.status = "STOPPED"]
    BY <2>2
  <2> HIDE DEF v
  <2>8. v \in Devs
    BY <2>6 DEF StoppedFrom
  <2>9. /\ t \in Devs /\ t.status = "STOPPED" /\ t.alive = v.alive
        /\ t.idxRecovery = v.idxRecovery /\ t.displayed = v.displayed
        /\ t.streaming = v.streaming /\ t.buffers = v.buffers /\ t.leaked = v.leaked
    BY <2>7, <2>8 DEF Devs
  <2>10. t.alive = s.alive
    BY <2>4, <2>6, <2>8, <2>9 DEF StoppedFrom, Devs
  <2> QED  BY <1>2, <2>4, <2>6, <2>9, <2>10 DEF StoppedFrom, SameCamera, Ended, Tidy
<1> QED  BY <1>1, <1>2

-----------------------------------------------------------------------------
(* The head of one line goes to the end of another; third is a line that   *)
(* neither touches.                                                        *)
LEMMA MoveHead ==
  ASSUME NEW X, NEW line \in Seq(X), NEW other \in Seq(X), NEW third \in Seq(X),
         line # <<>>,
         Distinct(line), Distinct(other), Distinct(third),
         Apart(line, other), Apart(line, third), Apart(other, third)
  PROVE  LET l == Tail(line)
             o == Append(other, Head(line))
         IN  /\ l \in Seq(X) /\ o \in Seq(X) /\ Head(line) \in X
             /\ Len(l) = Len(line) - 1 /\ Len(o) = Len(other) + 1
             /\ Distinct(l) /\ Distinct(o)
             /\ Apart(l, o) /\ Apart(l, third) /\ Apart(o, third)
             /\ ~In(Head(line), l) /\ ~In(Head(line), other) /\ ~In(Head(line), third)
<1> DEFINE b == Head(line)
           l == Tail(line)
           o == Append(other, b)
<1>1. /\ b = line[1] /\ b \in X
      /\ Len(line) \in Nat /\ Len(line) >= 1
      /\ l \in Seq(X) /\ Len(l) = Len(line) - 1
      /\ \A i \in 1..Len(l) : l[i] = line[i + 1]
  OBVIOUS
<1>2. /\ o \in Seq(X) /\ Len(o) = Len(other) + 1 /\ Len(other) \in Nat
      /\ o[Len(o)] = b
      /\ \A i \in 1..Len(other) : o[i] = other[i]
  BY <1>1
<1>3. Len(third) \in Nat
  OBVIOUS
<1> HIDE DEF b, l, o
<1>4. ~In(b, l) /\ ~In(b, other) /\ ~In(b, third)
  BY <1>1, <1>2, <1>3 DEF In, Distinct, Apart
<1>5. Distinct(l)
  BY SMTT(30), <1>1 DEF Distinct
<1>6. Distinct(o)
  <2>1. \A i \in 1..Len(o) : i = Len(o) \/ (i \in 1..Len(other) /\ i # Len(o))
    BY <1>2
  <2>2. \A i \in 1..Len(other) : o[i] # b
    BY <1>2, <1>4 DEF In
  <2>3. \A i, j \in 1..Len(other) : i # j => o[i] # o[j]
    BY <1>2 DEF Distinct
  <2> QED  BY <1>2, <2>1, <2>2, <2>3 DEF Distinct
<1>7. Apart(l, third)
  BY <1>1, <1>3 DEF Apart
<1>8. Apart(o, third)
  BY <1>1, <1>2, <1>3, <1>4 DEF Apart, In
<1>9. Apart(l, o)
  <2>1. \A i \in 1..Len(l), j \in 1..Len(other) : l[i] # o[j]
    BY <1>1, <1>2 DEF Apart
  <2>2. \A i \in 1..Len(l) : l[i] # b
    BY <1>4 DEF In
  <2> QED  BY <1>1, <1>2, <2>1, <2>2 DEF Apart
<1> QED  BY <1>1, <1>2, <1>4, <1>5, <1>6, <1>7, <1>8, <1>9 DEF b, l, o

LEMMA ApartSymmetric ==
  ASSUME NEW line, NEW other, Apart(line, other)
  PROVE  Apart(other, line)
BY DEF Apart

-----------------------------------------------------------------------------
(* The inductive invariant, of the record; what a conjunct relies on that  *)
(* may fail is its hypothesis.                                             *)
Safe(s) == s.alive /\ (s.status = "STARTED" => AllMapped(s))

(* The display shows a buffer only of the preview that runs, and only once *)
(* initialized is set, which only a good frame does.                       *)
Truthful(s) ==
  /\ s.displayed \in Bufs => s.status = "STARTED" /\ s.initialized = 1
  /\ s.status = "STARTED" /\ s.initialized = 1 => s.good_seen

LastShown(s) == \A i \in 1..Len(s.queue) : s.queue[i] = s.displayed => i = Len(s.queue)

NoShowFault == "show" \notin Faults

NoStreamoffFault == "streamoff" \notin Faults

Sound(s) ==
  /\ s \in Devs
  /\ Consistent(s)
  /\ NoMmapFault => Safe(s)
  /\ NoHideFault => Truthful(s)
  /\ NoHideFault /\ NoShowFault => LastShown(s)
  /\ NoStreamoffFault /\ NoHandoverFault => (s.streaming => s.status = "STARTED")
  /\ NoStartFault => Tidy(s)

(* The fields that Sound does not look at. *)
LEMMA SameSound ==
  ASSUME NEW s, Sound(s)
  PROVE  /\ \A i \in 0..nMaxRecovery : Sound([s EXCEPT !.idxRecovery = i])
         /\ \A w \in BOOLEAN : Sound([s EXCEPT !.wanted = w])
<1> s \in Devs
  BY DEF Sound
<1>1. ASSUME NEW t \in Devs,
             t.streaming = s.streaming, t.queue = s.queue, t.done = s.done,
             t.n_allocated_buf = s.n_allocated_buf, t.buffers = s.buffers,
             t.vaddr = s.vaddr, t.list = s.list, t.leaked = s.leaked, t.alive = s.alive,
             t.status = s.status, t.initialized = s.initialized,
             t.displayed = s.displayed, t.good_seen = s.good_seen
      PROVE  Sound(t)
  <2>1. Consistent(t)
    BY <1>1 DEF Sound, Consistent, Runs, Owned
  <2>2. (NoMmapFault => Safe(t)) /\ (NoHideFault => Truthful(t))
    BY <1>1 DEF Sound, Safe, Truthful, AllMapped
  <2>3. (NoHideFault /\ NoShowFault => LastShown(t)) /\ (NoStartFault => Tidy(t))
    BY <1>1 DEF Sound, LastShown, Tidy
  <2> QED  BY <1>1, <2>1, <2>2, <2>3 DEF Sound
<1>2. ASSUME NEW i \in 0..nMaxRecovery  PROVE  Sound([s EXCEPT !.idxRecovery = i])
  <2> DEFINE t == [s EXCEPT !.idxRecovery = i]
  <2>1. /\ t \in Devs
        /\ t.streaming = s.streaming /\ t.queue = s.queue /\ t.done = s.done
        /\ t.n_allocated_buf = s.n_allocated_buf /\ t.buffers = s.buffers
        /\ t.vaddr = s.vaddr /\ t.list = s.list /\ t.leaked = s.leaked /\ t.alive = s.alive
        /\ t.status = s.status /\ t.initialized = s.initialized
        /\ t.displayed = s.displayed /\ t.good_seen = s.good_seen
    BY DEF Devs
  <2> HIDE DEF t
  <2>2. Sound(t)
    BY <1>1, <2>1
  <2> QED  BY <2>2 DEF t
<1>3. ASSUME NEW w \in BOOLEAN  PROVE  Sound([s EXCEPT !.wanted = w])
  <2> DEFINE t == [s EXCEPT !.wanted = w]
  <2>1. /\ t \in Devs
        /\ t.streaming = s.streaming /\ t.queue = s.queue /\ t.done = s.done
        /\ t.n_allocated_buf = s.n_allocated_buf /\ t.buffers = s.buffers
        /\ t.vaddr = s.vaddr /\ t.list = s.list /\ t.leaked = s.leaked /\ t.alive = s.alive
        /\ t.status = s.status /\ t.initialized = s.initialized
        /\ t.displayed = s.displayed /\ t.good_seen = s.good_seen
    BY DEF Devs
  <2> HIDE DEF t
  <2>2. Sound(t)
    BY <1>1, <2>1
  <2> QED  BY <2>2 DEF t
<1> QED  BY <1>2, <1>3

(* A line of buffers shows no other frame. *)
LEMMA NotABuffer ==
  ASSUME NEW s \in Devs, s.displayed \notin Bufs
  PROVE  LastShown(s)
<1>1. \A i \in 1..Len(s.queue) : s.queue[i] \in Bufs
  BY DEF Devs
<1> QED  BY <1>1 DEF LastShown

LEMMA BegunSound ==
  ASSUME NEW s, Sound(s), s.status # "STARTED", NEW t, Begun(s, t)
  PROVE  Sound(t)
<1> s \in Devs /\ t \in Devs
  BY DEF Sound, Begun
<1>1. LastFrame \notin Bufs /\ NullFrame \notin Bufs
  BY BuffersAssumption DEF LastFrame, NullFrame, Bufs
<1>2. NoHideFault => t.displayed \notin Bufs
  BY <1>1 DEF Sound, Truthful, Begun
<1>3. NoHideFault => Truthful(t)
  BY <1>2 DEF Truthful, Begun
<1>4. NoHideFault => LastShown(t)
  BY <1>2, NotABuffer
<1>5. NoMmapFault => Safe(t)
  BY DEF Sound, Safe, Begun
<1>6. NoStreamoffFault /\ NoHandoverFault => (t.streaming => t.status = "STARTED")
  BY DEF Sound, Begun
<1> QED  BY <1>3, <1>4, <1>5, <1>6 DEF Sound, Begun

LEMMA EndedSound ==
  ASSUME NEW s, Sound(s), NEW t, Ended(s, t)
  PROVE  Sound(t)
<1> s \in Devs /\ t \in Devs
  BY DEF Sound, Ended
<1>1. NoFrame \notin Bufs
  BY BuffersAssumption DEF NoFrame, Bufs
<1>2. NoHideFault => t.displayed \notin Bufs
  BY <1>1 DEF Sound, Truthful, Ended
<1>3. NoHideFault => Truthful(t)
  BY <1>2 DEF Truthful, Ended
<1>4. NoHideFault => LastShown(t)
  BY <1>2, NotABuffer
<1>5. NoMmapFault => Safe(t)
  BY DEF Sound, Safe, Ended
<1>6. NoStreamoffFault /\ NoHandoverFault => (t.streaming => t.status = "STARTED")
  BY DEF Sound, Ended, NoStreamoffFault
<1> QED  BY <1>3, <1>4, <1>5, <1>6 DEF Sound, Ended, Consistent

-----------------------------------------------------------------------------
(* What the handling of a frame leaves alone. *)
SameSession(s, t) ==
  /\ t.status = s.status /\ t.streaming = s.streaming /\ t.idxRecovery = s.idxRecovery
  /\ t.n_allocated_buf = s.n_allocated_buf /\ t.buffers = s.buffers
  /\ t.vaddr = s.vaddr /\ t.leaked = s.leaked

(* camera_check_buffer and handle_initialized, for the buffer b. *)
LEMMA ShownResults ==
  ASSUME NEW u \in Devs, NEW b \in Bufs, NEW good \in BOOLEAN,
         NEW w \in ShowBuffer(Checked(u, b, good), b)
  PROVE  /\ w \in Devs /\ SameSession(u, w)
         /\ w.queue = u.queue /\ w.done = u.done /\ w.list = u.list
         /\ u.alive /\ u.buffers = "live" /\ AllMapped(u) => w.alive
         /\ w.initialized = IF good THEN 1 ELSE u.initialized
         /\ w.good_seen <=> u.good_seen \/ good
         /\ w.displayed = b \/ w.displayed = u.displayed
         /\ w.displayed # u.displayed => w.initialized = 1
         /\ w.initialized = 1 /\ NoShowFault => w.displayed = b
<1> DEFINE x == u.alive /\ Readable(u, b)
           y == u.good_seen \/ good
           i == IF good THEN 1 ELSE u.initialized
           c == [u EXCEPT !.alive = x, !.good_seen = y, !.initialized = i]
           d == [c EXCEPT !.displayed = b]
<1>1. Checked(u, b, good) = c
  BY DEF Checked
<1>2. x \in BOOLEAN /\ y \in BOOLEAN /\ i \in {0, 1}
  BY DEF Devs
<1>3. u.alive /\ u.buffers = "live" /\ AllMapped(u) => x
  BY DEF Readable, AllMapped
<1>4. \/ w = c /\ (i = 1 => ~NoShowFault)
      \/ w = d /\ c.initialized = 1
  <2>1. c.initialized = i
    <3> HIDE DEF i, x, y
    <3> QED  BY DEF Devs
  <2> HIDE DEF c, d, i, x, y
  <2> QED  BY <1>1, <2>1, Zenon DEF ShowBuffer, NoShowFault, d
<1> HIDE DEF x, y
<1>5. /\ c \in Devs /\ SameSession(u, c)
      /\ c.queue = u.queue /\ c.done = u.done /\ c.list = u.list
      /\ c.alive = x /\ c.good_seen = y /\ c.initialized = i /\ c.displayed = u.displayed
  <2> HIDE DEF i
  <2> QED  BY <1>2 DEF Devs, SameSession
<1> HIDE DEF c, i
<1>6. /\ d \in Devs /\ SameSession(c, d)
      /\ d.queue = c.queue /\ d.done = c.done /\ d.list = c.list
      /\ d.alive = c.alive /\ d.good_seen = c.good_seen /\ d.initialized = c.initialized
      /\ d.displayed = b
  BY <1>5 DEF Devs, SameSession
<1> HIDE DEF d
<1>7. SameSession(u, w)
  BY <1>4, <1>5, <1>6 DEF SameSession
<1>8. /\ w \in Devs
      /\ w.queue = u.queue /\ w.done = u.done /\ w.list = u.list
      /\ w.alive = x /\ w.good_seen = y /\ w.initialized = i
      /\ w.displayed = b \/ w.displayed = u.displayed
      /\ w.displayed # u.displayed => i = 1
      /\ i = 1 /\ NoShowFault => w.displayed = b
  BY <1>4, <1>5, <1>6
<1> QED  BY <1>3, <1>7, <1>8 DEF y, i

LEMMA QBufResults ==
  ASSUME NEW w \in Devs, NEW b \in Bufs, NEW r \in QBuf(w, b)
  PROVE  LET t == r.v
         IN  /\ t \in Devs /\ SameSession(w, t)
             /\ t.queue = w.queue \/ t.queue = Append(w.queue, b)
             /\ t.done = w.done /\ t.list = w.list /\ t.alive = w.alive
             /\ t.initialized = w.initialized /\ t.displayed = w.displayed
             /\ t.good_seen = w.good_seen
<1> DEFINE q == Append(w.queue, b)
           t == [w EXCEPT !.queue = q]
<1>1. r = Bad(w) \/ r = Ok(t)
  BY DEF QBuf, Fails
<1>2. q \in Seq(Bufs)
  BY DEF Devs
<1> HIDE DEF q
<1>3. /\ t \in Devs /\ SameSession(w, t) /\ t.queue = q
      /\ t.done = w.done /\ t.list = w.list /\ t.alive = w.alive
      /\ t.initialized = w.initialized /\ t.displayed = w.displayed
      /\ t.good_seen = w.good_seen
  BY <1>2 DEF Devs, SameSession
<1> HIDE DEF t
<1>4. SameSession(w, w)
  BY DEF SameSession
<1> QED  BY <1>1, <1>3, <1>4 DEF Ok, Bad, q

(* The preview as it is while handle_preview_buffer works: as Sound says,  *)
(* but that the list may hold one buffer more.                             *)
Handling(s) ==
  /\ s \in Devs /\ s.status = "STARTED"
  /\ Runs(s) /\ Owned(s)
  /\ io_mode = V4L2_MEMORY_MMAP
  /\ NoMmapFault => Safe(s)
  /\ NoHideFault => Truthful(s)
  /\ NoHideFault /\ NoShowFault => LastShown(s)
  /\ NoStartFault => Tidy(s)

LEMMA HandlingIsSound ==
  ASSUME NEW s, Handling(s), Len(s.list) <= 1
  PROVE  Sound(s)
BY DEF Handling, Sound, Consistent

LEMMA SoundIsHandling ==
  ASSUME NEW s, Sound(s), s.status = "STARTED"
  PROVE  Handling(s)
BY DEF Handling, Sound, Consistent

LEMMA ReleaseResults ==
  ASSUME NEW s, Handling(s), Len(s.list) = 2, NEW t \in ReleasePreviewBuffer(s)
  PROVE  Sound(t) /\ t.status = "STARTED" /\ t.idxRecovery = s.idxRecovery
<1> DEFINE b == Head(s.list)
           l == Tail(s.list)
           u == [s EXCEPT !.list = l]
<1> s \in Devs
  BY DEF Handling
<1>1. /\ s.list \in Seq(Bufs) /\ s.queue \in Seq(Bufs) /\ s.done \in Seq(Bufs)
      /\ s.list # <<>>
  <2>1. s.list # <<>>
    BY EmptySeq
  <2> QED  BY <2>1 DEF Devs
<1>2. /\ Distinct(s.list) /\ Distinct(s.queue) /\ Distinct(s.done)
      /\ Apart(s.list, s.queue) /\ Apart(s.list, s.done) /\ Apart(s.queue, s.done)
  BY ApartSymmetric DEF Handling, Owned
<1>3. LET o == Append(s.queue, b)
      IN  /\ l \in Seq(Bufs) /\ o \in Seq(Bufs) /\ b \in Bufs
          /\ Len(l) = Len(s.list) - 1 /\ Len(o) = Len(s.queue) + 1
          /\ Distinct(l) /\ Distinct(o)
          /\ Apart(l, o) /\ Apart(l, s.done) /\ Apart(o, s.done)
          /\ ~In(b, l) /\ ~In(b, s.queue) /\ ~In(b, s.done)
  BY <1>1, <1>2, MoveHead
<1>4. Apart(l, s.queue)
  <2> DEFINE o == Append(s.queue, b)
  <2>1. /\ Len(o) = Len(s.queue) + 1 /\ Len(s.queue) \in Nat
        /\ \A i \in 1..Len(s.queue) : o[i] = s.queue[i]
    BY <1>1
  <2> HIDE DEF b, l, o
  <2> QED  BY <1>3, <2>1 DEF Apart, o
<1>5. PICK w \in UNION {ShowBuffer(Checked(u, b, good), b) : good \in BOOLEAN} :
             t \in {r.v : r \in QBuf(w, b)}
  BY Zenon DEF ReleasePreviewBuffer
<1>6. PICK good \in BOOLEAN : w \in ShowBuffer(Checked(u, b, good), b)
  BY <1>5, Zenon
<1>7. PICK r \in QBuf(w, b) : t = r.v
  BY <1>5, Zenon
<1> HIDE DEF l, b
<1>8. /\ u \in Devs /\ SameSession(s, u) /\ u.alive = s.alive
      /\ u.queue = s.queue /\ u.done = s.done /\ u.list = l
      /\ u.initialized = s.initialized /\ u.displayed = s.displayed
      /\ u.good_seen = s.good_seen
  BY <1>3 DEF Devs, SameSession
<1> HIDE DEF u
<1>9. /\ w \in Devs /\ SameSession(u, w)
      /\ w.queue = u.queue /\ w.done = u.done /\ w.list = u.list
      /\ u.alive /\ u.buffers = "live" /\ AllMapped(u) => w.alive
      /\ w.initialized = IF good THEN 1 ELSE u.initialized
      /\ w.good_seen <=> u.good_seen \/ good
      /\ w.displayed = b \/ w.displayed = u.displayed
      /\ w.displayed # u.displayed => w.initialized = 1
      /\ w.initialized = 1 /\ NoShowFault => w.displayed = b
  BY <1>3, <1>6, <1>8, ShownResults
<1>10. /\ t \in Devs /\ SameSession(w, t)
       /\ t.queue = w.queue \/ t.queue = Append(w.queue, b)
       /\ t.done = w.done /\ t.list = w.list /\ t.alive = w.alive
       /\ t.initialized = w.initialized /\ t.displayed = w.displayed
       /\ t.good_seen = w.good_seen
  BY <1>3, <1>7, <1>9, QBufResults
<1>11. /\ SameSession(s, t)
       /\ t.queue = s.queue \/ t.queue = Append(s.queue, b)
       /\ t.done = s.done /\ t.list = l
  BY <1>8, <1>9, <1>10 DEF SameSession
<1>12. Owned(t) /\ Len(t.list) = 1
  <2>1. Apart(t.queue, t.done) /\ Apart(t.queue, t.list) /\ Apart(t.done, t.list)
    BY <1>2, <1>3, <1>4, <1>11, ApartSymmetric
  <2>2. Distinct(t.queue) /\ Distinct(t.done) /\ Distinct(t.list)
    BY <1>2, <1>3, <1>11, Zenon
  <2>3. Len(t.list) = 1
    BY <1>3, <1>11
  <2> QED  BY <2>1, <2>2, <2>3 DEF Owned
<1>13. NoMmapFault => Safe(t)
  <2>1. Runs(s) /\ (NoMmapFault => Safe(s)) /\ s.status = "STARTED"
    BY DEF Handling
  <2> QED  BY <1>8, <1>9, <1>10, <2>1 DEF Safe, SameSession, AllMapped, Runs
<1>14. NoHideFault => Truthful(t)
  <2>1. NoHideFault => Truthful(s)
    BY DEF Handling
  <2>2. t.status = "STARTED"
    BY <1>11 DEF SameSession, Handling
  <2>3. /\ w.initialized = 1 => good \/ s.initialized = 1
        /\ s.initialized = 1 => w.initialized = 1
        /\ w.good_seen <=> s.good_seen \/ good
        /\ w.displayed # s.displayed => w.initialized = 1
    BY <1>8, <1>9
  <2>4. NoHideFault => (t.displayed \in Bufs => t.initialized = 1)
    BY <1>10, <2>1, <2>3 DEF Truthful
  <2>5. NoHideFault => (t.initialized = 1 => t.good_seen)
    <3>1. s.status = "STARTED"
      BY DEF Handling
    <3> QED  BY <1>10, <2>1, <2>3, <3>1 DEF Truthful
  <2> QED  BY <2>2, <2>4, <2>5 DEF Truthful
<1>15. NoHideFault /\ NoShowFault => LastShown(t)
  <2>1. CASE t.initialized = 1 /\ NoShowFault
    <3>1. t.displayed = b
      BY <1>9, <1>10, <2>1
    <3>2. \A i \in 1..Len(s.queue) : s.queue[i] # b
      BY <1>3 DEF In
    <3>3. Len(s.queue) \in Nat
      BY <1>1
    <3>4. CASE t.queue = s.queue
      BY <3>1, <3>2, <3>4 DEF LastShown
    <3>5. CASE t.queue = Append(s.queue, b)
      <4>1. /\ Len(t.queue) = Len(s.queue) + 1
            /\ \A i \in 1..Len(s.queue) : t.queue[i] = s.queue[i]
        BY <1>1, <1>3, <3>5
      <4> QED  BY <3>1, <3>2, <3>3, <4>1 DEF LastShown
    <3> QED  BY <1>11, <3>4, <3>5
  <2>2. CASE t.initialized # 1 /\ NoHideFault
    BY <1>10, <1>14, <2>2, NotABuffer DEF Truthful
  <2> QED  BY <2>1, <2>2
<1>16. NoStartFault => Tidy(t)
  BY <1>11 DEF Handling, Tidy, SameSession
<1>17. Handling(t)
  BY <1>10, <1>11, <1>12, <1>13, <1>14, <1>15, <1>16 DEF Handling, SameSession, Runs
<1>18. Sound(t)
  <2>1. Len(t.list) <= 1
    BY <1>12
  <2> QED  BY <1>17, <2>1, HandlingIsSound, Zenon
<1> QED  BY <1>11, <1>17, <1>18 DEF Handling, SameSession

LEMMA HandleResults ==
  ASSUME NEW s, Sound(s), s.status = "STARTED", s.done # <<>>,
         NEW t \in HandlePreviewBuffer(s)
  PROVE  Sound(t) /\ t.status = "STARTED" /\ t.idxRecovery = s.idxRecovery
<1> DEFINE b == Head(s.done)
           d == Tail(s.done)
           l == Append(s.list, b)
           x == s.alive /\ s.buffers = "live"
           u == [s EXCEPT !.done = d, !.list = l, !.alive = x]
<1> s \in Devs /\ Consistent(s)
  BY DEF Sound
<1>1. s.list \in Seq(Bufs) /\ s.queue \in Seq(Bufs) /\ s.done \in Seq(Bufs)
  BY DEF Devs
<1>2. /\ Distinct(s.list) /\ Distinct(s.queue) /\ Distinct(s.done)
      /\ Apart(s.done, s.list) /\ Apart(s.done, s.queue) /\ Apart(s.list, s.queue)
      /\ Len(s.list) <= 1
  BY ApartSymmetric DEF Consistent, Owned
<1>3. /\ d \in Seq(Bufs) /\ l \in Seq(Bufs) /\ b \in Bufs
      /\ Len(d) = Len(s.done) - 1 /\ Len(l) = Len(s.list) + 1
      /\ Distinct(d) /\ Distinct(l)
      /\ Apart(d, l) /\ Apart(d, s.queue) /\ Apart(l, s.queue)
  BY <1>1, <1>2, MoveHead
<1>4. t \in IF Len(u.list) = 1 THEN {u} ELSE ReleasePreviewBuffer(u)
  <2>1. Dequeued(s) = [s EXCEPT !.done = d]
    BY DEF Dequeued
  <2> DEFINE e == [Dequeued(s) EXCEPT !.list = l, !.alive = x]
  <2>2. t \in IF Len(e.list) = 1 THEN {e} ELSE ReleasePreviewBuffer(e)
    BY DEF HandlePreviewBuffer
  <2>3. e = u
    <3> HIDE DEF d, l, x
    <3> QED  BY <2>1 DEF Devs
  <2> QED  BY <2>2, <2>3
<1>5. x \in BOOLEAN /\ (NoMmapFault /\ Safe(s) => x)
  BY DEF Consistent, Runs, Safe
<1> HIDE DEF b, d, l, x
<1>6. /\ u \in Devs /\ SameSession(s, u) /\ u.alive = x
      /\ u.queue = s.queue /\ u.done = d /\ u.list = l
      /\ u.initialized = s.initialized /\ u.displayed = s.displayed
      /\ u.good_seen = s.good_seen
  BY <1>3, <1>5 DEF Devs, SameSession
<1> HIDE DEF u
<1>7. Owned(u)
  <2>1. Apart(u.queue, u.done) /\ Apart(u.queue, u.list) /\ Apart(u.done, u.list)
    BY <1>3, <1>6, ApartSymmetric
  <2>2. Distinct(u.queue) /\ Distinct(u.done) /\ Distinct(u.list)
    BY <1>2, <1>3, <1>6
  <2> QED  BY <2>1, <2>2 DEF Owned
<1>8. Runs(u) /\ io_mode = V4L2_MEMORY_MMAP /\ u.status = "STARTED"
  BY <1>6 DEF Consistent, Runs, SameSession
<1>9. /\ NoMmapFault => Safe(u)
      /\ NoHideFault => Truthful(u)
      /\ NoHideFault /\ NoShowFault => LastShown(u)
      /\ NoStartFault => Tidy(u)
  <2>1. NoMmapFault => Safe(u)
    BY <1>5, <1>6 DEF Sound, Safe, SameSession, AllMapped
  <2>2. NoHideFault => Truthful(u)
    BY <1>6 DEF Sound, Truthful, SameSession
  <2>3. NoHideFault /\ NoShowFault => LastShown(u)
    BY <1>6 DEF Sound, LastShown
  <2>4. NoStartFault => Tidy(u)
    BY <1>6 DEF Sound, Tidy, SameSession
  <2> QED  BY <2>1, <2>2, <2>3, <2>4
<1>10. Handling(u)
  BY <1>6, <1>7, <1>8, <1>9 DEF Handling
<1>11. u.idxRecovery = s.idxRecovery
  BY <1>6 DEF SameSession
<1>12. CASE Len(u.list) = 1
  <2>1. t = u
    BY <1>4, <1>12
  <2>2. Len(u.list) <= 1
    BY <1>12
  <2>3. Sound(u)
    BY <1>10, <2>2, HandlingIsSound, Zenon
  <2> QED  BY <1>8, <1>11, <2>1, <2>3
<1>13. CASE Len(u.list) # 1
  <2>1. Len(u.list) = 2
    <3>1. Len(s.list) \in Nat /\ Len(u.list) = Len(s.list) + 1
      BY <1>1, <1>3, <1>6
    <3> QED  BY <1>2, <1>13, <3>1
  <2>2. t \in ReleasePreviewBuffer(u)
    BY <1>4, <1>13
  <2> QED  BY <1>10, <1>11, <2>1, <2>2, ReleaseResults
<1> QED  BY <1>12, <1>13

LEMMA FilledResult ==
  ASSUME NEW s, Sound(s), s.queue # <<>>
  PROVE  /\ Sound(Filled(s))
         /\ Filled(s).status = s.status /\ Filled(s).idxRecovery = s.idxRecovery
<1> DEFINE b == Head(s.queue)
           q == Tail(s.queue)
           d == Append(s.done, b)
           t == [s EXCEPT !.queue = q, !.done = d]
<1> s \in Devs /\ Consistent(s)
  BY DEF Sound
<1>1. s.list \in Seq(Bufs) /\ s.queue \in Seq(Bufs) /\ s.done \in Seq(Bufs)
  BY DEF Devs
<1>2. q \in Seq(Bufs) /\ b \in Bufs /\ Len(q) = Len(s.queue) - 1
      /\ (\A i \in 1..Len(q) : q[i] = s.queue[i + 1]) /\ Len(s.queue) \in Nat
  BY <1>1
<1>3. d \in Seq(Bufs)
  BY <1>1, <1>2
<1>4. Filled(s) = t
  BY DEF Filled
<1>5. s.status = "STARTED" =>
        /\ Distinct(q) /\ Distinct(d) /\ Distinct(s.list)
        /\ Apart(q, d) /\ Apart(q, s.list) /\ Apart(d, s.list)
  <2> SUFFICES ASSUME s.status = "STARTED"
               PROVE  /\ Distinct(q) /\ Distinct(d) /\ Distinct(s.list)
                      /\ Apart(q, d) /\ Apart(q, s.list) /\ Apart(d, s.list)
    OBVIOUS
  <2>1. /\ Distinct(s.list) /\ Distinct(s.queue) /\ Distinct(s.done)
        /\ Apart(s.queue, s.done) /\ Apart(s.queue, s.list) /\ Apart(s.done, s.list)
    BY DEF Consistent, Owned
  <2> QED  BY <1>1, <2>1, MoveHead
<1> HIDE DEF b, q, d
<1>6. /\ t \in Devs /\ SameSession(s, t) /\ t.alive = s.alive
      /\ t.queue = q /\ t.done = d /\ t.list = s.list
      /\ t.initialized = s.initialized /\ t.displayed = s.displayed
      /\ t.good_seen = s.good_seen
  BY <1>2, <1>3 DEF Devs, SameSession
<1> HIDE DEF t
<1>7. Consistent(t)
  <2>1. s.status = "STARTED" => Owned(t)
    BY <1>5, <1>6 DEF Owned
  <2> QED  BY <1>6, <2>1 DEF Consistent, Runs, SameSession
<1>8. NoMmapFault => Safe(t)
  BY <1>6 DEF Sound, Safe, SameSession, AllMapped
<1>9. NoHideFault => Truthful(t)
  BY <1>6 DEF Sound, Truthful, SameSession
<1>10. NoHideFault /\ NoShowFault => LastShown(t)
  BY <1>2, <1>6 DEF Sound, LastShown
<1>11. /\ NoStartFault => Tidy(t)
       /\ NoStreamoffFault /\ NoHandoverFault => (t.streaming => t.status = "STARTED")
  BY <1>6 DEF Sound, Tidy, SameSession
<1>12. Sound(t)
  BY <1>6, <1>7, <1>8, <1>9, <1>10, <1>11 DEF Sound
<1> QED  BY <1>4, <1>6, <1>12 DEF SameSession

-----------------------------------------------------------------------------
LEMMA ResetSound ==
  ASSUME NEW s, Sound(s)
  PROVE  LET t == [s EXCEPT !.idxRecovery = 0]
         IN  Sound(t) /\ t.idxRecovery < nMaxRecovery /\ t.status = s.status
<1>1. 0 \in 0..nMaxRecovery /\ 0 < nMaxRecovery
  BY DEF nMaxRecovery
<1>2. s \in Devs
  BY DEF Sound
<1>3. [s EXCEPT !.idxRecovery = 0].idxRecovery = 0 /\ [s EXCEPT !.idxRecovery = 0].status = s.status
  BY <1>2 DEF Devs
<1> QED  BY <1>1, <1>3, SameSound

(* A recovery ends STARTED or STOPPED, with its count below the limit. *)
LEMMA CheckRecoveryResults ==
  ASSUME NEW s, Sound(s), s.status = "STARTED", s.idxRecovery < nMaxRecovery,
         NEW t \in CheckRecovery(s)
  PROVE  /\ Sound(t) /\ t.idxRecovery < nMaxRecovery
         /\ t.status \in {"STARTED", "STOPPED"}
<1> DEFINE i == s.idxRecovery + 1
           missed == [s EXCEPT !.idxRecovery = i]
           reset(r) == [r EXCEPT !.idxRecovery = 0]
<1>1. s \in Devs /\ i \in 0..nMaxRecovery
  <2>1. s \in Devs
    BY DEF Sound
  <2>2. s.idxRecovery \in 0..nMaxRecovery
    BY <2>1 DEF Devs
  <2> QED  BY <2>1, <2>2 DEF nMaxRecovery
<1>2. Sound(missed)
  BY <1>1, SameSound
<1>3. missed.status = "STARTED" /\ missed.idxRecovery = i
  BY <1>1 DEF Devs
<1>4. ASSUME NEW r \in Devs, Sound(r), r.status \in {"STARTED", "STOPPED"}
      PROVE  /\ Sound(reset(r)) /\ reset(r).idxRecovery < nMaxRecovery
             /\ reset(r).status \in {"STARTED", "STOPPED"}
  BY <1>4, ResetSound
<1>5. ASSUME NEW h \in DoStopPreview(missed), NEW r \in DoStartPreview(h)
      PROVE  r \in Devs /\ Sound(r) /\ r.status \in {"STARTED", "STOPPED"}
  <2>1. Ended(missed, h)
    BY <1>2, DoStopPreviewResults DEF Sound
  <2>2. Sound(h) /\ h \in Devs /\ h.status = "STOPPED"
    BY <1>2, <2>1, EndedSound DEF Ended
  <2>3. Begun(h, r)
    BY <2>2, DoStartPreviewResults
  <2>4. Sound(r)
    BY <2>2, <2>3, BegunSound
  <2> QED  BY <2>2, <2>3, <2>4 DEF Begun
<1>6. \/ t = missed /\ missed.idxRecovery < nMaxRecovery
      \/ t = reset(missed)
      \/ \E h \in DoStopPreview(missed) : \E r \in DoStartPreview(h) : t = reset(r)
  <2> HIDE DEF missed, i
  <2>1. CASE t \in UNION {{reset(r) : r \in DoStartPreview(h)} : h \in DoStopPreview(missed)}
    <3>1. PICK h \in DoStopPreview(missed) : t \in {reset(r) : r \in DoStartPreview(h)}
      BY <2>1, Zenon
    <3>2. PICK r \in DoStartPreview(h) : t = reset(r)
      BY <3>1, Zenon
    <3> QED  BY <3>2
  <2>2. \/ t = missed /\ missed.idxRecovery < nMaxRecovery
        \/ t = reset(missed)
        \/ t \in UNION {{reset(r) : r \in DoStartPreview(h)} : h \in DoStopPreview(missed)}
    BY <1>1, <1>3 DEF CheckRecovery, missed, i, nMaxRecovery
  <2> QED  BY <2>1, <2>2
<1>7. CASE t = missed /\ missed.idxRecovery < nMaxRecovery
  BY <1>2, <1>3, <1>7
<1>8. CASE t = reset(missed)
  <2>1. missed \in Devs
    BY <1>2 DEF Sound
  <2> QED  BY <1>2, <1>3, <1>4, <1>8, <2>1
<1>9. CASE \E h \in DoStopPreview(missed) : \E r \in DoStartPreview(h) : t = reset(r)
  BY <1>4, <1>5, <1>9
<1> QED  BY <1>6, <1>7, <1>8, <1>9

LEMMA PreviewBufferResults ==
  ASSUME NEW s, Sound(s), s.status = "STARTED", s.idxRecovery < nMaxRecovery,
         NEW t \in PreviewBuffer(s)
  PROVE  /\ Sound(t) /\ t.idxRecovery < nMaxRecovery
         /\ t.status \in {"STARTED", "STOPPED"}
<1>1. \/ s.done # <<>> /\ \E u \in HandlePreviewBuffer(s) : t = [u EXCEPT !.idxRecovery = 0]
      \/ t \in CheckRecovery(s)
  BY DEF PreviewBuffer, FrameReady
<1>2. CASE t \in CheckRecovery(s)
  BY <1>2, CheckRecoveryResults
<1>3. CASE s.done # <<>> /\ \E u \in HandlePreviewBuffer(s) : t = [u EXCEPT !.idxRecovery = 0]
  <2>1. PICK u \in HandlePreviewBuffer(s) : t = [u EXCEPT !.idxRecovery = 0]
    BY <1>3
  <2>2. Sound(u) /\ u.status = "STARTED" /\ u \in Devs
    BY <1>3, HandleResults DEF Sound
  <2> QED  BY <2>1, <2>2, ResetSound
<1> QED  BY <1>1, <1>2, <1>3

-----------------------------------------------------------------------------
(* The inductive invariant. *)
Inv ==
  /\ TypeOK
  /\ Sound(dev)
  /\ booting => dev = Cleared

LEMMA InitInv == Init => Inv
<1> SUFFICES ASSUME Init  PROVE Inv
  OBVIOUS
<1> DEFINE f == [b \in Bufs |-> "null"]
           c == [streaming |-> FALSE, queue |-> <<>>, done |-> <<>>, n_allocated_buf |-> 0,
                 buffers |-> "null", vaddr |-> f, list |-> <<>>,
                 leaked |-> FALSE, alive |-> TRUE,
                 status |-> "INITIALIZED", initialized |-> 0, idxRecovery |-> 0,
                 skip_all |-> FALSE, displayed |-> NoFrame,
                 good_seen |-> FALSE, wanted |-> FALSE]
<1>1. dev = c
  BY DEF Init, Cleared
<1>2. f \in [Bufs -> {"uninit", "null", "mapped", "failed"}]
  OBVIOUS
<1> HIDE DEF f
<1>3. c \in Devs /\ c.idxRecovery < nMaxRecovery
  BY <1>2, NoBuffers DEF Devs, nMaxRecovery
<1>4. NoFrame \notin Bufs
  BY BuffersAssumption DEF NoFrame, Bufs
<1>5. Sound(c)
  <2>1. /\ c.status = "INITIALIZED" /\ c.displayed = NoFrame /\ c.alive /\ ~c.leaked
        /\ c.buffers = "null" /\ ~c.streaming
    OBVIOUS
  <2> HIDE DEF c
  <2>2. Consistent(c) /\ Safe(c) /\ Truthful(c) /\ Tidy(c) /\ LastShown(c)
    BY <1>3, <1>4, <2>1, NotABuffer DEF Consistent, Safe, Truthful, Tidy
  <2> QED  BY <1>3, <2>1, <2>2 DEF Sound
<1> HIDE DEF c
<1> QED  BY <1>1, <1>3, <1>5 DEF Init, Inv, TypeOK

LEMMA OrderStep ==
  ASSUME NEW s, Sound(s), s.idxRecovery < nMaxRecovery,
         turn' = "frame", booting' = FALSE,
         dev' = [s EXCEPT !.wanted = (s.status = "STARTED")]
  PROVE  Inv' /\ dev'.status = s.status
<1> DEFINE w == s.status = "STARTED"
           t == [s EXCEPT !.wanted = w]
<1>1. s \in Devs
  BY DEF Sound
<1>2. w \in BOOLEAN
  OBVIOUS
<1>3. dev' = t
  OBVIOUS
<1> HIDE DEF w
<1>4. Sound(t)
  BY <1>2, SameSound
<1>5. t.idxRecovery = s.idxRecovery /\ t.status = s.status
  BY <1>1 DEF Devs
<1> HIDE DEF t
<1>6. t \in Devs /\ t.idxRecovery < nMaxRecovery
  BY <1>4, <1>5 DEF Sound
<1> QED  BY <1>3, <1>4, <1>5, <1>6 DEF Inv, TypeOK

(* Each action keeps the invariant and moves the status as PreviewStatus   *)
(* allows.                                                                 *)
LEMMA HandoverStep ==
  ASSUME Inv, Handover
  PROVE  Inv' /\ Abs!Handover
<1>1. PICK s \in DoHandover(dev) : dev' = [s EXCEPT !.wanted = (s.status = "STARTED")]
  BY DEF Handover, Order
<1>2. dev.status = "INITIALIZED"
  BY DEF Inv, Handover, Cleared
<1>3. Sound(dev) /\ dev \in Devs /\ dev.idxRecovery < nMaxRecovery
  BY DEF Inv, TypeOK
<1>4. Begun(dev, s)
  BY <1>2, <1>3, DoHandoverResults
<1>5. Sound(s)
  BY <1>2, <1>3, <1>4, BegunSound
<1>6. s.idxRecovery < nMaxRecovery /\ s.status \in {dev.status, "STARTED"}
  BY <1>3, <1>4 DEF Begun
<1>7. turn' = "frame" /\ booting' = FALSE
  BY DEF Handover, Order
<1>8. Inv' /\ dev'.status = s.status
  BY <1>1, <1>5, <1>6, <1>7, OrderStep
<1> QED  BY <1>6, <1>8 DEF Abs!Handover

LEMMA StartStep ==
  ASSUME Inv, Start
  PROVE  Inv' /\ Abs!Start
<1>1. PICK s \in DoStartPreview(dev) : dev' = [s EXCEPT !.wanted = (s.status = "STARTED")]
  BY DEF Start, Order
<1>2. Sound(dev) /\ dev \in Devs /\ dev.idxRecovery < nMaxRecovery
  BY DEF Inv, TypeOK
<1>3. turn' = "frame" /\ booting' = FALSE
  BY DEF Start, Order, Inv, TypeOK
<1>4. Sound(s) /\ s.idxRecovery < nMaxRecovery /\ s.status \in {dev.status, "STARTED"}
  <2>1. CASE dev.status = "STARTED"
    <3>1. s = dev
      BY <2>1 DEF DoStartPreview
    <3> QED  BY <1>2, <3>1
  <2>2. CASE dev.status # "STARTED"
    <3>1. Begun(dev, s)
      BY <1>2, <2>2, DoStartPreviewResults
    <3>2. Sound(s)
      BY <1>2, <2>2, <3>1, BegunSound
    <3> QED  BY <1>2, <3>1, <3>2 DEF Begun
  <2> QED  BY <2>1, <2>2
<1>5. Inv' /\ dev'.status = s.status
  BY <1>1, <1>3, <1>4, OrderStep
<1> QED  BY <1>4, <1>5 DEF Abs!Start

LEMMA StopStep ==
  ASSUME Inv, Stop
  PROVE  Inv' /\ Abs!Stop
<1>1. PICK s \in DoStopPreview(dev) : dev' = [s EXCEPT !.wanted = (s.status = "STARTED")]
  BY DEF Stop, Order
<1>2. Sound(dev) /\ dev \in Devs /\ Consistent(dev) /\ dev.idxRecovery < nMaxRecovery
  BY DEF Inv, TypeOK, Sound
<1>3. turn' = "frame" /\ booting' = FALSE
  BY DEF Stop, Order, Inv, TypeOK
<1>4. Ended(dev, s)
  BY <1>2, DoStopPreviewResults
<1>5. Sound(s)
  BY <1>2, <1>4, EndedSound
<1>6. s.idxRecovery < nMaxRecovery /\ s.status = "STOPPED"
  BY <1>2, <1>4 DEF Ended
<1>7. Inv' /\ dev'.status = s.status
  BY <1>1, <1>3, <1>5, <1>6, OrderStep
<1> QED  BY <1>6, <1>7 DEF Abs!Stop

LEMMA FrameStep ==
  ASSUME Inv, Frame
  PROVE  Inv' /\ (dev'.status = dev.status \/ Abs!RecoveryFails)
<1>1. Sound(dev) /\ dev \in Devs /\ dev.idxRecovery < nMaxRecovery
  BY DEF Inv, TypeOK
<1>2. turn' = "message" /\ booting' = booting /\ booting \in BOOLEAN
  BY DEF Frame, Inv, TypeOK
<1>3. CASE dev.status = "STARTED"
  <2>1. dev' \in PreviewBuffer(dev)
    BY <1>3 DEF Frame
  <2>2. /\ Sound(dev') /\ dev'.idxRecovery < nMaxRecovery
        /\ dev'.status \in {"STARTED", "STOPPED"}
    BY <1>1, <1>3, <2>1, PreviewBufferResults
  <2>3. ~booting
    BY <1>3 DEF Inv, Cleared
  <2>4. dev' \in Devs
    BY <2>2 DEF Sound
  <2>5. Inv'
    BY <1>2, <2>2, <2>3, <2>4 DEF Inv, TypeOK
  <2> QED  BY <1>3, <2>2, <2>5 DEF Abs!RecoveryFails
<1>4. CASE dev.status # "STARTED"
  <2>1. dev' = dev
    BY <1>4 DEF Frame
  <2> QED  BY <1>1, <1>2, <2>1 DEF Inv, TypeOK
<1> QED  BY <1>3, <1>4

LEMMA FillStep ==
  ASSUME Inv, Fill
  PROVE  Inv' /\ dev'.status = dev.status
<1>1. /\ Sound(dev) /\ dev.idxRecovery < nMaxRecovery
      /\ dev' = Filled(dev) /\ dev.queue # <<>> /\ UNCHANGED <<turn, booting>>
  BY DEF Inv, TypeOK, Fill
<1>2. Sound(dev') /\ dev'.status = dev.status /\ dev'.idxRecovery = dev.idxRecovery
  BY <1>1, FilledResult
<1>3. ~booting
  BY DEF Inv, Fill, Cleared
<1>4. dev' \in Devs
  BY <1>2 DEF Sound
<1> QED  BY <1>1, <1>2, <1>3, <1>4 DEF Inv, TypeOK

LEMMA NoOrderStep ==
  ASSUME Inv, NoOrder
  PROVE  Inv' /\ dev'.status = dev.status
BY DEF Inv, TypeOK, NoOrder

LEMMA StepInv == Inv /\ [Next]_vars => Inv'
<1> SUFFICES ASSUME Inv, [Next]_vars  PROVE Inv'
  OBVIOUS
<1>1. CASE UNCHANGED vars
  BY <1>1 DEF Inv, TypeOK, vars
<1>2. CASE Next
  BY <1>2, HandoverStep, StartStep, StopStep, NoOrderStep, FrameStep, FillStep DEF Next
<1> QED  BY <1>1, <1>2

(* Whatever fails and in whatever order the orders come.                   *)
THEOREM PreviewInvariant == Spec => []Inv
BY InitInv, StepInv, PTL DEF Spec

-----------------------------------------------------------------------------
(* The record keeps its type and the count of misses stays below the limit *)
(* at which check_recovery restarts the path.                              *)
THEOREM PreviewTypes == Spec => []TypeOK
<1>1. Inv => TypeOK
  BY DEF Inv
<1> QED  BY <1>1, PreviewInvariant, PTL

(* A status of STARTED is true of the driver, whatever call failed before. *)
THEOREM PreviewStartedRuns == Spec => []StartedRuns
<1>1. Inv => StartedRuns
  BY DEF Inv, Sound, Consistent, StartedRuns, Started
<1> QED  BY <1>1, PreviewInvariant, PTL

(* No buffer is in two places while the preview runs. *)
THEOREM PreviewOwnership == Spec => []Ownership
<1>1. Inv => Ownership
  BY DEF Inv, Sound, Consistent, Ownership, Started
<1> QED  BY <1>1, PreviewInvariant, PTL

(* At most one frame is held back between two iterations. *)
THEOREM PreviewHoldsOneBack == Spec => []HeldBack
<1>1. Inv => HeldBack
  BY DEF Inv, Sound, Consistent, HeldBack, Started
<1> QED  BY <1>1, PreviewInvariant, PTL

(* Where every plane can be mapped, the thread touches no memory that the  *)
(* process has not.                                                        *)
THEOREM PreviewMemorySafe ==
  ASSUME NoMmapFault
  PROVE  Spec => []MemorySafe
<1>1. Inv => MemorySafe
  BY DEF Inv, Sound, Safe, MemorySafe
<1> QED  BY <1>1, PreviewInvariant, PTL

(* Where every plane can be mapped, a preview runs on mapped buffers only. *)
THEOREM PreviewStartedMapped ==
  ASSUME NoMmapFault
  PROVE  Spec => []StartedMapped
<1>1. Inv => StartedMapped
  BY DEF Inv, Sound, Safe, AllMapped, StartedMapped, Started
<1> QED  BY <1>1, PreviewInvariant, PTL

(* Where the layer can be switched off, no frame is shown before a good    *)
(* one came in since STREAMON.                                             *)
THEOREM PreviewGoodFirst ==
  ASSUME NoHideFault
  PROVE  Spec => []GoodFirst
<1>1. Inv => GoodFirst
  BY DEF Inv, Sound, Truthful, GoodFirst, Started
<1> QED  BY <1>1, PreviewInvariant, PTL

(* Where the layer can be switched off, a preview that is not STARTED      *)
(* leaves no camera buffer on the display.                                 *)
THEOREM PreviewHiddenWhenStopped ==
  ASSUME NoHideFault
  PROVE  Spec => []HiddenWhenStopped
<1>1. Inv => HiddenWhenStopped
  BY DEF Inv, Sound, Truthful, HiddenWhenStopped, Started
<1> QED  BY <1>1, PreviewInvariant, PTL

(* Where the layer can be switched off and switched to another frame, the  *)
(* frame on the display is the last that the driver will overwrite.        *)
THEOREM PreviewDisplayedLast ==
  ASSUME NoHideFault, NoShowFault
  PROVE  Spec => []DisplayedLast
<1>1. Inv => DisplayedLast
  BY DEF Inv, Sound, LastShown, DisplayedLast
<1> QED  BY <1>1, PreviewInvariant, PTL

(* Where STREAMOFF and the flag of the handover do not fail, no stream     *)
(* runs behind a status that denies it.                                    *)
THEOREM PreviewNoOrphanStream ==
  ASSUME NoStreamoffFault, NoHandoverFault
  PROVE  Spec => []NoOrphanStream
<1>1. Inv => NoOrphanStream
  BY DEF Inv, Sound, NoOrphanStream, Started
<1> QED  BY <1>1, PreviewInvariant, PTL

(* Where REQBUFS, and what lies between malloc and STREAMON, do not fail,  *)
(* no array of buffers is leaked, though malloc, STREAMOFF, mmap and the   *)
(* flag of the handover may.                                               *)
THEOREM PreviewNoLeak ==
  ASSUME NoStartFault
  PROVE  Spec => []NoLeak
<1>1. Inv => NoLeak
  BY DEF Inv, Sound, Tidy, NoLeak
<1> QED  BY <1>1, PreviewInvariant, PTL

-----------------------------------------------------------------------------
(* dev->status moves with the orders as PreviewStatus says, and between    *)
(* the orders only by a recovery that fails.                               *)
THEOREM PreviewStatusMoves == Spec => StatusMoves
<1> DEFINE Moves == /\ Handover => Abs!Handover
                    /\ Start => Abs!Start
                    /\ Stop => Abs!Stop
                    /\ NoOrder \/ Frame \/ Fill => UNCHANGED dev.status \/ Abs!RecoveryFails
<1>1. Inv => Moves
  <2> SUFFICES ASSUME Inv  PROVE Moves
    OBVIOUS
  <2> QED  BY HandoverStep, StartStep, StopStep, NoOrderStep, FrameStep, FillStep
<1> HIDE DEF Moves
<1>2. Spec => [][Moves]_vars
  BY <1>1, PreviewInvariant, PTL DEF Spec
<1> QED  BY <1>2 DEF StatusMoves, Moves

(* The preview with its buffers, its driver and its recovery implements    *)
(* the three orders that the other threads count on.                       *)
THEOREM PreviewImplementsStatus == Spec => Abs!Spec
<1>1. Init => Abs!Init
  BY DEF Init, Cleared, Abs!Init
<1>2. Inv /\ [Next]_vars => [Abs!Next]_(dev.status)
  <2> SUFFICES ASSUME Inv, [Next]_vars  PROVE Abs!Next \/ dev'.status = dev.status
    OBVIOUS
  <2>1. CASE Handover \/ Start \/ Stop
    BY <2>1, HandoverStep, StartStep, StopStep DEF Abs!Next, Abs!Serve
  <2>2. CASE NoOrder \/ Frame \/ Fill
    BY <2>2, NoOrderStep, FrameStep, FillStep DEF Abs!Next
  <2>3. CASE UNCHANGED vars
    BY <2>3 DEF vars
  <2> QED  BY <2>1, <2>2, <2>3 DEF Next
<1> QED  BY <1>1, <1>2, PreviewInvariant, PTL DEF Spec, Abs!Spec

-----------------------------------------------------------------------------
(* Where no call that a restart needs fails. *)
NoRestartFault ==
  Faults \cap {"lut", "format", "reqbufs", "malloc", "querybuf", "init_qbuf", "selection",
               "streamon", "streamoff"} = {}

(* video_input_start_preview, up the steps: none of them can stop it.      *)
LEMMA StartPreviewSucceeds ==
  ASSUME NoRestartFault, io_mode = V4L2_MEMORY_MMAP,
         NEW s \in Devs, ~s.streaming, NEW r \in StartPreview(s)
  PROVE  r.ret = 0
<1> DEFINE c == [s EXCEPT !.list = <<>>]
           u == Allocated(Requested(c))
<1>1. c \in Devs /\ ~c.streaming
  BY NoBuffers DEF Devs
<1> HIDE DEF c
<1>2. AllocateBuffers(c) = {Ok(u)}
  BY <1>1 DEF AllocateBuffers, Fails, NoRestartFault
<1>3. \A k : StopsAt(u, k) = {}
  BY DEF StopsAt, Unready, NoRestartFault
<1>4. ASSUME NEW q \in InitBufAddrs(u)
      PROVE  q.ret = 0
  <2> HIDE DEF u
  <2>1. PICK m : q = AllQueued(u, m)
    BY <1>3, <1>4, Zenon DEF InitBufAddrs
  <2> QED  BY <2>1 DEF AllQueued, Ok
<1>5. \A q \in InitBuffers(s) : q.ret = 0
  BY <1>2, <1>4 DEF InitBuffers, Ok, c
<1>6. \A q : \A e \in EnableStream(q) : e.ret = 0
  BY DEF EnableStream, Fails, NoRestartFault, Ok
<1> QED  BY <1>5, <1>6 DEF StartPreview, Fails, NoRestartFault

LEMMA DoStartPreviewSucceeds ==
  ASSUME NoRestartFault, io_mode = V4L2_MEMORY_MMAP,
         NEW s \in Devs, ~s.streaming, s.status # "STARTED", NEW t \in DoStartPreview(s)
  PROVE  t.status = "STARTED"
<1> DEFINE u == [s EXCEPT !.initialized = 0]
           v == [u EXCEPT !.good_seen = FALSE]
<1>1. Prepared(s, u)
  BY DEF Prepared, Devs
<1>2. v \in Devs /\ ~v.streaming
  BY DEF Devs
<1>3. SetLut(u) = {Ok(u)}
  BY DEF SetLut, Fails, NoRestartFault
<1>4. PICK r \in StartPreview(v) : t = IF r.ret = 0 THEN Shown(r.v) ELSE r.v
  <2>1. PICK l \in SetLut(u) : \E r \in (IF l.ret = 0 THEN StartStream(l.v) ELSE {l}) :
               t = IF r.ret = 0 THEN Shown(r.v) ELSE r.v
    BY SMT DEF DoStartPreview
  <2>2. PICK r \in (IF l.ret = 0 THEN StartStream(l.v) ELSE {l}) :
               t = IF r.ret = 0 THEN Shown(r.v) ELSE r.v
    BY <2>1
  <2>3. r \in StartPreview(v)
    <3> HIDE DEF u
    <3>1. l.ret = 0 /\ l.v = u
      BY <1>3 DEF Ok
    <3> QED  BY <2>2, <3>1 DEF StartStream
  <2> HIDE DEF u, v
  <2> QED  BY <2>2, <2>3
<1> HIDE DEF u, v
<1>5. r.ret = 0 /\ r.v \in Devs
  BY <1>2, <1>4, StartPreviewSucceeds, StartPreviewResults DEF StartedFrom
<1> QED  BY <1>4, <1>5 DEF Shown, Devs

(* A look at a frame keeps a preview that runs, its restarts included.     *)
LEMMA FrameKeepsStarted ==
  ASSUME NoRestartFault, NEW s, Sound(s), s.status = "STARTED",
         s.idxRecovery < nMaxRecovery, NEW t \in PreviewBuffer(s)
  PROVE  t.status = "STARTED"
<1> DEFINE i == s.idxRecovery + 1
           missed == [s EXCEPT !.idxRecovery = i]
           reset(r) == [r EXCEPT !.idxRecovery = 0]
<1>1. s \in Devs /\ s.idxRecovery \in 0..nMaxRecovery
  BY DEF Sound, Devs
<1>2. i \in 0..nMaxRecovery
  BY <1>1 DEF nMaxRecovery
<1>3. Sound(missed) /\ missed.status = "STARTED" /\ missed \in Devs
  <2>1. Sound(missed)
    BY <1>1, <1>2, SameSound
  <2> QED  BY <1>1, <2>1 DEF Devs, Sound
<1>4. \A r \in Devs : reset(r).status = r.status
  BY DEF Devs
<1>5. ASSUME NEW h \in DoStopPreview(missed), NEW r \in DoStartPreview(h)
      PROVE  r.status = "STARTED" /\ r \in Devs
  <2>1. Consistent(missed) /\ io_mode = V4L2_MEMORY_MMAP
    BY <1>3 DEF Sound, Consistent
  <2>2. Ended(missed, h)
    BY <1>3, <2>1, DoStopPreviewResults
  <2>3. h \in Devs /\ h.status = "STOPPED" /\ ~h.streaming
    BY <1>3, <2>2 DEF Ended, NoRestartFault
  <2>4. r \in Devs
    BY <2>3, DoStartPreviewResults DEF Begun
  <2> QED  BY <2>1, <2>3, <2>4, DoStartPreviewSucceeds
<1>6. CASE t \in CheckRecovery(s)
  <2> HIDE DEF missed, i
  <2>1. \/ t \in {missed, reset(missed)}
        \/ t \in UNION {{reset(r) : r \in DoStartPreview(h)} : h \in DoStopPreview(missed)}
    BY <1>6 DEF CheckRecovery, missed, i
  <2>2. CASE t \in {missed, reset(missed)}
    BY <1>3, <1>4, <2>2
  <2>3. CASE t \in UNION {{reset(r) : r \in DoStartPreview(h)} : h \in DoStopPreview(missed)}
    <3>1. PICK h \in DoStopPreview(missed) : t \in {reset(r) : r \in DoStartPreview(h)}
      BY <2>3, Zenon
    <3>2. PICK r \in DoStartPreview(h) : t = reset(r)
      BY <3>1, Zenon
    <3>3. r.status = "STARTED" /\ r \in Devs
      BY <1>5
    <3> HIDE DEF reset
    <3> QED  BY <1>4, <3>2, <3>3
  <2> QED  BY <2>1, <2>2, <2>3
<1>7. CASE s.done # <<>> /\ \E u \in HandlePreviewBuffer(s) : t = [u EXCEPT !.idxRecovery = 0]
  <2>1. PICK u \in HandlePreviewBuffer(s) : t = [u EXCEPT !.idxRecovery = 0]
    BY <1>7
  <2>2. u.status = "STARTED" /\ u \in Devs
    BY <1>7, HandleResults DEF Sound
  <2> QED  BY <2>1, <2>2 DEF Devs
<1> QED  BY <1>6, <1>7 DEF PreviewBuffer, FrameReady

(* Where no call of a restart fails, a preview that an order started runs  *)
(* until an order stops it, through any number of misses and restarts, and *)
(* whatever else fails (camera.c:755-823, 1079-1129).                      *)
THEOREM PreviewStaysStarted ==
  ASSUME NoRestartFault
  PROVE  Spec => []StaysStarted
<1>1. Init => StaysStarted
  BY DEF Init, Cleared, StaysStarted
<1>2. ASSUME Inv, StaysStarted, [Next]_vars
      PROVE  StaysStarted'
  <2>0. Sound(dev) /\ dev \in Devs /\ dev.idxRecovery < nMaxRecovery
    BY <1>2 DEF Inv, TypeOK
  <2>1. ASSUME NEW s \in Devs, dev' = [s EXCEPT !.wanted = (s.status = "STARTED")]
        PROVE  StaysStarted'
    BY <2>1 DEF Devs, StaysStarted, Started
  <2>2. CASE Handover
    <3>1. PICK s \in DoHandover(dev) : dev' = [s EXCEPT !.wanted = (s.status = "STARTED")]
      BY <2>2 DEF Handover, Order
    <3>2. dev.status # "STARTED"
      BY <1>2, <2>2 DEF Inv, Handover, Cleared
    <3>3. s \in Devs
      BY <2>0, <3>2, DoHandoverResults DEF Begun
    <3> QED  BY <2>1, <3>1, <3>3
  <2>3. CASE Start
    <3>1. PICK s \in DoStartPreview(dev) : dev' = [s EXCEPT !.wanted = (s.status = "STARTED")]
      BY <2>3 DEF Start, Order
    <3>2. s \in Devs
      <4>1. CASE dev.status = "STARTED"
        BY <2>0, <3>1, <4>1 DEF DoStartPreview
      <4>2. CASE dev.status # "STARTED"
        BY <2>0, <4>2, DoStartPreviewResults DEF Begun
      <4> QED  BY <4>1, <4>2
    <3> QED  BY <2>1, <3>1, <3>2
  <2>4. CASE Stop
    <3>1. PICK s \in DoStopPreview(dev) : dev' = [s EXCEPT !.wanted = (s.status = "STARTED")]
      BY <2>4 DEF Stop, Order
    <3>2. s \in Devs
      BY <2>0, DoStopPreviewResults DEF Ended, Sound
    <3> QED  BY <2>1, <3>1, <3>2
  <2>5. CASE Frame
    <3>1. CASE dev.status = "STARTED"
      BY <2>0, <2>5, <3>1, FrameKeepsStarted DEF Frame, StaysStarted, Started
    <3>2. CASE dev.status # "STARTED"
      BY <1>2, <2>5, <3>2 DEF Frame, StaysStarted, Started
    <3> QED  BY <3>1, <3>2
  <2>6. CASE Fill
    <3>1. dev' = Filled(dev)
      BY <2>6 DEF Fill
    <3>2. dev'.wanted = dev.wanted /\ dev'.status = dev.status
      BY <2>0, <3>1 DEF Filled, Devs
    <3> QED  BY <1>2, <3>2 DEF StaysStarted, Started
  <2>7. CASE NoOrder \/ UNCHANGED vars
    BY <1>2, <2>7 DEF NoOrder, vars, StaysStarted, Started
  <2> QED  BY <1>2, <2>2, <2>3, <2>4, <2>5, <2>6, <2>7 DEF Next
<1> QED  BY <1>1, <1>2, PreviewInvariant, PTL DEF Spec

(* Hence what the option --recovery promises (main.c:97) holds there: the  *)
(* behaviours that refute it all have a call of a restart that fails.      *)
THEOREM PreviewRecoveryPersists ==
  ASSUME NoRestartFault
  PROVE  Spec => RecoveryPersists
<1>1. StaysStarted => (dev.wanted => Started \/ ~dev.wanted)
  BY DEF StaysStarted
<1> QED  BY <1>1, PreviewStaysStarted, PTL DEF RecoveryPersists

-----------------------------------------------------------------------------
(* An order to start succeeds: there is no stream in its way.              *)
LEMMA StartSucceeds ==
  ASSUME NoRestartFault, NoHandoverFault, io_mode = V4L2_MEMORY_MMAP, Inv, Start
  PROVE  dev'.status = "STARTED"
<1>1. PICK s \in DoStartPreview(dev) : dev' = [s EXCEPT !.wanted = (s.status = "STARTED")]
  BY DEF Start, Order
<1>2. dev \in Devs /\ (dev.streaming => dev.status = "STARTED")
  BY DEF Inv, Sound, NoRestartFault, NoStreamoffFault
<1>3. s.status = "STARTED" /\ s \in Devs
  <2>1. CASE dev.status = "STARTED"
    BY <1>1, <1>2, <2>1 DEF DoStartPreview
  <2>2. CASE dev.status # "STARTED"
    BY <1>1, <1>2, <2>2, DoStartPreviewSucceeds, DoStartPreviewResults DEF Begun
  <2> QED  BY <2>1, <2>2
<1> QED  BY <1>1, <1>3 DEF Devs

LEMMA FrameKeepsStatus ==
  ASSUME NoRestartFault, Inv, Frame
  PROVE  dev'.status = dev.status
<1>1. CASE dev.status = "STARTED"
  BY <1>1, FrameKeepsStarted DEF Inv, TypeOK, Frame
<1>2. CASE dev.status # "STARTED"
  BY <1>2 DEF Frame
<1> QED  BY <1>1, <1>2

(* Where no call of a stop, a start or the end of the handover fails,      *)
(* every order to start is carried out and only orders change the status,  *)
(* whatever is lost between them (camera.c:697-726, 755-823).              *)
THEOREM PreviewOrdersSucceed ==
  ASSUME NoRestartFault, NoHandoverFault, io_mode = V4L2_MEMORY_MMAP
  PROVE  Spec => OrdersSucceed
<1> DEFINE Moves == /\ Start => dev'.status = "STARTED"
                    /\ NoOrder \/ Frame \/ Fill => UNCHANGED dev.status
<1>1. Inv /\ [Next]_vars => [Moves]_vars
  BY StartSucceeds, FrameKeepsStatus, FillStep, NoOrderStep
<1>2. Spec => [][Moves]_vars
  BY <1>1, PreviewInvariant, PTL DEF Spec
<1> QED  BY <1>2 DEF OrdersSucceed, Moves
=============================================================================
