------------------------------- MODULE Capture -------------------------------
(***************************************************************************)
(* --capture: the first frames that are shown are written to the files     *)
(* video_capture.0, video_capture.1, ... (camera.c:945-1025), while the    *)
(* driver fills the buffers that it has.  A frame is held by the message   *)
(* thread from DQBUF until QBUF, after it was written and shown.  The      *)
(* files outlive the process, which may be started again with other        *)
(* options.                                                                *)
(*                                                                         *)
(* A byte of a buffer or a file is the number of the frame it comes from;  *)
(* Foreign is a byte from behind the mapping of a buffer.  A mapping ends  *)
(* with its plane here, with the page of its end on the machine.           *)
(***************************************************************************)
EXTENDS Formats

CONSTANTS
  Names,      \* values for --preview_format
  Counts,     \* values for --capture
  Failures,   \* "open", "short" (a write of less), "io" (a write that fails)
  NUM_VIDBUF, \* buffers
  MaxFrames,  \* bound on the frames of all processes together
  MaxBoots    \* bound on the processes, one after the other

Bufs == 0..(NUM_VIDBUF - 1)
Foreign == -1
Blank == 0

(* A picture of two pixels: the least that every format has whole bytes of. *)
Pixels == 2

(* The plane 0 of a buffer has the size of the frame; camera_save_buffer   *)
(* takes four bytes per pixel, whatever the format.                        *)
PlaneSize(format) == SizeImage(format, Pixels)
buf_len == Pixels * 4

VARIABLES
  boot, since,     \* which process this is, and its first frame
  format, asked,   \* the options
  cnt_to_capture, capture_idx,
  initialized,
  queue, done, list,
  content,         \* per buffer, its bytes
  filling,         \* the driver is half way through the buffer at the head
  frames,          \* frames that came in
  at,              \* "poll", "open", "write" or "qbuf"
  size, pos,       \* what write_data counts, and the offset in the file
  disk             \* per number, the bytes of the file, <<>> without one

line == <<queue, done, list, content, filling, frames>>
options == <<boot, since, format, asked>>
vars == <<options, cnt_to_capture, capture_idx, initialized, line, at, size, pos, disk>>

Fresh(f) == [b \in Bufs |-> [i \in 1..PlaneSize(f) |-> Blank]]

Booted ==
  /\ \E name \in Names : format' = FormatByName(name)
  /\ asked' \in Counts
  /\ cnt_to_capture' = asked'
  /\ capture_idx' = 0
  /\ initialized' = 0

Streaming(f) ==
  /\ queue' = [i \in 1..NUM_VIDBUF |-> i - 1]
  /\ done' = <<>>
  /\ list' = <<>>
  /\ content' = Fresh(f)
  /\ filling' = FALSE

Init ==
  /\ boot = 1 /\ since = 1
  /\ format \in {FormatByName(name) : name \in Names}
  /\ asked \in Counts
  /\ cnt_to_capture = asked
  /\ capture_idx = 0
  /\ initialized = 0
  /\ queue = [i \in 1..NUM_VIDBUF |-> i - 1]
  /\ done = <<>>
  /\ list = <<>>
  /\ content = Fresh(format)
  /\ filling = FALSE
  /\ frames = 0
  /\ at = "poll"
  /\ size = 0 /\ pos = 0
  /\ disk = [k \in 0..(MaxFrames - 1) |-> <<>>]

-----------------------------------------------------------------------------
(* The driver fills the buffer at the head of its line, in two parts. *)
FillTop ==
  /\ queue # <<>> /\ ~filling /\ frames < MaxFrames
  /\ filling' = TRUE
  /\ frames' = frames + 1
  /\ content' = [content EXCEPT ![Head(queue)] =
                   [i \in DOMAIN @ |-> IF 2 * i <= Len(@) THEN frames + 1 ELSE @[i]]]
  /\ UNCHANGED <<options, cnt_to_capture, capture_idx, initialized, queue, done, list, at, size,
                 pos, disk>>

FillRest ==
  /\ filling
  /\ filling' = FALSE
  /\ content' = [content EXCEPT ![Head(queue)] = [i \in DOMAIN @ |-> frames]]
  /\ queue' = Tail(queue)
  /\ done' = Append(done, Head(queue))
  /\ UNCHANGED <<options, cnt_to_capture, capture_idx, initialized, list, frames, at, size, pos,
                 disk>>

-----------------------------------------------------------------------------
Saves(init) == init = 1 /\ cnt_to_capture > 0

Dequeue_QueuesAtOnce ==
  /\ at = "poll" /\ done # <<>>
  /\ done' = Tail(done)
  /\ list' = Append(list, Head(done))
  /\ queue' = IF list = <<>> THEN queue ELSE Append(queue, Head(list))
  /\ IF list = <<>> THEN at' = "poll" /\ UNCHANGED initialized
     ELSE /\ initialized' = 1
          /\ at' = IF Saves(1) THEN "open" ELSE "qbuf"
  /\ UNCHANGED <<options, cnt_to_capture, capture_idx, content, filling, frames, size, pos,
                 disk>>

(* handle_preview_buffer: the newest frame is kept, the one before it is   *)
(* checked and, once a frame was good, saved and shown; open creates the   *)
(* file and leaves the bytes of one that is there.                         *)
Dequeue ==
  /\ at = "poll" /\ done # <<>>
  /\ done' = Tail(done)
  /\ list' = Append(list, Head(done))
  /\ IF list = <<>> THEN at' = "poll" /\ UNCHANGED initialized
     ELSE \E good \in BOOLEAN :
            /\ initialized' = IF good THEN 1 ELSE initialized
            /\ at' = IF Saves(initialized') THEN "open" ELSE "qbuf"
  /\ UNCHANGED <<options, cnt_to_capture, capture_idx, queue, content, filling, frames, size, pos,
                 disk>>

(* The end of camera_save_buffer: the frame has used its number. *)
Counted ==
  /\ cnt_to_capture' = cnt_to_capture - 1
  /\ capture_idx' = capture_idx + 1

Open_FailsForFree ==
  /\ at = "open"
  /\ \/ at' = "write" /\ size' = 0 /\ pos' = 0 /\ UNCHANGED <<cnt_to_capture, capture_idx>>
     \/ /\ "open" \in Failures
        /\ at' = "qbuf" /\ capture_idx' = capture_idx + 1 /\ UNCHANGED <<cnt_to_capture, size, pos>>
  /\ UNCHANGED <<options, initialized, line, disk>>

Open ==
  /\ at = "open"
  /\ \/ at' = "write" /\ size' = 0 /\ pos' = 0 /\ UNCHANGED <<cnt_to_capture, capture_idx>>
     \/ /\ "open" \in Failures
        /\ at' = "qbuf" /\ Counted /\ UNCHANGED <<size, pos>>
  /\ UNCHANGED <<options, initialized, line, disk>>

(* basic_operation.h: every value below INT_MAX becomes 0. *)
INT_MAX == 2147483647
S64ToS32(val) == IF val < INT_MAX /\ val >= -INT_MAX - 1 THEN 0 ELSE val

(* What write(2) may answer for the rest of the buffer: all of it, where   *)
(* something is mapped behind the plane, or what there is up to its end.   *)
Written ==
  LET wanted == buf_len - size
      there == PlaneSize(format) - size
  IN  {wanted}
      \cup (IF there >= wanted THEN {} ELSE IF there > 0 THEN {there} ELSE {-1})
      \cup (IF "short" \in Failures THEN 0..(wanted - 1) ELSE {})
      \cup (IF "io" \in Failures THEN {-1} ELSE {})

Byte(i) == IF i <= PlaneSize(format) THEN content[Head(list)][i] ELSE Foreign

(* The file after n bytes from the buffer at size, put at pos. *)
FileWith(file, n) ==
  [i \in 1..(IF pos + n > Len(file) THEN pos + n ELSE Len(file)) |->
     IF pos < i /\ i <= pos + n THEN Byte(size + i - pos) ELSE file[i]]

(* Whatever write_data answers only selects the message that is logged.    *)
Closed == at' = "qbuf" /\ Counted

(* One turn of the loop of write_data, which goes on after a part. *)
Write ==
  /\ at = "write"
  /\ \E n \in Written :
       LET len == S64ToS32(n)
           file == FileWith(disk[capture_idx], IF n > 0 THEN n ELSE 0)
       IN  /\ disk' = [disk EXCEPT ![capture_idx] = file]
           /\ IF len > 0 /\ size + len # buf_len
              THEN /\ size' = size + len
                   /\ pos' = pos + n
                   /\ UNCHANGED <<at, cnt_to_capture, capture_idx>>
              ELSE Closed /\ UNCHANGED <<size, pos>>
  /\ UNCHANGED <<options, initialized, line>>

(* release_buffer: list_del and VIDIOC_QBUF. *)
QBuf ==
  /\ at = "qbuf"
  /\ at' = "poll"
  /\ list' = Tail(list)
  /\ queue' = Append(queue, Head(list))
  /\ UNCHANGED <<options, cnt_to_capture, capture_idx, initialized, done, content, filling, frames,
                 size, pos, disk>>

(* do_stop_preview and do_start_preview, by order or by recovery. *)
Restart ==
  /\ at = "poll"
  /\ Streaming(format)
  /\ initialized' = 0
  /\ UNCHANGED <<options, cnt_to_capture, capture_idx, frames, at, size, pos, disk>>

(* The process ends, wherever it is, and another one is started. *)
Reboot ==
  /\ boot < MaxBoots
  /\ boot' = boot + 1
  /\ since' = frames + 1
  /\ Booted
  /\ Streaming(format')
  /\ at' = "poll" /\ size' = 0 /\ pos' = 0
  /\ UNCHANGED <<frames, disk>>

Next == FillTop \/ FillRest \/ Dequeue \/ Open \/ Write \/ QBuf \/ Restart \/ Reboot

Spec == Init /\ [][Next]_vars

-----------------------------------------------------------------------------
Frames == 0..MaxFrames

TypeOK ==
  /\ boot \in 1..MaxBoots /\ since \in 1..(MaxFrames + 1)
  /\ PlanesOf(format) > 0 /\ asked \in Counts
  /\ cnt_to_capture \in Int /\ capture_idx \in 0..MaxFrames
  /\ initialized \in {0, 1}
  /\ \A b \in Bufs : content[b] \in [1..PlaneSize(format) -> Frames]
  /\ filling \in BOOLEAN /\ frames \in Frames
  /\ at \in {"poll", "open", "write", "qbuf"}
  /\ size \in 0..buf_len /\ pos \in 0..buf_len
  /\ \A k \in DOMAIN disk : disk[k] \in Seq(Frames \cup {Foreign}) /\ Len(disk[k]) <= buf_len

(* The frames of this process in file k. *)
In(k) == {disk[k][i] : i \in DOMAIN disk[k]} \cap since..MaxFrames

(* A file never mixes two frames of a process, although the driver writes  *)
(* into the buffers all the time, and the files are in the order of the    *)
(* frames, whatever open and write did and however often the preview was   *)
(* restarted in between (camera.c:972-1025, 1150-1196).                    *)
FramesInOrder ==
  \A k, l \in DOMAIN disk : \A f \in In(k), g \in In(l) :
    /\ k = l => f = g
    /\ k < l => f < g

(* A process writes no more files than it was asked for, numbered from 0,  *)
(* and a failure uses up a number (camera.c:972-1025).                     *)
NoMoreThanAsked == \A k \in DOMAIN disk : In(k) # {} => k < asked
=============================================================================
