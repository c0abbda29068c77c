------------------------------ MODULE Preview --------------------------------
(***************************************************************************)
(* The message thread of app/camera/camera.c: threadMessageHandle serves   *)
(* one order, then looks at one frame, for ever.  No other thread touches  *)
(* struct camera once this one runs, so that a handler is one step; the    *)
(* driver (external) fills buffers between the steps.                      *)
(*                                                                         *)
(* dev is the record of VideoInput with the fields of struct camera:       *)
(*   status, initialized     the fields of that name                       *)
(*   idxRecovery             the static counter of check_recovery          *)
(*   skip_all                the handover flag in the capture driver       *)
(*   displayed               the frame the overlay scans: a buffer,        *)
(*                           LastFrame, NullFrame (address 0) or NoFrame   *)
(* and two history fields:                                                 *)
(*   good_seen               a good frame came in since STREAMON           *)
(*   wanted                  the last order that took effect started the   *)
(*                           preview                                       *)
(***************************************************************************)
EXTENDS VideoInput

CONSTANTS
  recovery,    \* --recovery, default 1
  ignore_ovp   \* --ignore_ovp, default 0

ASSUME OptionsAssumption == recovery \in {0, 1} /\ ignore_ovp \in {0, 1}

nMaxRecovery == 3
LastFrame == NUM_VIDBUF
NullFrame == NUM_VIDBUF + 1
NoFrame == -1

VARIABLES
  dev,
  turn,     \* "message" or "frame": the half of the loop that is next
  booting   \* main has not sent its HANDOVER yet

vars == <<dev, turn, booting>>

Cleared ==
  [streaming |-> FALSE, queue |-> <<>>, done |-> <<>>, n_allocated_buf |-> 0,
   buffers |-> "null", vaddr |-> [b \in Bufs |-> "null"], list |-> <<>>,
   leaked |-> FALSE, alive |-> TRUE,
   status |-> "INITIALIZED", initialized |-> 0, idxRecovery |-> 0,
   skip_all |-> FALSE, displayed |-> NoFrame,
   good_seen |-> FALSE, wanted |-> FALSE]

Init ==
  /\ dev = Cleared
  /\ turn = "message"
  /\ booting = TRUE

-----------------------------------------------------------------------------
(* Variants with a mistake, for the properties to find.                    *)

DoStartPreview_IgnoresFailure(s) ==
  IF s.status = "STARTED" THEN {s}
  ELSE {[r.v EXCEPT !.status = "STARTED"] :
          r \in StartPreview([s EXCEPT !.initialized = 0, !.good_seen = FALSE])}

DoStartPreview_KeepsInitialized(s) ==
  IF s.status = "STARTED" THEN {s}
  ELSE {IF r.ret = 0 THEN [r.v EXCEPT !.status = "STARTED"] ELSE r.v :
          r \in StartPreview([s EXCEPT !.good_seen = FALSE])}

DoStopPreview_Always(s) ==
  {[r.v EXCEPT !.status = "STOPPED"] : r \in StopPreview([s EXCEPT !.displayed = NoFrame])}

DoStopPreview_NoHide(s) ==
  IF s.status # "STARTED" THEN {[s EXCEPT !.status = "STOPPED"]}
  ELSE {[r.v EXCEPT !.status = "STOPPED"] : r \in StopPreview(s)}

Checked_Resets(s, b, good) ==
  [s EXCEPT !.good_seen = s.good_seen \/ good, !.initialized = IF good THEN 1 ELSE 0]

-----------------------------------------------------------------------------
(* camera_show_video_output(0): with ignore_ovp the whole function is      *)
(* skipped, the disabling of the layer included.                           *)
HideVideoOutput(s) ==
  IF ignore_ovp = 1 THEN {s}
  ELSE {[s EXCEPT !.displayed = NoFrame]} \cup (IF "disable" \in Faults THEN {s} ELSE {})

(* show_vout: camera_show_video_output(1) changes the priority of the      *)
(* layers only.                                                            *)
Shown(s) == [s EXCEPT !.status = "STARTED"]

(* start_stream; the history of frames begins with the stream. *)
StartStream(s) == StartPreview([s EXCEPT !.good_seen = FALSE])

SetLut(s) == Fails("lut", s) \cup {Ok(s)}

(* do_start_preview *)
DoStartPreview(s) ==
  IF s.status = "STARTED" THEN {s}
  ELSE {IF r.ret = 0 THEN Shown(r.v) ELSE r.v :
          r \in UNION {IF l.ret = 0 THEN StartStream(l.v) ELSE {l} :
                         l \in SetLut([s EXCEPT !.initialized = 0])}}

(* do_stop_preview: the status becomes STOPPED whatever failed. *)
DoStopPreview(s) ==
  IF s.status # "STARTED" THEN {[s EXCEPT !.status = "STOPPED"]}
  ELSE {[r.v EXCEPT !.status = "STOPPED"] : r \in UNION {StopPreview(h) : h \in HideVideoOutput(s)}}

(* camera_show_lastframe: when the last frame cannot be created, the       *)
(* buffer shown is the one that memset left.                               *)
SetLastFrame(s) ==
  Fails("lastframe", s)
  \cup {Ok([s EXCEPT !.displayed = f]) :
          f \in {LastFrame} \cup (IF "create" \in Faults THEN {NullFrame} ELSE {})}

SetHandover(s, flag) == Fails("s_handover", s) \cup {Ok([s EXCEPT !.skip_all = flag])}

Then(results, Step(_)) == UNION {IF r.ret = 0 THEN Step(r.v) ELSE {r} : r \in results}

(* handover_steps, in order up to the first failure. *)
HandoverSteps(s) ==
  Then(Then(Then(Then(SetLastFrame(s), LAMBDA t : SetHandover(t, TRUE)),
                 SetLut),
            StartStream),
       LAMBDA t : SetHandover(t, FALSE))

(* do_handover: only when the driver says that the path was running. *)
DoHandover(s) ==
  LET t == [s EXCEPT !.initialized = 0]
  IN  {t} \cup {IF r.ret = 0 THEN Shown(r.v) ELSE r.v : r \in HandoverSteps(t)}

-----------------------------------------------------------------------------
(* camera_check_buffer reads the frame through vaddr: the process has it   *)
(* only if it is mapped and the array is live.                             *)
Readable(s, b) == s.buffers = "live" /\ s.vaddr[b] = "mapped"

Checked(s, b, good) ==
  [s EXCEPT !.alive = s.alive /\ Readable(s, b),
            !.good_seen = s.good_seen \/ good,
            !.initialized = IF good THEN 1 ELSE s.initialized]

(* handle_initialized: camera_show_buffer, whose failure is logged. *)
ShowBuffer(s, b) ==
  IF s.initialized = 1
  THEN {[s EXCEPT !.displayed = b]} \cup (IF "show" \in Faults THEN {s} ELSE {})
  ELSE {s}

(* release_preview_buffer: off the list, checked, shown, and queued at     *)
(* once; a buffer that cannot be queued is lost until the next start.      *)
ReleasePreviewBuffer(s) ==
  LET b == Head(s.list)
      unlinked == [s EXCEPT !.list = Tail(s.list)]
  IN  UNION {{r.v : r \in QBuf(t, b)} :
               t \in UNION {ShowBuffer(Checked(unlinked, b, good), b) : good \in BOOLEAN}}

HandlePreviewBuffer_KeepsTwo(s) ==
  LET t == [Dequeued(s) EXCEPT !.list = Append(s.list, Head(s.done))]
  IN  IF Len(t.list) <= 2 THEN {t} ELSE ReleasePreviewBuffer(t)

(* handle_preview_buffer after VIDIOC_DQBUF: the newest frame is kept on   *)
(* the list, the one before it goes.                                       *)
HandlePreviewBuffer(s) ==
  LET b == Head(s.done)
      t == [Dequeued(s) EXCEPT !.list = Append(s.list, b),
                               !.alive = s.alive /\ s.buffers = "live"]
  IN  IF Len(t.list) = 1 THEN {t} ELSE ReleasePreviewBuffer(t)

CheckRecovery_NoReset(s) ==
  LET missed == [s EXCEPT !.idxRecovery = s.idxRecovery + 1]
  IN  IF missed.idxRecovery < nMaxRecovery THEN {missed}
      ELSE UNION {DoStartPreview(h) : h \in DoStopPreview(missed)}

CheckRecovery_NeverCounts(s) ==
  IF "source" \in Faults
  THEN {s} \cup UNION {DoStartPreview(h) : h \in DoStopPreview(s)} ELSE {s}

(* check_recovery(dev, 0): the source is asked for its status, and the     *)
(* path restarted when it is unstable or at the third miss in a row.       *)
CheckRecovery(s) ==
  LET missed == [s EXCEPT !.idxRecovery = s.idxRecovery + 1]
      reset(t) == [t EXCEPT !.idxRecovery = 0]
      restarted == IF recovery = 1
                   THEN UNION {{reset(t) : t \in DoStartPreview(h)} : h \in DoStopPreview(missed)}
                   ELSE {reset(missed)}
  IN  IF missed.idxRecovery >= nMaxRecovery THEN restarted
      ELSE {missed} \cup (IF "source" \in Faults THEN restarted ELSE {})

(* A frame is taken only if poll reports one and DQBUF gives it. *)
FrameReady(s) == s.streaming /\ s.done # <<>>

MayMiss(s) == ~FrameReady(s) \/ {"poll", "dqbuf"} \cap Faults # {}

PreviewBuffer_AlwaysResets(s) ==
  (IF FrameReady(s) THEN {[t EXCEPT !.idxRecovery = 0] : t \in HandlePreviewBuffer(s)} ELSE {})
  \cup (IF MayMiss(s) THEN {[t EXCEPT !.idxRecovery = 0] : t \in CheckRecovery(s)} ELSE {})

(* camera_preview_buffer *)
PreviewBuffer(s) ==
  (IF FrameReady(s) THEN {[t EXCEPT !.idxRecovery = 0] : t \in HandlePreviewBuffer(s)} ELSE {})
  \cup (IF MayMiss(s) THEN CheckRecovery(s) ELSE {})

-----------------------------------------------------------------------------
Running == dev.alive

Order(results) ==
  /\ Running
  /\ turn = "message"
  /\ turn' = "frame"
  /\ \E s \in results : dev' = [s EXCEPT !.wanted = (s.status = "STARTED")]

Handover == booting /\ booting' = FALSE /\ Order(DoHandover(dev))

Start == ~booting /\ Order(DoStartPreview(dev)) /\ UNCHANGED booting

Stop == ~booting /\ Order(DoStopPreview(dev)) /\ UNCHANGED booting

NoOrder == Running /\ turn = "message" /\ turn' = "frame" /\ UNCHANGED <<dev, booting>>

Frame_AlwaysLooks ==
  /\ Running
  /\ turn = "frame"
  /\ turn' = "message"
  /\ dev' \in PreviewBuffer(dev)
  /\ UNCHANGED booting

Frame ==
  /\ Running
  /\ turn = "frame"
  /\ turn' = "message"
  /\ IF dev.status = "STARTED" THEN dev' \in PreviewBuffer(dev) ELSE UNCHANGED dev
  /\ UNCHANGED booting

(* The driver. *)
Fill ==
  /\ Running
  /\ dev.streaming /\ dev.queue # <<>>
  /\ dev' = Filled(dev)
  /\ UNCHANGED <<turn, booting>>

Next == Handover \/ Start \/ Stop \/ NoOrder \/ Frame \/ Fill

Spec == Init /\ [][Next]_vars

-----------------------------------------------------------------------------
(* idxRecovery is at its limit only inside of check_recovery. *)
Devs ==
  [streaming : BOOLEAN, queue : Seq(Bufs), done : Seq(Bufs),
   n_allocated_buf : {0, NUM_VIDBUF}, buffers : {"null", "live", "freed"},
   vaddr : [Bufs -> {"uninit", "null", "mapped", "failed"}], list : Seq(Bufs),
   leaked : BOOLEAN, alive : BOOLEAN,
   status : {"INITIALIZED", "STARTED", "STOPPED"}, initialized : {0, 1},
   idxRecovery : 0..nMaxRecovery, skip_all : BOOLEAN,
   displayed : Bufs \cup {LastFrame, NullFrame, NoFrame},
   good_seen : BOOLEAN, wanted : BOOLEAN]

TypeOK ==
  /\ dev \in Devs /\ dev.idxRecovery < nMaxRecovery
  /\ turn \in {"message", "frame"}
  /\ booting \in BOOLEAN

Started == dev.status = "STARTED"

Runs(s) ==
  /\ s.streaming
  /\ s.n_allocated_buf = NUM_VIDBUF
  /\ s.buffers = "live"
  /\ \A b \in Bufs : s.vaddr[b] \in {"mapped", "failed"}

(* The status says STARTED only while the driver streams into a complete,  *)
(* initialised set of buffers, whatever call failed in whatever earlier    *)
(* start, stop, handover or recovery (camera.c:662, 755-823).              *)
StartedRuns == Started => Runs(dev)

(* The thread never reads a frame that is not mapped, never unmaps an      *)
(* address that was never written, never frees the array twice and never   *)
(* touches it after the free: stop, failed start and recovery may follow   *)
(* each other in any order (video_input.c:876-906, camera.c:825-870).      *)
MemorySafe == dev.alive

Distinct(line) == \A i, j \in 1..Len(line) : i # j => line[i] # line[j]

Apart(line, other) ==
  \A i \in 1..Len(line), j \in 1..Len(other) : line[i] # other[j]

Owned(s) ==
  /\ Distinct(s.queue) /\ Distinct(s.done) /\ Distinct(s.list)
  /\ Apart(s.queue, s.done)
  /\ Apart(s.queue, s.list)
  /\ Apart(s.done, s.list)

(* While the preview runs, a buffer is with the driver or on buf_list or   *)
(* lost, never in two places: the list is emptied by every start, so that  *)
(* a frame held back by an earlier session is not taken for one of this    *)
(* (camera.c:1186-1241, video_input.c:851).                                *)
Ownership == Started => Owned(dev)

(* One frame at most is held back between two iterations: the preview lags *)
(* by one frame and the driver keeps the others (camera.c:1233-1239).      *)
HeldBack == Started => Len(dev.list) <= 1

(* A frame is shown only after a good frame came in since STREAMON: what   *)
(* an earlier session had learnt of the path does not count                *)
(* (camera.c:706, 767, 1140-1145).                                         *)
GoodFirst == Started /\ dev.displayed \in Bufs => dev.good_seen

(* The buffer that the overlay scans was queued to the driver already      *)
(* (camera.c:1192-1195), but the driver has it last in its line: it is     *)
(* overwritten only after every other buffer the driver has was filled.    *)
DisplayedLast ==
  \A i \in 1..Len(dev.queue) : dev.queue[i] = dev.displayed => i = Len(dev.queue)

(* No buffer is displayed once the preview is stopped: the layer is off    *)
(* before the buffers are unmapped and freed (camera.c:799-802).           *)
HiddenWhenStopped == dev.displayed \in Bufs => Started

(* dev->status moves as PreviewStatus says: an order has the effect that   *)
(* CameraControl counts on, and between orders nothing but a recovery that *)
(* fails changes the status (camera.c:697-726, 755-823, 1079-1129).        *)
Abs == INSTANCE PreviewStatus WITH
         status <- dev.status, Failures <- {"start", "recover"}

StatusMoves ==
  [][/\ Handover => Abs!Handover
     /\ Start => Abs!Start
     /\ Stop => Abs!Stop
     /\ NoOrder \/ Frame \/ Fill => UNCHANGED dev.status \/ Abs!RecoveryFails]_vars

(* The loop of the message thread never ends. *)
Fairness ==
  /\ WF_vars(Frame)
  /\ WF_vars(Handover \/ Start \/ Stop \/ NoOrder)

FairSpec == Spec /\ Fairness

(* A preview whose buffers were lost one by one, because they could not be *)
(* queued again, does not stay without buffers: check_recovery restarts it *)
(* (camera.c:1150-1162, 1079-1129).                                        *)
Starved == Started /\ dev.queue = <<>> /\ dev.done = <<>>

StarvationHeals == Starved ~> (dev.queue # <<>> \/ ~Started)

(* The picture does not freeze: whatever the driver does, and whatever     *)
(* buffers were lost, the frame that is displayed is followed by another   *)
(* one or taken off the display by a stop or a restart; a frozen picture   *)
(* behind a moving car is the worst that this program could show           *)
(* (camera.c:1027-1077, 1079-1129, 1186-1261).                             *)
KeepsMoving == \A b \in Bufs : (dev.displayed = b) ~> (dev.displayed # b)

(* A stream is never left running behind a status that says it is not, as  *)
(* long as STREAMOFF and the handover flag do not fail: a failed start     *)
(* leaves no stream that would make REQBUFS refuse every later start       *)
(* (camera.c:678-695, 755-823, video_input.c:1019-1051).                   *)
NoOrphanStream == dev.streaming => Started

(* The array of buffers is freed before the next one is allocated, as long *)
(* as nothing fails between malloc and STREAMON nor REQBUFS(0) at the end: *)
(* stop, start and recovery pair them (video_input.c:723-747, 876-906).    *)
NoLeak == ~dev.leaked

(* A restart that is tried again and again succeeds at last. *)
RetriesSucceed == SF_vars(Frame /\ dev'.status = "STARTED")

PersistentSpec == FairSpec /\ RetriesSucceed

(* --recovery=1: "recovery video-input path if it's not working"           *)
(* (main.c:97).  A preview that was started and that nobody stopped comes  *)
(* back.                                                                   *)
RecoveryPersists == dev.wanted ~> (Started \/ ~dev.wanted)

(* Where neither STREAMOFF nor a call up to STREAMON fails, it never went: *)
(* the restarts of check_recovery, for missed frames or an unstable        *)
(* source, give the preview back in the same step, however many there are  *)
(* and whatever was lost before (camera.c:755-823, 1079-1129).             *)
StaysStarted == dev.wanted => Started

(* With the flag of the handover reset as well, every order to start is    *)
(* carried out and nothing between the orders changes the status: no       *)
(* stream, array or count that a stop, a recovery or a handover leaves     *)
(* behind keeps a later start from succeeding (camera.c:697-726, 755-823,  *)
(* video_input.c:723-747).                                                 *)
OrdersSucceed ==
  [][/\ Start => dev'.status = "STARTED"
     /\ NoOrder \/ Frame \/ Fill => UNCHANGED dev.status]_vars

(* "If you do not exit here you should unmap() and free() the buffers      *)
(* mapped so far" (video_input.c:764-766): a preview does not run on       *)
(* buffers of which one could not be mapped.                               *)
StartedMapped == Started => \A b \in Bufs : dev.vaddr[b] = "mapped"
=============================================================================
