------------------------------ MODULE CameraApp ------------------------------
(***************************************************************************)
(* The whole application: the threads, pipes and signals of CameraControl  *)
(* around the message thread of Preview with its buffers and the driver,   *)
(* instead of the bare status that CameraControl has in its place.         *)
(*                                                                         *)
(* The message thread takes one message at most per turn of its loop,      *)
(* carries it out, acknowledges it, and then looks at one frame.  The      *)
(* driver goes on filling buffers while the process is stopped.            *)
(***************************************************************************)
EXTENDS Integers, Sequences, FiniteSets

CONSTANTS
  SigThreads, Failures, MaxSuspends,                  \* of CameraControl
  NUM_VIDBUF, Faults, io_mode, recovery, ignore_ovp   \* of Preview

(* What the two modules assume of their constants. *)
ASSUME AppAssumption ==
  /\ SigThreads \subseteq {"main", "switch", "message"}
  /\ Failures \subseteq {"start", "recover", "read"}
  /\ MaxSuspends \in Nat
  /\ NUM_VIDBUF \in Nat \ {0, 1}
  /\ recovery \in {0, 1} /\ ignore_ovp \in {0, 1}

VARIABLES
  cmd, ack, msg, call,                               \* the pipes
  main, poll, sw_curr, lever,                        \* the threads that order
  is_suspended, handler, pending, stopped, suspends, overlap,
  dev,                                               \* the camera
  turn                                               \* half of the message thread's loop

control == <<cmd, ack, msg, call, main, poll, sw_curr, lever,
             is_suspended, handler, pending, stopped, suspends, overlap>>

vars == <<control, dev, turn>>

C == INSTANCE CameraControl WITH status <- dev.status

(* What Preview sees of the rest: whether the handover is still to come,   *)
(* and that its turn is over once the order was carried out.               *)
Booting ==
  \/ main = "handover"
  \/ \E i \in 1..Len(cmd) : cmd[i].command = "HANDOVER"
  \/ msg # <<>> /\ msg[1].command = "HANDOVER" /\ ~msg[1].acked

OrderDone == msg # <<>> /\ msg[1].acked

V == INSTANCE Preview WITH
       turn <- IF OrderDone THEN "frame" ELSE turn, booting <- Booting

Init ==
  /\ dev = V!Cleared
  /\ turn = "message"
  /\ C!Init

-----------------------------------------------------------------------------
(* The steps of main, the switch thread and the handlers leave the camera  *)
(* alone.                                                                  *)
Elsewhere == UNCHANGED <<dev, turn>>

MainThread == Elsewhere /\ C!MainStep
SwitchThread == Elsewhere /\ C!SwitchStep
SwitchReturns == Elsewhere /\ C!SwitchGet
HandlerThread(t) == Elsewhere /\ C!HandlerStep(t)
HandlerReturns(t) == Elsewhere /\ C!HandlerGet(t)
Delivery == Elsewhere /\ (C!DefaultStop \/ \E t \in SigThreads : C!EnterHandler(t))
Continue == Elsewhere /\ C!HandleCont

World == Elsewhere /\ (C!MoveLever \/ C!SendTstp \/ C!SendCont)

-----------------------------------------------------------------------------
(* threadMessageHandle *)
Turns == C!Runs("message") /\ dev.alive

Take == Turns /\ turn = "message" /\ Elsewhere /\ C!Take

Results(c) ==
  CASE c = "HANDOVER" -> V!DoHandover(dev)
    [] c = "START" -> V!DoStartPreview(dev)
    [] c = "STOP" -> V!DoStopPreview(dev)

(* handle_a_message: the order is carried out before it is acknowledged.   *)
Dispatch ==
  /\ Turns
  /\ C!Q!Dispatch
  /\ \E s \in Results(msg[1].command) : dev' = [s EXCEPT !.wanted = (s.status = "STARTED")]
  /\ UNCHANGED <<turn, main, poll, sw_curr, lever,
                 is_suspended, handler, pending, stopped, suspends, overlap>>

Acknowledge_NoFrame == Turns /\ UNCHANGED <<dev, turn>> /\ C!Acknowledge

Acknowledge == Turns /\ UNCHANGED dev /\ turn' = "frame" /\ C!Acknowledge

NoMessage ==
  /\ Turns
  /\ turn = "message" /\ msg = <<>> /\ cmd = <<>>
  /\ turn' = "frame"
  /\ UNCHANGED <<control, dev>>

Frame_AlwaysLooks ==
  /\ Turns
  /\ turn = "frame"
  /\ turn' = "message"
  /\ dev' \in V!PreviewBuffer(dev)
  /\ UNCHANGED control

Frame ==
  /\ Turns
  /\ turn = "frame"
  /\ turn' = "message"
  /\ dev' \in IF dev.status = "STARTED" THEN V!PreviewBuffer(dev) ELSE {dev}
  /\ UNCHANGED control

MessageThread == Take \/ Dispatch \/ Acknowledge \/ NoMessage \/ Frame

(* The driver does not stop with the process. *)
Fill ==
  /\ dev.alive /\ dev.streaming /\ dev.queue # <<>>
  /\ dev' = V!Filled(dev)
  /\ UNCHANGED <<control, turn>>

Next ==
  \/ MainThread
  \/ SwitchThread
  \/ \E t \in C!Threads : HandlerThread(t)
  \/ Delivery
  \/ Continue
  \/ World
  \/ MessageThread
  \/ Fill

Spec == Init /\ [][Next]_vars

(* As in CameraControl; besides, the driver fills the buffers it has, and  *)
(* a camera that delivers frames for ever delivers a good one.             *)
GoodFrame == Frame /\ dev'.initialized = 1

Fairness ==
  /\ WF_vars(MainThread)
  /\ WF_vars(SwitchThread) /\ SF_vars(SwitchReturns)
  /\ \A t \in C!Threads : WF_vars(HandlerThread(t)) /\ SF_vars(HandlerReturns(t))
  /\ WF_vars(Delivery)
  /\ WF_vars(Continue)
  /\ WF_vars(MessageThread)
  /\ WF_vars(Fill)
  /\ SF_vars(GoodFrame)

FairSpec == Spec /\ Fairness

-----------------------------------------------------------------------------
(* The application does what CameraControl says of its threads: the frames *)
(* between the orders, with their recoveries, move the status only as      *)
(* PreviewStatus allows (camera.c:1263-1333).                              *)
ImplementsControl == C!Spec

(* The message thread behaves as Preview says, under the orders that the   *)
(* threads really give: the handover is carried out before any other order *)
(* (main.c:385-458, camera.c:1308-1333).                                   *)
ImplementsPreview == V!Spec

Picture == dev.displayed \in V!Bufs

(* The process is stopped by its handler with no frame on the display,     *)
(* but for the window that StopsDark of CameraControl names                *)
(* (main.c:265-280, camera.c:782-823).                                     *)
StopsHidden == stopped /\ C!HandlesTstp /\ ~overlap => ~Picture

(* With the switch thread at rest on "off" no frame is on the display      *)
(* (main.c:353-362, camera.c:782-823).                                     *)
OffIsHidden == C!Q!Awaiting = {} /\ poll = "sleep" /\ sw_curr = 0 => ~Picture

(* With the switch thread at rest on "on", and nobody suspended so far, it *)
(* is not the status alone that says so: the driver streams into a whole   *)
(* set of buffers.  It speaks of calls that succeed, frames that are lost  *)
(* apart (main.c:346-362, camera.c:755-781, 1079-1129).                    *)
OnStreams ==
  C!Q!Awaiting = {} /\ poll = "sleep" /\ sw_curr = 1 /\ suspends = 0 => V!Runs(dev)

(* A lever that stays on brings the picture, unless the path misses frames *)
(* so often that check_recovery keeps restarting it.  It speaks of         *)
(* behaviours without a suspension: one that falls between two polls of    *)
(* the switch is never made good (main.c:340-367, camera.c:1079-1261).     *)
OnBringsPicture ==
  <>[](lever = 1 /\ suspends = 0)
    => []<>(Picture \/ dev.idxRecovery = V!nMaxRecovery - 1)

(* A lever that stays off takes the picture away for good, in a process    *)
(* that is not left stopped (main.c:265-280, 340-367, camera.c:782-823).   *)
OffTakesPicture == <>[](lever = 0 /\ ~stopped) => <>[]~Picture
=============================================================================
