-------------------------------- MODULE Parts --------------------------------
(***************************************************************************)
(* The parts that share nothing with the preview nor with each other, one  *)
(* run for all: a behaviour is one of part, and the variables of the other *)
(* parts stay what they are at the start.                                  *)
(***************************************************************************)
EXTENDS Integers, Sequences, FiniteSets

CONSTANTS
  Entries, buf_list, Wild, LIST_POISON1, LIST_POISON2,         \* BufList
  Senders, Receivers, Size, Capacity,                          \* MessagePipe
  Layers, GivenOvps, BootOvps,                                 \* WindowPriority
  Requesters, Outcomes, MaxProcs,                              \* BootLog
  Names, Counts, Failures, NUM_VIDBUF, MaxFrames, MaxBoots     \* Capture

VARIABLES
  part,                                                     \* which of them this is
  next, prev, live, pc, sound,                              \* BufList
  pipe, write_bytes, at, read_into,                         \* MessagePipe
  option, rdma_layer, wmix, phase, ovp, enabled, asked, failed,   \* WindowPriority
  boot_profile, g_log_level, main, procs, cmd, ack, call,   \* BootLog
  boot, since, format, to_capture, cnt_to_capture, capture_idx, initialized,
  queue, done, list, content, filling, frames, held, size, pos, disk   \* Capture

L == INSTANCE BufList WITH Bufs <- Entries
M == INSTANCE MessagePipe      \* the acknowledge pipe
W == INSTANCE WindowPriority
B == INSTANCE BootLog
K == INSTANCE Capture WITH asked <- to_capture, at <- held

ListAssumption ==
  /\ IsFiniteSet(Entries)
  /\ buf_list \notin Entries /\ Wild \notin Entries
PipeAssumption == Size \in Nat \ {0} /\ Capacity \in Nat
ScreenAssumption == Layers \subseteq Nat
CaptureAssumption ==
  /\ NUM_VIDBUF \in Nat /\ MaxFrames \in Nat /\ MaxBoots \in Nat \ {0}
  /\ Names \subseteq K!Known /\ Counts \subseteq Int

ASSUME PartsAssumption ==
  ListAssumption /\ PipeAssumption /\ ScreenAssumption /\ CaptureAssumption

list_vars == <<next, prev, live, pc, sound>>
pipe_vars == <<pipe, write_bytes, at, read_into>>
screen_vars == <<option, rdma_layer, wmix, phase, ovp, enabled, asked, failed>>
log_vars == <<boot_profile, g_log_level, main, procs, cmd, ack, call>>
capture_vars ==
  <<boot, since, format, to_capture, cnt_to_capture, capture_idx, initialized, queue, done, list,
    content, filling, frames, held, size, pos, disk>>
vars == <<part, list_vars, pipe_vars, screen_vars, log_vars, capture_vars>>

Init ==
  /\ part \in {"list", "pipe", "screen", "log", "capture"}
  /\ L!Init /\ M!Init /\ W!Init /\ B!Init /\ K!Init
  /\ part # "screen" =>
       /\ option = [fovp |-> -1, bovp |-> -1, ignore_ovp |-> 0]
       /\ rdma_layer = CHOOSE layer \in Layers : TRUE
       /\ ovp = CHOOSE o \in BootOvps : TRUE
       /\ enabled = FALSE
  /\ part # "log" => boot_profile = 0
  /\ part # "capture" =>
       /\ format = K!FormatByName(CHOOSE name \in Names : TRUE)
       /\ to_capture = CHOOSE count \in Counts : TRUE
Next ==
  \/ part = "list" /\ L!Next /\ UNCHANGED <<part, pipe_vars, screen_vars, log_vars, capture_vars>>
  \/ part = "pipe" /\ M!Next /\ UNCHANGED <<part, list_vars, screen_vars, log_vars, capture_vars>>
  \/ part = "screen" /\ W!Next /\ UNCHANGED <<part, list_vars, pipe_vars, log_vars, capture_vars>>
  \/ part = "log" /\ B!Next /\ UNCHANGED <<part, list_vars, pipe_vars, screen_vars, capture_vars>>
  \/ part = "capture" /\ K!Next /\ UNCHANGED <<part, list_vars, pipe_vars, screen_vars, log_vars>>

(* At its start the boot log has no step that it is bound to take, so that *)
(* its fairness asks nothing of the other parts.                           *)
Spec == Init /\ [][Next]_vars /\ B!Fairness

-----------------------------------------------------------------------------
(* The types of the parts. *)
TypeOK == M!TypeOK /\ W!TypeOK /\ K!TypeOK

(* No wild, poisoned or stale pointer of the buffer list is followed, and  *)
(* both its directions agree (list.h:62-118, video_input.c:852-892).       *)
Sound == L!Sound

(* The buffer list in memory is the queue that module Preview takes it for *)
(* (camera.c:1186-1241).                                                   *)
IsAQueue == L!IsAQueue

(* The pipe is a mailbox of whole messages (message_queue.c:58-111).       *)
IsMailbox == M!IsMailbox

(* An order to show that gets through either way puts the camera on top,   *)
(* and an order to hide hides if one of its two measures works, but for    *)
(* layer 0 (overlay.c:128-152, camera.c:467-544).                          *)
ShowsAndHides == W!ShowsAndHides

(* Callers see one synchronous message thread, whatever children go on in  *)
(* the place of their parents (klog.c:25-43, camera.c:1263-1306).          *)
SyncCalls == B!SyncCalls

(* Their calls return (klog.c:41, camera.c:1348-1352).                     *)
CallsReturn == B!CallsReturn

(* A file never mixes two frames, and files are in the order of frames     *)
(* (camera.c:972-1025, 1150-1196).                                         *)
FramesInOrder == K!FramesInOrder

(* No more files than were asked for (camera.c:972-1025).                  *)
NoMoreThanAsked == K!NoMoreThanAsked
=============================================================================
