---------------------------- MODULE PreviewStatus ----------------------------
(***************************************************************************)
(* What the message thread promises about dev->status (camera.h, enum      *)
(* operation_status): which orders start and stop the preview, and that    *)
(* nothing else starts it.  Module Preview implements this; CameraControl  *)
(* uses it in the place of Preview.                                        *)
(***************************************************************************)
CONSTANT Failures   \* what may fail: "start" a preview, "recover" it

VARIABLE status     \* "INITIALIZED", "STARTED" or "STOPPED"

Init == status = "INITIALIZED"

(* do_handover: nothing starts when the video-input path was not running,  *)
(* or when a step of the handover fails.                                   *)
Handover == status' \in {status, "STARTED"}

(* do_start_preview *)
Start == status' \in IF "start" \in Failures THEN {status, "STARTED"} ELSE {"STARTED"}

(* do_stop_preview *)
Stop == status' = "STOPPED"

Serve(c) ==
  \/ c = "HANDOVER" /\ Handover
  \/ c = "START" /\ Start
  \/ c = "STOP" /\ Stop

(* check_recovery: the preview was stopped and could not be started again. *)
RecoveryFails ==
  /\ "recover" \in Failures
  /\ status = "STARTED"
  /\ status' = "STOPPED"

Next == (\E c \in {"HANDOVER", "START", "STOP"} : Serve(c)) \/ RecoveryFails

Spec == Init /\ [][Next]_status
=============================================================================
