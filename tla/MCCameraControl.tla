--------------------------- MODULE MCCameraControl ---------------------------
(***************************************************************************)
(* Instances of CameraControl for TLC.                                     *)
(***************************************************************************)
EXTENDS CameraControl

(* No thread blocks SIGTSTP: the kernel may run its handler on any.        *)
MCSigThreads == {"main", "switch", "message"}
=============================================================================
