----------------------------- MODULE MCPreview -------------------------------
(***************************************************************************)
(* Instances of Preview for TLC.                                           *)
(***************************************************************************)
EXTENDS Preview

(* Every call that the code looks at, except mmap and the two that decide  *)
(* what is on the display.                                                 *)
MCFaults ==
  {"lut", "format", "reqbufs", "malloc", "querybuf", "init_qbuf", "selection", "streamon",
   "streamoff", "qbuf", "dqbuf", "source", "lastframe", "create", "s_handover"}

(* Calls that fail before anything is allocated, and while frames flow. *)
MCFrameFaults == {"lut", "format", "lastframe", "qbuf", "dqbuf", "poll", "source"}

(* Calls without which a preview is still stopped and started; not mmap,   *)
(* whose failure ends the process at the next frame.                       *)
MCOtherFaults ==
  {"qbuf", "dqbuf", "poll", "source", "show", "disable", "lastframe", "create"}
=============================================================================
