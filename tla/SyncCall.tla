------------------------------ MODULE SyncCall -------------------------------
(***************************************************************************)
(* What the pair of pipes promises to the functions that camera.h exports  *)
(* (camera_handover, camera_start_preview, camera_stop_preview): a call is *)
(* requested, its command is executed exactly once by the message thread,  *)
(* and only then the call returns.                                         *)
(***************************************************************************)
CONSTANT Requesters

VARIABLE phase   \* per requester: "idle", "requested" or "executed"

Init == phase = [r \in Requesters |-> "idle"]

Step(r, from, to) ==
  /\ phase[r] = from
  /\ phase' = [phase EXCEPT ![r] = to]

Request(r) == Step(r, "idle", "requested")

Execute(r) == Step(r, "requested", "executed")

Return(r) == Step(r, "executed", "idle")

Next == \E r \in Requesters : Request(r) \/ Execute(r) \/ Return(r)

Spec == Init /\ [][Next]_phase
=============================================================================
