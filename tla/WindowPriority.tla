--------------------------- MODULE WindowPriority ----------------------------
(***************************************************************************)
(* Whether the picture is on the screen: the order of the four layers of   *)
(* the mixer, which the application sets through camera IPC and through    *)
(* the overlay driver (camera.c:422-544, video_output.c, overlay.c,        *)
(* cam_ipc.c), and whether the layer is enabled.                           *)
(*                                                                         *)
(* An ovp is a number that the mixer takes for an order of its layers,     *)
(* from the top to the bottom; the table ovp_list of overlay.c gives the   *)
(* orders.  The layer of the camera is one of Layers, and which of the     *)
(* four it is in its mixer is its number modulo 4.  The mixer and the      *)
(* core behind camera IPC are external; a request to that core which       *)
(* times out may have been served or not.                                  *)
(***************************************************************************)
EXTENDS Integers, Sequences

CONSTANTS
  Layers,      \* what OVERLAY_GET_LAYER may answer
  GivenOvps,   \* values for --foreground_ovp and --background_ovp, besides -1
  BootOvps     \* what the mixer may hold before the application runs

Calls == {"ipc", "set", "disable"}

VARIABLES
  option,      \* [fovp, bovp, ignore_ovp], -1 for an ovp that was not given
  rdma_layer,
  wmix,        \* [fovp, bovp], the fields wmix_fovp and wmix_bovp
  phase,       \* "start", "open", or "failed" when the opening failed
  ovp,         \* the register of the mixer
  enabled,     \* the layer scans a buffer
  asked,       \* the last order: "none", "show" or "hide"
  failed       \* the calls that fail while it is carried out

vars == <<option, rdma_layer, wmix, phase, ovp, enabled, asked, failed>>

NUM_OF_OVPS == 30

(* ovp_list, in rows of eight of which the last two are not in use. *)
ovp_list ==
  LET orders == << <<3,0,1,2>>, <<3,1,0,2>>, <<3,0,2,1>>, <<3,2,0,1>>, <<3,1,2,0>>, <<3,2,1,0>>,
                   <<2,0,1,3>>, <<2,1,0,3>>, <<2,0,3,1>>, <<2,3,0,1>>, <<2,1,3,0>>, <<2,3,1,0>>,
                   <<1,0,2,3>>, <<1,2,0,3>>, <<1,2,0,3>>, <<1,3,0,2>>, <<1,2,3,0>>, <<1,3,2,0>>,
                   <<0,1,2,3>>, <<0,2,1,3>>, <<0,1,3,2>>, <<0,3,1,2>>, <<0,2,3,1>>, <<0,3,2,1>> >>
  IN  [i \in 0..(NUM_OF_OVPS - 1) |->
         IF i % 8 < 6 THEN orders[6 * (i \div 8) + (i % 8) + 1] ELSE <<0, 0, 0, 0>>]

-----------------------------------------------------------------------------
(* The digits of prio_value: the camera's layer on top, the others each at *)
(* the place of its number; the place of the camera's layer stays 0.       *)
PrioValue(layer) ==
  [i \in 1..4 |-> IF i = 1 THEN layer ELSE IF i - 1 = layer THEN 0 ELSE i - 1]

(* The search in ovp_list gives its length when it finds nothing. *)
IdxOvp(prio_value) ==
  LET found == {i \in DOMAIN ovp_list : ovp_list[i] = prio_value}
  IN  IF found = {} THEN NUM_OF_OVPS ELSE CHOOSE i \in found : \A j \in found : i <= j

(* overlay_get_default_ovps *)
DefaultOvps(layer) == [fovp |-> IdxOvp(PrioValue(layer % 4)), bovp |-> 24]

Init ==
  /\ option \in [fovp : {-1} \cup GivenOvps, bovp : {-1} \cup GivenOvps, ignore_ovp : {0, 1}]
  /\ rdma_layer \in Layers
  /\ wmix = [fovp |-> option.fovp, bovp |-> option.bovp]
  /\ phase = "start"
  /\ ovp \in BootOvps
  /\ enabled \in BOOLEAN
  /\ asked = "none"
  /\ failed = {}

(* video_output_init_params *)
InitParams ==
  /\ phase = "start"
  /\ IF wmix.fovp = -1 \/ wmix.bovp = -1
     THEN \/ phase' = "open" /\ wmix' = DefaultOvps(rdma_layer)
          \/ phase' = "failed" /\ UNCHANGED wmix
     ELSE phase' = "open" /\ UNCHANGED wmix
  /\ UNCHANGED <<option, rdma_layer, ovp, enabled, asked, failed>>

-----------------------------------------------------------------------------
(* camera_get_corresponding_ovp, and alike video_output_set_window_priority *)
Corresponding(show) == IF show = 1 THEN wmix.fovp ELSE wmix.bovp

(* camera_configure_vout_ovp: cam_ipc_set_wmixer_ovp answers a number      *)
(* above 0 for success and -1 for failure, so that the fall-back is taken  *)
(* in both cases and the overlay driver always has the last word.          *)
Register(show, fails) ==
  IF "set" \notin fails THEN {Corresponding(show)}
  ELSE IF "ipc" \notin fails THEN {Corresponding(show)} ELSE {Corresponding(show), ovp}

(* camera_configure_vout_path *)
Enabled(show, fails) == IF show # 1 /\ "disable" \notin fails THEN FALSE ELSE enabled

ShowVideoOutput_StopsAtFailure(show, fails) ==
  IF option.ignore_ovp = 1 THEN UNCHANGED <<ovp, enabled>>
  ELSE /\ ovp' \in Register(show, fails)
       /\ enabled' = IF "set" \in fails THEN enabled ELSE Enabled(show, fails)

(* camera_show_video_output: a failure of the first part is logged. *)
ShowVideoOutput(show, fails) ==
  IF option.ignore_ovp = 1 THEN UNCHANGED <<ovp, enabled>>
  ELSE /\ ovp' \in Register(show, fails)
       /\ enabled' = Enabled(show, fails)

Order(name, show) ==
  /\ phase = "open"
  /\ asked' = name
  /\ failed' \in SUBSET Calls
  /\ ShowVideoOutput(show, failed')
  /\ UNCHANGED <<option, rdma_layer, wmix, phase>>

Show == Order("show", 1)

Hide == Order("hide", 0)

(* A buffer is pushed to the overlay, which enables the layer: the last    *)
(* frame of the handover before any order, a frame while shown.            *)
Push ==
  /\ phase = "open"
  /\ asked # "hide"
  /\ enabled' = TRUE
  /\ UNCHANGED <<option, rdma_layer, wmix, phase, ovp, asked, failed>>

Next == InitParams \/ Show \/ Hide \/ Push

Spec == Init /\ [][Next]_vars

-----------------------------------------------------------------------------
TypeOK ==
  /\ option \in [fovp : {-1} \cup GivenOvps, bovp : {-1} \cup GivenOvps, ignore_ovp : {0, 1}]
  /\ rdma_layer \in Layers
  /\ phase = "open" =>
       wmix \in [fovp : DOMAIN ovp_list \cup GivenOvps, bovp : DOMAIN ovp_list \cup GivenOvps]
  /\ ovp \in DOMAIN ovp_list \cup GivenOvps \cup BootOvps
  /\ enabled \in BOOLEAN
  /\ asked \in {"none", "show", "hide"}
  /\ failed \subseteq Calls

Camera == rdma_layer % 4

OnTop == ovp_list[ovp][1] = Camera

Defaults == option.fovp = -1 \/ option.bovp = -1

Obeyed == phase = "open" /\ option.ignore_ovp = 0

Raised == asked = "show" /\ ~({"ipc", "set"} \subseteq failed) => OnTop

EitherHides ==
  asked = "hide" /\ Camera # 0 /\ ~(Calls \subseteq failed)
    => ~(enabled /\ OnTop)

(* With the default ovps an order to show puts the camera's layer above    *)
(* every other, whichever layer it is, if one of the two ways to the mixer *)
(* works.  Two measures hide the picture, the order of the layers and the  *)
(* disabling of the layer, and either is enough, except for layer 0, which *)
(* the background ovp 24 leaves on top (camera.c:467-544, overlay.c:128-   *)
(* 152).                                                                   *)
ShowsAndHides == Obeyed /\ Defaults => Raised /\ EitherHides
=============================================================================
