------------------------- MODULE WindowPriorityProofs -------------------------
(***************************************************************************)
(* WindowPriority, whichever layer is the camera's, whatever ovps the      *)
(* options and the boot loader gave, and whichever calls fail.             *)
(*                                                                         *)
(* The search of overlay_get_default_ovps finds an order with the camera's *)
(* layer on top, by the table; the invariant then says which ovp the mixer *)
(* has after each order.                                                   *)
(***************************************************************************)
EXTENDS WindowPriority, TLAPS

(* The digit on top, row after row of the table. *)
LEMMA Tops ==
  /\ \A i \in 0..5 : ovp_list[i][1] = 3
  /\ \A i \in {6, 7, 14, 15, 22, 23} : ovp_list[i] = <<0, 0, 0, 0>>
  /\ \A i \in 8..13 : ovp_list[i][1] = 2
  /\ \A i \in 16..21 : ovp_list[i][1] = 1
<1>1. \A i \in 0..5 : ovp_list[i][1] = 3
  <2> SUFFICES ASSUME NEW i \in 0..5 PROVE ovp_list[i][1] = 3
    OBVIOUS
  <2>1. i \in 0..29 /\ i % 8 < 6 /\ 6 * (i \div 8) + (i % 8) + 1 = i + 1
    OBVIOUS
  <2> QED  BY <2>1 DEF ovp_list, NUM_OF_OVPS
<1>2. \A i \in {6, 7, 14, 15, 22, 23} : ovp_list[i] = <<0, 0, 0, 0>>
  <2> SUFFICES ASSUME NEW i \in {6, 7, 14, 15, 22, 23} PROVE ovp_list[i] = <<0, 0, 0, 0>>
    OBVIOUS
  <2>1. i \in 0..29 /\ ~(i % 8 < 6)
    OBVIOUS
  <2> QED  BY <2>1 DEF ovp_list, NUM_OF_OVPS
<1>3. \A i \in 8..13 : ovp_list[i][1] = 2
  <2> SUFFICES ASSUME NEW i \in 8..13 PROVE ovp_list[i][1] = 2
    OBVIOUS
  <2>1. i \in 0..29 /\ i % 8 < 6 /\ 6 * (i \div 8) + (i % 8) + 1 = i - 1
    OBVIOUS
  <2> QED  BY <2>1 DEF ovp_list, NUM_OF_OVPS
<1>4. \A i \in 16..21 : ovp_list[i][1] = 1
  <2> SUFFICES ASSUME NEW i \in 16..21 PROVE ovp_list[i][1] = 1
    OBVIOUS
  <2>1. i \in 0..29 /\ i % 8 < 6 /\ 6 * (i \div 8) + (i % 8) + 1 = i - 3
    OBVIOUS
  <2> QED  BY <2>1 DEF ovp_list, NUM_OF_OVPS
<1> QED  BY <1>1, <1>2, <1>3, <1>4

LEMMA Entries ==
  /\ ovp_list[0] = <<3,0,1,2>> /\ ovp_list[1] = <<3,1,0,2>> /\ ovp_list[2] = <<3,0,2,1>>
  /\ ovp_list[3] = <<3,2,0,1>> /\ ovp_list[4] = <<3,1,2,0>> /\ ovp_list[8] = <<2,0,1,3>>
  /\ ovp_list[9] = <<2,1,0,3>> /\ ovp_list[16] = <<1,0,2,3>> /\ ovp_list[24] = <<0,1,2,3>>
BY DEF ovp_list, NUM_OF_OVPS

LEMMA Values ==
  /\ PrioValue(0) = <<0,1,2,3>>
  /\ PrioValue(1) = <<1,0,2,3>>
  /\ PrioValue(2) = <<2,1,0,3>>
  /\ PrioValue(3) = <<3,1,2,0>>
BY DEF PrioValue

LEMMA FirstFound ==
  ASSUME NEW v, NEW n \in DOMAIN ovp_list, ovp_list[n] = v,
         \A i \in DOMAIN ovp_list : i < n => ovp_list[i] # v
  PROVE  IdxOvp(v) = n
<1>1. DOMAIN ovp_list = 0..29
  BY DEF ovp_list, NUM_OF_OVPS
<1> DEFINE found == {i \in DOMAIN ovp_list : ovp_list[i] = v}
<1>2. n \in found /\ \A j \in found : n <= j
  BY <1>1
<1>3. \A i \in found : (\A j \in found : i <= j) => i = n
  BY <1>1, <1>2
<1>4. IdxOvp(v) = IF found = {} THEN NUM_OF_OVPS ELSE CHOOSE i \in found : \A j \in found : i <= j
  BY DEF IdxOvp
<1> HIDE DEF found
<1> QED  BY <1>2, <1>3, <1>4

(* What overlay_get_default_ovps looks for is in the table, for every      *)
(* layer, and has that layer on top.                                       *)
LEMMA DefaultOnTop ==
  ASSUME NEW layer \in 0..3
  PROVE  /\ IdxOvp(PrioValue(layer)) \in DOMAIN ovp_list
         /\ ovp_list[IdxOvp(PrioValue(layer))][1] = layer
<1>0. DOMAIN ovp_list = 0..29
  BY DEF ovp_list, NUM_OF_OVPS
<1>1. CASE layer = 0
  <2>1. \A i \in 0..23 : ovp_list[i] # <<0,1,2,3>>
    <3> SUFFICES ASSUME NEW i \in 0..23 PROVE ovp_list[i][1] # 0 \/ ovp_list[i][2] # 1
      OBVIOUS
    <3>1. CASE i \in {6, 7, 14, 15, 22, 23}
      <4>1. ovp_list[i] = <<0, 0, 0, 0>>
        BY <3>1, Tops
      <4> QED  BY <4>1
    <3>2. CASE i \in 0..5 \/ i \in 8..13 \/ i \in 16..21
      BY <3>2, Tops
    <3> QED  BY <3>1, <3>2
  <2>2. IdxOvp(PrioValue(0)) = 24
    <3>1. 24 \in DOMAIN ovp_list /\ ovp_list[24] = <<0,1,2,3>>
      BY <1>0, Entries
    <3>2. \A i \in DOMAIN ovp_list : i < 24 => ovp_list[i] # <<0,1,2,3>>
      BY <1>0, <2>1
    <3>3. IdxOvp(<<0,1,2,3>>) = 24
      BY <3>1, <3>2, FirstFound
    <3> QED  BY <3>3, Values
  <2> QED  BY <1>0, <1>1, <2>2, Entries
<1>2. CASE layer = 1
  <2>1. \A i \in 0..15 : ovp_list[i] # <<1,0,2,3>>
    <3> SUFFICES ASSUME NEW i \in 0..15 PROVE ovp_list[i][1] # 1
      OBVIOUS
    <3>1. CASE i \in {6, 7, 14, 15}
      <4>1. ovp_list[i] = <<0, 0, 0, 0>>
        BY <3>1, Tops
      <4> QED  BY <4>1
    <3>2. CASE i \in 0..5 \/ i \in 8..13
      BY <3>2, Tops
    <3> QED  BY <3>1, <3>2
  <2>2. IdxOvp(PrioValue(1)) = 16
    <3>1. 16 \in DOMAIN ovp_list /\ ovp_list[16] = <<1,0,2,3>>
      BY <1>0, Entries
    <3>2. \A i \in DOMAIN ovp_list : i < 16 => ovp_list[i] # <<1,0,2,3>>
      BY <1>0, <2>1
    <3>3. IdxOvp(<<1,0,2,3>>) = 16
      BY <3>1, <3>2, FirstFound
    <3> QED  BY <3>3, Values
  <2> QED  BY <1>0, <1>2, <2>2, Entries
<1>3. CASE layer = 2
  <2>1. \A i \in 0..8 : ovp_list[i] # <<2,1,0,3>>
    <3> SUFFICES ASSUME NEW i \in 0..8 PROVE ovp_list[i][1] # 2 \/ ovp_list[i][2] # 1
      OBVIOUS
    <3>1. CASE i \in {6, 7}
      <4>1. ovp_list[i] = <<0, 0, 0, 0>>
        BY <3>1, Tops
      <4> QED  BY <4>1
    <3>2. CASE i \in 0..5
      BY <3>2, Tops
    <3>3. CASE i = 8
      BY <3>3, Entries
    <3> QED  BY <3>1, <3>2, <3>3
  <2>2. IdxOvp(PrioValue(2)) = 9
    <3>1. 9 \in DOMAIN ovp_list /\ ovp_list[9] = <<2,1,0,3>>
      BY <1>0, Entries
    <3>2. \A i \in DOMAIN ovp_list : i < 9 => ovp_list[i] # <<2,1,0,3>>
      BY <1>0, <2>1
    <3>3. IdxOvp(<<2,1,0,3>>) = 9
      BY <3>1, <3>2, FirstFound
    <3> QED  BY <3>3, Values
  <2> QED  BY <1>0, <1>3, <2>2, Entries
<1>4. CASE layer = 3
  <2>1. \A i \in 0..3 : ovp_list[i] # <<3,1,2,0>>
    BY Entries
  <2>2. IdxOvp(PrioValue(3)) = 4
    <3>1. 4 \in DOMAIN ovp_list /\ ovp_list[4] = <<3,1,2,0>>
      BY <1>0, Entries
    <3>2. \A i \in DOMAIN ovp_list : i < 4 => ovp_list[i] # <<3,1,2,0>>
      BY <1>0, <2>1
    <3>3. IdxOvp(<<3,1,2,0>>) = 4
      BY <3>1, <3>2, FirstFound
    <3> QED  BY <3>3, Values
  <2> QED  BY <1>0, <1>4, <2>2, Entries
<1> QED  BY <1>1, <1>2, <1>3, <1>4

-----------------------------------------------------------------------------
(* What the last order has done. *)
Carried ==
  /\ asked = "show" /\ ~({"ipc", "set"} \subseteq failed) => ovp = wmix.fovp
  /\ asked = "hide" /\ ~({"ipc", "set"} \subseteq failed) => ovp = wmix.bovp
  /\ asked = "hide" /\ "disable" \notin failed => ~enabled

Inv ==
  /\ rdma_layer \in Layers
  /\ phase = "start" => wmix = [fovp |-> option.fovp, bovp |-> option.bovp]
  /\ phase # "open" => asked = "none"
  /\ phase = "open" /\ Defaults => wmix = DefaultOvps(rdma_layer)
  /\ Obeyed => Carried

LEMMA InitInv == Init => Inv
BY DEF Init, Inv, Obeyed

LEMMA OrderInv ==
  ASSUME Inv, NEW name, NEW show \in {0, 1}, <<name, show>> \in {<<"show", 1>>, <<"hide", 0>>},
         Order(name, show)
  PROVE  Inv'
<1>0. /\ phase = "open" /\ phase' = "open" /\ asked' = name
      /\ UNCHANGED <<option, rdma_layer, wmix>>
      /\ ShowVideoOutput(show, failed')
  BY DEF Order
<1>1. Defaults' = Defaults /\ DefaultOvps(rdma_layer)' = DefaultOvps(rdma_layer)
  BY <1>0 DEF Defaults, DefaultOvps
<1>2. ASSUME Obeyed'
      PROVE  Carried'
  <2>0. option.ignore_ovp # 1
    BY <1>0, <1>2 DEF Obeyed
  <2>1. /\ ovp' \in Register(show, failed')
        /\ enabled' = Enabled(show, failed')
    BY <1>0, <2>0, Zenon DEF ShowVideoOutput
  <2>2. ~({"ipc", "set"} \subseteq failed') => ovp' = Corresponding(show)
    BY <2>1 DEF Register
  <2>3. CASE name = "show" /\ show = 1
    BY <1>0, <2>2, <2>3 DEF Carried, Corresponding
  <2>4. CASE name = "hide" /\ show = 0
    <3>1. "disable" \notin failed' => enabled' = FALSE
      <4>1. show # 1
        BY <2>4
      <4> QED  BY <2>1, <4>1, Zenon DEF Enabled
    <3> QED  BY <1>0, <2>2, <2>4, <3>1 DEF Carried, Corresponding
  <2> QED  BY <2>3, <2>4
<1> QED  BY <1>0, <1>1, <1>2 DEF Inv

LEMMA StepInv == Inv /\ [Next]_vars => Inv'
<1> SUFFICES ASSUME Inv, [Next]_vars  PROVE Inv'
  OBVIOUS
<1>1. CASE InitParams
  <2>1. /\ phase = "start" /\ phase' \in {"open", "failed"} /\ asked = "none" /\ asked' = "none"
        /\ UNCHANGED <<option, rdma_layer>>
    BY <1>1 DEF InitParams, Inv
  <2>2. wmix.fovp = option.fovp /\ wmix.bovp = option.bovp
    BY <2>1 DEF Inv
  <2>3. phase' = "open" /\ Defaults' => wmix' = DefaultOvps(rdma_layer)'
    BY <1>1, <2>1, <2>2 DEF InitParams, Defaults, DefaultOvps
  <2> QED  BY <2>1, <2>3 DEF Inv, Carried
<1>2. CASE Show
  BY <1>2, OrderInv DEF Show
<1>3. CASE Hide
  BY <1>3, OrderInv DEF Hide
<1>4. CASE Push
  <2>1. /\ asked # "hide" /\ UNCHANGED <<option, rdma_layer, wmix, phase, ovp, asked, failed>>
    BY <1>4 DEF Push
  <2> QED  BY <2>1 DEF Inv, Carried, Obeyed, Defaults, DefaultOvps
<1>5. CASE UNCHANGED vars
  <2>1. UNCHANGED <<option, rdma_layer, wmix, phase, ovp, asked, failed, enabled>>
    BY <1>5 DEF vars
  <2> QED  BY <2>1 DEF Inv, Carried, Obeyed, Defaults, DefaultOvps
<1> QED  BY <1>1, <1>2, <1>3, <1>4, <1>5 DEF Next

LEMMA InvShows ==
  ASSUME Layers \subseteq Nat, Inv
  PROVE  ShowsAndHides
<1> SUFFICES ASSUME Obeyed, Defaults
             PROVE  Raised /\ EitherHides
  BY DEF ShowsAndHides
<1>1. Carried /\ wmix = DefaultOvps(rdma_layer)
  BY DEF Inv, Obeyed
<1>2. Camera \in 0..3
  BY DEF Inv, Camera
<1>3. wmix.fovp = IdxOvp(PrioValue(Camera)) /\ wmix.bovp = 24
  BY <1>1 DEF DefaultOvps, Camera
<1>4. ovp_list[wmix.fovp][1] = Camera /\ ovp_list[wmix.bovp][1] = 0
  BY <1>2, <1>3, DefaultOnTop, Entries
<1>5. Raised
  BY <1>1, <1>4 DEF Raised, OnTop, Carried
<1>6. EitherHides
  BY <1>1, <1>4 DEF EitherHides, OnTop, Carried, Calls
<1> QED  BY <1>5, <1>6

(* With the default ovps an order to show that gets through either way     *)
(* puts the camera's layer on top, and an order to hide hides it if one of *)
(* its two measures works, whichever layer OVERLAY_GET_LAYER answers       *)
(* (overlay.c:128-152, camera.c:467-544).                                  *)
THEOREM WindowShowsAndHides ==
  ASSUME Layers \subseteq Nat
  PROVE  Spec => []ShowsAndHides
<1>1. Inv => ShowsAndHides
  BY InvShows
<1> QED  BY <1>1, InitInv, StepInv, PTL DEF Spec

(* What is in the mixer is what was there, what an option gave or what the *)
(* search found: the search of overlay_get_default_ovps never ends past    *)
(* its table (overlay.c:128-152).                                          *)
THEOREM WindowTypes ==
  ASSUME Layers \subseteq Nat
  PROVE  Spec => []TypeOK
<1>1. Init => TypeOK
  BY DEF Init, TypeOK
<1>2. Inv /\ TypeOK /\ [Next]_vars => TypeOK'
  <2> SUFFICES ASSUME Inv, TypeOK, [Next]_vars  PROVE TypeOK'
    OBVIOUS
  <2>1. CASE InitParams
    <3>1. /\ phase = "start" /\ UNCHANGED <<option, rdma_layer, ovp, enabled, asked, failed>>
      BY <2>1 DEF InitParams
    <3>2. wmix = [fovp |-> option.fovp, bovp |-> option.bovp]
      BY <3>1 DEF Inv
    <3>3. phase' = "open" =>
            wmix' \in [fovp : DOMAIN ovp_list \cup GivenOvps, bovp : DOMAIN ovp_list \cup GivenOvps]
      <4>1. CASE wmix.fovp = -1 \/ wmix.bovp = -1
        <5>1. DefaultOvps(rdma_layer) \in [fovp : DOMAIN ovp_list, bovp : DOMAIN ovp_list]
          <6>1. rdma_layer % 4 \in 0..3
            BY DEF TypeOK
          <6>2. IdxOvp(PrioValue(rdma_layer % 4)) \in DOMAIN ovp_list
            BY <6>1, DefaultOnTop
          <6>3. 24 \in DOMAIN ovp_list
            BY DEF ovp_list, NUM_OF_OVPS
          <6> QED  BY <6>2, <6>3 DEF DefaultOvps
        <5>2. phase' = "open" => wmix' = DefaultOvps(rdma_layer)
          BY <2>1, <4>1 DEF InitParams
        <5> QED  BY <5>1, <5>2
      <4>2. CASE ~(wmix.fovp = -1 \/ wmix.bovp = -1)
        <5>1. wmix' = wmix
          BY <2>1, <4>2 DEF InitParams
        <5>2. option.fovp \in GivenOvps /\ option.bovp \in GivenOvps
          BY <3>2, <4>2 DEF TypeOK
        <5> QED  BY <3>2, <5>1, <5>2
      <4> QED  BY <4>1, <4>2
    <3> QED  BY <3>1, <3>3 DEF TypeOK
  <2>2. ASSUME NEW name \in {"show", "hide"}, NEW show, Order(name, show)
        PROVE  TypeOK'
    <3>1. /\ phase = "open" /\ asked' = name /\ failed' \in SUBSET Calls
          /\ UNCHANGED <<option, rdma_layer, wmix, phase>>
          /\ ShowVideoOutput(show, failed')
      BY <2>2 DEF Order
    <3>2. Corresponding(show) \in DOMAIN ovp_list \cup GivenOvps
      BY <3>1 DEF TypeOK, Corresponding
    <3>3. ovp' \in DOMAIN ovp_list \cup GivenOvps \cup BootOvps
      <4>1. ovp' = ovp \/ ovp' \in Register(show, failed')
        BY <3>1 DEF ShowVideoOutput
      <4>2. Register(show, failed') \subseteq {Corresponding(show), ovp}
        BY DEF Register
      <4> QED  BY <3>2, <4>1, <4>2 DEF TypeOK
    <3>4. enabled' \in BOOLEAN
      <4>1. enabled' = enabled \/ enabled' = Enabled(show, failed')
        BY <3>1 DEF ShowVideoOutput
      <4>2. enabled \in BOOLEAN
        BY DEF TypeOK
      <4> QED  BY <4>1, <4>2, Zenon DEF Enabled
    <3> QED  BY <3>1, <3>3, <3>4 DEF TypeOK
  <2>3. CASE Push
    BY <2>3 DEF Push, TypeOK
  <2>4. CASE UNCHANGED vars
    BY <2>4 DEF vars, TypeOK
  <2> QED  BY <2>1, <2>2, <2>3, <2>4 DEF Next, Show, Hide
<1> QED  BY <1>1, <1>2, InitInv, StepInv, PTL DEF Spec
=============================================================================
