---------------------------- MODULE StartupProofs ----------------------------
(***************************************************************************)
(* Startup, whichever of the calls may fail.                               *)
(*                                                                         *)
(* As long as nothing is closed the open descriptors are the numbers from  *)
(* 0 on, but for a process that was started without a standard input and   *)
(* has not opened anything yet.  So each file has a number that can be     *)
(* told from the place in the start-up, which is the invariant.            *)
(***************************************************************************)
EXTENDS Startup, TLAPS

LEMMA LowestIs ==
  ASSUME NEW t, NEW m \in 0..MaxFd, m \notin t, \A k \in 0..(m - 1) : k \in t
  PROVE  Lowest(t) = m
<1> DEFINE P(n) == n \notin t /\ \A k \in 0..(n - 1) : k \in t
<1>1. P(m)
  OBVIOUS
<1>2. \A n \in 0..MaxFd : P(n) => n = m
  BY DEF MaxFd
<1>3. Lowest(t) \in 0..MaxFd /\ P(Lowest(t))
  BY <1>1 DEF Lowest
<1> QED  BY <1>2, <1>3

LEMMA LowestFrom ==
  ASSUME NEW m \in Nat, m < MaxFd
  PROVE  Lowest(0..m) = m + 1 /\ (0..m) \cup {m + 1} = 0..(m + 1)
<1>1. m + 1 \in 0..MaxFd /\ m + 1 \notin 0..m /\ \A k \in 0..((m + 1) - 1) : k \in 0..m
  BY DEF MaxFd
<1> QED  BY <1>1, LowestIs

(* Where the numbers begin, and which of them the switch gets. *)
Std == IF 0 \in inherited THEN 3 ELSE IF inherited = {} THEN 0 ELSE 2
FirstFd == IF 0 \in inherited THEN 3 ELSE 0

Inherited == inherited \in {{0, 1, 2}, {1, 2}, {}}

LEMMA Numbers ==
  ASSUME Inherited
  PROVE  /\ inherited \subseteq 0..2 /\ Std \in 0..3 /\ FirstFd \in {0, 3}
         /\ FirstFd \notin inherited
         /\ \A n \in Nat : n > Std => n \notin inherited /\ n # FirstFd
         /\ 0 \in inherited => FirstFd # 0
<1>1. \/ inherited = {0, 1, 2} /\ Std = 3 /\ FirstFd = 3
      \/ inherited = {1, 2} /\ Std = 2 /\ FirstFd = 0
      \/ inherited = {} /\ Std = 0 /\ FirstFd = 0
  BY DEF Inherited, Std, FirstFd
<1> QED  BY <1>1

LEMMA LowestFirst ==
  ASSUME Inherited
  PROVE  Lowest(inherited) = FirstFd /\ inherited \cup {FirstFd} = 0..Std
<1>1. \/ inherited = {0, 1, 2} /\ Std = 3 /\ FirstFd = 3
      \/ inherited = {1, 2} /\ Std = 2 /\ FirstFd = 0
      \/ inherited = {} /\ Std = 0 /\ FirstFd = 0
  BY DEF Inherited, Std, FirstFd
<1>2. FirstFd \in 0..MaxFd /\ FirstFd \notin inherited /\ \A k \in 0..(FirstFd - 1) : k \in inherited
  BY <1>1 DEF MaxFd
<1>3. inherited \cup {FirstFd} = 0..Std
  BY <1>1
<1> HIDE DEF FirstFd
<1> QED  BY <1>2, <1>3, LowestIs

-----------------------------------------------------------------------------
(* The inductive invariant. *)
Opening == {"open_switch", "open_vin", "open_vout", "open_msgq"}

(* The numbers of the devices, from the place in the start-up. *)
Placed ==
  /\ main = "open_switch" => table = inherited
  /\ main \in {"open_vin", "open_vout", "open_msgq"} => sw_id >= 0 /\ fd["switch"] = FirstFd
  /\ main = "open_vin" => table = 0..Std
  /\ main \in {"open_vout", "open_msgq"} => fd["videoinput"] = Std + 1
  /\ main = "open_vout" => table = 0..(Std + 1)
  /\ main = "open_msgq" => table = 0..(Std + 2) /\ fd["videooutput"] = Std + 2

(* Nothing was opened that camera_close_devices would pass over. *)
Found == \A n \in table \ inherited : \E f \in Files : Closable(f) /\ fd[f] = n

Closing == main = "close" /\ 0 \in inherited => Found

(* The message thread that is heard was created. *)
Heard ==
  /\ main \in Opening \cup {"close", "create_thread"} => handover = "none"
  /\ handover = "acked" => thread
  /\ main \in {"signals", "create_switch"} => thread

Inv == TypeOK /\ Inherited /\ Placed /\ Closing /\ Heard /\ AllClosed /\ Usable

LEMMA InitInv == Init => Inv
<1> SUFFICES ASSUME Init  PROVE Inv
  OBVIOUS
<1>1. TypeOK
  <2>1. ovps_given \in BOOLEAN /\ thread \in BOOLEAN
    BY Zenon DEF Init
  <2>2. table \subseteq 0..MaxFd /\ inherited \subseteq 0..2 /\ fd \in [Files -> -1..MaxFd]
    BY DEF Init, MaxFd
  <2> QED  BY <2>1, <2>2, Zenon DEF Init, TypeOK
<1>2. Inherited /\ Placed /\ Closing /\ Heard /\ AllClosed /\ Usable
  BY DEF Init, Inherited, Placed, Closing, Heard, AllClosed, Usable, Opening
<1> QED  BY <1>1, <1>2 DEF Inv

(* One file more. *)
LEMMA Opens ==
  ASSUME NEW s, NEW m \in Nat, m < MaxFd, s.table = 0..m, s.fd \in [Files -> -1..MaxFd],
         NEW f \in Files
  PROVE  LET t == WithOpened(s, f)
         IN  /\ t.table = 0..(m + 1)
             /\ t.fd \in [Files -> -1..MaxFd] /\ t.fd[f] = m + 1
             /\ \A g \in Files : g # f => t.fd[g] = s.fd[g]
<1>1. Lowest(s.table) = m + 1 /\ s.table \cup {m + 1} = 0..(m + 1) /\ m + 1 \in -1..MaxFd
  BY LowestFrom DEF MaxFd
<1>2. WithOpened(s, f) = [table |-> s.table \cup {Lowest(s.table)},
                          fd |-> [s.fd EXCEPT ![f] = Lowest(s.table)]]
  BY DEF WithOpened
<1>3. WithOpened(s, f) = [table |-> 0..(m + 1), fd |-> [s.fd EXCEPT ![f] = m + 1]]
  BY <1>1, <1>2, Zenon
<1> HIDE DEF WithOpened
<1> QED  BY <1>1, <1>3

LEMMA Pipes2 ==
  ASSUME NEW s, NEW m \in Nat, m + 1 < MaxFd, s.table = 0..m, s.fd \in [Files -> -1..MaxFd],
         NEW r \in Files, NEW w \in Files, r # w
  PROVE  LET t == Piped(s, r, w)
         IN  /\ t.table = 0..(m + 2)
             /\ t.fd \in [Files -> -1..MaxFd] /\ t.fd[r] = m + 1 /\ t.fd[w] = m + 2
             /\ \A g \in Files : g \notin {r, w} => t.fd[g] = s.fd[g]
<1>1. PICK u : u = WithOpened(s, r)
  OBVIOUS
<1>2. PICK t : t = WithOpened(u, w)
  OBVIOUS
<1>3. PICK k \in Nat : k = m + 1
  OBVIOUS
<1>4. /\ u.table = 0..k /\ u.fd \in [Files -> -1..MaxFd] /\ u.fd[r] = k
      /\ \A g \in Files : g # r => u.fd[g] = s.fd[g]
  <2>1. m < MaxFd
    BY DEF MaxFd
  <2>2. /\ u.table = 0..(m + 1) /\ u.fd \in [Files -> -1..MaxFd] /\ u.fd[r] = m + 1
        /\ \A g \in Files : g # r => u.fd[g] = s.fd[g]
    BY <1>1, <2>1, Opens
  <2> QED  BY <1>3, <2>2
<1>5. /\ t.table = 0..(k + 1) /\ t.fd \in [Files -> -1..MaxFd] /\ t.fd[w] = k + 1
      /\ \A g \in Files : g # w => t.fd[g] = u.fd[g]
  BY <1>2, <1>3, <1>4, Opens
<1>6. Piped(s, r, w) = t /\ k + 1 = m + 2
  BY <1>1, <1>2, <1>3 DEF Piped
<1> QED  BY <1>3, <1>4, <1>5, <1>6

LEMMA NotOpened ==
  ASSUME NEW s, s.fd \in [Files -> -1..MaxFd], NEW f \in Files
  PROVE  LET t == Refused(s, f)
         IN  /\ t.fd \in [Files -> -1..MaxFd] /\ t.fd[f] = -1
             /\ \A g \in Files : g # f => t.fd[g] = s.fd[g]
BY DEF Refused, MaxFd

-----------------------------------------------------------------------------
(* What a step of camera_open_devices has to show. *)
LEMMA OpeningStep ==
  ASSUME Inv, UNCHANGED <<options, thread, handover, switch_mode>>,
         main \in Opening, main' \in {"open_vin", "open_vout", "open_msgq", "close", "create_thread"},
         table' \subseteq 0..MaxFd, fd' \in [Files -> -1..MaxFd],
         Placed', Closing', main' = "create_thread" => Usable'
  PROVE  Inv'
<1>1. TypeOK'
  BY Zenon DEF Inv, TypeOK, options
<1>2. Inherited' /\ Heard' /\ AllClosed' /\ Usable'
  BY DEF Inv, Inherited, Heard, AllClosed, Usable, options, Opening
<1> QED  BY <1>1, <1>2 DEF Inv

LEMMA FileNames ==
  /\ \A f \in {"switch", "videoinput", "videooutput"} : f \in Files /\ f \in Devices /\ f \notin Pipes
  /\ \A f \in Pipes : f \in Files
  /\ \A f \in Files : f \in {"switch", "videoinput", "videooutput"} \/ f \in Pipes
BY DEF Files, Devices, Pipes

LEMMA OpenSwitchStep ==
  ASSUME Inv, OpenSwitch, UNCHANGED <<options, thread, handover, switch_mode>>
  PROVE  Inv'
<1>0. /\ main = "open_switch" /\ table = inherited /\ Inherited /\ inherited' = inherited /\ sw_id' = sw_id
      /\ table \subseteq 0..MaxFd /\ fd \in [Files -> -1..MaxFd] /\ "switch" \in Files
      /\ main \in Opening /\ Std' = Std /\ FirstFd' = FirstFd
  BY FileNames DEF Inv, OpenSwitch, At, Placed, TypeOK, options, Opening, Std, FirstFd
<1>1. CASE main' = "close" /\ table' = table /\ fd' \in [Files -> -1..MaxFd]
  <2>1. Placed' /\ Closing'
    BY <1>0, <1>1 DEF Placed, Closing, Found
  <2> QED  BY <1>0, <1>1, <2>1, OpeningStep
<1>2. CASE main' = "open_vin" /\ sw_id >= 0 /\ Keep(WithOpened(Files0, "switch"))
  <2>1. WithOpened(Files0, "switch") = [table |-> table \cup {Lowest(table)},
                                        fd |-> [fd EXCEPT !["switch"] = Lowest(table)]]
    BY DEF WithOpened, Files0
  <2>2. Lowest(table) = FirstFd /\ table \cup {FirstFd} = 0..Std
    BY <1>0, LowestFirst
  <2>3. FirstFd \in {0, 3} /\ Std \in 0..3
    BY <1>0, Numbers
  <2>4. table' = 0..Std /\ fd' = [fd EXCEPT !["switch"] = FirstFd]
    <3>1. WithOpened(Files0, "switch") = [table |-> 0..Std, fd |-> [fd EXCEPT !["switch"] = FirstFd]]
      BY <2>1, <2>2, Zenon
    <3>2. PICK t : t = WithOpened(Files0, "switch")
      OBVIOUS
    <3>3. table' = t.table /\ fd' = t.fd
      BY <1>2, <3>2, Zenon DEF Keep
    <3>4. t = [table |-> 0..Std, fd |-> [fd EXCEPT !["switch"] = FirstFd]]
      BY <3>1, <3>2, Zenon
    <3> QED  BY <3>3, <3>4
  <2>5. table' \subseteq 0..MaxFd /\ fd' \in [Files -> -1..MaxFd] /\ fd'["switch"] = FirstFd
    BY <1>0, <2>3, <2>4 DEF MaxFd
  <2>6. Placed' /\ Closing'
    BY <1>0, <1>2, <2>4, <2>5 DEF Placed, Closing
  <2> QED  BY <1>0, <1>2, <2>5, <2>6, OpeningStep
<1>3. ASSUME main' = "close", Keep(Refused(Files0, "switch"))
      PROVE  table' = table /\ fd' \in [Files -> -1..MaxFd]
  BY <1>0, <1>3 DEF Keep, Refused, Files0, MaxFd
<1> QED  BY <1>0, <1>1, <1>2, <1>3 DEF OpenSwitch, At

(* A device with a number above 0 is one that camera_close_devices finds.  *)
Numbered ==
  /\ Inherited /\ sw_id >= 0 /\ fd["switch"] = FirstFd
  /\ \/ table = 0..Std
     \/ table = 0..(Std + 1) /\ fd["videoinput"] = Std + 1
     \/ table = 0..(Std + 2) /\ fd["videoinput"] = Std + 1 /\ fd["videooutput"] = Std + 2
     \/ /\ table = 0..(Std + 4) /\ fd["videoinput"] = Std + 1 /\ fd["videooutput"] = Std + 2
        /\ fd["cmd.read"] = Std + 3 /\ fd["cmd.write"] = Std + 4

LEMMA ClosingFrom ==
  ASSUME Numbered
  PROVE  0 \in inherited => Found
<1> SUFFICES ASSUME 0 \in inherited, NEW n \in table \ inherited
             PROVE  \E f \in Files : Closable(f) /\ fd[f] = n
  BY DEF Found
<1>1. inherited = {0, 1, 2} /\ Std = 3 /\ FirstFd = 3
  BY DEF Numbered, Inherited, Std, FirstFd
<1>2. \/ n = 3 /\ fd["switch"] = 3
      \/ n = 4 /\ fd["videoinput"] = 4
      \/ n = 5 /\ fd["videooutput"] = 5
      \/ n = 6 /\ fd["cmd.read"] = 6
      \/ n = 7 /\ fd["cmd.write"] = 7
  BY <1>1 DEF Numbered
<1> QED  BY <1>2 DEF Numbered, Closable, Files, Devices, Pipes

LEMMA ClosingLater == Numbered' => Closing'
<1>1. Numbered => Closing
  BY ClosingFrom DEF Closing
<1> QED  BY <1>1, PTL

LEMMA OpenVinStep ==
  ASSUME Inv, OpenVin, UNCHANGED <<options, thread, handover, switch_mode>>
  PROVE  Inv'
<1>0. /\ main = "open_vin" /\ table = 0..Std /\ Inherited /\ inherited' = inherited /\ sw_id' = sw_id
      /\ sw_id >= 0 /\ fd["switch"] = FirstFd
      /\ table \subseteq 0..MaxFd /\ fd \in [Files -> -1..MaxFd]
      /\ main \in Opening /\ Std' = Std /\ FirstFd' = FirstFd
  BY DEF Inv, OpenVin, At, Placed, TypeOK, options, Opening, Std, FirstFd
<1>1. Std \in Nat /\ Std < MaxFd /\ Std + 1 <= MaxFd
  BY <1>0, Numbers DEF MaxFd
<1>2. Files0.table = 0..Std /\ Files0.fd = fd
  BY <1>0 DEF Files0
<1>3. CASE main' = "close" /\ Keep(Refused(Files0, "videoinput"))
  <2>1. table' = table /\ fd' \in [Files -> -1..MaxFd] /\ fd'["switch"] = FirstFd
    BY <1>0, <1>2, <1>3, NotOpened, FileNames DEF Keep, Refused
  <2>2. Numbered'
    BY <1>0, <2>1 DEF Numbered, Inherited
  <2>3. Placed' /\ Closing'
    BY <1>3, <2>2, ClosingLater DEF Placed
  <2> QED  BY <1>0, <1>3, <2>1, <2>3, OpeningStep
<1>4. CASE main' \in {"open_vout", "close"} /\ Keep(WithOpened(Files0, "videoinput"))
  <2>1. /\ table' = 0..(Std + 1) /\ fd' \in [Files -> -1..MaxFd] /\ fd'["videoinput"] = Std + 1
        /\ fd'["switch"] = FirstFd
    <3>1. PICK t : t = WithOpened(Files0, "videoinput")
      OBVIOUS
    <3>2. /\ t.table = 0..(Std + 1) /\ t.fd \in [Files -> -1..MaxFd] /\ t.fd["videoinput"] = Std + 1
          /\ \A g \in Files : g # "videoinput" => t.fd[g] = Files0.fd[g]
      BY <1>0, <1>1, <1>2, <3>1, Opens, FileNames
    <3> QED  BY <1>0, <1>2, <1>4, <3>1, <3>2, FileNames DEF Keep
  <2>2. Numbered'
    BY <1>0, <2>1 DEF Numbered, Inherited
  <2>3. Placed' /\ Closing'
    BY <1>0, <1>4, <2>1, <2>2, ClosingLater DEF Placed
  <2>4. table' \subseteq 0..MaxFd
    BY <1>1, <2>1 DEF MaxFd
  <2> QED  BY <1>0, <1>4, <2>1, <2>3, <2>4, OpeningStep
<1> QED  BY <1>3, <1>4 DEF OpenVin, At

LEMMA OpenVoutStep ==
  ASSUME Inv, OpenVout, UNCHANGED <<options, thread, handover, switch_mode>>
  PROVE  Inv'
<1>0. /\ main = "open_vout" /\ table = 0..(Std + 1) /\ Inherited /\ inherited' = inherited /\ sw_id' = sw_id
      /\ sw_id >= 0 /\ fd["switch"] = FirstFd /\ fd["videoinput"] = Std + 1
      /\ table \subseteq 0..MaxFd /\ fd \in [Files -> -1..MaxFd]
      /\ main \in Opening /\ Std' = Std /\ FirstFd' = FirstFd
  BY DEF Inv, OpenVout, At, Placed, TypeOK, options, Opening, Std, FirstFd
<1>1. Std + 1 \in Nat /\ Std + 1 < MaxFd /\ Std + 2 <= MaxFd /\ (Std + 1) + 1 = Std + 2
  BY <1>0, Numbers DEF MaxFd
<1>2. Files0.table = 0..(Std + 1) /\ Files0.fd = fd
  BY <1>0 DEF Files0
<1>3. CASE main' = "close" /\ Keep(Refused(Files0, "videooutput"))
  <2>1. /\ table' = table /\ fd' \in [Files -> -1..MaxFd]
        /\ fd'["switch"] = FirstFd /\ fd'["videoinput"] = Std + 1
    BY <1>0, <1>2, <1>3, NotOpened, FileNames DEF Keep, Refused
  <2>2. Numbered'
    BY <1>0, <2>1 DEF Numbered, Inherited
  <2>3. Placed' /\ Closing'
    BY <1>3, <2>2, ClosingLater DEF Placed
  <2> QED  BY <1>0, <1>3, <2>1, <2>3, OpeningStep
<1>4. CASE main' \in {"open_msgq", "close"} /\ Keep(WithOpened(Files0, "videooutput"))
  <2>1. /\ table' = 0..(Std + 2) /\ fd' \in [Files -> -1..MaxFd] /\ fd'["videooutput"] = Std + 2
        /\ fd'["switch"] = FirstFd /\ fd'["videoinput"] = Std + 1
    <3>1. PICK t : t = WithOpened(Files0, "videooutput")
      OBVIOUS
    <3>2. PICK k \in Nat : k = Std + 1
      BY <1>1
    <3>3. Files0.table = 0..k /\ k < MaxFd /\ k + 1 = Std + 2
      BY <1>1, <1>2, <3>2
    <3>4. /\ t.table = 0..(k + 1) /\ t.fd \in [Files -> -1..MaxFd] /\ t.fd["videooutput"] = k + 1
          /\ \A g \in Files : g # "videooutput" => t.fd[g] = Files0.fd[g]
      BY SMTT(30), <1>0, <1>2, <3>1, <3>3, Opens, FileNames
    <3>5. table' = t.table /\ fd' = t.fd
      BY <1>4, <3>1, Zenon DEF Keep
    <3> QED  BY <1>0, <1>2, <3>3, <3>4, <3>5, FileNames
  <2>2. Numbered'
    BY <1>0, <2>1 DEF Numbered, Inherited
  <2>3. Placed' /\ Closing'
    BY <1>0, <1>4, <2>1, <2>2, ClosingLater DEF Placed
  <2>4. table' \subseteq 0..MaxFd
    BY <1>1, <2>1 DEF MaxFd
  <2> QED  BY <1>0, <1>4, <2>1, <2>3, <2>4, OpeningStep
<1> QED  BY <1>3, <1>4 DEF OpenVout, At

(* What the pipes are when both attempts were made. *)
LEMMA PipesResult ==
  ASSUME Inherited, table = 0..(Std + 2), fd \in [Files -> -1..MaxFd], NEW c \in BOOLEAN, NEW a \in BOOLEAN
  PROVE  LET t == PipesOpened(c, a)
             top == Std + 2 + (IF c THEN 2 ELSE 0)
         IN  /\ t.fd \in [Files -> -1..MaxFd] /\ \A f \in Devices : t.fd[f] = fd[f]
             /\ IF c THEN t.fd["cmd.read"] = Std + 3 /\ t.fd["cmd.write"] = Std + 4
                ELSE t.fd["cmd.read"] = -1 /\ t.fd["cmd.write"] = -1
             /\ a => /\ t.table = 0..(top + 2)
                     /\ t.fd["ack.read"] = top + 1 /\ t.fd["ack.write"] = top + 2
             /\ ~a => t.table = 0..top
<1>0. Std \in 0..3
  BY Numbers
<1>1. PICK s : s = IF c THEN Piped(Files0, "cmd.read", "cmd.write")
                   ELSE NotPiped(Files0, "cmd.read", "cmd.write")
  OBVIOUS
<1>2. PICK t : t = IF a THEN Piped(s, "ack.read", "ack.write") ELSE NotPiped(s, "ack.read", "ack.write")
  OBVIOUS
<1>3. PipesOpened(c, a) = t
  BY <1>1, <1>2, Zenon DEF PipesOpened
<1>4. PICK top \in Nat : top = Std + 2 + (IF c THEN 2 ELSE 0)
  BY <1>0
<1>5. PICK k \in Nat : k = Std + 2
  BY <1>0
<1>6. Files0.table = 0..k /\ Files0.fd = fd /\ k + 1 < MaxFd /\ top + 1 < MaxFd
  BY <1>0, <1>4, <1>5 DEF Files0, MaxFd
<1>7. /\ s.table = 0..top /\ s.fd \in [Files -> -1..MaxFd] /\ \A f \in Devices : s.fd[f] = fd[f]
      /\ IF c THEN s.fd["cmd.read"] = Std + 3 /\ s.fd["cmd.write"] = Std + 4
         ELSE s.fd["cmd.read"] = -1 /\ s.fd["cmd.write"] = -1
  <2>1. CASE c
    <3>1. s = Piped(Files0, "cmd.read", "cmd.write") /\ top = k + 2
      BY <1>0, <1>1, <1>4, <1>5, <2>1
    <3>2. /\ s.table = 0..(k + 2)
          /\ s.fd \in [Files -> -1..MaxFd] /\ s.fd["cmd.read"] = k + 1 /\ s.fd["cmd.write"] = k + 2
          /\ \A g \in Files : g \notin {"cmd.read", "cmd.write"} => s.fd[g] = Files0.fd[g]
      <4>1. "cmd.read" \in Files /\ "cmd.write" \in Files /\ "cmd.read" # "cmd.write"
        BY FileNames DEF Pipes
      <4>2. k \in Nat /\ k + 1 < MaxFd /\ Files0.table = 0..k /\ Files0.fd \in [Files -> -1..MaxFd]
        BY <1>5, <1>6
      <4> QED  BY SMTT(30), <3>1, <4>1, <4>2, Pipes2
    <3> QED  BY SMTT(30), <1>0, <1>5, <1>6, <2>1, <3>1, <3>2 DEF Files, Devices
  <2>2. CASE ~c
    <3>1. s = NotPiped(Files0, "cmd.read", "cmd.write") /\ top = k
      BY <1>0, <1>1, <1>4, <1>5, <2>2
    <3> QED  BY <1>6, <2>2, <3>1 DEF NotPiped, Refused, Files, Devices, Pipes, MaxFd
  <2> QED  BY <2>1, <2>2
<1>8. /\ a => /\ t.table = 0..(top + 2)
              /\ t.fd["ack.read"] = top + 1 /\ t.fd["ack.write"] = top + 2
      /\ ~a => t.table = 0..top
      /\ t.fd \in [Files -> -1..MaxFd]
      /\ \A f \in Devices \cup {"cmd.read", "cmd.write"} : t.fd[f] = s.fd[f]
  <2>1. CASE a
    <3>1. t = Piped(s, "ack.read", "ack.write")
      BY <1>2, <2>1
    <3>2. /\ t.table = 0..(top + 2)
          /\ t.fd \in [Files -> -1..MaxFd] /\ t.fd["ack.read"] = top + 1 /\ t.fd["ack.write"] = top + 2
          /\ \A g \in Files : g \notin {"ack.read", "ack.write"} => t.fd[g] = s.fd[g]
      <4>1. "ack.read" \in Files /\ "ack.write" \in Files /\ "ack.read" # "ack.write"
        BY FileNames DEF Pipes
      <4>2. top \in Nat /\ top + 1 < MaxFd /\ s.table = 0..top /\ s.fd \in [Files -> -1..MaxFd]
        BY <1>4, <1>6, <1>7
      <4> QED  BY SMTT(30), <3>1, <4>1, <4>2, Pipes2
    <3> QED  BY <2>1, <3>2 DEF Files, Devices, Pipes
  <2>2. CASE ~a
    <3>1. t = NotPiped(s, "ack.read", "ack.write")
      BY <1>2, <2>2
    <3> QED  BY <1>7, <2>2, <3>1 DEF NotPiped, Refused, Files, Devices, Pipes, MaxFd
  <2> QED  BY <2>1, <2>2
<1> QED  BY <1>3, <1>4, <1>7, <1>8

LEMMA OpenMsgqStep ==
  ASSUME Inv, OpenMsgq, UNCHANGED <<options, thread, handover, switch_mode>>
  PROVE  Inv'
<1>0. /\ main = "open_msgq" /\ table = 0..(Std + 2) /\ Inherited /\ inherited' = inherited /\ sw_id' = sw_id
      /\ sw_id >= 0 /\ fd["switch"] = FirstFd /\ fd["videoinput"] = Std + 1 /\ fd["videooutput"] = Std + 2
      /\ fd \in [Files -> -1..MaxFd]
      /\ main \in Opening /\ Std' = Std /\ FirstFd' = FirstFd
  BY DEF Inv, OpenMsgq, At, Placed, TypeOK, options, Opening, Std, FirstFd
<1>1. PICK c \in BOOLEAN, a \in BOOLEAN :
        /\ main' = (IF a THEN "create_thread" ELSE "close")
        /\ Keep(PipesOpened(c, a))
  BY DEF OpenMsgq, At, PipesReported, May
<1>2. PICK t : t = PipesOpened(c, a)
  OBVIOUS
<1>3. table' = t.table /\ fd' = t.fd
  BY <1>1, <1>2, Zenon DEF Keep
<1>4. PICK top \in Nat : top = Std + 2 + (IF c THEN 2 ELSE 0)
  BY <1>0, Numbers
<1>5. /\ t.fd \in [Files -> -1..MaxFd] /\ \A f \in Devices : t.fd[f] = fd[f]
      /\ IF c THEN t.fd["cmd.read"] = Std + 3 /\ t.fd["cmd.write"] = Std + 4
         ELSE t.fd["cmd.read"] = -1 /\ t.fd["cmd.write"] = -1
      /\ a => /\ t.table = 0..(top + 2)
              /\ t.fd["ack.read"] = top + 1 /\ t.fd["ack.write"] = top + 2
      /\ ~a => t.table = 0..top
  BY <1>0, <1>1, <1>2, <1>4, PipesResult
<1>6. /\ fd' \in [Files -> -1..MaxFd]
      /\ fd'["switch"] = FirstFd /\ fd'["videoinput"] = Std + 1 /\ fd'["videooutput"] = Std + 2
      /\ IF c THEN fd'["cmd.read"] = Std + 3 /\ fd'["cmd.write"] = Std + 4
         ELSE fd'["cmd.read"] = -1 /\ fd'["cmd.write"] = -1
  BY <1>0, <1>3, <1>5, FileNames
<1>7. Std \in 0..3 /\ (c => top = Std + 4) /\ (~c => top = Std + 2)
  BY <1>0, <1>4, Numbers
<1>8. CASE ~a
  <2>1. main' = "close" /\ table' = 0..top
    BY <1>1, <1>3, <1>5, <1>8
  <2>2. Numbered'
    BY <1>0, <1>6, <1>7, <2>1 DEF Numbered, Inherited
  <2>3. Placed' /\ Closing' /\ table' \subseteq 0..MaxFd
    BY <1>7, <2>1, <2>2, ClosingLater DEF Placed, MaxFd
  <2> QED  BY <1>0, <1>6, <2>1, <2>3, OpeningStep
<1>9. CASE a
  <2>1. /\ main' = "create_thread" /\ table' = 0..(top + 2)
        /\ fd'["ack.read"] = top + 1 /\ fd'["ack.write"] = top + 2
    BY <1>1, <1>3, <1>5, <1>9
  <2>2. Placed' /\ Closing' /\ table' \subseteq 0..MaxFd
    BY <1>7, <2>1 DEF Placed, Closing, MaxFd
  <2>3. Usable'
    <3>1. \/ inherited = {0, 1, 2} /\ Std = 3 /\ FirstFd = 3
          \/ inherited = {1, 2} /\ Std = 2 /\ FirstFd = 0
          \/ inherited = {} /\ Std = 0 /\ FirstFd = 0
      BY <1>0 DEF Inherited, Std, FirstFd
    <3>0. /\ FirstFd \notin inherited' /\ FirstFd \in 0..(Std + 2)
          /\ \A n \in (Std + 1)..(top + 2) : n \notin inherited' /\ n \in 0..(top + 2)
      BY <1>0, <1>7, <3>1
    <3>2. \A f \in Devices \cup {"ack.read", "ack.write"} : fd'[f] \in table' \ inherited'
      <4>1. \A f \in Devices \cup {"ack.read", "ack.write"} :
              fd'[f] = FirstFd \/ fd'[f] \in (Std + 1)..(top + 2)
        BY <1>6, <1>7, <2>1 DEF Devices
      <4> QED  BY <1>7, <2>1, <3>0, <4>1
    <3>3. \A f \in {"cmd.read", "cmd.write"} : fd'[f] \in table' \ inherited' \/ fd'[f] = -1
      <4>1. \A f \in {"cmd.read", "cmd.write"} :
              fd'[f] = -1 \/ fd'[f] \in (Std + 1)..(top + 2)
        BY <1>6, <1>7
      <4> QED  BY <2>1, <3>0, <4>1
    <3>4. \A f, g \in Files : f # g /\ fd'[f] \in table' => fd'[f] # fd'[g]
      BY <1>6, <1>7, <2>1, <3>1 DEF Files, Devices, Pipes
    <3> QED  BY <3>2, <3>3, <3>4 DEF Usable, Opened, Files, Devices, Pipes
  <2> QED  BY <1>0, <1>6, <2>1, <2>2, <2>3, OpeningStep
<1> QED  BY <1>8, <1>9

-----------------------------------------------------------------------------
LEMMA CloseStep ==
  ASSUME Inv, CloseDevices
  PROVE  Inv'
<1>0. main = "close" /\ main' = "exit" /\ handover' = handover /\ thread' = thread
  BY DEF CloseDevices, At
<1>1. table' = table \ {fd[f] : f \in {g \in Files : Closable(g)}} /\ inherited' = inherited
  BY DEF CloseDevices, options
<1>2. TypeOK'
  <2>1. thread' \in BOOLEAN /\ ovps_given' \in BOOLEAN
    BY Zenon DEF Inv, TypeOK, CloseDevices, options
  <2>2. table' \subseteq 0..MaxFd
    BY <1>1 DEF Inv, TypeOK
  <2> QED  BY <1>0, <2>1, <2>2, Zenon DEF Inv, TypeOK, CloseDevices, options
<1>3. 0 \in inherited => table' \subseteq inherited
  BY <1>0, <1>1 DEF Inv, Closing, Found
<1>4. AllClosed'
  BY <1>1, <1>3 DEF AllClosed
<1>5. Inherited' /\ Placed' /\ Closing' /\ Heard' /\ Usable'
  BY <1>0, <1>1 DEF Inv, Inherited, Placed, Closing, Heard, Usable, Opening
<1> QED  BY <1>2, <1>4, <1>5 DEF Inv

(* The steps that leave the files as they are. *)
LEMMA RunningStep ==
  ASSUME Inv, UNCHANGED <<options, table, fd>>, thread' \in BOOLEAN,
         handover' \in {"none", "sent", "acked"}, switch_mode' \in {"none", "poll", "commands"},
         \/ main' = main
         \/ /\ main \in {"create_thread", "put", "get", "signals", "create_switch"}
            /\ main' \in {"put", "get", "signals", "create_switch", "join", "exit", "crash"},
         main' = "exit" => AllClosed', main' = main => thread' = thread, Heard'
  PROVE  Inv'
<1>1. TypeOK'
  <2>1. ovps_given' \in BOOLEAN
    BY Zenon DEF Inv, TypeOK, options
  <2> QED  BY <2>1 DEF Inv, TypeOK, options
<1>2. /\ table' = table /\ fd' = fd /\ inherited' = inherited /\ sw_id' = sw_id
  BY DEF options
<1>3. Std' = Std /\ FirstFd' = FirstFd /\ \A f : Opened(f)' = Opened(f) /\ Closable(f)' = Closable(f)
  BY <1>2 DEF Std, FirstFd, Opened, Closable
<1>4. Inherited' /\ Placed' /\ Closing'
  BY <1>2, <1>3 DEF Inv, Inherited, Placed, Closing, Found
<1>5. Usable'
  BY <1>2 DEF Inv, Usable, Opened
<1>6. AllClosed'
  BY <1>2 DEF Inv, AllClosed
<1> QED  BY <1>1, <1>4, <1>5, <1>6 DEF Inv

LEMMA StepInv == Inv /\ [Next]_vars => Inv'
<1> SUFFICES ASSUME Inv, [Next]_vars  PROVE Inv'
  OBVIOUS
<1>0. /\ thread \in BOOLEAN /\ handover \in {"none", "sent", "acked"}
      /\ switch_mode \in {"none", "poll", "commands"} /\ Heard
  BY Zenon DEF Inv, TypeOK
<1>1. CASE OpenStep
  BY <1>1, OpenSwitchStep, OpenVinStep, OpenVoutStep, OpenMsgqStep DEF OpenStep
<1>2. CASE CloseDevices
  BY <1>2, CloseStep
<1>3. CASE CreateMessageThread
  <2>1. /\ main = "create_thread" /\ main' = "put" /\ handover' = handover
        /\ UNCHANGED <<options, table, fd>> /\ switch_mode' = switch_mode
    BY <1>3 DEF CreateMessageThread, At
  <2>2. thread' \in BOOLEAN
    BY <1>3 DEF CreateMessageThread, May
  <2>3. Heard'
    BY <1>0, <2>1 DEF Heard, Opening
  <2> QED  BY <1>0, <2>1, <2>2, <2>3, RunningStep
<1>4. CASE HandoverPut
  <2>1. /\ main = "put" /\ main' = "get" /\ handover' = "sent" /\ thread' = thread
        /\ UNCHANGED <<options, table, fd>> /\ switch_mode' = switch_mode
    BY <1>4 DEF HandoverPut, At
  <2>2. Heard'
    BY <1>0, <2>1 DEF Heard, Opening
  <2> QED  BY <1>0, <2>1, <2>2, RunningStep
<1>5. CASE HandoverGet
  <2>1. /\ main = "get" /\ main' = "signals" /\ handover = "acked" /\ handover' = "none"
        /\ thread' = thread /\ UNCHANGED <<options, table, fd>> /\ switch_mode' = switch_mode
    BY <1>5 DEF HandoverGet, At
  <2>2. Heard'
    BY <1>0, <2>1 DEF Heard, Opening
  <2> QED  BY <1>0, <2>1, <2>2, RunningStep
<1>6. CASE RegisterHandlers
  <2>1. /\ main = "signals" /\ main' = "create_switch" /\ handover' = handover
        /\ thread' = thread /\ UNCHANGED <<options, table, fd>> /\ switch_mode' = switch_mode
    BY <1>6 DEF RegisterHandlers, At
  <2>2. Heard'
    BY <1>0, <2>1 DEF Heard, Opening
  <2> QED  BY <1>0, <2>1, <2>2, RunningStep
<1>7. CASE CreateSwitchThread
  <2>1. /\ main = "create_switch" /\ main' \in {"join", "exit", "crash"} /\ handover' = handover
        /\ thread' = thread /\ UNCHANGED <<options, table, fd>>
        /\ switch_mode' \in {switch_mode, "poll", "commands"}
    BY <1>7 DEF CreateSwitchThread, At
  <2>2. Heard' /\ thread
    BY <1>0, <2>1 DEF Heard, Opening
  <2>3. AllClosed'
    BY <2>1, <2>2 DEF AllClosed
  <2>4. switch_mode' \in {"none", "poll", "commands"}
    BY <1>0, <2>1
  <2> QED  BY <1>0, <2>1, <2>2, <2>3, <2>4, RunningStep
<1>8. CASE Serve
  <2>1. /\ main' = main /\ handover = "sent" /\ handover' = "acked" /\ thread
        /\ thread' = thread /\ UNCHANGED <<options, table, fd>> /\ switch_mode' = switch_mode
    BY <1>8 DEF Serve
  <2>2. Heard'
    BY <1>0, <2>1 DEF Heard, Opening
  <2>3. AllClosed'
    BY <2>1 DEF AllClosed
  <2> QED  BY <1>0, <2>1, <2>2, <2>3, RunningStep
<1>9. CASE UNCHANGED vars
  <2>1. /\ main' = main /\ handover' = handover /\ thread' = thread
        /\ UNCHANGED <<options, table, fd>> /\ switch_mode' = switch_mode
    BY <1>9 DEF vars
  <2>2. Heard'
    BY <1>0, <2>1 DEF Heard
  <2>3. AllClosed'
    BY <2>1 DEF Inv, AllClosed, options
  <2> QED  BY <1>0, <2>1, <2>2, <2>3, RunningStep
<1> QED  BY <1>1, <1>2, <1>3, <1>4, <1>5, <1>6, <1>7, <1>8, <1>9 DEF Next, MainStep

-----------------------------------------------------------------------------
(* The invariant of the start-up: until something is closed, the place of  *)
(* main in camera_open_devices gives the number of every file opened       *)
(* (camera.c:311-383), and the message thread that answers the handover    *)
(* was created (camera.c:1397-1409).                                       *)
THEOREM StartupInvariant == Spec => []Inv
<1>1. Init => Inv
  BY InitInv
<1>2. Inv /\ [Next]_vars => Inv'
  BY StepInv
<1> QED  BY <1>1, <1>2, PTL DEF Spec

(* The types, and with them the descriptors below MaxFd: the application   *)
(* never has more than its seven files open (camera.c:311-383).            *)
THEOREM StartupTypes == Spec => []TypeOK
<1>1. Inv => TypeOK
  BY DEF Inv
<1> QED  BY <1>1, StartupInvariant, PTL

(* Whichever calls fail, a start that fails leaves no descriptor open, if  *)
(* the process has a standard input (camera.c:286-370).                    *)
THEOREM StartupAllClosed == Spec => []AllClosed
<1>1. Inv => AllClosed
  BY DEF Inv
<1> QED  BY <1>1, StartupInvariant, PTL

(* Whichever calls fail, the threads only use files that are open and not  *)
(* mixed up, but for a command pipe that could not be created              *)
(* (camera.c:286-300, message_queue.c:137-154).                            *)
THEOREM StartupUsable == Spec => []Usable
<1>1. Inv => Usable
  BY DEF Inv
<1> QED  BY <1>1, StartupInvariant, PTL
=============================================================================
