--------------------------- MODULE MessengerProofs ---------------------------
(***************************************************************************)
(* Messenger, for every set of requesters and of commands: the types, and  *)
(* the conservation of messages when the requesters are finitely many.     *)
(***************************************************************************)
EXTENDS Messenger, FiniteSetTheorems, SequenceTheorems, TLAPS

LEMMA OneMessage ==
  ASSUME NEW S, NEW m \in S
  PROVE  <<m>> \in Seq(S) /\ Len(<<m>>) = 1 /\ <<m>>[1] = m
OBVIOUS

LEMMA FirstMessage ==
  ASSUME NEW S, NEW line \in Seq(S), line # <<>>
  PROVE  /\ Head(line) \in S
         /\ Tail(line) \in Seq(S)
         /\ Len(Tail(line)) = Len(line) - 1
OBVIOUS

LEMMA ZeroOrOne ==
  ASSUME NEW n \in Nat, n # 0, n <= 1
  PROVE  n = 1
OBVIOUS

LEMMA AtMostOne ==
  ASSUME NEW S, NEW line \in Seq(S), line # <<>>, Len(line) <= 1
  PROVE  Len(line) = 1
<1>1. Len(line) # 0
  OBVIOUS
<1> QED  BY <1>1, ZeroOrOne, LenProperties

LEMMA HeldMessage ==
  ASSUME TypeOK, msg # <<>>
  PROVE  msg[1] \in Message /\ Len(msg) = 1
<1>1. Len(msg) = 1
  BY AtMostOne DEF TypeOK
<1> QED  BY <1>1 DEF TypeOK

LEMMA TypesStep ==
  ASSUME TypeOK, [Next]_vars
  PROVE  TypeOK'
<1> USE DEF TypeOK, Message
<1>1. CASE \E r \in Requesters, c \in Commands : Put(r, c)
  BY <1>1 DEF Put
<1>2. CASE \E r \in Requesters : Get(r)
  BY <1>2 DEF Get
<1>3. CASE Take
  <2>1. Head(cmd) \in Message /\ Tail(cmd) \in Seq(Message)
    BY <1>3, FirstMessage DEF Take
  <2>2. msg' \in Seq(Message) /\ Len(msg') = 1
    <3> HIDE DEF Message
    <3> QED  BY <1>3, <2>1, OneMessage DEF Take
  <2> QED  BY <1>3, <2>1, <2>2 DEF Take
<1>4. CASE Dispatch
  <2>1. msg[1] \in Message
    BY <1>4, HeldMessage DEF Dispatch
  <2>2. [msg[1] EXCEPT !.acked = TRUE] \in Message
    BY <2>1
  <2>3. msg' \in Seq(Message) /\ Len(msg') = 1
    <3> HIDE DEF Message
    <3> QED  BY <1>4, <2>2, OneMessage DEF Dispatch
  <2> QED  BY <1>4, <2>3 DEF Dispatch
<1>5. CASE Acknowledge
  <2>1. msg[1] \in Message
    BY <1>5, HeldMessage DEF Acknowledge
  <2> QED  BY <1>5, <2>1 DEF Acknowledge
<1>6. CASE UNCHANGED vars
  BY <1>6 DEF vars
<1> QED  BY <1>1, <1>2, <1>3, <1>4, <1>5, <1>6 DEF Next, Server

(* The pipes hold messages, and the message thread at most one of them     *)
(* (camera.c:1208-1325).                                                   *)
THEOREM MessengerTypes == Spec => []TypeOK
<1>1. Init => TypeOK
  BY DEF Init, TypeOK
<1>2. TypeOK /\ [Next]_vars => TypeOK'
  BY TypesStep
<1> QED  BY <1>1, <1>2, PTL DEF Spec

(* How a put and a get move the set of those who wait.                     *)
LEMMA PutAwaits ==
  ASSUME TypeOK, NEW r \in Requesters, NEW c \in Commands, Put(r, c)
  PROVE  Awaiting' = Awaiting \cup {r} /\ r \notin Awaiting
BY DEF Put, TypeOK, Awaiting

LEMMA GetFrees ==
  ASSUME TypeOK, NEW r \in Requesters, Get(r)
  PROVE  Awaiting' = Awaiting \ {r} /\ r \in Awaiting
BY DEF Get, TypeOK, Awaiting

LEMMA ConservesInit == Init => Conservation
<1> SUFFICES ASSUME Init PROVE Conservation
  OBVIOUS
<1>1. Awaiting = {}
  BY DEF Init, Awaiting
<1>2. Len(cmd) = 0 /\ Len(msg) = 0 /\ Len(ack) = 0
  BY DEF Init
<1> QED  BY <1>1, <1>2, FS_EmptySet DEF Conservation

LEMMA ConservesStep ==
  ASSUME IsFiniteSet(Requesters), TypeOK, Conservation, [Next]_vars
  PROVE  Conservation'
<1>0. /\ IsFiniteSet(Awaiting)
      /\ Cardinality(Awaiting) \in Nat
  <2>1. Awaiting \in SUBSET Requesters
    BY DEF Awaiting
  <2> QED  BY <2>1, FS_Subset, FS_CardinalityType
<1>1. ASSUME NEW r \in Requesters, NEW c \in Commands, Put(r, c)
      PROVE  Conservation'
  <2>1. Cardinality(Awaiting') = Cardinality(Awaiting) + 1
    BY <1>0, <1>1, PutAwaits, FS_AddElement
  <2>2. Len(cmd') = Len(cmd) + 1 /\ msg' = msg /\ ack' = ack
    BY <1>1 DEF Put, TypeOK, Message
  <2> QED  BY <1>0, <2>1, <2>2 DEF Conservation, TypeOK
<1>2. ASSUME NEW r \in Requesters, Get(r)
      PROVE  Conservation'
  <2>1. Cardinality(Awaiting') = Cardinality(Awaiting) - 1
    BY <1>0, <1>2, GetFrees, FS_RemoveElement
  <2>2. Len(ack') = Len(ack) - 1 /\ msg' = msg /\ cmd' = cmd
    BY <1>2 DEF Get, TypeOK
  <2> QED  BY <1>0, <2>1, <2>2 DEF Conservation, TypeOK
<1>3. CASE Server
  <2>1. Awaiting' = Awaiting
    BY <1>3 DEF Server, Take, Dispatch, Acknowledge, Awaiting
  <2>2. Len(cmd') + Len(msg') + Len(ack') = Len(cmd) + Len(msg) + Len(ack)
    <3>1. CASE Take
      <4>1. Len(cmd') = Len(cmd) - 1
        BY <3>1, FirstMessage DEF Take, TypeOK
      <4>2. Len(msg) = 0 /\ Len(msg') = 1
        BY <3>1, OneMessage DEF Take
      <4> QED  BY <3>1, <4>1, <4>2 DEF Take, TypeOK
    <3>2. CASE Dispatch
      <4>1. Len(msg) = 1
        BY <3>2 DEF Dispatch, TypeOK
      <4>2. Len(msg') = 1
        <5> DEFINE m == [msg[1] EXCEPT !.acked = TRUE]
        <5>1. msg' = <<m>>
          BY <3>2 DEF Dispatch
        <5> HIDE DEF m
        <5> QED  BY <5>1
      <4> QED  BY <3>2, <4>1, <4>2 DEF Dispatch
    <3>3. CASE Acknowledge
      <4>1. msg[1] \in Message /\ Len(msg) = 1
        BY <3>3, HeldMessage DEF Acknowledge
      <4> QED  BY <3>3, <4>1 DEF Acknowledge, TypeOK
    <3> QED  BY <1>3, <3>1, <3>2, <3>3 DEF Server
  <2> QED  BY <2>1, <2>2 DEF Conservation
<1>4. CASE UNCHANGED vars
  BY <1>4 DEF vars, Conservation, Awaiting
<1> QED  BY <1>1, <1>2, <1>3, <1>4 DEF Next

(* However the calls overlap, there are as many messages under way as      *)
(* requesters waiting (camera.c:1348-1352).                                *)
THEOREM MessengerConserves ==
  ASSUME IsFiniteSet(Requesters)
  PROVE  Spec => []Conservation
<1>1. Init => Conservation
  BY ConservesInit
<1>2. TypeOK /\ Conservation /\ [Next]_vars => Conservation'
  BY ConservesStep
<1> QED  BY <1>1, <1>2, MessengerTypes, PTL DEF Spec

-----------------------------------------------------------------------------
(* Calls that do not overlap. *)
LEMMA LoneInit == Init => Lone
BY DEF Init, Lone

LEMMA LonePut ==
  ASSUME TypeOK, Lone, OneAtATime', NEW r \in Requesters, NEW c \in Commands, Put(r, c)
  PROVE  /\ Lone'
         /\ \A s \in Requesters : call[s] = "idle" /\ (call'[s] = "await" => s = r)
         /\ Alone([command |-> c, acked |-> FALSE, from |-> r])'
<1> DEFINE m == [command |-> c, acked |-> FALSE, from |-> r]
<1>1. m \in Message /\ ~m.acked /\ m.from = r
  BY DEF Message
<1>2. cmd' = Append(cmd, m) /\ UNCHANGED <<ack, msg>> /\ call' = [call EXCEPT ![r] = "await"] /\ call[r] = "idle"
  BY DEF Put
<1> HIDE DEF m
<1>3. /\ \A s \in Requesters : s # r => call'[s] = call[s]
      /\ call'[r] = "await" /\ \A s \in Requesters : call[s] \in {"idle", "await"}
  BY <1>2 DEF TypeOK
<1>4. \A s \in Requesters : call[s] = "idle" /\ (call'[s] = "await" => s = r)
  BY <1>2, <1>3 DEF OneAtATime
<1>5. cmd' = <<m>> /\ msg' = <<>> /\ ack' = <<>>
  <2>1. cmd = <<>> /\ msg = <<>> /\ ack = <<>>
    BY <1>4 DEF Lone
  <2> QED  BY <1>2, <2>1
<1>6. Alone(m)'
  BY <1>1, <1>5 DEF Alone
<1>7. Lone'
  BY <1>1, <1>3, <1>4, <1>6 DEF Lone
<1> QED  BY <1>4, <1>6, <1>7 DEF m

LEMMA LoneGet ==
  ASSUME TypeOK, Lone, OneAtATime, NEW r \in Requesters, Get(r)
  PROVE  /\ Lone'
         /\ \A s \in Requesters : call'[s] = "idle"
         /\ Head(ack).from = r /\ Acked(r)
<1>1. call[r] = "await" /\ ack # <<>> /\ ack' = Tail(ack) /\ call' = [call EXCEPT ![r] = "idle"]
      /\ UNCHANGED <<cmd, msg>>
  BY DEF Get
<1>2. PICK m \in Message : m.from = r /\ Alone(m)
  BY <1>1 DEF Lone
<1>3. cmd = <<>> /\ msg = <<>> /\ ack = <<m>> /\ m.acked
  BY <1>1, <1>2 DEF Alone
<1>4. ack' = <<>> /\ Head(ack) = m /\ ack[1] = m /\ Len(ack) = 1
  BY <1>1, <1>3
<1>5. \A s \in Requesters : call'[s] = "idle"
  BY <1>1 DEF TypeOK, OneAtATime
<1>6. Acked(r)
  BY <1>2, <1>3, <1>4 DEF Acked
<1> QED  BY <1>1, <1>2, <1>3, <1>4, <1>5, <1>6 DEF Lone

(* The message that is alone moves on. *)
LEMMA LoneServer ==
  ASSUME TypeOK, Lone, NEW m \in Message, Alone(m), Server
  PROVE  \E n \in Message : n.from = m.from /\ Alone(n)' /\ (m.acked => n.acked)
<1>1. CASE Take
  <2>1. cmd = <<m>> /\ msg = <<>> /\ ack = <<>> /\ msg' = <<Head(cmd)>> /\ cmd' = Tail(cmd) /\ ack' = ack
    BY <1>1 DEF Take, Alone
  <2>2. cmd' = <<>> /\ msg' = <<m>> /\ ack' = <<>>
    BY <2>1
  <2> QED  BY <2>2 DEF Alone
<1>2. CASE Dispatch
  <2>1. cmd = <<>> /\ msg = <<m>> /\ ack = <<>> /\ msg' = <<[msg[1] EXCEPT !.acked = TRUE]>>
        /\ UNCHANGED <<cmd, ack>>
    BY <1>2 DEF Dispatch, Alone
  <2>2. PICK n : n = [m EXCEPT !.acked = TRUE]
    OBVIOUS
  <2>3. n \in Message /\ n.from = m.from /\ n.acked
    BY <2>2 DEF Message
  <2>4. msg' = <<n>>
    BY <2>1, <2>2
  <2> QED  BY <2>1, <2>3, <2>4 DEF Alone
<1>3. CASE Acknowledge
  <2>1. cmd = <<>> /\ msg = <<m>> /\ ack = <<>> /\ m.acked /\ ack' = Append(ack, msg[1]) /\ msg' = <<>>
        /\ UNCHANGED cmd
    BY <1>3 DEF Acknowledge, Alone
  <2>2. ack' = <<m>>
    BY <2>1
  <2> QED  BY <2>1, <2>2 DEF Alone
<1> QED  BY <1>1, <1>2, <1>3 DEF Server

LEMMA LoneStep ==
  ASSUME TypeOK, Lone, OneAtATime, OneAtATime', [Next]_vars
  PROVE  Lone'
<1>1. CASE \E r \in Requesters, c \in Commands : Put(r, c)
  BY <1>1, LonePut
<1>2. CASE \E r \in Requesters : Get(r)
  BY <1>2, LoneGet
<1>3. CASE Server
  <2>1. call' = call
    BY <1>3 DEF Server, Take, Dispatch, Acknowledge
  <2>2. \A r \in Requesters : call[r] = "await" => \E m \in Message : m.from = r /\ Alone(m)'
    BY <1>3, LoneServer DEF Lone
  <2>3. ~(cmd = <<>> /\ msg = <<>>)
    BY <1>3 DEF Server, Take, Dispatch, Acknowledge
  <2> QED  BY <2>1, <2>2, <2>3 DEF Lone
<1>4. CASE UNCHANGED vars
  BY <1>4 DEF vars, Lone, Alone
<1> QED  BY <1>1, <1>2, <1>3, <1>4 DEF Next

(* What a caller is at, from the message that is alone. *)
PhaseKnown ==
  /\ \A r \in Requesters : call[r] = "idle" => Phase[r] = "idle"
  /\ \A m \in Message : Alone(m) /\ call[m.from] = "await" =>
       Phase[m.from] = IF m.acked THEN "executed" ELSE "requested"

LEMMA PhaseIs == PhaseKnown
<1>1. ASSUME NEW m \in Message, Alone(m), call[m.from] = "await"
      PROVE  Phase[m.from] = IF m.acked THEN "executed" ELSE "requested"
  <2>0. m.from \in Requesters
    BY DEF Message
  <2>1. Acked(m.from) <=> m.acked
    <3>1. CASE cmd = <<m>> /\ msg = <<>> /\ ack = <<>> /\ ~m.acked
      BY <3>1 DEF Acked
    <3>2. CASE cmd = <<>> /\ msg = <<m>> /\ ack = <<>>
      BY <3>2 DEF Acked
    <3>3. CASE cmd = <<>> /\ msg = <<>> /\ ack = <<m>> /\ m.acked
      <4>1. Len(ack) = 1 /\ ack[1] = m
        BY <3>3
      <4> QED  BY <3>3, <4>1 DEF Acked
    <3> QED  BY <1>1, <3>1, <3>2, <3>3 DEF Alone
  <2> QED  BY <1>1, <2>0, <2>1 DEF Phase
<1> QED  BY <1>1 DEF Phase, PhaseKnown

LEMMA PhaseWas == PhaseKnown'
BY PhaseIs, PTL

LEMMA PhaseStep ==
  ASSUME NEW r \in Requesters, NEW to, Phase'[r] = to, \A s \in Requesters : s # r => Phase'[s] = Phase[s]
  PROVE  Phase' = [Phase EXCEPT ![r] = to]
<1>1. /\ Phase' = [s \in Requesters |-> Phase'[s]]
      /\ DOMAIN Phase = Requesters /\ Phase = [s \in Requesters |-> Phase[s]]
  BY DEF Phase
<1> HIDE DEF Phase
<1> QED  BY <1>1

LEMMA LoneSync ==
  ASSUME TypeOK, Lone, OneAtATime, OneAtATime', [Next]_vars
  PROVE  [Sync!Next]_Phase
<1>0. \A r \in Requesters : call[r] \in {"idle", "await"}
  BY DEF TypeOK
<1>1. ASSUME NEW r \in Requesters, NEW c \in Commands, Put(r, c)
      PROVE  Sync!Request(r)
  <2>1. PICK m \in Message : m.from = r /\ ~m.acked /\ Alone(m)'
    BY <1>1, LonePut DEF Message
  <2>2. \A s \in Requesters : call[s] = "idle" /\ (s # r => call'[s] = "idle")
    BY <1>1, LonePut DEF Put, TypeOK
  <2>3. call'[r] = "await"
    BY <1>1 DEF Put, TypeOK
  <2>4. Phase[r] = "idle" /\ Phase'[r] = "requested" /\ \A s \in Requesters : s # r => Phase'[s] = Phase[s]
    BY <2>1, <2>2, <2>3, PhaseIs, PhaseWas DEF PhaseKnown
  <2> QED  BY <2>4, PhaseStep DEF Sync!Request, Sync!Step
<1>2. ASSUME NEW r \in Requesters, Get(r)
      PROVE  Sync!Return(r)
  <2>1. call[r] = "await" /\ Acked(r) /\ \A s \in Requesters : call'[s] = "idle"
    BY <1>2, LoneGet DEF Get
  <2>2. \A s \in Requesters : s # r => call[s] = "idle"
    BY <1>0, <2>1 DEF OneAtATime
  <2>3. Phase[r] = "executed"
    BY <2>1 DEF Phase
  <2>4. Phase'[r] = "idle" /\ \A s \in Requesters : s # r => Phase'[s] = Phase[s]
    BY <2>1, <2>2, PhaseIs, PhaseWas DEF PhaseKnown
  <2> QED  BY <2>3, <2>4, PhaseStep DEF Sync!Return, Sync!Step
<1>3. CASE Server
  <2>1. call' = call /\ ~(cmd = <<>> /\ msg = <<>>)
    BY <1>3 DEF Server, Take, Dispatch, Acknowledge
  <2>2. PICK r \in Requesters : call[r] = "await"
    BY <1>0, <2>1 DEF Lone
  <2>3. PICK m \in Message : m.from = r /\ Alone(m)
    BY <2>2 DEF Lone
  <2>4. PICK n \in Message : n.from = r /\ Alone(n)' /\ (m.acked => n.acked)
    BY <1>3, <2>3, LoneServer
  <2>5. \A s \in Requesters : s # r => Phase'[s] = Phase[s]
    BY <1>0, <2>1, <2>2, PhaseIs, PhaseWas DEF PhaseKnown, OneAtATime
  <2>6. /\ Phase[r] = IF m.acked THEN "executed" ELSE "requested"
        /\ Phase'[r] = IF n.acked THEN "executed" ELSE "requested"
    BY <2>1, <2>2, <2>3, <2>4, PhaseIs, PhaseWas DEF PhaseKnown
  <2>7. CASE m.acked = n.acked
    <3>1. Phase'[r] = Phase[r]
      BY <2>6, <2>7
    <3>2. Phase' = Phase
      <4>1. /\ Phase' = [s \in Requesters |-> Phase'[s]]
            /\ Phase = [s \in Requesters |-> Phase[s]]
        BY DEF Phase
      <4> HIDE DEF Phase
      <4> QED  BY <2>5, <3>1, <4>1
    <3> QED  BY <3>2
  <2>8. CASE ~m.acked /\ n.acked
    <3>1. Phase[r] = "requested" /\ Phase'[r] = "executed"
      BY <2>6, <2>8
    <3> QED  BY <2>5, <3>1, PhaseStep DEF Sync!Next, Sync!Execute, Sync!Step
  <2>9. m.acked \in BOOLEAN /\ n.acked \in BOOLEAN
    BY DEF Message
  <2> QED  BY <2>4, <2>7, <2>8, <2>9
<1>4. CASE UNCHANGED vars
  <2>1. Phase' = Phase
    BY <1>4 DEF vars, Phase, Acked
  <2> QED  BY <2>1
<1> QED  BY <1>1, <1>2, <1>3, <1>4 DEF Next, Sync!Next

LEMMA SyncInit == Init => Sync!Init
BY DEF Init, Sync!Init, Phase

(* Calls that do not overlap return on the acknowledge of their own        *)
(* command (camera.c:1348-1352).                                           *)
THEOREM MessengerOwnAck == Spec /\ []OneAtATime => OwnAck
<1>1. TypeOK /\ Lone /\ OneAtATime /\ OneAtATime' /\ [Next]_vars => Lone'
  BY LoneStep
<1>2. TypeOK /\ Lone /\ OneAtATime /\ [Next]_vars =>
        [\A r \in Requesters : (call[r] = "await" /\ call'[r] = "idle") => Head(ack).from = r]_vars
  <2> SUFFICES ASSUME TypeOK, Lone, OneAtATime, Next, NEW r \in Requesters,
                      call[r] = "await", call'[r] = "idle"
               PROVE  Head(ack).from = r
    OBVIOUS
  <2>1. Get(r)
    BY DEF Next, Put, Get, Server, Take, Dispatch, Acknowledge, TypeOK
  <2> QED  BY <2>1, LoneGet
<1> QED  BY <1>1, <1>2, LoneInit, MessengerTypes, PTL DEF Spec, OwnAck

(* They are synchronous calls: the command of each is executed once, while *)
(* its caller waits (camera.c:1335-1356).                                  *)
THEOREM MessengerSyncCalls == Spec /\ []OneAtATime => SyncCalls
<1>1. TypeOK /\ Lone /\ OneAtATime /\ OneAtATime' /\ [Next]_vars => Lone'
  BY LoneStep
<1>2. TypeOK /\ Lone /\ OneAtATime /\ OneAtATime' /\ [Next]_vars => [Sync!Next]_Phase
  BY LoneSync
<1> QED  BY <1>1, <1>2, LoneInit, SyncInit, MessengerTypes, PTL DEF Spec, SyncCalls, Sync!Spec
=============================================================================
