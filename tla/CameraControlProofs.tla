------------------------- MODULE CameraControlProofs -------------------------
(***************************************************************************)
(* CameraControl for any choice of threads that run handlers, of failures  *)
(* and of the number of suspensions.                                       *)
(*                                                                         *)
(* Every step is a step of the messenger or leaves it alone, so that the   *)
(* theorems of MessengerProofs hold of it; WhoAwaits and Fresh then give   *)
(* what the two properties of the preview rest on.                         *)
(***************************************************************************)
EXTENDS CameraControl, FiniteSetTheorems, SequenceTheorems, TLAPS

QP == INSTANCE MessengerProofs WITH Requesters <- Frames, Commands <- Commands

LEMMA FramesFinite == IsFiniteSet(Frames)
<1> DEFINE S0 == {}
           S1 == S0 \cup {Code("main")}
           S2 == S1 \cup {Code("switch")}
           S3 == S2 \cup {Handler("main")}
           S4 == S3 \cup {Handler("switch")}
           S5 == S4 \cup {Handler("message")}
<1>0. IsFiniteSet(S0)
  BY FS_EmptySet
<1>1. IsFiniteSet(S1)
  BY <1>0, FS_AddElement
<1>2. IsFiniteSet(S2)
  BY <1>1, FS_AddElement
<1>3. IsFiniteSet(S3)
  BY <1>2, FS_AddElement
<1>4. IsFiniteSet(S4)
  BY <1>3, FS_AddElement
<1>5. IsFiniteSet(S5)
  BY <1>4, FS_AddElement
<1>6. Frames = S5
  BY Zenon DEF Frames, Threads
<1> QED  BY <1>5, <1>6

(* What the steps do to the pipes. *)
LEMMA StepOfMessenger == [Next]_vars => [Q!Next]_(Q!vars)
<1> SUFFICES ASSUME [Next]_vars
             PROVE  Q!Next \/ UNCHANGED messenger
  BY DEF Q!vars, messenger
<1>0. /\ Code("main") \in Frames
      /\ Code("switch") \in Frames
      /\ \A t \in Threads : Handler(t) \in Frames
      /\ {"HANDOVER", "START", "STOP"} \subseteq Commands
  BY DEF Frames, Commands
<1>1. CASE MainStep
  BY <1>0, <1>1 DEF MainStep, MainPut, MainGet, MainGoes, Q!Next
<1>2. CASE SwitchStep
  BY <1>0, <1>2 DEF SwitchStep, PollSuspended, PollResumed, ReadSwitch, SwitchPut,
                    SwitchGet, Q!Next
<1>3. CASE MessageStep
  BY <1>3 DEF MessageStep, Take, Dispatch, Acknowledge, Q!Next, Q!Server
<1>4. CASE \E t \in Threads : HandlerStep(t)
  BY <1>0, <1>4 DEF HandlerStep, HandlerPut, HandlerGet, HandlerRaise, Q!Next
<1>5. CASE \E t \in SigThreads : EnterHandler(t)
  BY <1>5 DEF EnterHandler
<1>6. CASE MoveLever \/ RecoveryFails \/ SendTstp \/ SendCont \/ DefaultStop \/ HandleCont
  BY <1>6 DEF MoveLever, RecoveryFails, SendTstp, SendCont, DefaultStop, HandleCont
<1>7. CASE UNCHANGED vars
  BY <1>7 DEF vars
<1> QED  BY <1>1, <1>2, <1>3, <1>4, <1>5, <1>6, <1>7 DEF Next

(* Whoever calls and whatever interrupts him, the two pipes are used as    *)
(* Messenger says (camera.c:1335-1356).                                    *)
THEOREM ControlImplementsMessenger == Spec => Q!Spec
<1>1. Init => Q!Init
  BY DEF Init
<1> QED  BY <1>1, StepOfMessenger, PTL DEF Spec, Q!Spec

LEMMA SameSizes ==
  /\ \A S : Q!Cardinality(S) = QP!Cardinality(S)
  /\ \A S : IsFiniteSet(S) <=> QP!IsFiniteSet(S)
BY DEF Q!Cardinality, QP!Cardinality, IsFiniteSet, QP!IsFiniteSet

LEMMA SameTypes ==
  /\ Q!TypeOK <=> QP!TypeOK
  /\ Q!TypeOK' <=> QP!TypeOK'
BY DEF Q!TypeOK, QP!TypeOK, Q!Message, QP!Message

LEMMA SameCounts ==
  /\ Q!Conservation <=> QP!Conservation
  /\ Q!Conservation' <=> QP!Conservation'
BY SameSizes DEF Q!Conservation, QP!Conservation, Q!Awaiting, QP!Awaiting

LEMMA SameSteps ==
  /\ Q!Init <=> QP!Init
  /\ [Q!Next]_(Q!vars) <=> [QP!Next]_(QP!vars)
BY DEF Q!Init, QP!Init, Q!vars, QP!vars,
       Q!Next, QP!Next, Q!Put, QP!Put, Q!Get, QP!Get, Q!Server, QP!Server,
       Q!Take, QP!Take, Q!Dispatch, QP!Dispatch, Q!Acknowledge, QP!Acknowledge

LEMMA PipesTypesStep ==
  ASSUME Q!TypeOK, [Next]_vars
  PROVE  Q!TypeOK'
BY SameTypes, SameSteps, StepOfMessenger, QP!TypesStep

LEMMA PipesConserveStep ==
  ASSUME Q!TypeOK, Conservation, [Next]_vars
  PROVE  Conservation'
<1>1. QP!TypeOK /\ QP!Conservation /\ [QP!Next]_(QP!vars)
  BY SameTypes, SameCounts, SameSteps, StepOfMessenger DEF Conservation
<1>2. QP!Conservation'
  BY <1>1, FramesFinite, SameSizes, QP!ConservesStep
<1> QED  BY <1>2, SameCounts DEF Conservation

-----------------------------------------------------------------------------
Flags == stopped \in BOOLEAN /\ overlap \in BOOLEAN

Rest ==
  /\ status \in {"INITIALIZED", "STARTED", "STOPPED"}
  /\ main \in {"handover", "await", "signal(SIGTSTP)", "signal(SIGCONT)", "create", "join"}
  /\ poll \in {"sleep", "read", "START", "STOP", "await"}
  /\ sw_curr \in {-1, 0, 1}
  /\ lever \in {0, 1}
  /\ is_suspended \in {0, 1}
  /\ handler \in [Threads -> {"none", "put", "await", "raise"}]
  /\ pending \subseteq {"TSTP", "CONT"}
  /\ suspends \in 0..MaxSuspends

LEMMA TypesInit == Init => TypeOK
<1> SUFFICES ASSUME Init PROVE TypeOK
  OBVIOUS
<1>1. Q!TypeOK
  BY DEF Init, Q!Init, Q!TypeOK
<1>2. Rest
  BY ControlAssumption DEF Init, P!Init, Rest
<1>3. Flags
  BY Zenon DEF Init, Flags
<1> QED  BY <1>1, <1>2, <1>3 DEF TypeOK, Rest, Flags

LEMMA RestStep ==
  ASSUME Rest, [Next]_vars
  PROVE  Rest'
<1> USE DEF Rest
<1>1. CASE MainStep
  BY ZenonT(60), <1>1 DEF MainStep, MainPut, MainGet, MainGoes, switchVars, signalVars
<1>2. CASE SwitchStep
  BY ZenonT(60), <1>2 DEF SwitchStep, PollSuspended, PollResumed, ReadSwitch, SwitchPut, SwitchGet, signalVars
<1>3. CASE MoveLever
  BY <1>3 DEF MoveLever, switchVars, signalVars
<1>4. CASE MessageStep \/ RecoveryFails
  <2>1. /\ UNCHANGED <<main, switchVars, lever, signalVars>>
        /\ UNCHANGED status \/ P!Serve(msg[1].command) \/ P!RecoveryFails
    BY <1>4 DEF MessageStep, Take, Dispatch, Acknowledge, RecoveryFails
  <2>2. status' \in {status, "STARTED", "STOPPED"}
    BY <2>1 DEF P!Serve, P!Handover, P!Start, P!Stop, P!RecoveryFails
  <2> QED  BY <2>1, <2>2 DEF switchVars, signalVars
<1>5. CASE SendTstp
  BY <1>5, ControlAssumption DEF SendTstp, switchVars
<1>6. CASE SendCont \/ DefaultStop \/ HandleCont
  <2>1. /\ UNCHANGED <<status, main, switchVars, lever, handler, suspends>>
        /\ is_suspended' \in {0, is_suspended}
        /\ pending' \in {(pending \ {"TSTP"}) \cup {"CONT"}, pending \ {"TSTP"}, pending \ {"CONT"}}
    BY <1>6 DEF SendCont, DefaultStop, HandleCont
  <2> QED  BY <2>1 DEF switchVars
<1>7. CASE \E t \in SigThreads : EnterHandler(t)
  BY <1>7, ControlAssumption DEF EnterHandler, switchVars
<1>8. CASE \E t \in Threads : HandlerStep(t)
  <2>1. /\ UNCHANGED <<status, main, switchVars, lever, is_suspended, suspends>>
        /\ pending' \in {pending, pending \ {"CONT"}}
        /\ \E t \in Threads, to \in {"none", "await", "raise"} : handler' = [handler EXCEPT ![t] = to]
    BY <1>8 DEF HandlerStep, HandlerPut, HandlerGet, HandlerRaise, HandlerGoes
  <2> QED  BY <2>1 DEF switchVars
<1>9. CASE UNCHANGED vars
  BY <1>9 DEF vars, switchVars, signalVars
<1> QED  BY <1>1, <1>2, <1>3, <1>4, <1>5, <1>6, <1>7, <1>8, <1>9 DEF Next

LEMMA FlagsStep ==
  ASSUME Flags, [Next]_vars
  PROVE  Flags'
<1>1. /\ UNCHANGED stopped \/ stopped' = TRUE \/ stopped' = FALSE
      /\ \/ UNCHANGED overlap
         \/ overlap' = (overlap \/ \E t \in Threads : handler[t] # "none")
         \/ overlap' = (poll # "sleep" \/ (overlap /\ \E u \in Threads : handler[u] # "none"))
  BY Zenon DEF Next, vars, signalVars,
       MainStep, MainPut, MainGet, MainGoes,
       SwitchStep, PollSuspended, PollResumed, ReadSwitch, SwitchPut, SwitchGet, MoveLever,
       MessageStep, Take, Dispatch, Acknowledge, RecoveryFails, SendTstp, SendCont, DefaultStop,
       EnterHandler, HandlerStep, HandlerPut, HandlerGet, HandlerRaise, HandlerGoes, HandleCont
<1> QED  BY <1>1, Zenon DEF Flags

LEMMA TypesStep ==
  ASSUME TypeOK, [Next]_vars
  PROVE  TypeOK'
<1>1. Q!TypeOK'
  BY PipesTypesStep DEF TypeOK
<1>2. Rest'
  BY RestStep DEF TypeOK, Rest
<1>3. Flags'
  BY FlagsStep DEF TypeOK, Flags
<1> QED  BY <1>1, <1>2, <1>3 DEF TypeOK, Rest, Flags

(* Every variable keeps its type, is_suspended and the pipes included.     *)
THEOREM ControlTypes == Spec => []TypeOK
BY TypesInit, TypesStep, PTL DEF Spec

LEMMA ConservesInit == Init => Conservation
BY SameCounts, SameSteps, QP!ConservesInit DEF Init, Conservation

(* As many messages are under way as callers wait, whatever handlers       *)
(* interrupt the callers (camera.c:1348-1352, main.c:267).                 *)
THEOREM ControlConserves == Spec => []Conservation
<1>1. TypeOK /\ Conservation /\ [Next]_vars => Conservation'
  BY PipesConserveStep DEF TypeOK
<1> QED  BY <1>1, ConservesInit, ControlTypes, PTL DEF Spec

-----------------------------------------------------------------------------
LEMMA FrameNames ==
  /\ Code("main") \in Frames
  /\ Code("switch") \in Frames
  /\ \A t \in Threads : Handler(t) \in Frames
  /\ Code("main") # Code("switch")
  /\ \A t \in Threads : Handler(t) # Code("main") /\ Handler(t) # Code("switch")
  /\ \A t, u \in Threads : Handler(t) = Handler(u) => t = u
BY DEF Frames, Code, Handler

LEMMA WhoAwaitsInit == Init => WhoAwaits
BY FrameNames DEF Init, Q!Init, WhoAwaits, Busy

(* A call is awaited exactly where the caller says so.                     *)
LEMMA WhoAwaitsStep ==
  ASSUME TypeOK, WhoAwaits, [Next]_vars
  PROVE  WhoAwaits'
<1>0. call \in [Frames -> {"idle", "await"}] /\ handler \in [Threads -> {"none", "put", "await", "raise"}]
  BY DEF TypeOK, Q!TypeOK
<1> USE FrameNames DEF WhoAwaits, Busy, HandlesTstp
<1>1. CASE MainPut
  BY <1>0, <1>1 DEF MainPut, Q!Put, switchVars, signalVars
<1>2. CASE MainGet
  BY <1>0, <1>2 DEF MainGet, Q!Get, switchVars, signalVars
<1>3. CASE MainStep /\ ~MainPut /\ ~MainGet
  BY <1>0, <1>3 DEF MainStep, MainGoes, messenger, switchVars, signalVars
<1>4. CASE PollSuspended \/ PollResumed \/ ReadSwitch
  BY <1>0, <1>4 DEF PollSuspended, PollResumed, ReadSwitch, SwitchRuns, messenger, signalVars
<1>5. CASE SwitchPut
  BY <1>0, <1>5 DEF SwitchPut, SwitchRuns, Q!Put, signalVars
<1>6. CASE SwitchGet
  BY <1>0, <1>6 DEF SwitchGet, SwitchRuns, Q!Get, signalVars
<1>7. CASE MoveLever \/ MessageStep \/ RecoveryFails \/ SendTstp \/ SendCont \/ DefaultStop \/ HandleCont \/ UNCHANGED vars
  <2>1. UNCHANGED <<call, main, poll, sw_curr, handler>>
    BY <1>7 DEF MoveLever, MessageStep, Take, Dispatch, Acknowledge, RecoveryFails, SendTstp, SendCont,
       DefaultStop, HandleCont, vars, Q!Take, Q!Dispatch, Q!Acknowledge, messenger, switchVars, signalVars
  <2> QED  BY <2>1
<1>8. ASSUME NEW t \in SigThreads, EnterHandler(t)
      PROVE  WhoAwaits'
  BY <1>0, <1>8, ControlAssumption DEF EnterHandler, Runs, messenger, switchVars
<1>9. ASSUME NEW t \in Threads, HandlerStep(t)
      PROVE  WhoAwaits'
  <2>1. CASE HandlerPut(t)
    BY <1>0, <2>1 DEF HandlerPut, HandlerGoes, Q!Put, switchVars
  <2>2. CASE HandlerGet(t)
    BY <1>0, <2>2 DEF HandlerGet, HandlerGoes, Q!Get, switchVars
  <2>3. CASE HandlerRaise(t)
    BY <1>0, <2>3 DEF HandlerRaise, HandlerGoes, messenger, switchVars
  <2> QED  BY <1>9, <2>1, <2>2, <2>3 DEF HandlerStep
<1> QED  BY <1>1, <1>2, <1>3, <1>4, <1>5, <1>6, <1>7, <1>8, <1>9 DEF Next, SwitchStep

-----------------------------------------------------------------------------
LEMMA FreshStep ==
  ASSUME TypeOK, Fresh, [Next]_vars
  PROVE  Fresh'
<1>0. cmd \in Seq(Q!Message)
  BY DEF TypeOK, Q!TypeOK
<1> SUFFICES ASSUME Q!Next PROVE Fresh'
  BY StepOfMessenger DEF Q!vars, Fresh
<1>1. ASSUME NEW r \in Frames, NEW c \in Commands, Q!Put(r, c)
      PROVE  Fresh'
  BY <1>0, <1>1, AppendProperties DEF Q!Put, Fresh
<1>2. CASE Q!Take
  BY <1>0, <1>2, HeadTailProperties DEF Q!Take, Fresh
<1>3. CASE UNCHANGED cmd
  BY <1>3 DEF Fresh
<1> QED  BY <1>1, <1>2, <1>3 DEF Q!Next, Q!Server, Q!Get, Q!Dispatch, Q!Acknowledge

LEMMA SameSize == \A S : Q!Cardinality(S) = Cardinality(S)
BY DEF Cardinality, Q!Cardinality

LEMMA NoneUnderWay ==
  ASSUME TypeOK, Conservation, Q!Awaiting = {}
  PROVE  cmd = <<>> /\ msg = <<>> /\ ack = <<>>
<1>1. Len(cmd) + Len(msg) + Len(ack) = 0
  BY SameSize, FS_EmptySet DEF Conservation, Q!Conservation
<1>2. Len(cmd) \in Nat /\ Len(msg) \in Nat /\ Len(ack) \in Nat
  BY LenProperties DEF TypeOK, Q!TypeOK
<1>3. Len(cmd) = 0 /\ Len(msg) = 0 /\ Len(ack) = 0
  BY <1>1, <1>2
<1> QED  BY <1>3, EmptySeq DEF TypeOK, Q!TypeOK

LEMMA SomeUnderWay ==
  ASSUME TypeOK, Conservation, Q!Awaiting # {}
  PROVE  cmd # <<>> \/ msg # <<>> \/ ack # <<>>
<1>1. IsFiniteSet(Q!Awaiting)
  BY FramesFinite, FS_Subset DEF Q!Awaiting
<1>2. SUFFICES ASSUME cmd = <<>>, msg = <<>>, ack = <<>>
               PROVE  Cardinality(Q!Awaiting) # 0
  BY SameSize DEF Conservation, Q!Conservation
<1> QED  BY <1>1, FS_EmptySet

LEMMA Dispatched ==
  ASSUME TypeOK, Q!Dispatch
  PROVE  /\ msg # <<>> /\ msg' # <<>>
         /\ msg'[1].command = msg[1].command
         /\ ~msg[1].acked /\ msg'[1].acked
<1>0. msg # <<>> /\ QP!TypeOK
  BY SameTypes DEF Q!Dispatch, TypeOK
<1>1. msg[1] \in [command : Commands, acked : BOOLEAN, from : Frames]
  BY <1>0, QP!HeldMessage DEF QP!Message
<1> DEFINE m == [msg[1] EXCEPT !.acked = TRUE]
<1>2. m.command = msg[1].command /\ m.acked = TRUE
  BY <1>1
<1>3. msg' = <<m>>
  BY DEF Q!Dispatch
<1> HIDE DEF m
<1>4. msg'[1] = m /\ msg' # <<>>
  BY <1>3
<1> QED  BY <1>0, <1>2, <1>4 DEF Q!Dispatch

(* What keeps only orders to stop under way. *)
LEMMA OnlyStopsKept ==
  ASSUME TypeOK, OnlyStops,
         \/ \E r \in Frames : Q!Put(r, "STOP") \/ Q!Get(r)
         \/ Q!Server
         \/ UNCHANGED <<cmd, msg>>
  PROVE  OnlyStops'
<1>0. cmd \in Seq(Q!Message) /\ msg \in Seq(Q!Message)
  BY DEF TypeOK, Q!TypeOK
<1>1. ASSUME NEW r \in Frames, Q!Put(r, "STOP")
      PROVE  OnlyStops'
  BY <1>0, <1>1, AppendProperties DEF Q!Put, OnlyStops
<1>2. CASE Q!Take
  BY <1>0, <1>2, HeadTailProperties DEF Q!Take, OnlyStops
<1>3. CASE Q!Dispatch
  BY <1>3, Dispatched DEF Q!Dispatch, OnlyStops
<1>4. CASE Q!Acknowledge
  BY <1>0, <1>4 DEF Q!Acknowledge, OnlyStops
<1>5. CASE UNCHANGED <<cmd, msg>>
  BY <1>5 DEF OnlyStops
<1> QED  BY <1>1, <1>2, <1>3, <1>4, <1>5 DEF Q!Server, Q!Get

-----------------------------------------------------------------------------
Guarded == HandlesTstp /\ ~overlap /\ (Busy \/ stopped)

LEMMA DarkensInit == Init => Darkens
BY DEF Init, Darkens, HandlesTstp

LEMMA DarkensStep ==
  ASSUME TypeOK, Conservation, WhoAwaits, Fresh, Darkens, [Next]_vars
  PROVE  Darkens'
<1> SUFFICES ASSUME Guarded'
             PROVE  (poll = "sleep" /\ OnlyStops /\ (Executed => status # "STARTED"))'
  BY DEF Darkens, Guarded
<1>0. Guarded => poll = "sleep" /\ OnlyStops /\ (Executed => status # "STARTED")
  BY DEF Darkens, Guarded
<1>1. CASE MainStep
  <2>1. UNCHANGED <<poll, status, overlap, handler, stopped>> /\ ~stopped
    BY <1>1 DEF MainStep, MainPut, MainGet, MainGoes, Runs, switchVars, signalVars
  <2>2. HandlesTstp
    BY <2>1 DEF Guarded, WhoAwaits, Busy
  <2>3. UNCHANGED messenger
    BY <1>1, <2>2 DEF MainStep, MainPut, MainGet, MainGoes, HandlesTstp
  <2> QED  BY <1>0, <2>1, <2>2, <2>3 DEF Guarded, Busy, OnlyStops, Executed, messenger
<1>2. CASE SwitchStep
  <2>1. CASE PollSuspended
    BY <1>0, <2>1 DEF PollSuspended, Guarded, Busy, HandlesTstp, OnlyStops, Executed, messenger, signalVars
  <2>2. CASE PollResumed
    BY <2>2 DEF PollResumed, SwitchRuns, Runs, Guarded, Busy, signalVars
  <2>3. CASE ReadSwitch \/ SwitchPut \/ SwitchGet
    <3>1. UNCHANGED <<main, handler, stopped, overlap>> /\ poll # "sleep"
      BY <2>3 DEF ReadSwitch, SwitchPut, SwitchGet, SwitchRuns, signalVars
    <3> QED  BY <1>0, <3>1 DEF Guarded, Busy, HandlesTstp
  <2> QED  BY <1>2, <2>1, <2>2, <2>3 DEF SwitchStep
<1>3. CASE MessageStep \/ RecoveryFails
  <2>0. UNCHANGED <<main, poll, overlap, handler, stopped>> /\ Guarded
    BY <1>3 DEF MessageStep, Take, Dispatch, Acknowledge, RecoveryFails, switchVars, signalVars,
       Guarded, HandlesTstp, Busy
  <2>1. OnlyStops'
    BY <1>0, <1>3, <2>0, OnlyStopsKept
       DEF MessageStep, Take, Dispatch, Acknowledge, RecoveryFails, Q!Server, messenger
  <2>2. CASE Take
    <3>1. msg' # <<>> /\ ~msg'[1].acked /\ msg = <<>>
      BY <2>2, HeadTailProperties DEF Take, Q!Take, Fresh, TypeOK, Q!TypeOK
    <3> QED  BY <1>0, <2>0, <2>1, <2>2, <3>1 DEF Take, Q!Take, Executed
  <2>3. CASE Dispatch
    <3>1. msg[1].command = "STOP"
      BY <1>0, <2>0, <2>3 DEF Dispatch, Q!Dispatch, OnlyStops
    <3>2. status' = "STOPPED"
      BY <2>3, <3>1 DEF Dispatch, P!Serve, P!Stop
    <3> QED  BY <1>0, <2>0, <2>1, <3>2
  <2>4. CASE Acknowledge
    BY <1>0, <2>0, <2>1, <2>4 DEF Acknowledge, Q!Acknowledge, Executed
  <2>5. CASE RecoveryFails
    <3>1. status' = "STOPPED"
      BY <2>5 DEF RecoveryFails, P!RecoveryFails
    <3> QED  BY <1>0, <2>0, <2>1, <3>1
  <2> QED  BY <1>3, <2>2, <2>3, <2>4, <2>5 DEF MessageStep
<1>4. CASE MoveLever \/ SendTstp \/ SendCont \/ DefaultStop \/ HandleCont \/ UNCHANGED vars
  <2>1. /\ UNCHANGED <<messenger, status, main, poll, handler, overlap>>
        /\ stopped' => stopped
    BY <1>4 DEF MoveLever, SendTstp, SendCont, DefaultStop, HandleCont, vars, switchVars, signalVars,
       Guarded, HandlesTstp
  <2> QED  BY <1>0, <2>1 DEF Guarded, Busy, HandlesTstp, OnlyStops, Executed, messenger
<1>5. ASSUME NEW t \in SigThreads, EnterHandler(t)
      PROVE  (poll = "sleep" /\ OnlyStops /\ (Executed => status # "STARTED"))'
  <2>0. t \in Threads /\ handler \in [Threads -> {"none", "put", "await", "raise"}]
    BY ControlAssumption DEF TypeOK
  <2>1. /\ UNCHANGED <<cmd, ack, msg, status, main, poll, stopped>>
        /\ HandlesTstp /\ ~stopped /\ poll = "sleep"
        /\ \A u \in Threads : handler'[u] = "raise" => handler[u] = "raise"
        /\ Busy => ~overlap
    BY <1>5, <2>0 DEF EnterHandler, Runs, Guarded, Busy, messenger, switchVars
  <2>2. CASE Busy
    BY <1>0, <2>1, <2>2 DEF Guarded, OnlyStops, Executed
  <2>3. CASE ~Busy
    <3>1. Q!Awaiting = {}
      <4>1. \A f \in Frames : call[f] # "await"
        BY <2>1, <2>3 DEF WhoAwaits, Busy, HandlesTstp, Frames
      <4> QED  BY <4>1 DEF Q!Awaiting
    <3>2. cmd = <<>> /\ msg = <<>> /\ ack = <<>>
      BY <3>1, NoneUnderWay
    <3> QED  BY <2>1, <2>3, <3>2 DEF Busy, OnlyStops, Executed
  <2> QED  BY <2>2, <2>3
<1>6. ASSUME NEW t \in Threads, HandlerStep(t)
      PROVE  (poll = "sleep" /\ OnlyStops /\ (Executed => status # "STARTED"))'
  <2>0. handler \in [Threads -> {"none", "put", "await", "raise"}]
    BY DEF TypeOK
  <2>1. UNCHANGED <<status, main, poll, overlap>> /\ ~stopped /\ Busy
    BY <1>6 DEF HandlerStep, HandlerPut, HandlerGet, HandlerRaise, HandlerGoes, switchVars, Busy
  <2>2. Guarded
    BY <2>1 DEF Guarded, HandlesTstp
  <2>3. OnlyStops'
    BY <1>0, <1>6, <2>2, FrameNames, OnlyStopsKept
       DEF HandlerStep, HandlerPut, HandlerGet, HandlerRaise, messenger
  <2>4. CASE HandlerPut(t)
    BY <1>0, <2>0, <2>1, <2>2, <2>3, <2>4 DEF HandlerPut, HandlerGoes, Q!Put, Executed
  <2>5. CASE HandlerGet(t) \/ HandlerRaise(t)
    <3>1. Executed
      BY <2>5 DEF HandlerGet, HandlerRaise, HandlerGoes, Q!Get, Executed
    <3> QED  BY <1>0, <2>1, <2>2, <2>3, <3>1
  <2> QED  BY <1>6, <2>4, <2>5 DEF HandlerStep
<1> QED  BY <1>1, <1>2, <1>3, <1>4, <1>5, <1>6 DEF Next

LEMMA DarkensGives == Darkens => StopsDark
BY DEF Darkens, StopsDark, Executed

(* The handler of SIGTSTP stops the process with the preview off, unless a *)
(* poll of the switch was under way: on whichever thread it runs and       *)
(* however many of them run at once (main.c:261-273).                      *)
THEOREM ControlStopsDark == Spec => []StopsDark
<1>1. Init => WhoAwaits /\ Fresh /\ Darkens
  BY WhoAwaitsInit, DarkensInit DEF Init, Q!Init, Fresh
<1>2. TypeOK /\ Conservation /\ WhoAwaits /\ Fresh /\ Darkens /\ [Next]_vars
        => (WhoAwaits /\ Fresh /\ Darkens)'
  BY WhoAwaitsStep, FreshStep, DarkensStep
<1> QED  BY <1>1, <1>2, DarkensGives, ControlTypes, ControlConserves, PTL DEF Spec

-----------------------------------------------------------------------------
LastIs(c) == cmd # <<>> /\ cmd[Len(cmd)].command = c

(* Which status an order leaves. *)
LeavesIn(c, statuses) ==
  \/ c = "STOP" /\ "STOPPED" \in statuses
  \/ c = "START" /\ "start" \notin Failures /\ "STARTED" \in statuses

(* No order but the last one decides what Ordered asks for: a step that    *)
(* appends that order makes it true, and the message thread keeps it.      *)
LEMMA PutOrders ==
  ASSUME TypeOK, NEW r \in Frames, NEW c \in Commands, Q!Put(r, c)
  PROVE  LastIs(c)'
<1>0. cmd \in Seq(Q!Message)
  BY DEF TypeOK, Q!TypeOK
<1> DEFINE m == [command |-> c, acked |-> FALSE, from |-> r]
<1>1. m \in Q!Message
  BY DEF Q!Message
<1>2. cmd' = Append(cmd, m) /\ m.command = c
  BY DEF Q!Put
<1> HIDE DEF m
<1>3. /\ Len(cmd') = Len(cmd) + 1 /\ Len(cmd) \in Nat
      /\ cmd'[Len(cmd) + 1] = m /\ cmd' \in Seq(Q!Message)
  BY <1>0, <1>1, <1>2, AppendProperties
<1>4. cmd' # <<>>
  BY <1>3, EmptySeq
<1> QED  BY <1>2, <1>3, <1>4 DEF LastIs

LEMMA ServerKeepsOrdered ==
  ASSUME TypeOK, Fresh, MessageStep,
         NEW c, NEW statuses, LeavesIn(c, statuses), Ordered(c, statuses)
  PROVE  Ordered(c, statuses)'
<1>0. cmd \in Seq(Q!Message)
  BY DEF TypeOK, Q!TypeOK
<1>1. CASE Take
  <2>1. LastIs(c) /\ cmd' = Tail(cmd) /\ msg' = <<Head(cmd)>> /\ cmd # <<>>
    BY <1>1 DEF Take, Q!Take, Ordered, LastIs
  <2>2. CASE cmd' # <<>>
    <3>1. /\ Len(cmd') = Len(cmd) - 1 /\ cmd' \in Seq(Q!Message)
          /\ \A i \in 1..Len(cmd') : cmd'[i] = cmd[i + 1]
      BY <1>0, <2>1, HeadTailProperties
    <3>2. Len(cmd') \in Nat \ {0} /\ Len(cmd) \in Nat
      BY <1>0, <2>2, <3>1, EmptySeq, LenProperties
    <3>3. Len(cmd') \in 1..Len(cmd') /\ Len(cmd') + 1 = Len(cmd)
      BY <3>1, <3>2
    <3>4. cmd'[Len(cmd')] = cmd[Len(cmd)]
      BY <3>1, <3>3
    <3> QED  BY <2>1, <2>2, <3>4 DEF Ordered, LastIs
  <2>3. CASE cmd' = <<>>
    <3>1. Len(cmd) - 1 = 0 /\ Len(cmd) \in Nat
      BY <1>0, <2>1, <2>3, HeadTailProperties, EmptySeq, LenProperties
    <3>2. Len(cmd) = 1 /\ Head(cmd) = cmd[1]
      BY <3>1, <1>0, <2>1
    <3>3. cmd[1].command = c /\ ~cmd[1].acked
      BY <2>1, <3>2 DEF LastIs, Fresh
    <3>4. msg' # <<>> /\ msg'[1] = cmd[1]
      BY <2>1, <3>2
    <3> QED  BY <2>3, <3>3, <3>4 DEF Ordered
  <2> QED  BY <2>2, <2>3
<1>2. CASE Dispatch
  <2>0. Q!Dispatch /\ UNCHANGED cmd
    BY <1>2 DEF Dispatch, Q!Dispatch
  <2>1. CASE LastIs(c)
    BY <2>0, <2>1 DEF Ordered, LastIs
  <2>2. CASE ~LastIs(c)
    <3>1. cmd = <<>> /\ msg[1].command = c
      BY <2>0, <2>2, Dispatched DEF Ordered, LastIs
    <3>2. status' \in statuses
      BY <1>2, <3>1 DEF Dispatch, P!Serve, P!Stop, P!Start, LeavesIn
    <3> QED  BY <2>0, <3>1, <3>2, Dispatched DEF Ordered
  <2> QED  BY <2>1, <2>2
<1>3. CASE Acknowledge
  BY <1>3 DEF Acknowledge, Q!Acknowledge, Ordered
<1> QED  BY <1>1, <1>2, <1>3 DEF MessageStep

LEMMA StaysOffStep ==
  ASSUME TypeOK, WhoAwaits, Fresh, StaysOff, [Next]_vars
  PROVE  StaysOff'
<1> DEFINE At == sw_curr = 0 /\ poll \in {"sleep", "read", "await"}
<1>1. ASSUME UNCHANGED <<cmd, msg, poll, sw_curr>>, status' \in {status, "STOPPED"}
      PROVE  StaysOff'
  BY <1>1 DEF StaysOff, OffOrdered, Ordered
<1>2. CASE MainStep
  <2>1. UNCHANGED <<poll, sw_curr>> /\ main # "join"
    BY <1>2 DEF MainStep, MainPut, MainGet, MainGoes, switchVars
  <2> QED  BY <2>1 DEF WhoAwaits, StaysOff
<1>3. CASE SwitchStep
  <2>1. CASE PollSuspended \/ PollResumed
    BY <2>1 DEF PollSuspended, PollResumed, SwitchRuns, messenger, StaysOff, OffOrdered, Ordered
  <2>2. CASE ReadSwitch
    BY <2>2 DEF ReadSwitch, SwitchRuns, messenger, StaysOff, OffOrdered, Ordered
  <2>3. CASE SwitchPut
    <3>1. poll' = "await" /\ sw_curr' = sw_curr
      BY <2>3 DEF SwitchPut
    <3>2. CASE poll = "START"
      BY <3>1, <3>2 DEF StaysOff
    <3>3. CASE poll = "STOP"
      BY <2>3, <3>1, <3>3, FrameNames, PutOrders
         DEF SwitchPut, StaysOff, OffOrdered, Ordered, LastIs, Commands
    <3> QED  BY <2>3, <3>2, <3>3 DEF SwitchPut
  <2>4. CASE SwitchGet
    BY <2>4 DEF SwitchGet, SwitchRuns, Q!Get, StaysOff, OffOrdered, Ordered
  <2> QED  BY <1>3, <2>1, <2>2, <2>3, <2>4 DEF SwitchStep
<1>4. CASE MessageStep
  <2>1. UNCHANGED <<poll, sw_curr>>
    BY <1>4 DEF MessageStep, Take, Dispatch, Acknowledge, switchVars
  <2>2. LeavesIn("STOP", {"INITIALIZED", "STOPPED"})
    BY DEF LeavesIn
  <2> QED  BY <1>4, <2>1, <2>2, ServerKeepsOrdered DEF StaysOff, OffOrdered
<1>5. CASE RecoveryFails
  BY <1>1, <1>5 DEF RecoveryFails, P!RecoveryFails, messenger, switchVars
<1>6. CASE MoveLever \/ SendTstp \/ SendCont \/ DefaultStop \/ HandleCont \/ UNCHANGED vars
  BY <1>1, <1>6 DEF MoveLever, SendTstp, SendCont, DefaultStop, HandleCont, vars, messenger, switchVars
<1>7. ASSUME NEW t \in SigThreads, EnterHandler(t)
      PROVE  StaysOff'
  BY <1>1, <1>7 DEF EnterHandler, messenger, switchVars
<1>8. ASSUME NEW t \in Threads, HandlerStep(t)
      PROVE  StaysOff'
  <2>1. CASE HandlerPut(t)
    <3>1. UNCHANGED <<poll, sw_curr>>
      BY <2>1 DEF HandlerPut, switchVars
    <3> QED  BY <2>1, <3>1, FrameNames, PutOrders
         DEF HandlerPut, StaysOff, OffOrdered, Ordered, LastIs, Commands
  <2>2. CASE HandlerGet(t) \/ HandlerRaise(t)
    BY <1>1, <2>2 DEF HandlerGet, HandlerRaise, Q!Get, messenger, switchVars
  <2> QED  BY <1>8, <2>1, <2>2 DEF HandlerStep
<1> QED  BY <1>2, <1>3, <1>4, <1>5, <1>6, <1>7, <1>8 DEF Next

(* With no call under way and the switch thread asleep on "off", the       *)
(* preview is off, whatever handlers came in between (main.c:353-362).     *)
THEOREM ControlOffMeansOff == Spec => []OffMeansOff
<1>1. Init => WhoAwaits /\ Fresh /\ StaysOff
  BY WhoAwaitsInit DEF Init, Q!Init, Fresh, StaysOff
<1>2. TypeOK /\ Conservation /\ WhoAwaits /\ Fresh /\ StaysOff /\ [Next]_vars
        => (WhoAwaits /\ Fresh /\ StaysOff)'
  BY WhoAwaitsStep, FreshStep, StaysOffStep
<1>3. TypeOK /\ Conservation /\ StaysOff => OffMeansOff
  BY NoneUnderWay DEF StaysOff, OffOrdered, Ordered, OffMeansOff
<1> QED  BY <1>1, <1>2, <1>3, ControlTypes, ControlConserves, PTL DEF Spec

-----------------------------------------------------------------------------
LEMMA StaysOnStep ==
  ASSUME {"start", "recover"} \cap Failures = {},
         TypeOK, WhoAwaits, Fresh, StaysOn, [Next]_vars
  PROVE  StaysOn'
<1> SUFFICES ASSUME suspends' = 0
             PROVE  (/\ "TSTP" \notin pending /\ ~Busy
                     /\ poll = "STOP" => sw_curr # 1
                     /\ (sw_curr = 1 /\ poll \in {"sleep", "read", "await"}) => OnOrdered)'
  BY DEF StaysOn
<1> DEFINE Calm == "TSTP" \notin pending /\ ~Busy
           Follows == /\ poll = "STOP" => sw_curr # 1
                      /\ (sw_curr = 1 /\ poll \in {"sleep", "read", "await"}) => OnOrdered
<1>0. ~SendTstp /\ suspends \in Nat /\ sw_curr \in {-1, 0, 1} /\ lever \in {0, 1}
  BY DEF SendTstp, TypeOK
<1>1. suspends' = suspends
  BY <1>0 DEF Next, MainStep, MainPut, MainGet, MainGoes, SwitchStep, PollSuspended, PollResumed,
     ReadSwitch, SwitchPut, SwitchGet, MoveLever, MessageStep, Take, Dispatch, Acknowledge,
     RecoveryFails, SendCont, DefaultStop, EnterHandler, HandlerStep, HandlerPut, HandlerGet,
     HandlerRaise, HandleCont, vars, signalVars
<1>2. Calm /\ Follows
  BY <1>1 DEF StaysOn
<1>3. ~(\E t \in SigThreads : EnterHandler(t)) /\ ~(\E t \in Threads : HandlerStep(t))
  BY <1>2 DEF EnterHandler, HandlerStep, HandlerPut, HandlerGet, HandlerRaise, HandlerGoes, Busy
<1>4. ASSUME UNCHANGED <<cmd, msg, status, poll, sw_curr>>
      PROVE  Follows'
  BY <1>2, <1>4 DEF OnOrdered, Ordered
<1>5. ASSUME UNCHANGED signalVars
      PROVE  Calm'
  BY <1>2, <1>5 DEF signalVars, Busy
<1>6. CASE MainStep
  <2>1. UNCHANGED <<poll, sw_curr>> /\ main # "join" /\ UNCHANGED signalVars
    BY <1>6 DEF MainStep, MainPut, MainGet, MainGoes, switchVars
  <2>2. poll = "sleep" /\ sw_curr = -1
    BY <2>1 DEF WhoAwaits
  <2> QED  BY <1>5, <2>1, <2>2
<1>7. CASE SwitchStep
  <2>0. Calm'
    BY <1>5, <1>7 DEF SwitchStep, PollSuspended, PollResumed, ReadSwitch, SwitchPut, SwitchGet
  <2>1. CASE PollSuspended
    BY <2>0, <2>1 DEF PollSuspended, SwitchRuns
  <2>2. CASE PollResumed
    BY <1>2, <2>0, <2>2 DEF PollResumed, SwitchRuns, messenger, OnOrdered, Ordered
  <2>3. CASE ReadSwitch
    BY <1>0, <1>2, <2>0, <2>3 DEF ReadSwitch, SwitchRuns, messenger, OnOrdered, Ordered
  <2>4. CASE SwitchPut
    <3>1. poll' = "await" /\ sw_curr' = sw_curr
      BY <2>4 DEF SwitchPut
    <3>2. CASE poll = "STOP"
      BY <1>2, <2>0, <3>1, <3>2
    <3>3. CASE poll = "START"
      BY <2>0, <2>4, <3>1, <3>3, FrameNames, PutOrders
         DEF SwitchPut, OnOrdered, Ordered, LastIs, Commands
    <3> QED  BY <2>4, <3>2, <3>3 DEF SwitchPut
  <2>5. CASE SwitchGet
    BY <1>2, <2>0, <2>5 DEF SwitchGet, SwitchRuns, Q!Get, OnOrdered, Ordered
  <2> QED  BY <1>7, <2>1, <2>2, <2>3, <2>4, <2>5 DEF SwitchStep
<1>8. CASE MessageStep
  <2>1. UNCHANGED <<poll, sw_curr>> /\ Calm'
    BY <1>5, <1>8 DEF MessageStep, Take, Dispatch, Acknowledge, switchVars
  <2>2. LeavesIn("START", {"STARTED"})
    BY DEF LeavesIn
  <2> QED  BY <1>2, <1>8, <2>1, <2>2, ServerKeepsOrdered DEF OnOrdered
<1>9. ~RecoveryFails
  BY DEF RecoveryFails, P!RecoveryFails
<1>10. CASE MoveLever \/ UNCHANGED vars
  BY <1>4, <1>5, <1>10 DEF MoveLever, vars, messenger, switchVars
<1>11. CASE SendCont \/ DefaultStop \/ HandleCont
  <2>1. UNCHANGED <<cmd, msg, status, poll, sw_curr, handler>> /\ "TSTP" \notin pending'
    BY <1>2, <1>11 DEF SendCont, DefaultStop, HandleCont, messenger, switchVars
  <2> QED  BY <1>2, <1>4, <2>1 DEF Busy
<1> QED  BY <1>0, <1>3, <1>6, <1>7, <1>8, <1>9, <1>10, <1>11 DEF Next

(* Where no start and no recovery fails, and until somebody is suspended,  *)
(* the switch thread asleep on "on" with no call under way means that the  *)
(* preview runs, whatever the lever did before (main.c:346-362).           *)
THEOREM ControlOnMeansOn ==
  ASSUME {"start", "recover"} \cap Failures = {}
  PROVE  Spec => []OnMeansOn
<1>1. Init => WhoAwaits /\ Fresh /\ StaysOn
  BY WhoAwaitsInit DEF Init, Q!Init, Fresh, StaysOn, Busy
<1>2. TypeOK /\ WhoAwaits /\ Fresh /\ StaysOn /\ [Next]_vars => (WhoAwaits /\ Fresh /\ StaysOn)'
  BY WhoAwaitsStep, FreshStep, StaysOnStep
<1>3. TypeOK /\ Conservation /\ StaysOn => OnMeansOn
  BY NoneUnderWay DEF StaysOn, OnOrdered, Ordered, OnMeansOn
<1> QED  BY <1>1, <1>2, <1>3, ControlTypes, ControlConserves, PTL DEF Spec

-----------------------------------------------------------------------------
LEMMA HandoverFirstInit == Init => HandoverFirst
BY DEF Init, Q!Init, HandoverFirst

LEMMA HandoverFirstStep ==
  ASSUME TypeOK, WhoAwaits, HandoverFirst, [Next]_vars
  PROVE  HandoverFirst'
<1>0. cmd \in Seq(Q!Message) /\ msg \in Seq(Q!Message) /\ ack \in Seq(Q!Message)
  BY DEF TypeOK, Q!TypeOK
(* Only main puts anything while it has the handover to do. *)
<1>1. ASSUME NEW r \in Frames, NEW c \in {"START", "STOP"}, Q!Put(r, c),
             UNCHANGED main, main \notin {"handover", "await"}
      PROVE  HandoverFirst'
  <2> DEFINE m == [command |-> c, acked |-> FALSE, from |-> r]
  <2>1. m.command # "HANDOVER"
    OBVIOUS
  <2>2. cmd' = Append(cmd, m) /\ msg' = msg
    BY <1>1 DEF Q!Put
  <2>3. m \in Q!Message
    BY <1>1 DEF Q!Message, Commands
  <2> HIDE DEF m
  <2>4. \A i \in 1..Len(cmd') : cmd'[i] = m \/ (i \in 1..Len(cmd) /\ cmd'[i] = cmd[i])
    BY <1>0, <2>2, <2>3, AppendProperties
  <2> QED  BY <1>1, <2>1, <2>2, <2>4 DEF HandoverFirst
<1>2. CASE MainPut
  <2> DEFINE m == [command |-> "HANDOVER", acked |-> FALSE, from |-> Code("main")]
  <2>1. m.command = "HANDOVER"
    OBVIOUS
  <2>2. cmd' = Append(cmd, m) /\ UNCHANGED <<ack, msg>> /\ main = "handover" /\ main' = "await"
    BY <1>2 DEF MainPut, Q!Put
  <2> HIDE DEF m
  <2>3. cmd' = <<m>>
    BY <2>2 DEF HandoverFirst
  <2> QED  BY <2>1, <2>2, <2>3 DEF HandoverFirst
<1>3. CASE MainGet
  <2>1. main = "await" /\ main' = "signal(SIGTSTP)" /\ ack # <<>> /\ UNCHANGED <<cmd, msg>>
    BY <1>3 DEF MainGet, Q!Get
  <2>2. cmd = <<>> /\ msg = <<>>
    BY <2>1 DEF HandoverFirst
  <2> QED  BY <2>1, <2>2 DEF HandoverFirst
<1>4. CASE MainStep /\ ~MainPut /\ ~MainGet
  BY <1>4 DEF MainStep, MainGoes, messenger, HandoverFirst
<1>5. CASE SwitchPut
  BY <1>1, <1>5, FrameNames DEF SwitchPut, SwitchRuns
<1>6. CASE \E t \in Threads : HandlerPut(t)
  <2>1. PICK t \in Threads : HandlerPut(t)
    BY <1>6
  <2>2. main \notin {"handover", "await"}
    BY <2>1 DEF HandlerPut, HandlerGoes, WhoAwaits, Busy, HandlesTstp
  <2> QED  BY <1>1, <2>1, <2>2, FrameNames DEF HandlerPut
<1>7. CASE SwitchGet \/ \E t \in Threads : HandlerGet(t)
  <2>1. UNCHANGED <<cmd, msg, main>>
    BY <1>7 DEF SwitchGet, HandlerGet, Q!Get
  <2>2. main \notin {"handover", "await"}
    BY <1>7 DEF SwitchGet, SwitchRuns, HandlerGet, HandlerGoes, WhoAwaits, Busy, HandlesTstp
  <2> QED  BY <2>1, <2>2 DEF HandoverFirst
<1>8. CASE Take
  <2>1. /\ msg = <<>> /\ cmd # <<>> /\ msg' = <<Head(cmd)>> /\ cmd' = Tail(cmd)
        /\ UNCHANGED <<ack, main>>
    BY <1>8 DEF Take, Q!Take
  <2>2. /\ Head(cmd) = cmd[1] /\ Len(cmd') = Len(cmd) - 1
        /\ \A i \in 1..Len(cmd') : cmd'[i] = cmd[i + 1]
        /\ Len(cmd) \in Nat /\ Len(cmd) >= 1
        /\ cmd' \in Seq(Q!Message)
    BY <1>0, <2>1
  <2>3. msg' # <<>> /\ msg'[1] = cmd[1]
    BY <2>1, <2>2
  <2>4. CASE main = "await"
    <3>1. Len(cmd) = 1 /\ cmd[1].command = "HANDOVER" /\ ack = <<>>
      BY <2>1, <2>4 DEF HandoverFirst
    <3>2. cmd' = <<>>
      BY <2>2, <3>1, EmptySeq
    <3> QED  BY <2>1, <2>3, <2>4, <3>1, <3>2 DEF HandoverFirst
  <2>5. CASE main \notin {"handover", "await"}
    BY <2>1, <2>2, <2>3, <2>5 DEF HandoverFirst
  <2> QED  BY <2>1, <2>4, <2>5 DEF HandoverFirst
<1>9. CASE Dispatch
  <2>1. /\ msg # <<>> /\ msg' # <<>> /\ msg'[1].command = msg[1].command
        /\ UNCHANGED <<cmd, ack, main>>
    BY <1>9, Dispatched DEF Dispatch, Q!Dispatch
  <2> QED  BY <2>1 DEF HandoverFirst
<1>10. CASE Acknowledge
  <2>1. msg # <<>> /\ msg' = <<>> /\ UNCHANGED <<cmd, main>>
    BY <1>10 DEF Acknowledge, Q!Acknowledge
  <2> QED  BY <2>1 DEF HandoverFirst
<1>11. CASE UNCHANGED <<cmd, ack, msg, main>>
  BY <1>11 DEF HandoverFirst
<1>12. CASE PollSuspended \/ PollResumed \/ ReadSwitch
  BY <1>11, <1>12 DEF PollSuspended, PollResumed, ReadSwitch, messenger
<1>13. CASE MoveLever \/ RecoveryFails \/ SendTstp \/ SendCont \/ DefaultStop \/ HandleCont
  BY <1>11, <1>13
     DEF MoveLever, RecoveryFails, SendTstp, SendCont, DefaultStop, HandleCont, messenger
<1>14. CASE (\E t \in SigThreads : EnterHandler(t)) \/ (\E t \in Threads : HandlerRaise(t))
  BY <1>11, <1>14 DEF EnterHandler, HandlerRaise, messenger
<1>15. CASE UNCHANGED vars
  BY <1>11, <1>15 DEF vars, messenger
<1> QED  BY <1>2, <1>3, <1>4, <1>5, <1>6, <1>7, <1>8, <1>9, <1>10, <1>12, <1>13, <1>14, <1>15
         DEF Next, SwitchStep, MessageStep, HandlerStep

(* The handover is the first order carried out, and is alone until main    *)
(* has its acknowledge, signals or not (main.c:385-408, 424-458).          *)
THEOREM ControlHandoverFirst == Spec => []HandoverFirst
<1>1. TypeOK /\ WhoAwaits /\ HandoverFirst /\ [Next]_vars => (WhoAwaits /\ HandoverFirst)'
  BY WhoAwaitsStep, HandoverFirstStep
<1> QED  BY <1>1, WhoAwaitsInit, HandoverFirstInit, ControlTypes, PTL DEF Spec

-----------------------------------------------------------------------------
(* The message thread is free: whoever waits has a message under way, and  *)
(* if it is an acknowledge then one of them can take it.                   *)
LEMMA SomebodyGoes ==
  ASSUME TypeOK, Conservation, WhoAwaits, ~stopped, Q!Awaiting # {},
         ack # <<>> \/ handler["message"] = "none"
  PROVE  Serves \/ Returns \/ \E t \in Threads : HandlerMoves(t)
<1>0. handler \in [Threads -> {"none", "put", "await", "raise"}]
  BY DEF TypeOK
<1>1. cmd # <<>> \/ msg # <<>> \/ ack # <<>>
  BY SomeUnderWay
<1>2. CASE ack = <<>>
  BY <1>1, <1>2 DEF Serves, Runs
<1>3. CASE ack # <<>>
  <2>1. PICK f \in Frames : call[f] = "await"
    BY DEF Q!Awaiting
  <2>2. CASE f = Code("main")
    <3>1. main = "await" /\ ~Busy
      BY <2>1, <2>2 DEF WhoAwaits, HandlesTstp
    <3>2. Runs("main")
      BY <3>1 DEF Busy, Runs, Threads
    <3> QED  BY <1>3, <3>1, <3>2 DEF Returns
  <2>3. CASE f = Code("switch")
    <3>1. poll = "await" /\ main = "join"
      BY <2>1, <2>3 DEF WhoAwaits
    <3>2. CASE handler["switch"] = "none"
      BY <1>3, <3>1, <3>2 DEF Returns, SwitchRuns, Runs
    <3>3. CASE handler["switch"] # "none"
      BY <1>0, <1>3, <3>3 DEF HandlerMoves, Threads
    <3> QED  BY <3>2, <3>3
  <2>4. CASE \E t \in Threads : f = Handler(t)
    BY <1>3, <2>1, <2>4 DEF WhoAwaits, HandlerMoves
  <2> QED  BY <2>2, <2>3, <2>4 DEF Frames
<1> QED  BY <1>2, <1>3

LEMMA HangsOnlyThere ==
  ASSUME TypeOK, Conservation, WhoAwaits
  PROVE  OneWayToHang
<1> SUFFICES ASSUME Hung
             PROVE  WaitsForItself
  BY DEF OneWayToHang
<1>1. ack = <<>> /\ handler["message"] # "none"
  BY SomebodyGoes DEF Hung
<1>2. handler["message"] \in {"none", "put", "await", "raise"} /\ ~HandlerMoves("message")
  BY DEF Hung, TypeOK, Threads
<1> QED  BY <1>1, <1>2 DEF Hung, HandlerMoves, WaitsForItself

(* Callers wait and nobody can go on only where the message thread itself  *)
(* waits, in a handler, with no acknowledge left: whichever threads run    *)
(* handlers and however many suspensions (main.c:265-271, camera.c:1351).  *)
THEOREM ControlOneWayToHang == Spec => []OneWayToHang
<1>1. TypeOK /\ WhoAwaits /\ [Next]_vars => WhoAwaits'
  BY WhoAwaitsStep
<1> QED  BY <1>1, HangsOnlyThere, WhoAwaitsInit, ControlTypes, ControlConserves, PTL DEF Spec

(* And there the message thread stays, whoever calls and whatever signals  *)
(* come: nobody else writes the acknowledge it waits for                   *)
(* (message_queue.c:71, camera.c:1351).                                    *)
THEOREM ControlNeverWakes == Spec => NeverWakes
<1>1. ASSUME TypeOK, WaitsForItself, [Next]_vars
      PROVE  WaitsForItself'
  <2>0. handler["message"] = "await" /\ ack = <<>>
    BY <1>1 DEF WaitsForItself
  <2>1. handler \in [Threads -> {"none", "put", "await", "raise"}]
    BY <1>1 DEF TypeOK
  <2> USE DEF WaitsForItself
  <2>2. CASE MainStep
    BY <2>0, <2>2 DEF MainStep, MainPut, MainGet, MainGoes, Q!Put, Q!Get, messenger, signalVars
  <2>3. CASE SwitchStep
    BY <2>0, <2>3 DEF SwitchStep, PollSuspended, PollResumed, ReadSwitch, SwitchPut, SwitchGet,
       Q!Put, Q!Get, messenger, signalVars
  <2>4. CASE MessageStep \/ RecoveryFails
    BY <2>0, <2>4 DEF MessageStep, Take, Dispatch, Acknowledge, RecoveryFails, Runs
  <2>5. CASE MoveLever \/ SendTstp \/ SendCont \/ DefaultStop \/ HandleCont \/ UNCHANGED vars
    BY <2>0, <2>5 DEF MoveLever, SendTstp, SendCont, DefaultStop, HandleCont, vars, messenger, signalVars
  <2>6. ASSUME NEW t \in SigThreads, EnterHandler(t)
        PROVE  WaitsForItself'
    BY <2>0, <2>1, <2>6 DEF EnterHandler, Runs, messenger
  <2>7. ASSUME NEW t \in Threads, HandlerStep(t)
        PROVE  WaitsForItself'
    <3>1. CASE HandlerGet(t)
      BY <2>0, <3>1 DEF HandlerGet, Q!Get
    <3>2. CASE HandlerPut(t) \/ HandlerRaise(t)
      <4>1. t # "message" /\ ack' = ack
        BY <2>0, <3>2 DEF HandlerPut, HandlerRaise, HandlerGoes, Q!Put, messenger
      <4>2. handler'["message"] = handler["message"]
        BY <2>1, <3>2, <4>1 DEF HandlerPut, HandlerRaise, HandlerGoes, Threads
      <4> QED  BY <2>0, <4>1, <4>2
    <3> QED  BY <2>7, <3>1, <3>2 DEF HandlerStep
  <2> QED  BY <1>1, <2>2, <2>3, <2>4, <2>5, <2>6, <2>7 DEF Next
<1>2. TypeOK /\ [Next]_vars => [WaitsForItself => WaitsForItself']_vars
  BY <1>1
<1> QED  BY <1>2, ControlTypes, PTL DEF Spec, NeverWakes

(* Where the kernel never chooses the message thread for the handler,      *)
(* nothing hangs: while a caller waits and the process is not stopped, the *)
(* message thread, a caller or a handler can go on (main.c:271).           *)
THEOREM ControlNeverHangs ==
  ASSUME "message" \notin SigThreads
  PROVE  Spec => []~Hung
<1> DEFINE Free == handler["message"] = "none"
<1>1. Init => Free
  BY DEF Init, Threads
<1>2. ASSUME TypeOK, Free, [Next]_vars
      PROVE  Free'
  <2>0. handler \in [Threads -> {"none", "put", "await", "raise"}]
    BY <1>2 DEF TypeOK
  <2>1. CASE UNCHANGED handler
    BY <1>2, <2>1
  <2>2. ASSUME NEW t \in SigThreads, EnterHandler(t)
        PROVE  Free'
    BY <1>2, <2>0, <2>2 DEF EnterHandler
  <2>3. ASSUME NEW t \in Threads, HandlerStep(t)
        PROVE  Free'
    <3>1. PICK from \in {"put", "await", "raise"}, to \in {"await", "raise", "none"} :
               HandlerGoes(t, from, to)
      BY <2>3 DEF HandlerStep, HandlerPut, HandlerGet, HandlerRaise
    <3> QED  BY <1>2, <2>0, <3>1 DEF HandlerGoes, Threads
  <2>4. CASE MainStep \/ SwitchStep \/ MoveLever \/ MessageStep
    BY <2>1, <2>4 DEF MainStep, MainPut, MainGet, MainGoes, SwitchStep, PollSuspended, PollResumed,
       ReadSwitch, SwitchPut, SwitchGet, MoveLever, MessageStep, Take, Dispatch, Acknowledge, signalVars
  <2>5. CASE RecoveryFails \/ SendTstp \/ SendCont \/ DefaultStop \/ HandleCont \/ UNCHANGED vars
    BY <2>1, <2>5 DEF RecoveryFails, SendTstp, SendCont, DefaultStop, HandleCont, vars, signalVars
  <2> QED  BY <1>2, <2>2, <2>3, <2>4, <2>5 DEF Next
<1>3. OneWayToHang /\ Free => ~Hung
  BY DEF OneWayToHang, WaitsForItself
<1> HIDE DEF Free
<1> QED  BY <1>1, <1>2, <1>3, ControlTypes, ControlOneWayToHang, PTL DEF Spec

-----------------------------------------------------------------------------
(* Until somebody sends SIGTSTP. *)
Quiet == "TSTP" \notin pending /\ \A t \in Threads : handler[t] = "none"

QuietSoFar == suspends = 0 => Quiet

LEMMA QuietStep ==
  ASSUME TypeOK, QuietSoFar, [Next]_vars
  PROVE  QuietSoFar' /\ (suspends' = 0 => suspends = 0)
<1>0. suspends \in Nat
  BY DEF TypeOK
<1>1. CASE SendTstp
  BY <1>0, <1>1 DEF SendTstp, QuietSoFar
<1>2. ASSUME ~SendTstp
      PROVE  suspends' = suspends
  BY <1>2 DEF Next, MainStep, MainPut, MainGet, MainGoes, SwitchStep, PollSuspended, PollResumed,
     ReadSwitch, SwitchPut, SwitchGet, MoveLever, MessageStep, Take, Dispatch, Acknowledge,
     RecoveryFails, SendCont, DefaultStop, EnterHandler, HandlerStep, HandlerPut, HandlerGet,
     HandlerRaise, HandleCont, vars, signalVars
<1>3. ASSUME ~SendTstp, Quiet
      PROVE  Quiet'
  <2>1. \A t \in Threads : ~HandlerStep(t)
    BY <1>3 DEF HandlerStep, HandlerPut, HandlerGet, HandlerRaise, HandlerGoes, Quiet
  <2>2. \A t \in SigThreads : ~EnterHandler(t)
    BY <1>3 DEF EnterHandler, Quiet
  <2>3. CASE UNCHANGED signalVars
    BY <1>3, <2>3 DEF signalVars, Quiet
  <2>4. CASE MainStep \/ SwitchStep \/ MessageStep
    BY <2>3, <2>4 DEF MainStep, MainPut, MainGet, MainGoes, SwitchStep, PollSuspended, PollResumed,
       ReadSwitch, SwitchPut, SwitchGet, MessageStep, Take, Dispatch, Acknowledge
  <2>5. CASE MoveLever \/ RecoveryFails \/ UNCHANGED vars
    BY <2>3, <2>5 DEF MoveLever, RecoveryFails, vars
  <2>6. CASE SendCont \/ DefaultStop \/ HandleCont
    BY <1>3, <2>6 DEF SendCont, DefaultStop, HandleCont, Quiet
  <2> QED  BY <1>3, <2>1, <2>2, <2>4, <2>5, <2>6 DEF Next
<1> QED  BY <1>1, <1>2, <1>3 DEF QuietSoFar

LEMMA QuietIsOneAtATime == WhoAwaits /\ Quiet => QP!OneAtATime
<1> SUFFICES ASSUME WhoAwaits, Quiet, NEW r \in Frames, NEW s \in Frames,
                    call[r] = "await", call[s] = "await"
             PROVE  r = s
  BY DEF QP!OneAtATime
<1>1. \A t \in Threads : call[Handler(t)] # "await"
  BY DEF WhoAwaits, Quiet
<1>2. r \in {Code("main"), Code("switch")} /\ s \in {Code("main"), Code("switch")}
  BY <1>1 DEF Frames
<1>3. ~(call[Code("main")] = "await" /\ call[Code("switch")] = "await")
  BY DEF WhoAwaits
<1> QED  BY <1>2, <1>3

(* Until then the calls of main and of the switch thread do not overlap    *)
(* (main.c:385-408, 335-366), and what is under way is the message of who  *)
(* waits.                                                                  *)
AloneSoFar == suspends = 0 => QP!OneAtATime
LoneSoFar == suspends = 0 => QP!Lone

LEMMA ControlAlone == Spec => []AloneSoFar
<1>1. Init => WhoAwaits /\ QuietSoFar
  BY WhoAwaitsInit DEF Init, Quiet, QuietSoFar
<1>2. TypeOK /\ WhoAwaits /\ QuietSoFar /\ [Next]_vars => WhoAwaits' /\ QuietSoFar'
  BY WhoAwaitsStep, QuietStep
<1>3. WhoAwaits /\ QuietSoFar => AloneSoFar
  BY QuietIsOneAtATime DEF QuietSoFar, AloneSoFar
<1> QED  BY <1>1, <1>2, <1>3, ControlTypes, PTL DEF Spec

(* What a step of the pipes until then needs, of the messenger.            *)
SoFar == TypeOK /\ QuietSoFar /\ AloneSoFar /\ LoneSoFar

LEMMA SoFarStep ==
  ASSUME SoFar, AloneSoFar', [Next]_vars, suspends' = 0
  PROVE  /\ QP!TypeOK /\ QP!Lone /\ QP!OneAtATime /\ QP!OneAtATime'
         /\ [QP!Next]_(QP!vars)
<1>1. suspends = 0
  BY QuietStep DEF SoFar
<1>2. QP!TypeOK
  BY SameTypes DEF SoFar, TypeOK
<1> QED  BY <1>1, <1>2, SameSteps, StepOfMessenger DEF SoFar, AloneSoFar, LoneSoFar

LEMMA ControlLone == Spec => []SoFar
<1>1. Init => QuietSoFar /\ LoneSoFar
  BY QP!LoneInit, SameSteps DEF Init, Quiet, QuietSoFar, LoneSoFar
<1>2. SoFar /\ AloneSoFar' /\ [Next]_vars => QuietSoFar' /\ LoneSoFar'
  <2> SUFFICES ASSUME SoFar, AloneSoFar', [Next]_vars
               PROVE  QuietSoFar' /\ LoneSoFar'
    OBVIOUS
  <2>1. QuietSoFar'
    BY QuietStep DEF SoFar
  <2>2. ASSUME suspends' = 0  PROVE QP!Lone'
    BY <2>2, SoFarStep, QP!LoneStep
  <2> QED  BY <2>1, <2>2 DEF LoneSoFar
<1> QED  BY <1>1, <1>2, ControlTypes, ControlAlone, PTL DEF Spec, SoFar

(* Until somebody sends SIGTSTP each call returns on the acknowledge of    *)
(* its own command (camera.c:1348-1352).                                   *)
THEOREM ControlOwnAck == Spec => OwnAck
<1> DEFINE Own == \A f \in Frames :
             (suspends' = 0 /\ call[f] = "await" /\ call'[f] = "idle") => Head(ack).from = f
<1>1. SoFar /\ AloneSoFar' /\ [Next]_vars => [Own]_(Q!vars)
  <2> SUFFICES ASSUME SoFar, AloneSoFar', [Next]_vars, NEW f \in Frames,
                      suspends' = 0, call[f] = "await", call'[f] = "idle"
               PROVE  Head(ack).from = f
    OBVIOUS
  <2>1. [QP!Next]_(QP!vars) /\ QP!TypeOK /\ QP!Lone /\ QP!OneAtATime
    BY SoFarStep
  <2>2. QP!Get(f)
    BY <2>1 DEF QP!Next, QP!Put, QP!Get, QP!Server, QP!Take, QP!Dispatch, QP!Acknowledge, QP!TypeOK,
       QP!vars
  <2> QED  BY <2>1, <2>2, QP!LoneGet
<1> HIDE DEF Own
<1>2. Spec => [][Own]_(Q!vars)
  BY <1>1, ControlLone, ControlAlone, PTL DEF Spec
<1> QED  BY <1>2 DEF Own, OwnAck

(* Until then the calls are synchronous calls: the command of each is      *)
(* executed once, while its caller waits (camera.c:1335-1356).             *)
THEOREM ControlSyncCalls == Spec => SyncCalls
<1>1. QP!Phase = Q!Phase /\ QP!Phase' = Q!Phase'
  BY DEF QP!Phase, Q!Phase, QP!Acked, Q!Acked
<1>2. Init => Q!Sync!Init
  <2>1. Init => QP!Sync!Init
    BY QP!SyncInit, SameSteps DEF Init
  <2> QED  BY <1>1, <2>1 DEF QP!Sync!Init, Q!Sync!Init
<1>3. SoFar /\ AloneSoFar' /\ [Next]_vars => [suspends' = 0 => Q!Sync!Next]_(Q!Phase)
  <2> SUFFICES ASSUME SoFar, AloneSoFar', [Next]_vars, suspends' = 0
               PROVE  [Q!Sync!Next]_(Q!Phase)
    OBVIOUS
  <2>1. [QP!Sync!Next]_(QP!Phase)
    BY SoFarStep, QP!LoneSync
  <2> QED  BY <1>1, <2>1 DEF QP!Sync!Next, Q!Sync!Next, QP!Sync!Request, Q!Sync!Request,
     QP!Sync!Execute, Q!Sync!Execute, QP!Sync!Return, Q!Sync!Return, QP!Sync!Step, Q!Sync!Step
<1> QED  BY <1>2, <1>3, ControlLone, ControlAlone, PTL DEF Spec, SyncCalls
=============================================================================
