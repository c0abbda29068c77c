--------------------------- MODULE CameraAppProofs ---------------------------
(***************************************************************************)
(* CameraApp for any threads that take signals, any number of suspensions, *)
(* any number of buffers, any calls that fail and any options: its two     *)
(* halves are what the other one takes them for, so that the theorems of   *)
(* CameraControlProofs and PreviewProofs hold of the whole.                *)
(*                                                                         *)
(* One step is mapped twice.  As a step of Preview it needs the order of   *)
(* the handover, and that keeps the invariant of Preview; with that one    *)
(* every order moves the status as PreviewStatus says, and the step is one *)
(* of CameraControl, which keeps the invariants of the pipes.              *)
(***************************************************************************)
EXTENDS CameraApp, TLAPS

(* No call of a stop, a start or the end of the handover fails. *)
CallsSucceed ==
  /\ io_mode = 1
  /\ Faults \cap {"lut", "format", "reqbufs", "malloc", "querybuf", "init_qbuf", "selection",
                  "streamon", "streamoff", "s_handover"} = {}

(* The pipes are taken with every failure that CameraControl may have to   *)
(* expect: what it says then it says of fewer.                             *)
MayFail == {"read"} \cup (IF CallsSucceed THEN {} ELSE {"start", "recover"})

CP == INSTANCE CameraControlProofs WITH
        status <- dev.status, Failures <- MayFail

VP == INSTANCE PreviewProofs WITH
        turn <- IF OrderDone THEN "frame" ELSE turn, booting <- Booting

(* The theorems speak of the same definitions under other names. *)
LEMMA SameControl ==
  /\ C!Init <=> CP!Init
  /\ C!vars = CP!vars
  /\ C!Threads = CP!Threads
  /\ C!MainStep <=> CP!MainStep
  /\ C!PollSuspended <=> CP!PollSuspended
  /\ C!PollResumed <=> CP!PollResumed
  /\ C!SwitchPut <=> CP!SwitchPut
  /\ C!SwitchGet <=> CP!SwitchGet
  /\ C!MoveLever <=> CP!MoveLever
  /\ C!SendTstp <=> CP!SendTstp
  /\ C!SendCont <=> CP!SendCont
  /\ C!DefaultStop <=> CP!DefaultStop
  /\ C!HandleCont <=> CP!HandleCont
  /\ \A t \in SigThreads : C!EnterHandler(t) <=> CP!EnterHandler(t)
  /\ \A t \in C!Threads : C!HandlerStep(t) <=> CP!HandlerStep(t)
  /\ C!Runs("message") <=> CP!Runs("message")
  /\ C!Q!Dispatch <=> CP!Q!Dispatch
  /\ C!Take <=> CP!Take
  /\ C!Acknowledge <=> CP!Acknowledge
  /\ C!StopsDark <=> CP!StopsDark
  /\ C!OffMeansOff <=> CP!OffMeansOff
  /\ C!OnMeansOn <=> CP!OnMeansOn
BY DEF C!Threads, CP!Threads, C!Commands, CP!Commands, C!Code, CP!Code,
  C!Handler, CP!Handler, C!Frames, CP!Frames, C!messenger, CP!messenger,
  C!switchVars, CP!switchVars, C!signalVars, CP!signalVars, C!vars, CP!vars,
  C!Init, CP!Init, C!Runs, CP!Runs, C!MainPut, CP!MainPut, C!MainGet,
  CP!MainGet, C!MainGoes, CP!MainGoes, C!MainStep, CP!MainStep, C!HandlesTstp,
  CP!HandlesTstp, C!HandlesCont, CP!HandlesCont, C!SwitchRuns, CP!SwitchRuns,
  C!PollSuspended, CP!PollSuspended, C!PollResumed, CP!PollResumed,
  C!SwitchPut, CP!SwitchPut, C!SwitchGet, CP!SwitchGet, C!MoveLever,
  CP!MoveLever, C!Take, CP!Take, C!Acknowledge, CP!Acknowledge, C!SendTstp,
  CP!SendTstp, C!SendCont, CP!SendCont, C!DefaultStop, CP!DefaultStop,
  C!EnterHandler, CP!EnterHandler, C!HandlerGoes, CP!HandlerGoes,
  C!HandlerPut, CP!HandlerPut, C!HandlerGet, CP!HandlerGet, C!HandlerRaise,
  CP!HandlerRaise, C!HandlerStep, CP!HandlerStep, C!HandleCont, CP!HandleCont,
  C!StopsDark, CP!StopsDark, C!OffMeansOff, CP!OffMeansOff, C!OnMeansOn,
  CP!OnMeansOn, C!Q!Init,
  CP!Q!Init, C!Q!Put, CP!Q!Put, C!Q!Get, CP!Q!Get, C!Q!Take, CP!Q!Take,
  C!Q!Dispatch, CP!Q!Dispatch, C!Q!Acknowledge, CP!Q!Acknowledge,
  C!Q!Awaiting, CP!Q!Awaiting, C!P!Init, CP!P!Init

LEMMA ReadsSwitch == C!ReadSwitch => CP!ReadSwitch
<1> SUFFICES ASSUME C!ReadSwitch  PROVE CP!ReadSwitch
  OBVIOUS
<1>1. ({lever} \cup (IF "read" \in Failures THEN {-1} ELSE {})) \subseteq {lever, -1}
  OBVIOUS
<1>2. "read" \in MayFail
  BY DEF MayFail
<1> QED  BY <1>1, <1>2, SMT DEF C!ReadSwitch, CP!ReadSwitch, C!SwitchRuns, CP!SwitchRuns, C!Runs, CP!Runs,
                      C!messenger, CP!messenger, C!signalVars, CP!signalVars

LEMMA SameResults ==
  /\ \A v : V!Ok(v) = VP!Ok(v) /\ V!Bad(v) = VP!Bad(v)
  /\ \A c, v : V!Fails(c, v) = VP!Fails(c, v)
  /\ V!Bufs = VP!Bufs
  /\ V!V4L2_MEMORY_MMAP = VP!V4L2_MEMORY_MMAP
BY DEF V!Ok, VP!Ok, V!Bad, VP!Bad, V!Fails, VP!Fails, V!Bufs, VP!Bufs,
   V!V4L2_MEMORY_MMAP, VP!V4L2_MEMORY_MMAP

LEMMA SameStartPreview == \A v : V!StartPreview(v) = VP!StartPreview(v)
<1>1. \A v : V!InitBufAddrs(v) = VP!InitBufAddrs(v)
  BY DEF V!Ok, VP!Ok, V!Bad, VP!Bad, V!Bufs, VP!Bufs, V!InitBufAddrs,
     VP!InitBufAddrs, V!AllQueued, VP!AllQueued, V!Mapping, VP!Mapping,
     V!FirstBufs, VP!FirstBufs, V!Unmappable, VP!Unmappable, V!StopsAt,
     VP!StopsAt, V!StuckAt, VP!StuckAt, V!Unready, VP!Unready
<1>2. \A v : V!AllocateBuffers(v) = VP!AllocateBuffers(v)
  BY SameResults DEF V!AllocateBuffers, VP!AllocateBuffers, V!Requested,
     VP!Requested, V!Allocated, VP!Allocated
<1>3. \A v : V!InitBuffers(v) = VP!InitBuffers(v)
  BY <1>1, <1>2, SameResults DEF V!InitBuffers, VP!InitBuffers
<1>4. \A v : V!EnableStream(v) = VP!EnableStream(v)
  BY SameResults DEF V!EnableStream, VP!EnableStream
<1> QED
  BY <1>3, <1>4, SameResults DEF V!StartPreview, VP!StartPreview

LEMMA SameStopPreview == \A v : V!StopPreview(v) = VP!StopPreview(v)
<1>1. \A v : V!StopStream(v) = VP!StopStream(v)
  BY SameResults DEF V!StopStream, VP!StopStream
<1>2. \A v : V!UninitBuffers(v) = VP!UninitBuffers(v)
  BY DEF V!Ok, VP!Ok, V!Bad, VP!Bad, V!Fails, VP!Fails, V!Bufs, VP!Bufs,
     V!V4L2_MEMORY_MMAP, VP!V4L2_MEMORY_MMAP, V!UninitBuffers,
     VP!UninitBuffers, V!DeallocateBuffers, VP!DeallocateBuffers,
     V!Unmapped, VP!Unmapped, V!Freed, VP!Freed
<1> QED
  BY <1>1, <1>2 DEF V!StopPreview, VP!StopPreview

LEMMA SameOrders ==
  /\ \A s : V!DoStartPreview(s) = VP!DoStartPreview(s)
  /\ \A s : V!DoStopPreview(s) = VP!DoStopPreview(s)
  /\ \A s : V!DoHandover(s) = VP!DoHandover(s)
<1>1. \A s : V!StartStream(s) = VP!StartStream(s)
  BY SameStartPreview DEF V!StartStream, VP!StartStream
<1>2. \A s : V!SetLut(s) = VP!SetLut(s)
  BY SameResults DEF V!SetLut, VP!SetLut
<1>3. \A s : V!DoStartPreview(s) = VP!DoStartPreview(s)
  BY <1>1, <1>2 DEF V!DoStartPreview, VP!DoStartPreview, V!Shown, VP!Shown
<1>4. \A s : V!HideVideoOutput(s) = VP!HideVideoOutput(s)
  BY DEF V!HideVideoOutput, VP!HideVideoOutput, V!NoFrame, VP!NoFrame
<1>5. \A s : V!DoStopPreview(s) = VP!DoStopPreview(s)
  BY <1>4, SameStopPreview DEF V!DoStopPreview, VP!DoStopPreview
<1>6. \A s : V!HandoverSteps(s) = VP!HandoverSteps(s)
  BY DEF V!HandoverSteps, VP!HandoverSteps, V!Then, VP!Then, V!Ok, VP!Ok,
     V!Bad, VP!Bad, V!Fails, VP!Fails, V!Bufs, VP!Bufs, V!V4L2_MEMORY_MMAP,
     VP!V4L2_MEMORY_MMAP, V!InitBufAddrs, VP!InitBufAddrs, V!AllQueued,
     VP!AllQueued, V!Mapping, VP!Mapping, V!FirstBufs, VP!FirstBufs,
     V!Unmappable, VP!Unmappable, V!StopsAt, VP!StopsAt, V!StuckAt,
     VP!StuckAt, V!Unready, VP!Unready, V!AllocateBuffers,
     VP!AllocateBuffers, V!Requested, VP!Requested, V!Allocated,
     VP!Allocated, V!InitBuffers, VP!InitBuffers, V!EnableStream,
     VP!EnableStream, V!StartPreview, VP!StartPreview, V!StartStream,
     VP!StartStream, V!SetLut, VP!SetLut, V!SetLastFrame, VP!SetLastFrame,
     V!LastFrame, VP!LastFrame, V!NullFrame, VP!NullFrame, V!SetHandover,
     VP!SetHandover
<1>7. \A s : V!DoHandover(s) = VP!DoHandover(s)
  BY <1>6 DEF V!DoHandover, VP!DoHandover, V!Shown, VP!Shown
<1> QED  BY <1>3, <1>5, <1>7

LEMMA SamePreviewBuffer == \A s : V!PreviewBuffer(s) = VP!PreviewBuffer(s)
<1>1. \A s : V!ReleasePreviewBuffer(s) = VP!ReleasePreviewBuffer(s)
  BY DEF V!Ok, VP!Ok, V!Bad, VP!Bad, V!Fails, VP!Fails, V!QBuf, VP!QBuf,
     V!In, VP!In, V!ReleasePreviewBuffer, VP!ReleasePreviewBuffer,
     V!ShowBuffer, VP!ShowBuffer, V!Checked, VP!Checked, V!Readable,
     VP!Readable
<1>2. \A s : V!HandlePreviewBuffer(s) = VP!HandlePreviewBuffer(s)
  BY <1>1 DEF V!HandlePreviewBuffer, VP!HandlePreviewBuffer, V!Dequeued,
     VP!Dequeued
<1>3. \A s : V!CheckRecovery(s) = VP!CheckRecovery(s)
  BY SameOrders DEF V!CheckRecovery, VP!CheckRecovery, V!nMaxRecovery,
     VP!nMaxRecovery
<1> QED
  BY <1>2, <1>3 DEF V!PreviewBuffer, VP!PreviewBuffer, V!FrameReady,
     VP!FrameReady, V!MayMiss, VP!MayMiss

LEMMA SamePreview ==
  /\ V!Init <=> VP!Init
  /\ V!Next <=> VP!Next
  /\ V!vars = VP!vars
  /\ V!Handover <=> VP!Handover
  /\ V!Start <=> VP!Start
  /\ V!Stop <=> VP!Stop
  /\ V!Frame <=> VP!Frame
  /\ V!Fill <=> VP!Fill
  /\ V!HiddenWhenStopped <=> VP!HiddenWhenStopped
<1>1. V!Init <=> VP!Init
  BY SameResults DEF V!Init, VP!Init, V!Cleared, VP!Cleared, V!NoFrame,
     VP!NoFrame
<1>2. \A results : V!Order(results) <=> VP!Order(results)
  BY DEF V!Order, VP!Order, V!Running, VP!Running
<1>3. (V!Handover <=> VP!Handover) /\ (V!Start <=> VP!Start) /\ (V!Stop <=> VP!Stop)
  BY <1>2, SameOrders DEF V!Handover, VP!Handover, V!Start, VP!Start,
     V!Stop, VP!Stop
<1>4. V!Frame <=> VP!Frame
  BY SamePreviewBuffer DEF V!Frame, VP!Frame, V!Running, VP!Running
<1>5. (V!Fill <=> VP!Fill) /\ (V!NoOrder <=> VP!NoOrder)
  BY DEF V!Fill, VP!Fill, V!Filled, VP!Filled, V!NoOrder, VP!NoOrder,
     V!Running, VP!Running
<1>6. V!Next <=> VP!Next
  BY <1>3, <1>4, <1>5 DEF V!Next, VP!Next
<1>7. V!vars = VP!vars /\ (V!HiddenWhenStopped <=> VP!HiddenWhenStopped)
  BY SameResults DEF V!vars, VP!vars, V!HiddenWhenStopped,
     VP!HiddenWhenStopped, V!Started, VP!Started
<1> QED  BY <1>1, <1>3, <1>4, <1>5, <1>6, <1>7

-----------------------------------------------------------------------------
(* The frame is looked at only once the order was acknowledged. *)
TurnInv ==
  /\ turn \in {"message", "frame"}
  /\ turn = "frame" => msg = <<>>

ControlInv == CP!TypeOK /\ CP!WhoAwaits /\ CP!Fresh /\ CP!HandoverFirst

AppInv == ControlInv /\ TurnInv /\ VP!Inv

LEMMA ControlConstants ==
  /\ SigThreads \subseteq CP!Threads
  /\ MayFail \subseteq {"start", "recover", "read"}
  /\ MaxSuspends \in Nat
BY AppAssumption DEF CP!Threads, MayFail

(* CameraControl allows what may fail. *)
AnyFailure == MayFail \subseteq Failures \cup {"read"}

LEMMA CallsConstants ==
  /\ CallsSucceed => /\ VP!NoRestartFault /\ VP!NoHandoverFault
                     /\ io_mode = VP!V4L2_MEMORY_MMAP
                     /\ {"start", "recover"} \cap MayFail = {}
  /\ ~CallsSucceed => {"start", "recover"} \subseteq MayFail
BY DEF CallsSucceed, MayFail, VP!NoRestartFault, VP!NoHandoverFault, VP!V4L2_MEMORY_MMAP

LEMMA ControlInvStep ==
  ASSUME ControlInv, [CP!Next]_(CP!vars)
  PROVE  ControlInv'
<1>1. CP!TypeOK'
  BY ControlConstants, CP!TypesStep DEF ControlInv
<1>2. CP!WhoAwaits'
  BY ControlConstants, CP!WhoAwaitsStep DEF ControlInv
<1>3. CP!Fresh'
  BY ControlConstants, CP!FreshStep DEF ControlInv
<1>4. CP!HandoverFirst'
  BY ControlConstants, CP!HandoverFirstStep DEF ControlInv
<1> QED  BY <1>1, <1>2, <1>3, <1>4 DEF ControlInv

(* When the handover is still to come. *)
ToCome ==
  \/ main = "handover"
  \/ main = "await" /\ (cmd # <<>> \/ (msg # <<>> /\ ~msg[1].acked))

LEMMA BootingMeans == ControlInv => (Booting <=> ToCome)
<1> SUFFICES ASSUME ControlInv  PROVE Booting <=> ToCome
  OBVIOUS
<1> USE DEF ToCome
<1>1. CP!HandoverFirst
  BY DEF ControlInv
<1>2. CASE main = "handover"
  BY <1>2 DEF Booting
<1>3. CASE main = "await"
  <2>1. CASE Len(cmd) = 1 /\ cmd[1].command = "HANDOVER"
    <3>1. cmd # <<>>
      BY <2>1, CP!EmptySeq
    <3>2. \E i \in 1..Len(cmd) : cmd[i].command = "HANDOVER"
      BY <2>1
    <3> QED  BY <1>3, <3>1, <3>2 DEF Booting
  <2>2. CASE cmd = <<>> /\ (msg # <<>> => msg[1].command = "HANDOVER")
    <3>1. ~\E i \in 1..Len(cmd) : cmd[i].command = "HANDOVER"
      BY <2>2, CP!EmptySeq
    <3> QED  BY <1>3, <2>2, <3>1 DEF Booting
  <2> QED  BY <1>1, <1>3, <2>1, <2>2 DEF CP!HandoverFirst
<1>4. CASE main \notin {"handover", "await"}
  BY <1>1, <1>4 DEF CP!HandoverFirst, Booting
<1> QED  BY <1>2, <1>3, <1>4

LEMMA BootingLater == ControlInv' => (Booting' <=> ToCome')
BY BootingMeans, PTL

BootingStays == msg' = msg /\ (Booting' <=> Booting)

LEMMA SameView ==
  ASSUME BootingStays, UNCHANGED <<dev, turn>>
  PROVE  UNCHANGED VP!vars
<1>1. OrderDone' = OrderDone
  BY DEF BootingStays, OrderDone
<1>2. Booting' = Booting
  BY DEF BootingStays, Booting
<1> HIDE DEF OrderDone, Booting
<1> QED  BY <1>1, <1>2 DEF VP!vars

(* What the threads that order, the handlers and the world do to the       *)
(* pipes: nothing that Preview could see.                                  *)
ControlStep ==
  \/ C!MainStep \/ C!SwitchStep \/ C!MoveLever
  \/ C!SendTstp \/ C!SendCont \/ C!DefaultStop \/ C!HandleCont
  \/ \E t \in SigThreads : C!EnterHandler(t)
  \/ \E t \in C!Threads : C!HandlerStep(t)

LEMMA ElsewhereStep ==
  ASSUME ControlInv, Elsewhere, ControlStep
  PROVE  CP!Next /\ ControlInv' /\ UNCHANGED VP!vars /\ msg' = msg
<1>1. CP!Next
  BY SameControl, ReadsSwitch DEF ControlStep, C!SwitchStep, CP!SwitchStep, CP!Next
<1>2. ControlInv'
  BY <1>1, ControlInvStep
<1>3. CP!HandoverFirst /\ CP!WhoAwaits /\ cmd \in Seq(CP!Q!Message)
  BY DEF ControlInv, CP!TypeOK, CP!Q!TypeOK
<1>4. /\ msg' = msg
      /\ \/ UNCHANGED <<cmd, main>>
         \/ /\ main \notin {"handover", "await"}
            /\ main' \notin {"handover", "await"}
         \/ main = "handover" /\ main' = "await" /\ cmd' # <<>>
         \/ /\ main = "await" /\ cmd = <<>> /\ msg = <<>>
            /\ main' \notin {"handover", "await"}
  <2>1. CASE C!MainPut
    <3>1. cmd' # <<>>
      BY <1>3, <2>1 DEF C!MainPut, C!Q!Put
    <3> QED  BY <2>1, <3>1 DEF C!MainPut, C!Q!Put
  <2>2. CASE C!MainGet
    BY <1>3, <2>2 DEF C!MainGet, C!Q!Get, CP!HandoverFirst
  <2>3. CASE C!MainStep /\ ~C!MainPut /\ ~C!MainGet
    BY <2>3 DEF C!MainStep, C!MainGoes, C!messenger
  <2>4. CASE C!SwitchStep
    BY <2>4 DEF C!SwitchStep, C!PollSuspended, C!PollResumed, C!ReadSwitch, C!SwitchPut,
                C!SwitchGet, C!SwitchRuns, C!Q!Put, C!Q!Get, C!messenger
  <2>5. CASE \E t \in C!Threads : C!HandlerStep(t)
    <3>1. PICK t \in C!Threads : C!HandlerStep(t)
      BY <2>5
    <3>2. main \notin {"handover", "await"}
      BY <1>3, <3>1 DEF C!HandlerStep, C!HandlerPut, C!HandlerGet, C!HandlerRaise, C!HandlerGoes,
                        CP!WhoAwaits, CP!Busy, CP!HandlesTstp, C!Threads, CP!Threads
    <3> QED  BY <3>1, <3>2 DEF C!HandlerStep, C!HandlerPut, C!HandlerGet, C!HandlerRaise,
                               C!Q!Put, C!Q!Get, C!messenger
  <2>6. CASE \/ C!MoveLever \/ C!SendTstp \/ C!SendCont \/ C!DefaultStop \/ C!HandleCont
             \/ \E t \in SigThreads : C!EnterHandler(t)
    BY <2>6 DEF C!MoveLever, C!SendTstp, C!SendCont, C!DefaultStop, C!HandleCont,
                C!EnterHandler, C!messenger
  <2> QED  BY <2>1, <2>2, <2>3, <2>4, <2>5, <2>6 DEF ControlStep
<1>5. Booting' <=> ToCome'
  BY <1>2, BootingLater
<1>6. BootingStays
  BY <1>4, <1>5, BootingMeans DEF BootingStays, ToCome
<1> QED  BY <1>1, <1>2, <1>6, SameView DEF BootingStays, Elsewhere
-----------------------------------------------------------------------------
(* The message thread.  What it sees at the end of a step tells apart that *)
(* the order was carried out and that its turn is over.                    *)
LEMMA PreviewConstants ==
  /\ NUM_VIDBUF \in Nat \ {0, 1}
  /\ recovery \in {0, 1} /\ ignore_ovp \in {0, 1}
BY AppAssumption

LEMMA TakeStep ==
  ASSUME ControlInv, Take
  PROVE  CP!Next /\ ControlInv' /\ UNCHANGED VP!vars
<1>1. /\ CP!Take /\ UNCHANGED <<dev, turn, main>>
      /\ msg = <<>> /\ cmd # <<>> /\ msg' = <<Head(cmd)>> /\ cmd' = Tail(cmd)
  BY SameControl DEF Take, Elsewhere, C!Take, C!Q!Take
<1>2. CP!Next
  BY <1>1 DEF CP!Next, CP!MessageStep
<1>3. ControlInv'
  BY <1>2, ControlInvStep
<1>4. cmd \in Seq(CP!Q!Message) /\ CP!Fresh
  BY DEF ControlInv, CP!TypeOK, CP!Q!TypeOK
<1>5. msg' # <<>> /\ ~msg'[1].acked
  <2>1. Head(cmd) = cmd[1] /\ 1 \in 1..Len(cmd)
    BY <1>1, <1>4
  <2> QED  BY <1>1, <1>4, <2>1 DEF CP!Fresh
<1>6. Booting' <=> Booting
  BY <1>1, <1>3, <1>5, BootingMeans, BootingLater DEF ToCome
<1>7. Booting' = Booting
  BY <1>6 DEF Booting
<1>8. ~OrderDone /\ ~OrderDone'
  BY <1>1, <1>5 DEF OrderDone
<1> HIDE DEF OrderDone, Booting
<1> QED  BY <1>1, <1>2, <1>3, <1>7, <1>8 DEF VP!vars

(* Which order is carried out, and what of the handover is left then.      *)
LEMMA DispatchMeans ==
  ASSUME ControlInv, C!Q!Dispatch, UNCHANGED main
  PROVE  /\ msg[1].command \in {"HANDOVER", "START", "STOP"}
         /\ Booting <=> msg[1].command = "HANDOVER"
         /\ ~Booting' /\ ~OrderDone /\ OrderDone'
<1>1. CP!TypeOK /\ CP!HandoverFirst /\ CP!Q!Dispatch
  BY SameControl DEF ControlInv
<1>2. /\ msg # <<>> /\ ~msg[1].acked
      /\ msg' # <<>> /\ msg'[1].acked
  BY <1>1, ControlConstants, CP!Dispatched
<1>3. /\ cmd' = cmd
      /\ main # "handover"
      /\ main = "await" => cmd = <<>> /\ msg[1].command = "HANDOVER"
      /\ main # "await" =>
           /\ \A i \in 1..Len(cmd) : cmd[i].command # "HANDOVER"
           /\ msg[1].command # "HANDOVER"
  BY <1>1, <1>2 DEF CP!HandoverFirst, CP!Q!Dispatch
<1>4. \A i \in 1..Len(cmd) : cmd[i].command # "HANDOVER"
  BY <1>3, CP!EmptySeq
<1>5. msg[1].command \in {"HANDOVER", "START", "STOP"}
  <2>1. msg[1] \in CP!Q!Message
    BY <1>1, <1>2 DEF CP!TypeOK, CP!Q!TypeOK
  <2> QED  BY <2>1 DEF CP!Q!Message, CP!Commands
<1>6. Booting <=> msg[1].command = "HANDOVER"
  BY <1>2, <1>3, <1>4 DEF Booting
<1>7. ~Booting'
  BY <1>2, <1>3, <1>4 DEF Booting
<1> QED  BY <1>2, <1>5, <1>6, <1>7 DEF OrderDone

LEMMA DispatchIsOrder ==
  ASSUME ControlInv, TurnInv, Dispatch
  PROVE  /\ \/ msg[1].command = "HANDOVER" /\ VP!Handover
            \/ msg[1].command = "START" /\ VP!Start
            \/ msg[1].command = "STOP" /\ VP!Stop
         /\ TurnInv'
<1>1. /\ C!Q!Dispatch /\ UNCHANGED <<turn, main>> /\ dev.alive
      /\ \E s \in Results(msg[1].command) : dev' = [s EXCEPT !.wanted = (s.status = "STARTED")]
  BY DEF Dispatch, Turns
<1>2. /\ msg[1].command \in {"HANDOVER", "START", "STOP"}
      /\ Booting <=> msg[1].command = "HANDOVER"
      /\ ~Booting' /\ ~OrderDone /\ OrderDone'
  BY <1>1, DispatchMeans
<1>3. turn = "message"
  BY <1>1 DEF TurnInv, C!Q!Dispatch
<1>4. TurnInv'
  BY <1>1, <1>3 DEF TurnInv
<1>5. Booting' = FALSE /\ (~Booting => Booting' = Booting)
  BY <1>2 DEF Booting
<1> HIDE DEF OrderDone, Booting
<1>6. CASE msg[1].command = "HANDOVER"
  <2>1. V!Handover
    BY <1>1, <1>2, <1>3, <1>5, <1>6 DEF Results, V!Handover, V!Order, V!Running
  <2> QED  BY <1>4, <1>6, <2>1, SamePreview
<1>7. CASE msg[1].command = "START"
  <2>1. V!Start
    BY <1>1, <1>2, <1>3, <1>5, <1>7 DEF Results, V!Start, V!Order, V!Running
  <2> QED  BY <1>4, <1>7, <2>1, SamePreview
<1>8. CASE msg[1].command = "STOP"
  <2>1. V!Stop
    BY <1>1, <1>2, <1>3, <1>5, <1>8 DEF Results, V!Stop, V!Order, V!Running
  <2> QED  BY <1>4, <1>8, <2>1, SamePreview
<1> QED  BY <1>2, <1>6, <1>7, <1>8
(* Each step of the message thread and of the driver is the step of        *)
(* Preview that it looks like, and moves the status as PreviewStatus says. *)
LEMMA DispatchStep ==
  ASSUME AppInv, Dispatch
  PROVE  /\ VP!Next /\ VP!Inv' /\ TurnInv'
         /\ \/ msg[1].command = "HANDOVER" /\ VP!Abs!Handover
            \/ msg[1].command = "START" /\ VP!Abs!Start
                 /\ (CallsSucceed => dev'.status = "STARTED")
            \/ msg[1].command = "STOP" /\ VP!Abs!Stop
<1>1. VP!Inv /\ TurnInv'
      /\ \/ msg[1].command = "HANDOVER" /\ VP!Handover
         \/ msg[1].command = "START" /\ VP!Start
         \/ msg[1].command = "STOP" /\ VP!Stop
  BY DispatchIsOrder DEF AppInv
<1>2. CASE VP!Handover /\ msg[1].command = "HANDOVER"
  BY <1>1, <1>2, PreviewConstants, VP!HandoverStep DEF VP!Next
<1>3. CASE VP!Start /\ msg[1].command = "START"
  <2>1. CallsSucceed => dev'.status = "STARTED"
    BY <1>1, <1>3, PreviewConstants, CallsConstants, VP!StartSucceeds
  <2> QED  BY <1>1, <1>3, <2>1, PreviewConstants, VP!StartStep DEF VP!Next
<1>4. CASE VP!Stop /\ msg[1].command = "STOP"
  BY <1>1, <1>4, PreviewConstants, VP!StopStep DEF VP!Next
<1> QED  BY <1>1, <1>2, <1>3, <1>4

LEMMA DispatchServes ==
  ASSUME AppInv, Dispatch
  PROVE  CP!Next /\ (AnyFailure => C!Next)
<1>1. /\ C!Runs("message") /\ C!Q!Dispatch
      /\ UNCHANGED <<main, C!switchVars, lever, C!signalVars, overlap>>
  BY DEF Dispatch, Turns, C!switchVars, C!signalVars
<1>2. \/ msg[1].command = "HANDOVER" /\ VP!Abs!Handover
      \/ msg[1].command = "START" /\ VP!Abs!Start
           /\ (CallsSucceed => dev'.status = "STARTED")
      \/ msg[1].command = "STOP" /\ VP!Abs!Stop
  BY DispatchStep
<1>3. CP!P!Serve(msg[1].command)
  BY <1>2, CallsConstants DEF CP!P!Serve, CP!P!Handover, CP!P!Start, CP!P!Stop,
              VP!Abs!Handover, VP!Abs!Start, VP!Abs!Stop
<1>4. AnyFailure => C!P!Serve(msg[1].command)
  BY <1>2, CallsConstants DEF AnyFailure, C!P!Serve, C!P!Handover, C!P!Start, C!P!Stop,
              VP!Abs!Handover, VP!Abs!Start, VP!Abs!Stop
<1>5. CP!Dispatch
  BY <1>1, <1>3, SameControl DEF CP!Dispatch, C!switchVars, C!signalVars, CP!switchVars, CP!signalVars
<1>6. AnyFailure => C!Dispatch
  BY <1>1, <1>4 DEF C!Dispatch
<1> QED  BY <1>5, <1>6 DEF CP!Next, CP!MessageStep, C!Next, C!MessageStep

LEMMA AcknowledgeStep ==
  ASSUME AppInv, Acknowledge
  PROVE  C!Next /\ CP!Next /\ UNCHANGED VP!vars /\ TurnInv'
<1>1. /\ UNCHANGED <<dev, main, cmd>> /\ turn' = "frame" /\ C!Acknowledge
      /\ msg # <<>> /\ msg[1].acked /\ msg' = <<>>
  BY DEF Acknowledge, C!Acknowledge, C!Q!Acknowledge
<1>2. C!Next /\ CP!Next
  BY <1>1, SameControl DEF C!Next, C!MessageStep, CP!Next, CP!MessageStep
<1>3. (Booting' <=> Booting) /\ Booting' \in BOOLEAN /\ Booting \in BOOLEAN
  BY <1>1 DEF Booting
<1>4. OrderDone /\ ~OrderDone'
  BY <1>1 DEF OrderDone
<1>5. TurnInv'
  BY <1>1 DEF TurnInv
<1> HIDE DEF OrderDone, Booting
<1> QED  BY <1>1, <1>2, <1>3, <1>4, <1>5 DEF VP!vars

LEMMA SameControlView ==
  ASSUME UNCHANGED control
  PROVE  (Booting' = Booting) /\ (OrderDone' = OrderDone) /\ UNCHANGED msg
BY DEF control, Booting, OrderDone

LEMMA NoMessageStep ==
  ASSUME AppInv, NoMessage
  PROVE  VP!Next /\ VP!Inv' /\ UNCHANGED CP!vars /\ TurnInv'
<1>1. /\ dev.alive /\ turn = "message" /\ msg = <<>> /\ turn' = "frame"
      /\ UNCHANGED control /\ UNCHANGED dev
  BY DEF NoMessage, Turns
<1>2. Booting' = Booting /\ ~OrderDone /\ ~OrderDone' /\ msg' = <<>>
  BY <1>1, SameControlView DEF OrderDone
<1>3. TurnInv'
  BY <1>1, <1>2 DEF TurnInv
<1>4. UNCHANGED CP!vars
  BY <1>1 DEF control, CP!vars, CP!messenger, CP!switchVars, CP!signalVars
<1> HIDE DEF OrderDone, Booting
<1>5. VP!NoOrder
  BY <1>1, <1>2 DEF VP!NoOrder, VP!Running
<1> QED  BY <1>3, <1>4, <1>5, PreviewConstants, VP!NoOrderStep DEF AppInv, VP!Next

LEMMA FrameStep ==
  ASSUME AppInv, Frame
  PROVE  /\ VP!Next /\ VP!Inv' /\ TurnInv'
         /\ UNCHANGED CP!vars \/ CP!Next
         /\ AnyFailure => C!Next \/ UNCHANGED C!vars
<1>1. /\ dev.alive /\ C!Runs("message") /\ turn = "frame" /\ msg = <<>> /\ turn' = "message"
      /\ UNCHANGED control
      /\ dev' \in IF dev.status = "STARTED" THEN V!PreviewBuffer(dev) ELSE {dev}
  BY DEF Frame, Turns, AppInv, TurnInv
<1>2. Booting' = Booting /\ ~OrderDone /\ ~OrderDone' /\ msg' = <<>>
  BY <1>1, SameControlView DEF OrderDone
<1>3. TurnInv'
  BY <1>1, <1>2 DEF TurnInv
<1>4. VP!Frame
  <2> HIDE DEF OrderDone, Booting
  <2>1. V!Frame
    BY <1>1, <1>2 DEF V!Frame, V!Running
  <2> QED  BY <2>1, SamePreview
<1>5. VP!Inv' /\ (dev'.status = dev.status \/ VP!Abs!RecoveryFails)
  BY <1>4, PreviewConstants, VP!FrameStep DEF AppInv
<1>51. CallsSucceed => dev'.status = dev.status
  BY <1>4, PreviewConstants, CallsConstants, VP!FrameKeepsStatus DEF AppInv
<1>6. CASE dev'.status = dev.status
  <2>1. UNCHANGED CP!vars /\ UNCHANGED C!vars
    BY <1>1, <1>6 DEF control, CP!vars, CP!messenger, CP!switchVars, CP!signalVars,
                      C!vars, C!messenger, C!switchVars, C!signalVars
  <2> QED  BY <1>3, <1>4, <1>5, <2>1 DEF VP!Next
<1>7. CASE ~CallsSucceed /\ VP!Abs!RecoveryFails
  <2>1. CP!P!RecoveryFails
    BY <1>7, CallsConstants DEF VP!Abs!RecoveryFails, CP!P!RecoveryFails
  <2>2. AnyFailure => C!P!RecoveryFails
    BY <1>7, CallsConstants DEF AnyFailure, VP!Abs!RecoveryFails, C!P!RecoveryFails
  <2>3. CP!RecoveryFails
    BY <1>1, <2>1, SameControl DEF CP!RecoveryFails, control, CP!messenger, CP!switchVars, CP!signalVars
  <2>4. AnyFailure => C!RecoveryFails
    BY <1>1, <2>2 DEF C!RecoveryFails, control, C!messenger, C!switchVars, C!signalVars
  <2> QED  BY <1>3, <1>4, <1>5, <2>3, <2>4 DEF VP!Next, CP!Next, C!Next
<1> QED  BY <1>5, <1>51, <1>6, <1>7

LEMMA FillStep ==
  ASSUME AppInv, Fill
  PROVE  VP!Next /\ VP!Inv' /\ UNCHANGED CP!vars /\ TurnInv'
<1>1. /\ dev.alive /\ dev.streaming /\ dev.queue # <<>> /\ dev' = V!Filled(dev)
      /\ UNCHANGED control /\ UNCHANGED turn
  BY DEF Fill
<1>2. Booting' = Booting /\ OrderDone' = OrderDone /\ msg' = msg
  BY <1>1, SameControlView
<1>3. TurnInv'
  BY <1>1, <1>2 DEF AppInv, TurnInv
<1>4. VP!Fill
  <2> HIDE DEF OrderDone, Booting
  <2>1. V!Fill
    BY <1>1, <1>2 DEF V!Fill, V!Running
  <2> QED  BY <2>1, SamePreview
<1>5. VP!Inv' /\ dev'.status = dev.status
  BY <1>4, PreviewConstants, VP!FillStep DEF AppInv
<1>6. UNCHANGED CP!vars
  BY <1>1, <1>5 DEF control, CP!vars, CP!messenger, CP!switchVars, CP!signalVars
<1> QED  BY <1>3, <1>4, <1>5, <1>6 DEF VP!Next
-----------------------------------------------------------------------------

LEMMA AppInit == Init => C!Init /\ CP!Init /\ V!Init /\ AppInv
<1> SUFFICES ASSUME Init  PROVE C!Init /\ CP!Init /\ V!Init /\ AppInv
  OBVIOUS
<1>1. C!Init /\ CP!Init /\ dev = V!Cleared /\ turn = "message"
  BY SameControl DEF Init
<1>2. msg = <<>> /\ main = "handover" /\ cmd = <<>>
  BY <1>1 DEF C!Init, C!Q!Init
<1>3. Booting = TRUE /\ ~OrderDone
  BY <1>2 DEF Booting, OrderDone
<1>4. V!Init
  <2> HIDE DEF Booting, OrderDone
  <2> QED  BY <1>1, <1>3 DEF V!Init
<1>5. VP!Inv
  BY <1>4, SamePreview, PreviewConstants, VP!InitInv
<1>6. ControlInv
  <2>1. CP!TypeOK /\ CP!WhoAwaits /\ CP!HandoverFirst
    BY <1>1, ControlConstants, CP!TypesInit, CP!WhoAwaitsInit, CP!HandoverFirstInit
  <2>2. CP!Fresh
    BY <1>2 DEF CP!Fresh
  <2> QED  BY <2>1, <2>2 DEF ControlInv
<1>7. TurnInv
  BY <1>1, <1>2 DEF TurnInv
<1> QED  BY <1>1, <1>4, <1>5, <1>6, <1>7 DEF AppInv

(* Every step is a step of both halves, or one that they do not see.       *)
LEMMA StepOfBoth ==
  ASSUME AppInv, [Next]_vars
  PROVE  /\ VP!Inv' /\ TurnInv'
         /\ VP!Next \/ UNCHANGED VP!vars
         /\ CP!Next \/ UNCHANGED CP!vars
         /\ AnyFailure => C!Next \/ UNCHANGED C!vars
<1>0. VP!Inv /\ TurnInv /\ ControlInv /\ CP!vars = C!vars /\ (CP!vars' = C!vars')
  BY DEF AppInv, CP!vars, CP!messenger, CP!switchVars, CP!signalVars,
         C!vars, C!messenger, C!switchVars, C!signalVars
<1>1. ASSUME UNCHANGED VP!vars  PROVE VP!Inv'
  BY <1>0, <1>1, PreviewConstants, VP!StepInv
<1>2. CASE Elsewhere /\ ControlStep
  <2>1. CP!Next /\ UNCHANGED VP!vars /\ msg' = msg /\ turn' = turn
    BY <1>0, <1>2, ElsewhereStep DEF Elsewhere
  <2>2. C!Next
    BY <1>2 DEF ControlStep, C!Next
  <2>3. TurnInv'
    BY <1>0, <2>1 DEF TurnInv
  <2> QED  BY <1>1, <2>1, <2>2, <2>3
<1>3. CASE Take
  <2>1. CP!Next /\ UNCHANGED VP!vars
    BY <1>0, <1>3, TakeStep
  <2>2. C!Next
    BY <1>3 DEF Take, C!Next, C!MessageStep
  <2>3. TurnInv'
    BY <1>0, <1>3 DEF Take, Elsewhere, TurnInv
  <2> QED  BY <1>1, <2>1, <2>2, <2>3
<1>4. CASE Dispatch
  BY <1>4, DispatchStep, DispatchServes
<1>5. CASE Acknowledge
  BY <1>1, <1>5, AcknowledgeStep
<1>6. CASE NoMessage
  BY <1>0, <1>6, NoMessageStep
<1>7. CASE Frame
  BY <1>7, FrameStep
<1>8. CASE Fill
  BY <1>0, <1>8, FillStep
<1>9. CASE UNCHANGED vars
  <2>1. UNCHANGED control /\ UNCHANGED dev /\ UNCHANGED turn
    BY <1>9 DEF vars
  <2>2. Booting' = Booting /\ OrderDone' = OrderDone /\ msg' = msg
    BY <2>1, SameControlView
  <2>3. UNCHANGED CP!vars
    BY <2>1 DEF control, CP!vars, CP!messenger, CP!switchVars, CP!signalVars
  <2>4. UNCHANGED VP!vars
    <3> HIDE DEF Booting, OrderDone
    <3> QED  BY <2>1, <2>2 DEF VP!vars
  <2>5. TurnInv'
    BY <1>0, <2>1, <2>2 DEF TurnInv
  <2> QED  BY <1>0, <1>1, <2>3, <2>4, <2>5
<1>10. CASE Next
  <2>1. \/ Elsewhere /\ ControlStep
        \/ Take \/ Dispatch \/ Acknowledge \/ NoMessage \/ Frame \/ Fill
    BY <1>10 DEF Next, MainThread, SwitchThread, HandlerThread, Delivery, Continue, World,
                 MessageThread, ControlStep
  <2> QED  BY <1>2, <1>3, <1>4, <1>5, <1>6, <1>7, <1>8, <2>1
<1> QED  BY <1>9, <1>10

LEMMA AppStep ==
  ASSUME AppInv, [Next]_vars
  PROVE  /\ AppInv'
         /\ [VP!Next]_(VP!vars) /\ [V!Next]_(V!vars)
         /\ [CP!Next]_(CP!vars)
         /\ AnyFailure => [C!Next]_(C!vars)
<1>1. VP!Next \/ UNCHANGED VP!vars => V!Next \/ UNCHANGED V!vars
  BY SamePreview DEF V!vars, VP!vars
<1>2. ControlInv'
  BY StepOfBoth, ControlInvStep DEF AppInv
<1> QED  BY <1>1, <1>2, StepOfBoth DEF AppInv

THEOREM AppInvariant == Spec => []AppInv
BY AppInit, AppStep, PTL DEF Spec

(* The orders reach the message thread as Preview supposes them to, the    *)
(* handover before every other one, whatever the signals interrupt and     *)
(* whatever fails (main.c:385-458, camera.c:1308-1333).                    *)
THEOREM AppImplementsPreview == Spec => ImplementsPreview
<1>1. AppInv /\ [Next]_vars => [V!Next]_(V!vars)
  BY AppStep
<1> QED  BY <1>1, AppInit, AppInvariant, PTL DEF Spec, ImplementsPreview, V!Spec

(* The application with its buffers, its driver and its calls that fail    *)
(* does what CameraControl says, where that module lets a start and a      *)
(* recovery fail, and also where it does not, as long as no call of theirs *)
(* fails: the status is all that the other threads rely on                 *)
(* (camera.c:697-726, 755-823, 1079-1129).                                 *)
THEOREM AppImplementsControl ==
  ASSUME AnyFailure
  PROVE  Spec => ImplementsControl
<1>1. AppInv /\ [Next]_vars => [C!Next]_(C!vars)
  BY AppStep
<1> QED  BY <1>1, AppInit, AppInvariant, PTL DEF Spec, ImplementsControl, C!Spec

-----------------------------------------------------------------------------
(* What the theorems of the two halves say together. *)
LEMMA BothHalves == Spec => CP!Spec /\ VP!Spec
<1>1. AppInv /\ [Next]_vars => [CP!Next]_(CP!vars) /\ [VP!Next]_(VP!vars)
  BY AppStep
<1>2. Init => CP!Init /\ VP!Init
  BY AppInit, SamePreview
<1> QED  BY <1>1, <1>2, AppInvariant, PTL DEF Spec, CP!Spec, VP!Spec

OnlyStarted == Picture => dev.status = "STARTED"

LEMMA StartedPicture ==
  ASSUME VP!NoHideFault
  PROVE  Spec => []OnlyStarted
<1>1. AppInv => OnlyStarted
  <2> SUFFICES ASSUME VP!Inv, Picture
               PROVE  dev.status = "STARTED"
    BY DEF AppInv, OnlyStarted
  <2>1. V!Bufs = VP!Bufs
    BY DEF V!Bufs, VP!Bufs
  <2> QED  BY <2>1 DEF VP!Inv, VP!Sound, VP!Truthful, Picture
<1> QED  BY <1>1, AppInvariant, PTL

(* Where the layer can be switched off, the handler stops the process with *)
(* no frame on the display, but for the window that overlap names          *)
(* (main.c:261-280, camera.c:782-823).                                     *)
THEOREM AppStopsHidden ==
  ASSUME VP!NoHideFault
  PROVE  Spec => []StopsHidden
<1>1. CP!Spec => []CP!StopsDark
  BY ControlConstants, CP!ControlStopsDark
<1>2. CP!StopsDark /\ OnlyStarted => StopsHidden
  BY SameControl DEF OnlyStarted, StopsHidden, C!StopsDark
<1> QED  BY <1>1, <1>2, BothHalves, StartedPicture, PTL

(* Where the layer can be switched off, no frame is on the display while   *)
(* the switch thread rests on "off" (main.c:353-362, camera.c:782-823).    *)
THEOREM AppOffIsHidden ==
  ASSUME VP!NoHideFault
  PROVE  Spec => []OffIsHidden
<1>1. CP!Spec => []CP!OffMeansOff
  BY ControlConstants, CP!ControlOffMeansOff
<1>2. CP!OffMeansOff /\ OnlyStarted => OffIsHidden
  BY SameControl DEF OnlyStarted, OffIsHidden, C!OffMeansOff
<1> QED  BY <1>1, <1>2, BothHalves, StartedPicture, PTL

-----------------------------------------------------------------------------
(* Where no call of a stop, a start or the end of the handover fails, and  *)
(* until somebody is suspended, the driver streams into a whole set of     *)
(* buffers while the switch thread rests on "on", whatever frames are lost *)
(* and however often the path is restarted (main.c:346-362,                *)
(* camera.c:1079-1129).                                                    *)
THEOREM AppOnStreams ==
  ASSUME CallsSucceed
  PROVE  Spec => []OnStreams
<1>1. CP!Spec => []CP!OnMeansOn
  BY ControlConstants, CallsConstants, CP!ControlOnMeansOn
<1>2. VP!Spec => []VP!StartedRuns
  BY PreviewConstants, VP!PreviewStartedRuns
<1>3. CP!OnMeansOn /\ VP!StartedRuns => OnStreams
  BY SameControl, SameResults
     DEF C!OnMeansOn, VP!StartedRuns, VP!Started, VP!Runs, V!Runs, OnStreams
<1> QED  BY <1>1, <1>2, <1>3, BothHalves, PTL

(* Where every plane can be mapped, the message thread follows no address  *)
(* that is unmapped or freed, under the orders that the other threads      *)
(* really give (video_input.c:876-906, camera.c:825-870).                  *)
THEOREM AppMemorySafe ==
  ASSUME VP!NoMmapFault
  PROVE  Spec => []V!MemorySafe
<1>1. VP!Spec => []VP!MemorySafe
  BY PreviewConstants, VP!PreviewMemorySafe
<1>2. VP!MemorySafe => V!MemorySafe
  BY DEF VP!MemorySafe, V!MemorySafe
<1> QED  BY <1>1, <1>2, BothHalves, PTL

-----------------------------------------------------------------------------
LEMMA SameHang ==
  /\ C!OneWayToHang <=> CP!OneWayToHang
  /\ C!Hung <=> CP!Hung
BY DEF C!OneWayToHang, CP!OneWayToHang, C!Hung, CP!Hung, C!WaitsForItself, CP!WaitsForItself,
  C!Serves, CP!Serves, C!Returns, CP!Returns, C!HandlerMoves, CP!HandlerMoves,
  C!SwitchRuns, CP!SwitchRuns, C!Runs, CP!Runs, C!Q!Awaiting, CP!Q!Awaiting,
  C!Frames, CP!Frames, C!Code, CP!Code, C!Handler, CP!Handler, C!Threads, CP!Threads

(* The whole application hangs in one way only, and in none where the      *)
(* kernel never runs the handler on the message thread                     *)
(* (main.c:265-271, camera.c:1351).                                        *)
THEOREM AppOneWayToHang == Spec => []C!OneWayToHang
<1>1. CP!Spec => []CP!OneWayToHang
  BY ControlConstants, CP!ControlOneWayToHang
<1> QED  BY <1>1, SameHang, BothHalves, PTL

(* The corollary for the kernel that delivers the signal elsewhere         *)
(* (main.c:271).                                                           *)
THEOREM AppNeverHangs ==
  ASSUME "message" \notin SigThreads
  PROVE  Spec => []~C!Hung
<1>1. CP!Spec => []~CP!Hung
  BY ControlConstants, CP!ControlNeverHangs
<1> QED  BY <1>1, SameHang, BothHalves, PTL

(* Until somebody sends SIGTSTP the calls of main and of the switch thread *)
(* return on their own acknowledges, with the preview really carried out   *)
(* between (camera.c:1348-1352).                                           *)
THEOREM AppOwnAck == Spec => C!OwnAck
<1>1. CP!Spec => CP!OwnAck
  BY ControlConstants, CP!ControlOwnAck
<1>2. C!Frames = CP!Frames
  BY DEF C!Frames, CP!Frames, C!Code, CP!Code, C!Handler, CP!Handler, C!Threads, CP!Threads
<1>3. CP!OwnAck => C!OwnAck
  <2>1. [\A f \in CP!Frames :
           (suspends' = 0 /\ call[f] = "await" /\ call'[f] = "idle") => Head(ack).from = f]_(CP!Q!vars)
          => [\A f \in C!Frames :
                (suspends' = 0 /\ call[f] = "await" /\ call'[f] = "idle") => Head(ack).from = f]_(C!Q!vars)
    BY <1>2 DEF CP!Q!vars, C!Q!vars
  <2> QED  BY <2>1, PTL DEF CP!OwnAck, C!OwnAck
<1> QED  BY <1>1, <1>3, BothHalves, PTL
=============================================================================
