---------------------------- MODULE CameraControl ----------------------------
(***************************************************************************)
(* Who tells the preview to run (main.c) and how the orders reach it       *)
(* (Messenger): the main thread hands the preview over at start-up, the    *)
(* switch thread follows the reverse switch, the handler of SIGTSTP stops  *)
(* the preview and then the process, and the message thread serves them    *)
(* all.  A handler runs on top of whatever its thread was doing.           *)
(*                                                                         *)
(* The body of the message thread is reduced to what the orders do to      *)
(* dev->status (PreviewStatus), which module Preview implements in full.   *)
(***************************************************************************)
EXTENDS Integers, Sequences, FiniteSets

CONSTANTS
  SigThreads,   \* threads the kernel may choose to run a handler of SIGTSTP
  Failures,     \* what may fail: "start" a preview, "recover" it, "read" the switch
  MaxSuspends   \* bound on the SIGTSTP sent in a behaviour

Threads == {"main", "switch", "message"}

ASSUME ControlAssumption ==
  /\ SigThreads \subseteq Threads
  /\ Failures \subseteq {"start", "recover", "read"}
  /\ MaxSuspends \in Nat

Commands == {"HANDOVER", "START", "STOP"}

(* The call sites of message_queue_put_and_get_msg: the code of main and   *)
(* of the switch thread, and a handler on any thread.                      *)
Code(t) == <<t, "code">>
Handler(t) == <<t, "handler">>
Frames == {Code("main"), Code("switch")} \cup {Handler(t) : t \in Threads}

VARIABLES
  cmd, ack, msg, call,   \* the messenger
  status,                \* dev->status
  main,                  \* where main() is
  poll,                  \* where detect_switch_changed is
  sw_curr,               \* its local: the switch state it last acted on, -1 for none
  lever,                 \* the reverse switch itself
  is_suspended,          \* main.c's flag
  handler,               \* per thread: where its SIGTSTP handler is, "none" if not in one
  pending,               \* signals generated and not yet delivered
  stopped,               \* SIGSTOP has stopped the process
  suspends,              \* history: SIGTSTP sent so far
  overlap                \* history: a poll of the switch met the handler

messenger == <<cmd, ack, msg, call>>
switchVars == <<poll, sw_curr>>
signalVars == <<is_suspended, handler, pending, stopped, suspends>>
vars == <<messenger, status, main, switchVars, lever, signalVars, overlap>>

Q == INSTANCE Messenger WITH Requesters <- Frames, Commands <- Commands
P == INSTANCE PreviewStatus

Init ==
  /\ Q!Init
  /\ P!Init
  /\ main = "handover"
  /\ poll = "sleep"
  /\ sw_curr = -1
  /\ lever \in {0, 1}
  /\ is_suspended = 0
  /\ handler = [t \in Threads |-> "none"]
  /\ pending = {}
  /\ stopped = FALSE
  /\ suspends = 0
  /\ overlap = FALSE

(* A thread executes its own code: not stopped, and not inside a handler.  *)
Runs(t) == ~stopped /\ handler[t] = "none"

-----------------------------------------------------------------------------
(* Variants with a mistake, for the properties to find.                    *)

ReadSwitch_StartsAtZero ==
  /\ main = "join" /\ Runs("switch") /\ poll = "read"
  /\ sw_curr' = lever
  /\ poll' = IF lever = sw_curr THEN "sleep" ELSE IF lever >= 0 THEN "START" ELSE "STOP"
  /\ UNCHANGED <<messenger, status, main, lever, signalVars, overlap>>

ReadSwitch_StartsAboveOne ==
  /\ main = "join" /\ Runs("switch") /\ poll = "read"
  /\ sw_curr' = lever
  /\ poll' = IF lever = sw_curr THEN "sleep" ELSE IF lever > 1 THEN "START" ELSE "STOP"
  /\ UNCHANGED <<messenger, status, main, lever, signalVars, overlap>>

HandlerPut_NoWait(t) ==
  /\ ~stopped /\ handler[t] = "put"
  /\ handler' = [handler EXCEPT ![t] = "raise"]
  /\ Q!Put(Handler(t), "STOP")
  /\ UNCHANGED <<status, main, switchVars, lever,
                 is_suspended, pending, stopped, suspends, overlap>>

-----------------------------------------------------------------------------
(* main(): app_initialize, app_reg_sighandler, app_finalize.               *)

MainPut ==
  /\ Runs("main") /\ main = "handover"
  /\ Q!Put(Code("main"), "HANDOVER")
  /\ main' = "await"
  /\ UNCHANGED <<status, switchVars, lever, signalVars, overlap>>

MainGet ==
  /\ Runs("main") /\ main = "await"
  /\ Q!Get(Code("main"))
  /\ main' = "signal(SIGTSTP)"
  /\ UNCHANGED <<status, switchVars, lever, signalVars, overlap>>

(* signal(SIGTSTP), signal(SIGCONT), pthread_create of the switch thread;  *)
(* then main waits in pthread_join.                                        *)
MainGoes(from, to) ==
  /\ Runs("main") /\ main = from
  /\ main' = to
  /\ UNCHANGED <<messenger, status, switchVars, lever, signalVars, overlap>>

MainStep ==
  \/ MainPut
  \/ MainGet
  \/ MainGoes("signal(SIGTSTP)", "signal(SIGCONT)")
  \/ MainGoes("signal(SIGCONT)", "create")
  \/ MainGoes("create", "join")

HandlesTstp == main \in {"signal(SIGCONT)", "create", "join"}
HandlesCont == main \in {"create", "join"}

-----------------------------------------------------------------------------
(* detect_switch_changed, from one usleep to the next.                     *)

SwitchRuns(at) == main = "join" /\ Runs("switch") /\ poll = at

PollSuspended ==
  /\ SwitchRuns("sleep")
  /\ is_suspended = 1
  /\ sw_curr' = -1
  /\ UNCHANGED <<messenger, status, main, poll, lever, signalVars, overlap>>

PollResumed ==
  /\ SwitchRuns("sleep")
  /\ is_suspended # 1
  /\ poll' = "read"
  /\ overlap' = (overlap \/ \E t \in Threads : handler[t] # "none")
  /\ UNCHANGED <<messenger, status, main, sw_curr, lever, signalVars>>

(* switch_get_state, which answers -1 when the ioctl fails, and the        *)
(* comparison with the previous state.                                     *)
ReadSwitch ==
  /\ SwitchRuns("read")
  /\ \E state \in {lever} \cup (IF "read" \in Failures THEN {-1} ELSE {}) :
       /\ sw_curr' = state
       /\ poll' = IF state = sw_curr THEN "sleep"
                  ELSE IF state > 0 THEN "START" ELSE "STOP"
  /\ UNCHANGED <<messenger, status, main, lever, signalVars, overlap>>

SwitchPut ==
  /\ SwitchRuns(poll) /\ poll \in {"START", "STOP"}
  /\ Q!Put(Code("switch"), poll)
  /\ poll' = "await"
  /\ UNCHANGED <<status, main, sw_curr, lever, signalVars, overlap>>

SwitchGet ==
  /\ SwitchRuns("await")
  /\ Q!Get(Code("switch"))
  /\ poll' = "sleep"
  /\ UNCHANGED <<status, main, sw_curr, lever, signalVars, overlap>>

SwitchStep == PollSuspended \/ PollResumed \/ ReadSwitch \/ SwitchPut \/ SwitchGet

(* The driver moves the lever whenever he likes. *)
MoveLever ==
  /\ lever' = 1 - lever
  /\ UNCHANGED <<messenger, status, main, switchVars, signalVars, overlap>>

-----------------------------------------------------------------------------
(* The message thread: threadMessageHandle and handle_a_message.           *)

Take ==
  /\ Runs("message")
  /\ Q!Take
  /\ UNCHANGED <<status, main, switchVars, lever, signalVars, overlap>>

Dispatch ==
  /\ Runs("message")
  /\ Q!Dispatch
  /\ P!Serve(msg[1].command)
  /\ UNCHANGED <<main, switchVars, lever, signalVars, overlap>>

Acknowledge ==
  /\ Runs("message")
  /\ Q!Acknowledge
  /\ UNCHANGED <<status, main, switchVars, lever, signalVars, overlap>>

(* check_recovery, outside the handling of a message. *)
RecoveryFails ==
  /\ Runs("message")
  /\ msg = <<>>
  /\ P!RecoveryFails
  /\ UNCHANGED <<messenger, main, switchVars, lever, signalVars, overlap>>

MessageStep == Take \/ Dispatch \/ Acknowledge

-----------------------------------------------------------------------------
(* Signals.  Generating a stop signal discards a pending SIGCONT and the   *)
(* other way round.                                                        *)

SendTstp ==
  /\ suspends < MaxSuspends
  /\ suspends' = suspends + 1
  /\ pending' = (pending \ {"CONT"}) \cup {"TSTP"}
  /\ UNCHANGED <<messenger, status, main, switchVars, lever,
                 is_suspended, handler, stopped, overlap>>

SendCont ==
  /\ stopped \/ "TSTP" \in pending \/ is_suspended = 1
  /\ pending' = (pending \ {"TSTP"}) \cup {"CONT"}
  /\ stopped' = FALSE
  /\ UNCHANGED <<messenger, status, main, switchVars, lever,
                 is_suspended, handler, suspends, overlap>>

(* Before signal(SIGTSTP) the default action stops the process. *)
DefaultStop ==
  /\ "TSTP" \in pending /\ ~stopped /\ ~HandlesTstp
  /\ pending' = pending \ {"TSTP"}
  /\ stopped' = TRUE
  /\ UNCHANGED <<messenger, status, main, switchVars, lever,
                 is_suspended, handler, suspends, overlap>>

(* The handler of SIGTSTP starts on thread t, whatever t was doing;        *)
(* SIGTSTP is blocked on t until it returns.                               *)
EnterHandler(t) ==
  /\ "TSTP" \in pending /\ HandlesTstp
  /\ Runs(t)
  /\ t = "switch" => main = "join"
  /\ pending' = pending \ {"TSTP"}
  /\ is_suspended' = 1
  /\ handler' = [handler EXCEPT ![t] = "put"]
  /\ overlap' = (poll # "sleep" \/ (overlap /\ \E u \in Threads : handler[u] # "none"))
  /\ UNCHANGED <<messenger, status, main, switchVars, lever, stopped, suspends>>

HandlerGoes(t, from, to) ==
  /\ ~stopped
  /\ handler[t] = from
  /\ handler' = [handler EXCEPT ![t] = to]

HandlerPut(t) ==
  /\ HandlerGoes(t, "put", "await")
  /\ Q!Put(Handler(t), "STOP")
  /\ UNCHANGED <<status, main, switchVars, lever,
                 is_suspended, pending, stopped, suspends, overlap>>

HandlerGet(t) ==
  /\ HandlerGoes(t, "await", "raise")
  /\ Q!Get(Handler(t))
  /\ UNCHANGED <<status, main, switchVars, lever,
                 is_suspended, pending, stopped, suspends, overlap>>

(* raise(SIGSTOP); the handler returns once the process is continued.      *)
HandlerRaise(t) ==
  /\ HandlerGoes(t, "raise", "none")
  /\ stopped' = TRUE
  /\ pending' = pending \ {"CONT"}
  /\ UNCHANGED <<messenger, status, main, switchVars, lever,
                 is_suspended, suspends, overlap>>

HandlerStep(t) == HandlerPut(t) \/ HandlerGet(t) \/ HandlerRaise(t)

(* The handler of SIGCONT on any thread, or its default action.            *)
HandleCont ==
  /\ "CONT" \in pending /\ ~stopped
  /\ pending' = pending \ {"CONT"}
  /\ is_suspended' = IF HandlesCont THEN 0 ELSE is_suspended
  /\ UNCHANGED <<messenger, status, main, switchVars, lever,
                 handler, stopped, suspends, overlap>>

-----------------------------------------------------------------------------
Next ==
  \/ MainStep
  \/ SwitchStep
  \/ MoveLever
  \/ MessageStep
  \/ RecoveryFails
  \/ SendTstp
  \/ SendCont
  \/ DefaultStop
  \/ \E t \in SigThreads : EnterHandler(t)
  \/ \E t \in Threads : HandlerStep(t)
  \/ HandleCont

Spec == Init /\ [][Next]_vars

(* Every thread is scheduled, signals are delivered, and a reader blocked  *)
(* on the acknowledge pipe is not passed over for ever.  Nothing is        *)
(* assumed of the lever nor of who sends the signals.                      *)
Fairness ==
  /\ WF_vars(MainStep)
  /\ WF_vars(SwitchStep)
  /\ WF_vars(MessageStep)
  /\ WF_vars(HandleCont)
  /\ WF_vars(DefaultStop \/ \E t \in SigThreads : EnterHandler(t))
  /\ \A t \in Threads : WF_vars(HandlerStep(t)) /\ SF_vars(HandlerGet(t))
  /\ SF_vars(SwitchGet)

FairSpec == Spec /\ Fairness

-----------------------------------------------------------------------------
TypeOK ==
  /\ Q!TypeOK
  /\ status \in {"INITIALIZED", "STARTED", "STOPPED"}
  /\ main \in {"handover", "await", "signal(SIGTSTP)", "signal(SIGCONT)", "create", "join"}
  /\ poll \in {"sleep", "read", "START", "STOP", "await"}
  /\ sw_curr \in {-1, 0, 1}
  /\ lever \in {0, 1}
  /\ is_suspended \in {0, 1}
  /\ handler \in [Threads -> {"none", "put", "await", "raise"}]
  /\ pending \subseteq {"TSTP", "CONT"}
  /\ stopped \in BOOLEAN
  /\ suspends \in 0..MaxSuspends
  /\ overlap \in BOOLEAN

(* Calls of main, of the switch thread and of handlers on any of the       *)
(* threads share the two pipes, and still as many messages are under way   *)
(* as there are callers waiting (camera.c:1348-1352, main.c:267).          *)
Conservation == Q!Conservation

(* The handler stops the process only once the preview is off, unless the  *)
(* switch thread had passed its test of is_suspended when the handler      *)
(* began, or passed it while the handler waited: main.c:346 and 265-272    *)
(* are not atomic, and that window is the only way to stop with the        *)
(* preview on.                                                             *)
StopsDark == (stopped /\ HandlesTstp /\ ~overlap) => status # "STARTED"

(* The switch thread asleep on "off", with no call under way, means that   *)
(* the preview is off: whatever the handlers and the acknowledges they     *)
(* took in between, the order of 0 was the last one run (main.c:353-362).  *)
OffMeansOff ==
  (Q!Awaiting = {} /\ poll = "sleep" /\ sw_curr = 0) => status # "STARTED"

(* And asleep on "on" it means that the preview runs, as long as nobody    *)
(* was suspended and no start nor recovery fails; a suspension that falls  *)
(* between two polls leaves sw_curr at 1 with the preview off, for good    *)
(* (main.c:346-362).                                                       *)
OnMeansOn ==
  (Q!Awaiting = {} /\ poll = "sleep" /\ sw_curr = 1 /\ suspends = 0) => status = "STARTED"

-----------------------------------------------------------------------------
(* The inductive invariants behind Conservation, StopsDark, OffMeansOff    *)
(* and OnMeansOn (module CameraControlProofs), and behind the order of the *)
(* handover.                                                               *)
Busy == \E t \in Threads : handler[t] # "none"

(* Who waits for an acknowledge, and since when. *)
WhoAwaits ==
  /\ call[Code("main")] = "await" <=> main = "await"
  /\ call[Code("switch")] = "await" <=> poll = "await"
  /\ \A t \in Threads : call[Handler(t)] = "await" <=> handler[t] = "await"
  /\ main # "join" => poll = "sleep" /\ sw_curr = -1
  /\ ~HandlesTstp => ~Busy

Fresh == \A i \in 1..Len(cmd) : ~cmd[i].acked

OnlyStops ==
  /\ \A i \in 1..Len(cmd) : cmd[i].command = "STOP"
  /\ msg # <<>> => msg[1].command = "STOP"

(* While a handler that met no poll of the switch is at work, nothing but  *)
(* orders to stop is under way, and once one was carried out the preview   *)
(* is off.                                                                 *)
Executed ==
  \/ ack # <<>>
  \/ msg # <<>> /\ msg[1].acked
  \/ \E t \in Threads : handler[t] = "raise"
  \/ stopped

Darkens ==
  (HandlesTstp /\ ~overlap /\ (Busy \/ stopped)) =>
    /\ poll = "sleep"
    /\ OnlyStops
    /\ Executed => status # "STARTED"

(* The last order under way is c, or it was carried out and the status is  *)
(* one of those that c leaves.                                             *)
Ordered(c, statuses) ==
  \/ cmd # <<>> /\ cmd[Len(cmd)].command = c
  \/ cmd = <<>> /\ msg # <<>> /\ ~msg[1].acked /\ msg[1].command = c
  \/ cmd = <<>> /\ (msg # <<>> => msg[1].acked) /\ status \in statuses

(* After the order of 0, the last order under way is to stop. *)
OffOrdered == Ordered("STOP", {"INITIALIZED", "STOPPED"})

StaysOff ==
  /\ poll = "START" => sw_curr # 0
  /\ (sw_curr = 0 /\ poll \in {"sleep", "read", "await"}) => OffOrdered

(* As long as nobody was suspended, the orders are those of the switch     *)
(* thread, and after the order of 1 the last one is to start.              *)
OnOrdered == Ordered("START", {"STARTED"})

StaysOn ==
  suspends = 0 =>
    /\ "TSTP" \notin pending /\ ~Busy
    /\ poll = "STOP" => sw_curr # 1
    /\ (sw_curr = 1 /\ poll \in {"sleep", "read", "await"}) => OnOrdered

(* The handover of the start-up is alone in the pipes until main has its   *)
(* acknowledge, and never comes back.                                      *)
HandoverFirst ==
  /\ main = "handover" => cmd = <<>> /\ msg = <<>> /\ ack = <<>>
  /\ main = "await" =>
       \/ Len(cmd) = 1 /\ cmd[1].command = "HANDOVER" /\ msg = <<>> /\ ack = <<>>
       \/ cmd = <<>> /\ msg # <<>> /\ msg[1].command = "HANDOVER" /\ ack = <<>>
       \/ cmd = <<>> /\ msg = <<>>
  /\ main \notin {"handover", "await"} =>
       /\ \A i \in 1..Len(cmd) : cmd[i].command # "HANDOVER"
       /\ msg # <<>> => msg[1].command # "HANDOVER"

-----------------------------------------------------------------------------
(* Who of those at the pipes can go on: the message thread, the main or    *)
(* the switch thread with an acknowledge to take, a handler.               *)
Serves == Runs("message") /\ (cmd # <<>> \/ msg # <<>>)

Returns == ack # <<>> /\ ((Runs("main") /\ main = "await") \/ SwitchRuns("await"))

HandlerMoves(t) ==
  /\ ~stopped
  /\ handler[t] \in {"put", "raise"} \/ (handler[t] = "await" /\ ack # <<>>)

Hung ==
  /\ ~stopped /\ Q!Awaiting # {}
  /\ ~Serves /\ ~Returns
  /\ \A t \in Threads : ~HandlerMoves(t)

(* The message thread waits, in a handler of its own, for an acknowledge   *)
(* that only it can write.                                                 *)
WaitsForItself == handler["message"] = "await" /\ ack = <<>>

(* Callers wait and nobody can go on in one case only: the kernel ran the  *)
(* handler on the message thread and no acknowledge of another call was    *)
(* left for it (main.c:265-271, camera.c:1351).                            *)
OneWayToHang == Hung => WaitsForItself

(* And that is for good: no signal, no caller and no other thread wakes    *)
(* the message thread again (message_queue.c:71, camera.c:1351).           *)
NeverWakes == [][WaitsForItself => WaitsForItself']_vars

-----------------------------------------------------------------------------
(* Every call of camera_start_preview, camera_stop_preview or              *)
(* camera_handover returns, unless the process is stopped meanwhile or the *)
(* message thread waits for an acknowledge that only itself could produce  *)
(* (camera.c:1351).                                                        *)
CallsReturn ==
  \A f \in Frames : call[f] = "await" ~> (call[f] = "idle" \/ stopped \/ WaitsForItself)

(* A switch thread that has seen the suspension (sw_curr = -1) orders the  *)
(* preview again after the resume, if the lever is still on                *)
(* (main.c:346-357).                                                       *)
Resumed ==
  /\ main = "join" /\ is_suspended = 0 /\ ~stopped /\ "TSTP" \notin pending
  /\ ~WaitsForItself
StartServed == msg # <<>> /\ msg[1].command = "START"

ResumeRestarts ==
  (Resumed /\ sw_curr = -1 /\ lever = 1) ~> (StartServed \/ ~Resumed \/ lever = 0)

(* Until somebody sends SIGTSTP there is one caller at a time: main until  *)
(* it has created the switch thread, the switch thread afterwards.  Each   *)
(* returns on the acknowledge of its own command (camera.c:1348-1352).     *)
OwnAck ==
  [][\A f \in Frames :
       (suspends' = 0 /\ call[f] = "await" /\ call'[f] = "idle") => Head(ack).from = f]_(Q!vars)

(* Until then the calls are synchronous calls (camera.c:1335-1356).        *)
SyncCalls == Q!Sync!Init /\ [][suspends' = 0 => Q!Sync!Next]_(Q!Phase)
=============================================================================
