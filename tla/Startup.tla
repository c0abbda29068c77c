------------------------------- MODULE Startup -------------------------------
(***************************************************************************)
(* From main() to its pthread_join (main.c:385-495): the devices and pipes *)
(* are opened one after the other (camera_open_devices), closed again if   *)
(* one cannot be, the message thread is created, the preview handed over,  *)
(* and the switch thread created.                                          *)
(*                                                                         *)
(* Descriptors are the numbers the kernel gives: the lowest one that is    *)
(* free.  0 is also what memset leaves in a struct nothing was opened for, *)
(* and the number of the standard input the process inherits, if it does.  *)
(***************************************************************************)
EXTENDS Integers, FiniteSets

CONSTANT Faults   \* what may fail; see AllFaults

AllFaults == {"switch", "videoinput", "caps", "videooutput", "ovps",
              "cmd", "ack", "message_thread", "switch_thread"}

ASSUME FaultsAssumption == Faults \subseteq AllFaults

Devices == {"switch", "videoinput", "videooutput"}
Pipes == {"cmd.read", "cmd.write", "ack.read", "ack.write"}
Files == Devices \cup Pipes

(* Seven files on top of the three standard ones. *)
MaxFd == 9

VARIABLES
  sw_id,       \* --switch: a device number, or negative for run-by-command mode
  ovps_given,  \* both --foreground_ovp and --background_ovp were given
  inherited,   \* the descriptors the process was started with
  table,       \* the descriptors that are open
  fd,          \* per file, the number the application keeps for it
  main,        \* where main() is
  thread,      \* the message thread runs
  handover,    \* the call of camera_handover: "none", "sent" or "acked"
  switch_mode  \* what the switch thread does: "none", "poll" or "commands"

options == <<sw_id, ovps_given, inherited>>
vars == <<options, table, fd, main, thread, handover, switch_mode>>

Init ==
  /\ sw_id \in {-1, 0}
  /\ ovps_given \in BOOLEAN
  /\ inherited \in {{0, 1, 2}, {1, 2}, {}}
  /\ table = inherited
  /\ fd = [f \in Files |-> 0]
  /\ main = "open_switch"
  /\ thread = FALSE
  /\ handover = "none"
  /\ switch_mode = "none"

At(here, next) ==
  /\ main = here
  /\ main' = next

-----------------------------------------------------------------------------
(* open(2) and pipe(2), external: the lowest numbers that are free. *)
Lowest(t) == CHOOSE n \in 0..MaxFd : n \notin t /\ \A m \in 0..(n - 1) : m \in t

(* The files opened so far, and the numbers the application keeps. *)
Files0 == [table |-> table, fd |-> fd]

WithOpened(s, f) ==
  LET n == Lowest(s.table)
  IN  [table |-> s.table \cup {n}, fd |-> [s.fd EXCEPT ![f] = n]]

Refused(s, f) == [s EXCEPT !.fd[f] = -1]

Piped(s, r, w) == WithOpened(WithOpened(s, r), w)

NotPiped(s, r, w) == Refused(Refused(s, r), w)

May(fault) == {TRUE} \cup (IF fault \in Faults THEN {FALSE} ELSE {})

Keep(s) == table' = s.table /\ fd' = s.fd

-----------------------------------------------------------------------------
(* Variants with a mistake, for the properties to find.                    *)

Closable_NotVin(f) ==
  \/ f \in Pipes
  \/ f = "videooutput" /\ fd[f] > 0
  \/ f = "switch" /\ sw_id >= 0 /\ fd[f] > 0

PipesReported_First(cmd, ack) == cmd

PipesOpened_CmdTwice(cmd, ack) ==
  LET s == IF cmd THEN Piped(Files0, "cmd.read", "cmd.write")
           ELSE NotPiped(Files0, "cmd.read", "cmd.write")
  IN  IF ack THEN Piped(s, "cmd.read", "cmd.write") ELSE s

-----------------------------------------------------------------------------
(* camera_open_devices, one function of open_devices after the other; the  *)
(* first that fails ends it.  The fourth, for g2d, does nothing.           *)

OpenSwitch ==
  \/ /\ sw_id < 0
     /\ At("open_switch", "close")
     /\ UNCHANGED <<table, fd>>
  \/ /\ sw_id >= 0
     /\ \/ At("open_switch", "open_vin") /\ Keep(WithOpened(Files0, "switch"))
        \/ /\ "switch" \in Faults
           /\ At("open_switch", "close") /\ Keep(Refused(Files0, "switch"))

OpenVin ==
  \/ /\ "videoinput" \in Faults
     /\ At("open_vin", "close") /\ Keep(Refused(Files0, "videoinput"))
  \/ \E caps \in May("caps") :
       /\ At("open_vin", IF caps THEN "open_vout" ELSE "close")
       /\ Keep(WithOpened(Files0, "videoinput"))

(* overlay_get_default_ovps refuses the descriptor 0. *)
InitParams(s, ok) == ovps_given \/ (s.fd["videooutput"] > 0 /\ ok)

OpenVout ==
  \/ /\ "videooutput" \in Faults
     /\ At("open_vout", "close") /\ Keep(Refused(Files0, "videooutput"))
  \/ LET s == WithOpened(Files0, "videooutput")
     IN  \E ok \in May("ovps") :
           /\ At("open_vout", IF InitParams(s, ok) THEN "open_msgq" ELSE "close")
           /\ Keep(s)

PipesOpened(cmd, ack) ==
  LET s == IF cmd THEN Piped(Files0, "cmd.read", "cmd.write")
           ELSE NotPiped(Files0, "cmd.read", "cmd.write")
  IN  IF ack THEN Piped(s, "ack.read", "ack.write") ELSE NotPiped(s, "ack.read", "ack.write")

(* message_queue_init returns what became of the second pipe. *)
PipesReported(cmd, ack) == ack

OpenMsgq ==
  \E cmd \in May("cmd"), ack \in May("ack") :
    /\ At("open_msgq", IF PipesReported(cmd, ack) THEN "create_thread" ELSE "close")
    /\ Keep(PipesOpened(cmd, ack))

OpenStep ==
  /\ OpenSwitch \/ OpenVin \/ OpenVout \/ OpenMsgq
  /\ UNCHANGED <<options, thread, handover, switch_mode>>

(* camera_close_devices: the pipes are closed whatever their numbers, the  *)
(* devices if their number is above 0.                                     *)
Closable(f) ==
  \/ f \in Pipes
  \/ f \in {"videooutput", "videoinput"} /\ fd[f] > 0
  \/ f = "switch" /\ sw_id >= 0 /\ fd[f] > 0

CloseDevices ==
  /\ At("close", "exit")
  /\ table' = table \ {fd[f] : f \in {g \in Files : Closable(g)}}
  /\ UNCHANGED <<options, fd, thread, handover, switch_mode>>

-----------------------------------------------------------------------------
(* pthread_create answers an error above 0, which camera_create_camera_    *)
(* thread does not take for one.                                           *)
CreateMessageThread ==
  /\ At("create_thread", "put")
  /\ thread' \in May("message_thread")
  /\ UNCHANGED <<options, table, fd, handover, switch_mode>>

(* message_queue_put repeats a write that fails. *)
HandoverPut ==
  /\ fd["cmd.write"] \in table
  /\ At("put", "get")
  /\ handover' = "sent"
  /\ UNCHANGED <<options, table, fd, thread, switch_mode>>

(* The message thread. *)
Serve ==
  /\ thread
  /\ {fd["cmd.read"], fd["ack.write"]} \subseteq table
  /\ handover = "sent"
  /\ handover' = "acked"
  /\ UNCHANGED <<options, table, fd, main, thread, switch_mode>>

HandoverGet ==
  /\ fd["ack.read"] \in table
  /\ handover = "acked"
  /\ At("get", "signals")
  /\ handover' = "none"
  /\ UNCHANGED <<options, table, fd, thread, switch_mode>>

RegisterHandlers ==
  /\ At("signals", "create_switch")
  /\ UNCHANGED <<options, table, fd, thread, handover, switch_mode>>

(* app_finalize: an error of pthread_create is not seen here either, and   *)
(* pthread_join is given a handle that names no thread: it answers an      *)
(* error, or the process crashes.                                          *)
CreateSwitchThread ==
  /\ \/ At("create_switch", "join")
        /\ switch_mode' = IF sw_id < 0 THEN "commands" ELSE "poll"
     \/ /\ "switch_thread" \in Faults
        /\ At("create_switch", "exit") \/ At("create_switch", "crash")
        /\ UNCHANGED switch_mode
  /\ UNCHANGED <<options, table, fd, thread, handover>>

MainStep ==
  \/ OpenStep
  \/ CloseDevices
  \/ CreateMessageThread
  \/ HandoverPut
  \/ HandoverGet
  \/ RegisterHandlers
  \/ CreateSwitchThread

Next == MainStep \/ Serve

(* main goes on and the message thread is scheduled. *)
Spec == Init /\ [][Next]_vars /\ WF_vars(MainStep) /\ WF_vars(Serve)

-----------------------------------------------------------------------------
TypeOK ==
  /\ sw_id \in {-1, 0}
  /\ ovps_given \in BOOLEAN
  /\ inherited \subseteq 0..2
  /\ table \subseteq 0..MaxFd
  /\ fd \in [Files -> -1..MaxFd]
  /\ main \in {"open_switch", "open_vin", "open_vout", "open_msgq", "close",
               "create_thread", "put", "get", "signals", "create_switch",
               "join", "exit", "crash"}
  /\ thread \in BOOLEAN
  /\ handover \in {"none", "sent", "acked"}
  /\ switch_mode \in {"none", "poll", "commands"}

(* A start that fails closes everything it had opened, wherever it failed  *)
(* (camera.c:286-370), if the process has a standard input: without one a  *)
(* device gets the number 0, which the functions that close take for none. *)
AllClosed ==
  (main = "exit" /\ ~thread /\ 0 \in inherited) => table \subseteq inherited

(* Once the threads are created, each file they use is open and none is    *)
(* another: the numbers left by memset and the ones of failed calls are    *)
(* gone, except for a command pipe that could not be created               *)
(* (camera.c:286-300, message_queue.c:137-154).                            *)
Opened(f) == fd[f] \in table \ inherited

Usable ==
  main \in {"create_thread", "put", "get", "signals", "create_switch", "join"} =>
    /\ \A f \in Files : Opened(f) \/ (f \in {"cmd.read", "cmd.write"} /\ fd[f] = -1)
    /\ \A f, g \in Files : f # g /\ Opened(f) => fd[f] # fd[g]

(* main gets to its pthread_join or returns, unless it waits for a message *)
(* thread that was not created or writes for ever into a command pipe that *)
(* was not created (camera.c:1397-1409, message_queue.c:86-154).           *)
Unheard == main \in {"put", "get"} /\ (~thread \/ fd["cmd.write"] = -1)

Settles == <>(main \in {"join", "exit", "crash"} \/ Unheard)

(* "switch id is %d, run-by-command mode" (camera.c:157): a negative id    *)
(* makes the switch thread read commands, when nothing fails               *)
(* (main.c:376-377).                                                       *)
CommandMode == sw_id < 0 => <>(switch_mode = "commands")
=============================================================================
