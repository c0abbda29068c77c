------------------------------ MODULE Messenger ------------------------------
(***************************************************************************)
(* The two pipes between the threads of the application                    *)
(* (common/message_queue.c) and the request/acknowledge protocol that      *)
(* camera.c runs over them: message_queue_put_and_get_msg on the side of a *)
(* requester, handle_a_message on the side of the message thread.          *)
(*                                                                         *)
(* A struct message is 32 bytes, below PIPE_BUF, so that one write(2) is   *)
(* one message and every read(2) finds whole messages: the pipes are       *)
(* sequences of messages.  A message carries a command and nothing that    *)
(* says who sent it; the field "from" is a history field, no guard and no  *)
(* assignment of the protocol reads it.                                    *)
(***************************************************************************)
EXTENDS Naturals, Sequences, FiniteSets

CONSTANTS
  Requesters,  \* the call sites that may be inside message_queue_put_and_get_msg
  Commands     \* the commands of enum CAMERA_CMD that are sent

VARIABLES
  cmd,   \* msger.cmd: commands on their way to the message thread
  ack,   \* msger.ack: acknowledges on their way back
  msg,   \* local message of the message thread: <<>> when cleared by memset, else <<m>>
  call   \* per requester: "idle", or "await" between its put and the end of its get

vars == <<cmd, ack, msg, call>>

Message == [command : Commands, acked : BOOLEAN, from : Requesters]

Init ==
  /\ cmd = <<>>
  /\ ack = <<>>
  /\ msg = <<>>
  /\ call = [r \in Requesters |-> "idle"]

-----------------------------------------------------------------------------
(* Variants with a mistake, for the properties to find.                    *)

Take_KeepsHead ==
  /\ msg = <<>>
  /\ cmd # <<>>
  /\ msg' = <<Head(cmd)>>
  /\ UNCHANGED <<cmd, ack, call>>

Acknowledge_Early ==
  /\ msg # <<>>
  /\ ack' = Append(ack, msg[1])
  /\ msg' = <<>>
  /\ UNCHANGED <<cmd, call>>

Acknowledge_MayDrop ==
  /\ msg # <<>>
  /\ msg[1].acked
  /\ ack' \in {ack, Append(ack, msg[1])}
  /\ msg' = <<>>
  /\ UNCHANGED <<cmd, call>>

-----------------------------------------------------------------------------
(* message_queue_put on the command pipe: the requester then waits. *)
Put(r, c) ==
  /\ call[r] = "idle"
  /\ cmd' = Append(cmd, [command |-> c, acked |-> FALSE, from |-> r])
  /\ call' = [call EXCEPT ![r] = "await"]
  /\ UNCHANGED <<ack, msg>>

(* message_queue_get on the acknowledge pipe: whoever reads takes the head. *)
Get(r) ==
  /\ call[r] = "await"
  /\ ack # <<>>
  /\ ack' = Tail(ack)
  /\ call' = [call EXCEPT ![r] = "idle"]
  /\ UNCHANGED <<cmd, msg>>

(* message_queue_is_empty # 1, then message_queue_get on the command pipe. *)
Take ==
  /\ msg = <<>>
  /\ cmd # <<>>
  /\ msg' = <<Head(cmd)>>
  /\ cmd' = Tail(cmd)
  /\ UNCHANGED <<ack, call>>

(* The switch over msg->command has run; msg->command |= 0x80000000. *)
Dispatch ==
  /\ msg # <<>>
  /\ ~msg[1].acked
  /\ msg' = <<[msg[1] EXCEPT !.acked = TRUE]>>
  /\ UNCHANGED <<cmd, ack, call>>

(* message_queue_put on the acknowledge pipe, then memset for the next turn. *)
Acknowledge ==
  /\ msg # <<>>
  /\ msg[1].acked
  /\ ack' = Append(ack, msg[1])
  /\ msg' = <<>>
  /\ UNCHANGED <<cmd, call>>

Server == Take \/ Dispatch \/ Acknowledge

Next ==
  \/ \E r \in Requesters, c \in Commands : Put(r, c)
  \/ \E r \in Requesters : Get(r)
  \/ Server

Spec == Init /\ [][Next]_vars

-----------------------------------------------------------------------------
TypeOK ==
  /\ cmd \in Seq(Message)
  /\ ack \in Seq(Message)
  /\ msg \in Seq(Message) /\ Len(msg) <= 1
  /\ call \in [Requesters -> {"idle", "await"}]

Awaiting == {r \in Requesters : call[r] = "await"}

(* One message is under way for every requester that waits, and none for   *)
(* the others: however calls overlap, no acknowledge is left behind in the *)
(* pipe for a later call to mistake for its own, and a waiting requester   *)
(* still has a message that will wake it (camera.c:1348-1352).             *)
Conservation == Cardinality(Awaiting) = Len(cmd) + Len(msg) + Len(ack)

(* Calls do not overlap, and then the message of the one that waits is the *)
(* only one there is: the invariant behind OwnAck and SyncCalls.           *)
OneAtATime ==
  \A r, s \in Requesters : call[r] = "await" /\ call[s] = "await" => r = s

Alone(m) ==
  \/ cmd = <<m>> /\ msg = <<>> /\ ack = <<>> /\ ~m.acked
  \/ cmd = <<>> /\ msg = <<m>> /\ ack = <<>>
  \/ cmd = <<>> /\ msg = <<>> /\ ack = <<m>> /\ m.acked

Lone ==
  /\ (\A r \in Requesters : call[r] = "idle") => cmd = <<>> /\ msg = <<>> /\ ack = <<>>
  /\ \A r \in Requesters : call[r] = "await" => \E m \in Message : m.from = r /\ Alone(m)

(* What a caller expects of camera_start_preview and camera_stop_preview:  *)
(* the acknowledge it returns on is the acknowledge of its own command     *)
(* (camera.c:1348-1352).  It holds while calls do not overlap.             *)
OwnAck ==
  [][\A r \in Requesters :
       (call[r] = "await" /\ call'[r] = "idle") => Head(ack).from = r]_vars

-----------------------------------------------------------------------------
(* The calls as the callers see them, for the refinement of SyncCall.      *)
Acked(r) ==
  \/ \E i \in 1..Len(ack) : ack[i].acked /\ ack[i].from = r
  \/ msg # <<>> /\ msg[1].acked /\ msg[1].from = r

Phase ==
  [r \in Requesters |->
     IF call[r] = "idle" THEN "idle"
     ELSE IF Acked(r) THEN "executed" ELSE "requested"]

Sync == INSTANCE SyncCall WITH phase <- Phase

(* A lone caller sees a synchronous call: its command runs once, while it  *)
(* waits, and it returns afterwards (camera.c:1335-1356).                  *)
SyncCalls == Sync!Spec
=============================================================================
