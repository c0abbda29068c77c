------------------------------- MODULE BootLog -------------------------------
(***************************************************************************)
(* The boot profile (common/klog.c): with the log level 1 the message      *)
(* thread writes a line to /dev/kmsg before and after each order, by a     *)
(* fork whose child becomes /bin/echo.  A child that cannot open /dev/kmsg *)
(* or cannot run echo returns from klog_printl instead, and goes on as a   *)
(* second message thread, in a process of its own that shares the pipes,   *)
(* while its parent waits for it.                                          *)
(*                                                                         *)
(* A process is what matters of it here: where its message thread is and   *)
(* whether it waits for its child.  The callers stay in the first process; *)
(* their calls are those of Messenger, one at a time.                      *)
(***************************************************************************)
EXTENDS Integers, Sequences

CONSTANTS
  Requesters,  \* who may call
  Outcomes,    \* of a fork: "echo", "no_fork", "no_echo"
  MaxProcs     \* bound on the processes that go on

VARIABLES
  boot_profile,  \* the option, -1 when it was not given
  g_log_level,
  main,          \* "parse" its options or "run"
  procs,         \* the processes, each the child of the one before
  cmd, ack,      \* the pipes: whose order, and whose acknowledge
  call           \* per requester, "idle" or "await"

vars == <<boot_profile, g_log_level, main, procs, cmd, ack, call>>

Init ==
  /\ boot_profile \in {-1, 0, 1}
  /\ g_log_level = 0
  /\ main = "parse"
  /\ procs = <<[at |-> "idle", order |-> <<>>, waits |-> FALSE]>>
  /\ cmd = <<>>
  /\ ack = <<>>
  /\ call = [r \in Requesters |-> "idle"]

-----------------------------------------------------------------------------
(* What main logged before was logged with the level 0. *)
ParseArgs ==
  /\ main = "parse"
  /\ main' = "run"
  /\ g_log_level' = IF boot_profile = -1 THEN g_log_level ELSE boot_profile
  /\ UNCHANGED <<boot_profile, procs, cmd, ack, call>>

Put(r) ==
  /\ main = "run"
  /\ \A s \in Requesters : call[s] = "idle"
  /\ call' = [call EXCEPT ![r] = "await"]
  /\ cmd' = Append(cmd, r)
  /\ UNCHANGED <<boot_profile, g_log_level, main, procs, ack>>

Get(r) ==
  /\ call[r] = "await" /\ ack # <<>>
  /\ call' = [call EXCEPT ![r] = "idle"]
  /\ ack' = Tail(ack)
  /\ UNCHANGED <<boot_profile, g_log_level, main, procs, cmd>>

-----------------------------------------------------------------------------
(* The loop of the message thread of process p. *)
At(p, at) == p \in 1..Len(procs) /\ procs[p].at = at /\ ~procs[p].waits

Take(p) ==
  /\ At(p, "idle") /\ cmd # <<>>
  /\ procs' = [procs EXCEPT ![p].at = "before", ![p].order = <<Head(cmd)>>]
  /\ cmd' = Tail(cmd)
  /\ UNCHANGED <<boot_profile, g_log_level, main, ack, call>>

Work_Retries(p) ==
  /\ At(p, "work")
  /\ \E to \in {"after", "before"} : procs' = [procs EXCEPT ![p].at = to]
  /\ UNCHANGED <<boot_profile, g_log_level, main, cmd, ack, call>>

Work(p) ==
  /\ At(p, "work")
  /\ procs' = [procs EXCEPT ![p].at = "after"]
  /\ UNCHANGED <<boot_profile, g_log_level, main, cmd, ack, call>>

Acknowledge(p) ==
  /\ At(p, "ack")
  /\ procs' = [procs EXCEPT ![p].at = "idle", ![p].order = <<>>]
  /\ ack' = Append(ack, procs[p].order[1])
  /\ UNCHANGED <<boot_profile, g_log_level, main, cmd, call>>

Goes(p, to) == [procs EXCEPT ![p].at = to]

Forked_NoWait(p, to) == Append(Goes(p, to), [procs[p] EXCEPT !.at = to])

(* The child is a copy of its parent that has returned from klog_printl:   *)
(* its own wait finds no child.                                            *)
Forked(p, to) ==
  Append([procs EXCEPT ![p].waits = TRUE], [procs[p] EXCEPT !.at = to])

(* klog_printl, on the way from one place to the next; the parent waits    *)
(* for a child that goes on for as long as that runs, which is for ever.   *)
LogLine(p, from, to) ==
  /\ At(p, from)
  /\ \/ g_log_level # 1 /\ procs' = Goes(p, to)
     \/ /\ g_log_level = 1 /\ {"echo", "no_fork"} \cap Outcomes # {}
        /\ procs' = Goes(p, to)
     \/ /\ g_log_level = 1 /\ "no_echo" \in Outcomes /\ Len(procs) < MaxProcs
        /\ procs' = Forked(p, to)
  /\ UNCHANGED <<boot_profile, g_log_level, main, cmd, ack, call>>

MessageThread(p) ==
  \/ Take(p)
  \/ LogLine(p, "before", "work")
  \/ Work(p)
  \/ LogLine(p, "after", "ack")
  \/ Acknowledge(p)

Next ==
  \/ ParseArgs
  \/ \E r \in Requesters : Put(r) \/ Get(r)
  \/ \E p \in 1..MaxProcs : MessageThread(p)

(* Every process is scheduled, and a caller that can return does. *)
Fairness ==
  /\ \A p \in 1..MaxProcs : WF_vars(MessageThread(p))
  /\ \A r \in Requesters : WF_vars(Get(r))

Spec == Init /\ [][Next]_vars /\ Fairness

-----------------------------------------------------------------------------
Executed(r) ==
  \/ \E i \in 1..Len(ack) : ack[i] = r
  \/ \E p \in 1..Len(procs) :
       ~procs[p].waits /\ procs[p].order = <<r>> /\ procs[p].at \in {"after", "ack"}

Phase ==
  [r \in Requesters |->
     IF call[r] = "idle" THEN "idle" ELSE IF Executed(r) THEN "executed" ELSE "requested"]

Sync == INSTANCE SyncCall WITH phase <- Phase

(* However many children go on in the place of their parents, the callers  *)
(* see one message thread: an order is carried out once and the call       *)
(* returns after it, for what a parent had under way is finished by its    *)
(* child and by nobody else (klog.c:25-43, camera.c:1263-1306).            *)
SyncCalls == Sync!Spec

(* A call returns although the process that took its order may be waiting  *)
(* for ever for the child that goes on (klog.c:41, camera.c:1348-1352).    *)
CallsReturn == \A r \in Requesters : call[r] = "await" ~> call[r] = "idle"
=============================================================================
