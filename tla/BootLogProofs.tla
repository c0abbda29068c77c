---------------------------- MODULE BootLogProofs -----------------------------
(***************************************************************************)
(* BootLog, for any set of requesters, any outcome of a fork and any bound *)
(* on the processes.                                                       *)
(*                                                                         *)
(* All processes but the last wait for their children for ever, so that    *)
(* the last one is the message thread; and with one caller at a time there *)
(* is one order, in one of the pipes or with that process.                 *)
(***************************************************************************)
EXTENDS BootLog, SequenceTheorems, TLAPS

Proc == [at : {"idle", "before", "work", "after", "ack"},
         order : Seq(Requesters), waits : BOOLEAN]

Busy == {"before", "work", "after", "ack"}

Types ==
  /\ procs \in Seq(Proc) /\ Len(procs) >= 1
  /\ cmd \in Seq(Requesters) /\ ack \in Seq(Requesters)
  /\ call \in [Requesters -> {"idle", "await"}]

last == procs[Len(procs)]

OneThread ==
  /\ ~last.waits
  /\ \A p \in 1..(Len(procs) - 1) : procs[p].waits

(* The order of r is the only one there is. *)
Alone(r) ==
  \/ cmd = <<r>> /\ ack = <<>> /\ last.at = "idle"
  \/ cmd = <<>> /\ ack = <<>> /\ last.at \in Busy /\ last.order = <<r>>
  \/ cmd = <<>> /\ ack = <<r>> /\ last.at = "idle"

Lone ==
  /\ \A r, s \in Requesters : call[r] = "await" /\ call[s] = "await" => r = s
  /\ (\A r \in Requesters : call[r] = "idle") => cmd = <<>> /\ ack = <<>> /\ last.at = "idle"
  /\ \A r \in Requesters : call[r] = "await" => Alone(r)

Inv == Types /\ OneThread /\ Lone

LEMMA InitInv == Init => Inv
<1> SUFFICES ASSUME Init  PROVE Inv
  OBVIOUS
<1> DEFINE p == [at |-> "idle", order |-> <<>>, waits |-> FALSE]
<1>1. p \in Proc /\ ~p.waits /\ p.at = "idle"
  BY DEF Proc
<1>2. procs = <<p>> /\ cmd = <<>> /\ ack = <<>> /\ call = [r \in Requesters |-> "idle"]
  BY DEF Init
<1> HIDE DEF p
<1>3. procs \in Seq(Proc) /\ Len(procs) = 1 /\ last = p
  BY <1>1, <1>2 DEF last
<1> QED  BY <1>1, <1>2, <1>3 DEF Inv, Types, OneThread, Lone

(* Only the last process moves. *)
LEMMA LastMoves ==
  ASSUME Inv, NEW p, NEW at, At(p, at)
  PROVE  p = Len(procs) /\ last.at = at /\ p \in Nat /\ p >= 1
BY DEF Inv, Types, OneThread, At, last

(* What becomes of the processes when the last one goes to a place. *)
Moved(to, order) ==
  \/ procs' = [procs EXCEPT ![Len(procs)].at = to, ![Len(procs)].order = order]
  \/ procs' = Append([procs EXCEPT ![Len(procs)].waits = TRUE],
                     [last EXCEPT !.at = to, !.order = order])

LEMMA MovedTypes ==
  ASSUME Inv, NEW to \in {"idle", "before", "work", "after", "ack"}, NEW order \in Seq(Requesters),
         Moved(to, order)
  PROVE  /\ procs' \in Seq(Proc) /\ Len(procs') >= 1
         /\ last'.at = to /\ last'.order = order
         /\ OneThread'
<1>0. procs \in Seq(Proc) /\ Len(procs) \in Nat /\ Len(procs) >= 1 /\ last \in Proc /\ OneThread
  BY DEF Inv, Types, last
<1>1. PICK q : q = [last EXCEPT !.at = to, !.order = order]
  OBVIOUS
<1>2. q \in Proc /\ q.at = to /\ q.order = order /\ ~q.waits
  BY <1>0, <1>1 DEF Proc, OneThread
<1>3. CASE procs' = [procs EXCEPT ![Len(procs)].at = to, ![Len(procs)].order = order]
  <2>1. procs' = [procs EXCEPT ![Len(procs)] = q]
    BY <1>0, <1>1, <1>3 DEF last
  <2>2. /\ procs' \in Seq(Proc) /\ Len(procs') = Len(procs) /\ procs'[Len(procs)] = q
        /\ \A p \in 1..(Len(procs) - 1) : procs'[p] = procs[p]
    BY <1>0, <1>2, <2>1
  <2>3. last' = q
    BY <2>2 DEF last
  <2> QED  BY <1>0, <1>2, <2>2, <2>3 DEF OneThread
<1>4. CASE procs' = Append([procs EXCEPT ![Len(procs)].waits = TRUE], [last EXCEPT !.at = to, !.order = order])
  <2>1. PICK w : w = [procs EXCEPT ![Len(procs)].waits = TRUE]
    OBVIOUS
  <2>2. PICK v : v = [last EXCEPT !.waits = TRUE]
    OBVIOUS
  <2>3. v \in Proc /\ v.waits
    BY <1>0, <2>2 DEF Proc
  <2>4. w = [procs EXCEPT ![Len(procs)] = v]
    BY <1>0, <2>1, <2>2 DEF last
  <2>5. /\ w \in Seq(Proc) /\ Len(w) = Len(procs) /\ w[Len(procs)] = v
        /\ \A p \in 1..(Len(procs) - 1) : w[p] = procs[p]
    BY <1>0, <2>3, <2>4
  <2>6. procs' = Append(w, q)
    BY <1>1, <1>4, <2>1
  <2>7. /\ procs' \in Seq(Proc) /\ Len(procs') = Len(w) + 1 /\ procs'[Len(w) + 1] = q
        /\ \A p \in 1..Len(w) : procs'[p] = w[p]
    BY <1>2, <2>5, <2>6, AppendProperties
  <2>8. last' = q
    BY <2>7 DEF last
  <2>9. \A p \in 1..Len(procs) : procs'[p].waits
    BY <1>0, <2>3, <2>5, <2>7 DEF OneThread
  <2> QED  BY <1>0, <1>2, <2>5, <2>7, <2>8, <2>9 DEF OneThread
<1> QED  BY <1>3, <1>4 DEF Moved

LEMMA SameOrder ==
  ASSUME Inv, NEW to
  PROVE  /\ [procs EXCEPT ![Len(procs)].at = to]
              = [procs EXCEPT ![Len(procs)].at = to, ![Len(procs)].order = last.order]
         /\ [last EXCEPT !.at = to] = [last EXCEPT !.at = to, !.order = last.order]
<1>0. procs \in Seq(Proc) /\ Len(procs) \in 1..Len(procs) /\ last \in Proc
  BY DEF Inv, Types, last
<1>1. [last EXCEPT !.at = to] = [last EXCEPT !.at = to, !.order = last.order]
  BY <1>0 DEF Proc
<1>2. PICK q : q = [last EXCEPT !.at = to]
  OBVIOUS
<1>3. /\ [procs EXCEPT ![Len(procs)].at = to] = [procs EXCEPT ![Len(procs)] = q]
      /\ [procs EXCEPT ![Len(procs)].at = to, ![Len(procs)].order = last.order]
           = [procs EXCEPT ![Len(procs)] = q]
  BY <1>0, <1>1, <1>2 DEF last
<1> QED  BY <1>1, <1>3

-----------------------------------------------------------------------------
(* The steps of the message thread, as the last process does them. *)
LEMMA Steps ==
  ASSUME Inv, NEW p, MessageThread(p)
  PROVE  /\ UNCHANGED call
         /\ \/ /\ last.at = "idle" /\ cmd # <<>> /\ Moved("before", <<Head(cmd)>>)
               /\ cmd' = Tail(cmd) /\ ack' = ack
            \/ \E to \in {"work", "after", "ack"} :
                 /\ <<last.at, to>> \in {<<"before", "work">>, <<"work", "after">>, <<"after", "ack">>}
                 /\ Moved(to, last.order) /\ cmd' = cmd /\ ack' = ack
            \/ /\ last.at = "ack" /\ Moved("idle", <<>>)
               /\ cmd' = cmd /\ ack' = Append(ack, last.order[1])
<1>1. CASE Take(p)
  <2>1. p = Len(procs) /\ last.at = "idle"
    BY <1>1, LastMoves DEF Take
  <2> QED  BY <1>1, <2>1 DEF Take, Moved
<1>2. ASSUME NEW from, NEW to, LogLine(p, from, to)
      PROVE  /\ last.at = from /\ Moved(to, last.order) /\ UNCHANGED <<cmd, ack, call>>
  <2>1. p = Len(procs) /\ last.at = from
    BY <1>2, LastMoves DEF LogLine
  <2>2. procs' = Goes(p, to) \/ procs' = Forked(p, to)
    BY <1>2 DEF LogLine
  <2>3. Moved(to, last.order)
    <3>1. Goes(p, to) = [procs EXCEPT ![Len(procs)].at = to, ![Len(procs)].order = last.order]
      BY <2>1, SameOrder, Zenon DEF Goes
    <3>2. Forked(p, to) = Append([procs EXCEPT ![Len(procs)].waits = TRUE], [last EXCEPT !.at = to])
      BY <2>1, Zenon DEF Forked, last
    <3>3. Forked(p, to) = Append([procs EXCEPT ![Len(procs)].waits = TRUE],
                                 [last EXCEPT !.at = to, !.order = last.order])
      BY <3>2, SameOrder, Zenon
    <3> QED  BY <2>2, <3>1, <3>3, Zenon DEF Moved
  <2> QED  BY <1>2, <2>1, <2>3 DEF LogLine
<1>3. CASE Work(p)
  <2>1. p = Len(procs) /\ last.at = "work"
    BY <1>3, LastMoves DEF Work
  <2>2. Moved("after", last.order)
    BY <1>3, <2>1, SameOrder, Zenon DEF Work, Moved
  <2> QED  BY <1>3, <2>1, <2>2 DEF Work
<1>4. CASE Acknowledge(p)
  <2>1. p = Len(procs) /\ last.at = "ack"
    BY <1>4, LastMoves DEF Acknowledge
  <2> QED  BY <1>4, <2>1 DEF Acknowledge, Moved, last
<1> QED  BY <1>1, <1>2, <1>3, <1>4 DEF MessageThread

LEMMA MessageThreadInv ==
  ASSUME Inv, NEW p, MessageThread(p)
  PROVE  /\ Inv' /\ call' = call
         /\ \E r \in Requesters : call[r] = "await"
         /\ (ack # <<>> \/ last.at \in {"after", "ack"})
              => (ack' # <<>> \/ last'.at \in {"after", "ack"})
<1>0. Types /\ OneThread /\ Lone /\ UNCHANGED call
  BY Steps DEF Inv
<1>1. PICK r \in Requesters : call[r] = "await"
  <2>1. ~(cmd = <<>> /\ last.at = "idle")
    BY Steps
  <2> QED  BY <1>0, <2>1 DEF Lone, Types
<1>2. Alone(r) /\ \A s \in Requesters : call[s] = "await" => s = r
  BY <1>0, <1>1 DEF Lone
<1>3. CASE last.at = "idle" /\ cmd # <<>> /\ Moved("before", <<Head(cmd)>>) /\ cmd' = Tail(cmd) /\ ack' = ack
  <2>1. cmd = <<r>> /\ ack = <<>>
    BY <1>2, <1>3 DEF Alone, Busy
  <2>2. cmd' = <<>> /\ Head(cmd) = r
    BY <1>3, <2>1
  <2>3. Moved("before", <<r>>) /\ <<r>> \in Seq(Requesters)
    BY <1>3, <2>2
  <2>4. procs' \in Seq(Proc) /\ Len(procs') >= 1 /\ last'.at = "before" /\ last'.order = <<r>> /\ OneThread'
    BY <2>3, MovedTypes
  <2>5. Alone(r)'
    BY <1>3, <2>1, <2>2, <2>4 DEF Alone, Busy
  <2>6. Types' /\ Lone'
    BY <1>0, <1>1, <1>2, <1>3, <2>1, <2>2, <2>4, <2>5 DEF Types, Lone
  <2> QED  BY <1>0, <1>1, <1>3, <2>1, <2>4, <2>6 DEF Inv
<1>4. ASSUME NEW to \in {"work", "after", "ack"},
             <<last.at, to>> \in {<<"before", "work">>, <<"work", "after">>, <<"after", "ack">>},
             Moved(to, last.order), cmd' = cmd, ack' = ack
      PROVE  Inv' /\ (last.at \in {"after", "ack"} => to \in {"after", "ack"}) /\ last'.at = to
  <2>1. cmd = <<>> /\ ack = <<>> /\ last.order = <<r>>
    BY <1>2, <1>4 DEF Alone, Busy
  <2>2. procs' \in Seq(Proc) /\ Len(procs') >= 1 /\ last'.at = to /\ last'.order = <<r>> /\ OneThread'
    <3>1. Moved(to, <<r>>) /\ <<r>> \in Seq(Requesters) /\ to \in {"idle", "before", "work", "after", "ack"}
      BY <1>4, <2>1
    <3> QED  BY <3>1, MovedTypes
  <2>3. Alone(r)'
    BY <1>4, <2>1, <2>2 DEF Alone, Busy
  <2>4. Types' /\ Lone'
    BY <1>0, <1>1, <1>2, <1>4, <2>1, <2>2, <2>3 DEF Types, Lone
  <2> QED  BY <1>4, <2>2, <2>4 DEF Inv
<1>5. CASE last.at = "ack" /\ Moved("idle", <<>>) /\ cmd' = cmd /\ ack' = Append(ack, last.order[1])
  <2>1. cmd = <<>> /\ ack = <<>> /\ last.order = <<r>>
    BY <1>2, <1>5 DEF Alone
  <2>2. ack' = <<r>>
    BY <1>5, <2>1
  <2>3. procs' \in Seq(Proc) /\ Len(procs') >= 1 /\ last'.at = "idle" /\ OneThread'
    <3>1. Moved("idle", <<>>) /\ <<>> \in Seq(Requesters)
      BY <1>5
    <3> QED  BY <3>1, MovedTypes
  <2>4. Alone(r)'
    BY <1>5, <2>1, <2>2, <2>3 DEF Alone
  <2>5. Types' /\ Lone'
    BY <1>0, <1>1, <1>2, <1>5, <2>1, <2>2, <2>3, <2>4 DEF Types, Lone
  <2> QED  BY <1>0, <1>1, <2>2, <2>3, <2>5 DEF Inv
<1>6. CASE \E to \in {"work", "after", "ack"} :
             /\ <<last.at, to>> \in {<<"before", "work">>, <<"work", "after">>, <<"after", "ack">>}
             /\ Moved(to, last.order) /\ cmd' = cmd /\ ack' = ack
  BY <1>0, <1>1, <1>4, <1>6
<1> QED  BY <1>3, <1>5, <1>6, Steps

-----------------------------------------------------------------------------
(* The calls of the others. *)
LEMMA PutInv ==
  ASSUME Inv, NEW r \in Requesters, Put(r)
  PROVE  /\ Inv' /\ last' = last /\ ack = <<>> /\ ack' = <<>> /\ last.at = "idle"
         /\ \A s \in Requesters : call[s] = "idle" /\ call'[s] = IF s = r THEN "await" ELSE "idle"
<1>0. Types /\ OneThread /\ Lone /\ procs' = procs /\ ack' = ack /\ cmd' = Append(cmd, r)
      /\ call' = [call EXCEPT ![r] = "await"] /\ \A s \in Requesters : call[s] = "idle"
  BY DEF Inv, Put
<1>1. cmd = <<>> /\ ack = <<>> /\ last.at = "idle" /\ last' = last
  BY <1>0 DEF Lone, last
<1>2. cmd' = <<r>>
  BY <1>0, <1>1
<1>3. \A s \in Requesters : call'[s] = IF s = r THEN "await" ELSE "idle"
  BY <1>0 DEF Types
<1>4. Alone(r)'
  BY <1>0, <1>1, <1>2 DEF Alone
<1>5. Types' /\ OneThread' /\ Lone'
  BY <1>0, <1>1, <1>2, <1>3, <1>4 DEF Types, OneThread, Lone
<1> QED  BY <1>0, <1>1, <1>3, <1>5 DEF Inv

LEMMA GetInv ==
  ASSUME Inv, NEW r \in Requesters, Get(r)
  PROVE  /\ Inv' /\ ack # <<>>
         /\ \A s \in Requesters : call'[s] = "idle" /\ call[s] = IF s = r THEN "await" ELSE "idle"
<1>0. Types /\ OneThread /\ Lone /\ procs' = procs /\ cmd' = cmd /\ ack # <<>> /\ ack' = Tail(ack)
      /\ call' = [call EXCEPT ![r] = "idle"] /\ call[r] = "await"
  BY DEF Inv, Get
<1>1. cmd = <<>> /\ ack = <<r>> /\ last.at = "idle" /\ last' = last
  BY <1>0 DEF Lone, Alone, last
<1>2. ack' = <<>>
  BY <1>0, <1>1
<1>3. \A s \in Requesters : call'[s] = "idle" /\ call[s] = IF s = r THEN "await" ELSE "idle"
  BY <1>0 DEF Types, Lone
<1>4. Types' /\ OneThread' /\ Lone'
  BY <1>0, <1>1, <1>2, <1>3 DEF Types, OneThread, Lone
<1> QED  BY <1>0, <1>3, <1>4 DEF Inv

LEMMA StepInv == Inv /\ [Next]_vars => Inv'
<1> SUFFICES ASSUME Inv, [Next]_vars  PROVE Inv'
  OBVIOUS
<1>1. CASE ParseArgs \/ UNCHANGED vars
  <2>1. UNCHANGED <<procs, cmd, ack, call>>
    BY <1>1 DEF ParseArgs, vars
  <2> QED  BY <2>1 DEF Inv, Types, OneThread, Lone, Alone, last
<1>2. CASE \E r \in Requesters : Put(r) \/ Get(r)
  BY <1>2, PutInv, GetInv
<1>3. CASE \E p \in 1..MaxProcs : MessageThread(p)
  BY <1>3, MessageThreadInv
<1> QED  BY <1>1, <1>2, <1>3 DEF Next

-----------------------------------------------------------------------------
(* What a caller is at. *)
Done == ack # <<>> \/ last.at \in {"after", "ack"}

PhaseKnown ==
  \A r \in Requesters :
    Phase[r] = IF call[r] = "idle" THEN "idle" ELSE IF Done THEN "executed" ELSE "requested"

LEMMA PhaseIs == Inv => PhaseKnown
<1> SUFFICES ASSUME Inv, NEW r \in Requesters, call[r] # "idle"
             PROVE  Executed(r) <=> Done
  BY DEF PhaseKnown, Phase
<1>1. Alone(r)
  BY DEF Inv, Lone, Types
<1>2. Executed(r) <=> \/ \E i \in 1..Len(ack) : ack[i] = r
                      \/ last.order = <<r>> /\ last.at \in {"after", "ack"}
  BY DEF Inv, Types, OneThread, Executed, last
<1>3. CASE ack = <<r>>
  <2>1. Len(ack) = 1 /\ ack[1] = r
    BY <1>3
  <2> QED  BY <1>2, <1>3, <2>1 DEF Done
<1>4. CASE ack = <<>> /\ last.at = "idle"
  BY <1>2, <1>4 DEF Done
<1>5. CASE ack = <<>> /\ last.order = <<r>>
  BY <1>2, <1>5 DEF Done
<1> QED  BY <1>1, <1>3, <1>4, <1>5 DEF Alone

LEMMA PhaseWas == Inv' => PhaseKnown'
BY PhaseIs, PTL

LEMMA PhaseStep ==
  ASSUME NEW r \in Requesters, NEW to, Phase'[r] = to, \A s \in Requesters : s # r => Phase'[s] = Phase[s]
  PROVE  Phase' = [Phase EXCEPT ![r] = to]
<1>1. /\ Phase' = [s \in Requesters |-> Phase'[s]]
      /\ DOMAIN Phase = Requesters /\ Phase = [s \in Requesters |-> Phase[s]]
  BY DEF Phase
<1> HIDE DEF Phase
<1> QED  BY <1>1

LEMMA SyncStep ==
  ASSUME Inv, [Next]_vars
  PROVE  [Sync!Next]_Phase
<1>0. PhaseKnown /\ PhaseKnown' /\ \A r \in Requesters : call[r] \in {"idle", "await"}
  BY StepInv, PhaseIs, PhaseWas DEF Inv, Types
<1>1. ASSUME NEW r \in Requesters, Put(r)
      PROVE  Sync!Request(r)
  <2>1. ~Done' /\ \A s \in Requesters : call[s] = "idle" /\ call'[s] = IF s = r THEN "await" ELSE "idle"
    BY <1>1, PutInv DEF Done
  <2>2. Phase[r] = "idle" /\ Phase'[r] = "requested" /\ \A s \in Requesters : s # r => Phase'[s] = Phase[s]
    BY <1>0, <2>1 DEF PhaseKnown
  <2> QED  BY <2>2, PhaseStep DEF Sync!Request, Sync!Step
<1>2. ASSUME NEW r \in Requesters, Get(r)
      PROVE  Sync!Return(r)
  <2>1. Done /\ \A s \in Requesters : call'[s] = "idle" /\ call[s] = IF s = r THEN "await" ELSE "idle"
    BY <1>2, GetInv DEF Done
  <2>2. Phase[r] = "executed" /\ Phase'[r] = "idle" /\ \A s \in Requesters : s # r => Phase'[s] = Phase[s]
    BY <1>0, <2>1 DEF PhaseKnown
  <2> QED  BY <2>2, PhaseStep DEF Sync!Return, Sync!Step
<1>3. CASE \E p \in 1..MaxProcs : MessageThread(p)
  <2>1. call' = call /\ (Done => Done')
    BY <1>3, MessageThreadInv DEF Done
  <2>2. PICK r \in Requesters : call[r] = "await"
    BY <1>3, MessageThreadInv
  <2>3. \A s \in Requesters : s # r => call[s] = "idle"
    BY <1>0, <2>2 DEF Inv, Lone
  <2>4. \A s \in Requesters : s # r => Phase'[s] = Phase[s]
    BY <1>0, <2>1, <2>3 DEF PhaseKnown
  <2>5. CASE ~Done /\ Done'
    <3>1. Phase[r] = "requested" /\ Phase'[r] = "executed"
      BY <1>0, <2>1, <2>2, <2>5 DEF PhaseKnown
    <3> QED  BY <2>4, <3>1, PhaseStep DEF Sync!Next, Sync!Execute, Sync!Step
  <2>6. CASE Done <=> Done'
    <3>1. Phase'[r] = Phase[r]
      BY <1>0, <2>1, <2>2, <2>6 DEF PhaseKnown
    <3>2. /\ Phase' = [s \in Requesters |-> Phase'[s]]
          /\ Phase = [s \in Requesters |-> Phase[s]]
      BY DEF Phase
    <3> HIDE DEF Phase
    <3> QED  BY <2>4, <3>1, <3>2
  <2> QED  BY <2>1, <2>5, <2>6
<1>4. CASE ParseArgs \/ UNCHANGED vars
  <2>1. UNCHANGED <<procs, ack, call>>
    BY <1>4 DEF ParseArgs, vars
  <2> QED  BY <2>1 DEF Phase, Executed
<1> QED  BY <1>1, <1>2, <1>3, <1>4 DEF Next, Sync!Next

(* The steps alone, without the fairness of Spec. *)
LEMMA StepsSyncCalls == Init /\ [][Next]_vars => SyncCalls
<1>1. Init => Sync!Init
  BY DEF Init, Sync!Init, Phase
<1>2. Inv /\ [Next]_vars => [Sync!Next]_Phase
  BY SyncStep
<1> QED  BY <1>1, <1>2, InitInv, StepInv, PTL DEF SyncCalls, Sync!Spec

(* However many children go on in the place of their parents, and whoever  *)
(* calls, an order is carried out once, while its caller waits             *)
(* (klog.c:25-43, camera.c:1263-1306).                                     *)
THEOREM BootLogSyncCalls == Spec => SyncCalls
BY StepsSyncCalls, PTL DEF Spec
=============================================================================
