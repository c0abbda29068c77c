------------------------------ MODULE BufList --------------------------------
(***************************************************************************)
(* dev->buf_list as it is in memory: the circular list of common/list.h,   *)
(* whose entries are in the array dev->buffers, through starts and stops   *)
(* of the preview and handle_preview_buffer (camera.c:1186-1241).          *)
(*                                                                         *)
(* next and prev are the fields of the head and of the entry of each       *)
(* buffer.  An entry in an array that malloc has just given holds anything *)
(* (Wild); list_del leaves poison.  sound becomes FALSE when a pointer     *)
(* that is not one to the head or to an entry of the live array is         *)
(* followed.                                                               *)
(***************************************************************************)
EXTENDS Naturals, FiniteSets, SequencesExt

CONSTANTS Bufs, buf_list, Wild, LIST_POISON1, LIST_POISON2

Nodes == Bufs \cup {buf_list}

VARIABLES
  next, prev,
  live,      \* dev->buffers is allocated
  pc,        \* "wait" for a frame, or "look" at the list after one came
  sound

vars == <<next, prev, live, pc, sound>>

Init ==
  /\ next = [n \in Nodes |-> Wild]
  /\ prev = [n \in Nodes |-> Wild]
  /\ live = FALSE
  /\ pc = "wait"
  /\ sound = TRUE

Followed(pointers) ==
  sound' = (sound /\ pointers \subseteq Nodes /\ (live \/ pointers \subseteq {buf_list}))

(* __list_add(new, before, after) *)
ListAdd(new, before, after) ==
  /\ next' = [next EXCEPT ![new] = after, ![before] = new]
  /\ prev' = [prev EXCEPT ![new] = before, ![after] = new]
  /\ Followed({new, before, after})

ListAddTail_AtHead(new) == ListAdd(new, buf_list, next[buf_list])

(* list_add_tail; that the entry is initialised before changes nothing. *)
ListAddTail(new) == ListAdd(new, prev[buf_list], buf_list)

(* list_del *)
ListDel(entry) ==
  /\ next' = [next EXCEPT ![prev[entry]] = next[entry], ![entry] = LIST_POISON1]
  /\ prev' = [prev EXCEPT ![next[entry]] = prev[entry], ![entry] = LIST_POISON2]
  /\ Followed({entry, prev[entry], next[entry]})

ListEmpty == next[buf_list] = buf_list

ListIsSingular == ~ListEmpty /\ next[buf_list] = prev[buf_list]

-----------------------------------------------------------------------------
(* The entries of the array that a start allocates hold anything.          *)
Fresh(head) == [n \in Nodes |-> IF n = buf_list THEN head ELSE Wild]

Start_KeepsHead ==
  /\ pc = "wait"
  /\ live' \in BOOLEAN
  /\ next' = Fresh(IF next[buf_list] = Wild THEN buf_list ELSE next[buf_list])
  /\ prev' = Fresh(IF prev[buf_list] = Wild THEN buf_list ELSE prev[buf_list])
  /\ UNCHANGED <<pc, sound>>

(* INIT_LIST_HEAD of the list in video_input_init_buffers and the malloc   *)
(* that follows, which may fail.                                           *)
Start ==
  /\ pc = "wait"
  /\ live' \in BOOLEAN
  /\ next' = Fresh(buf_list)
  /\ prev' = Fresh(buf_list)
  /\ UNCHANGED <<pc, sound>>

(* The array is freed; buf_list still points into it. *)
Stop == pc = "wait" /\ live' = FALSE /\ UNCHANGED <<next, prev, pc, sound>>

-----------------------------------------------------------------------------
(* The entries from the head on, in the order of the pointers in links.    *)
Walk(links) ==
  LET at[i \in 0..Cardinality(Nodes)] ==
        IF i = 0 THEN links[buf_list] ELSE IF at[i - 1] \in Bufs THEN links[at[i - 1]] ELSE Wild
      n == CHOOSE i \in DOMAIN at : at[i] \notin Bufs /\ \A j \in 0..(i - 1) : at[j] \in Bufs
  IN  [i \in 1..n |-> at[i - 1]]

Frames == Walk(next)

Circular(links) ==
  IF Walk(links) = <<>> THEN links[buf_list] = buf_list ELSE links[Walk(links)[Len(Walk(links))]] = buf_list

(* A frame comes from the driver, which has no buffer that is on the list. *)
Arrive(b) ==
  /\ pc = "wait" /\ live
  /\ \A i \in 1..Len(Frames) : Frames[i] # b
  /\ ListAddTail(b)
  /\ pc' = "look"
  /\ UNCHANGED live

Keep == pc = "look" /\ ListIsSingular /\ pc' = "wait" /\ UNCHANGED <<next, prev, live, sound>>

(* release_preview_buffer of list_first_entry_or_null *)
Release ==
  /\ pc = "look" /\ ~ListIsSingular
  /\ ListDel(next[buf_list])
  /\ pc' = "wait"
  /\ UNCHANGED live

Next == Start \/ Stop \/ (\E b \in Bufs : Arrive(b)) \/ Keep \/ Release

Spec == Init /\ [][Next]_vars

-----------------------------------------------------------------------------
WellLinked ==
  /\ Circular(next)
  /\ Circular(prev)
  /\ Walk(prev) = Reverse(Walk(next))

(* No pointer is followed that is wild, poison or into the freed array,    *)
(* although the head keeps its pointers over a stop and entries keep those *)
(* of an earlier frame; and between two operations on a live list both     *)
(* directions visit the same entries, in opposite orders (list.h:62-118,   *)
(* video_input.c:852-892).                                                 *)
Sound == sound /\ (live => WellLinked)

(* The list in memory is the queue of FrameQueue: frames leave in the      *)
(* order they came in and none is lost or doubled (camera.c:1186-1241).    *)
Queue == INSTANCE FrameQueue WITH queue <- IF live THEN Frames ELSE <<>>

IsAQueue == Queue!Spec
=============================================================================
