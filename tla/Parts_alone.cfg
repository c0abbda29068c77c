SPECIFICATION Spec
CONSTANTS
  Entries = {b0, b1, b2, b3}
  buf_list = buf_list
  Wild = wild
  LIST_POISON1 = poison1
  LIST_POISON2 = poison2
  Senders = {thread, child}
  Receivers = {main_thread, switch_thread, handler}
  Size = 3
  Capacity = 7
  Layers = {0, 1, 2, 3, 4, 5, 6, 7}
  GivenOvps = {9, 16, 24}
  BootOvps = {9, 16, 24}
  Requesters = {main_thread, switch_thread}
  Outcomes = {"echo", "no_fork", "no_echo"}
  MaxProcs = 4
  Names = {"rgb32", "nv12"}
  Counts = {0, 2}
  Failures = {"open", "short", "io"}
  NUM_VIDBUF = 2
  MaxFrames = 5
  MaxBoots = 2
INVARIANTS
  TypeOK
  Sound
  ShowsAndHides
  FramesInOrder
  NoMoreThanAsked
PROPERTIES
  IsAQueue
  IsMailbox
  SyncCalls
  CallsReturn
CHECK_DEADLOCK FALSE
