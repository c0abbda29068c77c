# A verification project for the camera application

The program under `src/project` shows the picture of a camera on a display layer while a switch
(the reverse gear) is on. It is one process with three threads, two pipes, a signal handler, a V4L2
capture device and an overlay device. This directory holds TLA+ modules that model it, TLC
configurations that check them on small instances, and theorems that TLAPS checks for every value of
the constants. File and line numbers below are those of `src/project`; `camera.c` is
`app/camera/camera.c`, `video_input.c` is `framework/video_input/video_input.c`.

    tlc -config MCCameraControl_signals.cfg MCCameraControl      # one run
    tlapm CameraControlProofs.tla                                # one module of proofs

## 1. The parts of the system

| part | code | its state | its operations | talks to |
|---|---|---|---|---|
| message queue | `common/message_queue.c` | two pipes, `msger.cmd` and `msger.ack` | `put`, `get` (blocking), `is_empty`, `init`, `deinit` | used by every thread |
| call protocol | `camera.c:1263-1395` | a local `struct message` on each side | `message_queue_put_and_get_msg` (requester), `handle_a_message` (message thread) | the pipes |
| main thread | `main.c:385-495` | where it is in `init_funcs` | open, create the message thread, hand over, register the handlers, create the switch thread, join | requester |
| switch thread | `main.c:340-383`, `hal/switch/switch.c` | `sw_prev`, `sw_curr` | every 100 ms: test `is_suspended`, read the switch, order start or stop | requester; reads `is_suspended` |
| signal handler | `main.c:259-288` | `is_suspended` | SIGTSTP: set the flag, order a stop, `raise(SIGSTOP)`; SIGCONT: clear the flag | requester, on top of any thread |
| message thread | `camera.c:678-870, 1027-1333` | `dev->status`, `initialized`, `is_handover_need`, the static `idxRecovery` | every 16 ms: one order, then one frame, with recovery | calls video input and video output |
| video input | `framework/video_input/video_input.c` | `buffers`, `n_allocated_buf`, `buf_list` | start, stop, poll, dequeue, queue, handover flag, source and path status | the capture driver through `hal/v4l2` |
| video output | `framework/video_output`, `hal/overlay` | `wmix_fovp`, `wmix_bovp` | show a buffer, disable the layer, set and get the window priority | the overlay driver; `hal/cam_ipc` |
| start-up and shut-down | `camera.c:149-370, 1397-1423` | descriptors, thread handles | open and close the devices, create and join the message thread | all |
| window priority | `camera.c:429-544`, `hal/overlay/overlay.c:67-157`, `hal/cam_ipc` | `wmix_fovp`, `wmix_bovp`; the mixer's register | defaults, raise, lower, disable the layer | a second core and the overlay driver, which both write the register |
| capture to file | `camera.c:945-1025` | `capture_idx`, `cnt_to_capture` | save one frame, counted down | files; the buffers of video input |
| list, formats | `common/list.h`, `common/v4l2.c` | links; a constant table | add, delete, test; search, size | |
| boot profile | `common/klog.c` | `g_log_level` | fork, become `/bin/echo` on `/dev/kmsg`, wait | every thread that logs; a child that fails shares the pipes |

`hal/g2d` and `hal/mcu_manager` are not compiled: `USE_G2D` and `CM4_MANAGER_SUPPORT` are commented out
in `camera.h:17` and `27`, and their sources in `Makefile.am`. `CAM_IPC_SUPPORT` is defined
(`camera.h:22`).

What is hard about it:

* **Shared acknowledges.** All requesters wait on one acknowledge pipe, and an acknowledge does not say
  whose it is. Two calls overlap as soon as a handler runs while another call is under way.
* **Signals.** The handler of SIGTSTP makes a blocking call, on whatever thread the kernel chose, on
  top of whatever that thread was doing; `is_suspended` is tested by the switch thread without a lock.
* **Partial failure.** Starting the preview takes a dozen calls, each of which may fail and leave
  behind what the calls before it did; stopping sets `STOPPED` whatever failed.
* **Buffers.** A buffer belongs to the driver, to `buf_list`, or to the overlay, and is queued again
  while the overlay still scans it; starts and stops free and allocate them.
* **Recovery.** A path that delivers nothing three times is stopped and started again.
* **Two ways to the screen.** The order of the layers and the enabling of the layer are set through two
  drivers and a second core, each of which may fail, and one of which may time out and serve the request.
* **Forks.** A child of the boot profile that cannot become `echo` returns into the message thread.
* **Links across sessions.** The list head, its entries, the capture count and the files outlive the array
  of buffers, the preview and the process.

Correctness of each part: the protocol conserves messages, returns every call, and is a synchronous call for a lone
caller; after the switch thread settled on off the preview is off; a suspended process shows no preview, a resumed one
shows it again; the status STARTED means a running stream over mapped buffers; no buffer has two owners; memory is not
used after it is freed; what is displayed comes from this session; a path that recovers is recovered, and the picture
never freezes; an order to hide hides if one of its measures works; a pipe carries whole messages; a file holds one
frame. `PROJECT.json` lists the hazards behind these line by line, with the property that watches each, or the reason
why none does yet.

## 2. The modules

| module | models | how |
|---|---|---|
| `SyncCall` | what `camera_start_preview` and the like promise | abstract: requested, executed once, returned |
| `Messenger` | pipes and call protocol | pipes are sequences of messages (a message is 32 bytes, below PIPE_BUF); `from` is a history field |
| `PreviewStatus` | what an order does to `dev->status` | abstract: the only moves of the status |
| `CameraControl` | main, switch and message thread, handler, signals | instance `Q` of `Messenger`, instance `P` of `PreviewStatus` |
| `VideoInput` | `video_input.c` and the driver | each function is an operator from a state to the set of its results `[v, ret]` |
| `Preview` | the message thread in full | extends `VideoInput`; one order or one frame is one step |
| `Startup` | opening, closing, thread creation (`main.c:385-495`, `camera.c:149-370`) | descriptors are the numbers the kernel gives, 0 included |
| `CameraApp` | the whole application | instance `C` of `CameraControl` with `status <- dev.status`, instance `V` of `Preview` |
| `Mailbox` | what a pipe of `message_queue.c` promises | abstract: whole messages, each once, in order |
| `MessagePipe` | `message_queue_put` and `get` over `read(2)` and `write(2)` | the pipe is a sequence of bytes; refines `Mailbox` |
| `FrameQueue` | what `buf_list` is for | abstract: a queue of buffers |
| `BufList` | `list.h` in `handle_preview_buffer`, starts and stops | functions `next` and `prev` over the head and the entries; refines `FrameQueue` |
| `WindowPriority` | options, defaults, ways to the mixer, disabling of the layer | an ovp is its number, its order of layers comes from `ovp_list` |
| `Formats` | `common/v4l2.c` | operators over the table |
| `Capture` | `camera_save_buffer`, `write_data`, `s64_to_s32` | a byte is the number of the frame it belongs to |
| `BootLog` | `klog.c` under the message protocol | one record per process; refines `SyncCall` |
| `Parts` | the five modules that share nothing, side by side | instances `L`, `M`, `W`, `B`, `K` of `BufList`, `MessagePipe`, `WindowPriority`, `BootLog`, `Capture` |
| `MessengerProofs`, `CameraControlProofs`, `PreviewProofs`, `CameraAppProofs`, `StartupProofs`, `BootLogProofs`, `WindowPriorityProofs`, `PartsProofs` | | theorems about the module of the name; `PartsProofs` has those of `MessagePipe`, `BufList` and `Capture`, and carries those of the other two over to `Parts` |
| `MCCameraControl`, `MCPreview` | | instances for TLC |

`CameraControl` composes `Messenger` and `PreviewStatus`; `Preview` shows, with `StatusMoves`, that
its handlers move the status only as `PreviewStatus` says, which is what lets `CameraControl` use the
small module in its place. `CameraApp` puts `Preview` itself there and shows that both modules hold of
the composition (`ImplementsControl`, `ImplementsPreview`). `MessagePipe` is why `Messenger` may take a
pipe for a sequence of messages, `BufList` why `Preview` may take `buf_list` for a sequence of buffers.

**CameraControl.** A thread is a program counter (`main`, `poll`, the messenger's `msg`) and a handler
is a second one per thread (`handler[t]`); a thread whose handler is active does not execute its own
code, and nothing executes while the process is stopped. The frames `<<t, "code">>` and
`<<t, "handler">>` are the call sites of `message_queue_put_and_get_msg`. One step is what one thread
does between two points at which another may interfere: the put, the get, the test of the flag, the
reading of the switch, each call of `signal`. The switch (`lever`) moves at any moment. Generating
SIGCONT discards a pending SIGTSTP and the other way round, and before `signal` the default action
stops the process, as the kernel does it. The handler of SIGTSTP starts on any thread of `SigThreads`
that is not in one already (its signal is blocked there). SIGCONT is sent only when it matters. The
handler of SIGCONT is one step: it is one assignment.

`sw_prev` is not a variable: at the head of an iteration it equals what `sw_curr` was
(`main.c:351`). Reading the switch and comparing are one step, since they touch only the local
variables and the lever. The history variable `overlap` says that a poll of the switch was under way,
past its test of `is_suspended`, when a handler began or while it was at work.

**Preview.** No other thread touches `struct camera` once the message thread runs, so that an order or
a look at one frame is atomic, and the driver takes steps in between (`Fill`). Every call that the code
looks at may fail if it is in `Faults`; the functions are composed in the code's order up to the first
failure, and what was done before the failure stays. A frame is good or bad (`camera_check_buffer`
compares pixels). `alive` becomes FALSE on the first access through an address that is not mapped, not
initialised or freed. `malloc` leaves `vaddr` uninitialised, as the code does. The driver refuses REQBUFS
while it streams and QBUF of a buffer it has; STREAMOFF returns every buffer.

**Startup.** `main` walks through `init_funcs` and `open_devices`, one step per function, each of which
may fail. The table of descriptors is explicit: `open` and `pipe` give the lowest free number, the
structs start at 0 because of `memset`, and a process may be started without standard files, so that 0 is
three things at once (nothing opened, standard input, the first device). The process starts with one of
three tables; `pthread_create` fails with an error above 0, which the code tests for with `ret < 0`. Closing is
one step: no other thread exists yet. A first handover stands for the message protocol, which `Messenger`
has in full.

**CameraApp.** The turn of the message thread is a pointer into its loop (`turn`, and the local message
`msg`), so that handlers, polls and the driver take steps between the taking of an order, its execution, its
acknowledge and the look at a frame. Execution of one order, and one look at a frame, stay single steps, as in
`Preview`. `Booting` and `OrderDone` are what `Preview` sees of the rest. A stopped process takes no step;
the driver goes on filling buffers.

**MessagePipe.** One action per `read` or `write` that returns. The kernel's promise, that a write of at
most PIPE_BUF bytes is not torn, is the external operator `Accepted`; a read may return fewer bytes than were
asked for, when the pipe has fewer.

**BufList.** The entries of a freshly allocated array hold anything (`Wild`), `list_del` leaves poison, a stop
frees the array and leaves the head pointing into it. `sound` records that every pointer followed is the head
or an entry of the live array. An operation of the list is one step, with the reads and writes that
`list.h` makes.

**WindowPriority.** The digits of the order of layers are computed as `overlay_get_default_ovps` does and
searched in its table, transcribed row by row. An order takes effect through camera IPC (which may time
out, served or not) and through the overlay driver, whichever fails. Another layer is not modelled: the
property is about which one the mixer has on top.

**Capture.** A frame is `DQBUF`ed, kept, checked, written, shown and queued again; the driver fills the head of
its queue in two steps, so that a frame overwritten while it is being saved shows as a file with two numbers. A
picture has two pixels, the least for which every format has whole bytes. Behind the plane lies `Foreign`,
or nothing, in which case `write(2)` ends early. The process may be started again over the files of an
earlier one.

**BootLog.** A process is the place of its message thread and whether it waits for its child. Before and after
each order the thread logs; `no_echo` is the child that returns. What `main` logs before it has read the
options (`main.c:474`) is never written, whatever `--boot_profile` says, and is left out.

**Parts.** `BufList`, `MessagePipe`, `WindowPriority`, `BootLog` and `Capture` share nothing with each other.
`Parts` has all of them: the variable `part` says which of them a behaviour is of, and the rest stands still,
so that a run and a theorem of `Parts` are those of each of them.

## 3. The runs

| run | asks | states (about) |
|---|---|---|
| `control_signals` | two suspensions, their handlers on any of the three threads: the properties of section 4, among them where calls come to a dead end, and synchronous calls until the first suspension | 35 160 |
| `preview_faults` | any order at any turn, any of 15 calls failing any number of times: consistency | 19 556 |
| `preview_heals` | failures while frames flow, and at the start of a start: recovery, leaks, orphans, and does the picture keep moving? | 3 720 |
| `preview_restarts` | with every failure but those of a stop, a start and the handover: is every order to start carried out, and does nothing but an order change the status? | 7 314 |
| `app_signals` | control and preview together, one suspension, formats refused, a switch that may not be read: does each half hold for the other, and is the display dark when it must be? | 273 934 |
| `app_lever` | does the driver stream while the switch thread rests on "on", and, under fairness, does the picture follow the lever? | 103 356 |
| `parts` | each alone: the buffer list with four buffers; the acknowledge pipe with two senders and three readers; the window priority on eight layers with any ovps and failures; the boot profile with forks that fail and children that go on; the capture over two processes with failures of open and write | 86 685 |
| `startup` | every call of the start-up failing, from three tables of descriptors: is what was opened closed, is what is used open, does main settle? | 204 |
| `commands_mode` | finding: does a negative switch id select the mode by commands? | refuted |
| `recovery_once` | finding: is a preview always recovered? | refuted |
| `mmap_ignored` | finding: does a preview only run on mapped buffers? | refuted |
| `stop_keeps_layer` | finding: with `--ignore_ovp=1`, is the layer off after a stop? | refuted |

*Bounds.* `MaxSuspends = 2`: one suspension may be handled while the handler of another waits, on another thread, and
a second may follow a resume. With a third, three handlers could wait at once; they put and take the same messages as
two do, and the theorems of control are for any number. No other bound is needed in `CameraControl`: the pipes are
bounded by the callers. `NUM_VIDBUF = 4` is the value of `video_input.h`; with four, one buffer may be held back, one
displayed, one with the driver to be filled and one filled. The refuted properties need two. `idxRecovery` is bounded
by the code itself, which resets it at 3 (the test against INT_MAX at `camera.c:1093` is therefore never false).

`CameraApp` has two buffers and one suspension: with two buffers a frame is shown and one is filled, which is what its
properties look at, and the four buffers and the second suspension are in the runs of `CameraControl` and `Preview`
alone. The pipe has messages of three bytes and room for two of them and a part, so that a full pipe, a message at its
end and reads that fall short all occur; each sender and reader repeats for ever. `BufList` has the four entries of
the code. `WindowPriority` has two mixers of four layers, since the code takes the layer modulo 4, and three ovps
besides none: with layer 0, 1 and 2 on top. `BootLog`: `MaxProcs = 4`: up to three children go on, each the child of
the one before, at either log line. `Capture`: `MaxFrames = 5` frames over `MaxBoots = 2` processes, at most two of
them to be saved: enough for a second session to write over the first; the formats `rgb32`, whose plane is what is
written, and `nv12`, whose plane is shorter.

*Failures.* `control_signals` leaves out a switch that cannot be read: -1 is then both "failed" and "not known", and
`ResumeRestarts` would speak of both. `app_signals` has it. `preview_faults` has every failure except `mmap` (its
finding is a run of its own, and everything read through such a buffer is an access violation), `disable` and `show`
(the two that decide what is on the display: when the layer cannot be disabled, the code has nothing left to do) and
`poll`, which in this run without fairness is the same as a driver that fills nothing. `preview_heals` leaves out
`streamoff`, `s_handover`, and the calls between the malloc and STREAMON: with them `NoOrphanStream` and `NoLeak` do
not hold, and the properties say so. These are real limits of the code: after a STREAMOFF that fails the stream runs
on behind STOPPED, and after a start that fails between the malloc and STREAMON the next start allocates a new array
over the old one (`video_input.c:739`). `preview_restarts` asks what is promised when all of these succeed: it leaves
out every call of a stop and a start, the flag of the handover and the `mmap` of the finding, and has all that can go
wrong from frame to frame.

`startup` has every failure and no bound but the number of files (`MaxFd`); deadlock is not checked there,
because the process ends or waits in `pthread_join`. Nor is it in `parts`, where a
failed opening ends `WindowPriority` and the frames of `Capture` are bounded. `app_signals` lets starts fail by the
format (the first call of a start; `preview_faults` has the others), `app_lever` has no failures: it asks
what is promised when the hardware works. `MessagePipe` has no failure of `read` or `write`: their ends are
open for the life of the process, and a loop over a failing call never ends (`message_queue.c:73`).

*Fairness.* `CameraControl` has `Spec`, which is safety alone, and `FairSpec`, which is what `control_signals`
checks. Every thread is scheduled (weak fairness of `MainStep`, `SwitchStep`, `MessageStep`,
`HandlerStep`): the threads are ordinary kernel threads and no loop of the code gives up. A signal is
delivered (weak fairness of `HandleCont` and of the delivery of SIGTSTP). A reader blocked on the
acknowledge pipe is not passed over for ever (strong fairness of `SwitchGet` and `HandlerGet`): two
readers of a pipe are woken in turn. Nothing is assumed of the lever, of the sender of the signals, of
failures nor of the driver, which may fill nothing for ever. In `Preview` the loop of the message
thread goes on (weak fairness of `Frame` and of the order that precedes it), and `recovery_once` adds
that a restart tried again and again succeeds at last (`RetriesSucceed`), without which its
counterexample would only say that a broken path stays broken. `KeepsMoving` is checked under the same fairness,
and the driver is not assumed to deliver: that is its point.

`app_lever` adds to the fairness of `CameraControl` that the message thread runs and that the driver fills the
buffers it has (weak fairness of `MessageThread` and `Fill`), and that a camera which delivers for ever delivers
a good frame (strong fairness of `GoodFrame`); `camera_check_buffer` rejects only frames of which two rows
are alike, as of a blank one. `BootLog`: every process's message thread and every `Get`.

## 4. The properties, and what the runs show

Control (`CameraControl`):

* `Conservation` (checked and proved): one message is under way per waiting caller, for every overlap.
* `StopsDark` (checked and proved): the handler stops the process with the preview on only if a poll of
  the switch overlapped it. The exception is real: without `~overlap`, TLC finds the switch thread past
  its test of `is_suspended`, the handler stopping the preview, and the START of the switch thread served
  before `raise(SIGSTOP)`; one suspension on the main thread is enough.
* `OffMeansOff` (checked and proved): the switch thread asleep on "off" with no call under way means that
  the preview is off, although its acknowledge may have been another's.
* `CallsReturn` (checked): every call returns, or the process is stopped, or the message thread waits in a handler of
  its own for an acknowledge that only itself can write (`WaitsForItself`). Without this exception TLC refutes it.
* `OneWayToHang` (checked and proved), `NeverWakes` (proved): that is the only dead end. With handlers on all three
  threads, callers wait while nobody at the pipes can go on (`Hung`) only if the message thread waits in its own
  handler and no acknowledge of another call is left for it, and then nothing wakes it. TLC reaches the state in
  `control_signals`; whether the acknowledge of another call frees it depends on who reads it first. Deadlock is
  checked in that run and not found, since the lever and the signals go on moving: a stuck application is one that
  still takes signals.
* `OnMeansOn` (proved, where starts and recoveries succeed): the switch thread asleep on "on" with no call under
  way means that the preview is on. The counterpart of `OffMeansOff` needs `suspends = 0`: without it TLC finds the
  suspension between two polls.
* `ResumeRestarts` (checked): after a suspension that a poll of the switch has seen, the preview is ordered
  again. Without the condition `sw_curr = -1` TLC refutes it: a suspension between two polls leaves
  `sw_curr = 1`, and nothing is ordered until the lever moves. It also speaks only of
  `is_suspended = 0`: a SIGTSTP handled between the two calls of `signal` leaves the flag set for ever.
* `SyncCalls` (checked and proved), `OwnAck` (proved): until somebody sends SIGTSTP the pipes implement `SyncCall`,
  and a caller returns on its own acknowledge. After that neither holds; `Conservation` and `OffMeansOff` are what
  remains true.

Preview (`Preview`): `StartedRuns`, `MemorySafe`, `Ownership`, `HeldBack`, `GoodFirst`, `DisplayedLast`,
`HiddenWhenStopped`, `StatusMoves`, `NoOrphanStream`, `NoLeak` (all checked and proved), `StarvationHeals`, each with
its comment in the module. `OrdersSucceed` (checked and proved) and `StaysStarted` (proved), where the calls of a stop
and a start succeed, say that no miss, restart, stop or handover leaves anything behind that keeps a later start from
succeeding. `KeepsMoving` says that a preview with the recovery on does not leave one frame on the display for ever: a
new one comes, or the path is stopped, whatever the driver and the buffers do.

Application (`CameraApp`):

* `ImplementsControl`, `ImplementsPreview` (checked and proved): each module is an abstraction of the composition. The
  first rests on frames moving the status only as `PreviewStatus` allows, the second on the handover being carried out
  before any other order.
* `StopsHidden`, `OffIsHidden` (checked and proved): `StopsDark` and `OffMeansOff` for the frame on the display
  instead of the status.
* `OnStreams` (checked and proved, where the calls of a start and a stop succeed): at rest on "on" and before a
  suspension the driver streams into a whole set of buffers, whatever frames were lost: the status, which the switch
  thread never sees, is not empty.
* `OnBringsPicture`: a lever that stays on brings the picture again and again, or the path is one step from
  its recovery again and again. TLC refutes it without this escape (a driver that always fills too late for
  the third look), and without `suspends = 0` (a suspension between two polls, as for `ResumeRestarts`).
* `OffTakesPicture`: a lever that stays off takes the picture away for good. It excludes a process that is
  left stopped, because one stopped in the window of `overlap` keeps its picture.

Pipes (`MessagePipe`): `IsMailbox` (checked and proved): whole messages, each once, in order, with several readers and
writers and no lock. It holds by the kernel's atomic writes alone: with writes in parts, which is what the loops of
the code are written for, it fails, as its mutant (one byte per call) shows.

List (`BufList`): `Sound` (no wild, poisoned or freed pointer is followed, and both directions agree) and `IsAQueue`,
both checked and proved; they hold over a stop and a failed allocation only because a start initialises the head
first.

Screen (`WindowPriority`): `ShowsAndHides` (checked and proved): with the default ovps, an order to show that gets
through either way puts the camera on top, for every layer, and an order to hide hides if one of its measures works,
except on layer 0.

Boot profile (`BootLog`): `SyncCalls` (checked and proved), `CallsReturn` (checked): however many children go on in
the place of their parents, each order is carried out once and its caller returns. The parent waits for ever, which
nobody notices until a signal arrives (a hazard in `PROJECT.json`).

Capture (`Capture`): `FramesInOrder` (no file mixes two frames of a process, files follow the order of frames)
and `NoMoreThanAsked` (failures use up their number), both checked and proved.

Start-up (`Startup`; the first two checked and proved): `AllClosed` (a start that fails closes what it opened, given a
standard input; without one the first device gets the number 0, which the closing functions take for none), `Usable`
(what the threads use is open, and no two files coincide, up to a command pipe whose failure was masked) and `Settles`
(main gets to its join or returns, unless the message thread or the command pipe does not exist: both failures pass
unnoticed, `camera.c:1403` and `message_queue.c:147`).

The refuted properties are the findings:

1. `RecoveryPersists`: `check_recovery` restarts the path once. If that start fails the status is STOPPED and no later
   turn looks at the path, although the help text promises that the option recovers a path that is not working.
   `PreviewRecoveryPersists` shows that this failure is the only way: where no call of a restart fails, the promise is
   kept.
2. `StartedMapped`: the failure of a `mmap` is logged and then overwritten by the result of queueing the
   buffer, so that the preview runs on it; the comment at the place says what should happen instead.
3. `HiddenWhenStopped` under `--ignore_ovp=1`: the option skips the disabling of the layer together with
   the change of its ovp, so that the overlay scans memory that was unmapped and released.
4. `CommandMode`: a negative `--switch` selects the mode by commands, but opening the switch fails for it, and
   main ends.

Other disagreements seen while modelling, which no run states:

* Of `--io-mode`, offered as 0 or 1 and by two words (`main.c:78-82`), only 1 is V4L2_MEMORY_MMAP;
  everything else fails inside every start (`video_input.c:846`) while the application runs on.
* On layer 0 (or 4) the default ovp of the background is the one of the foreground (`overlay.c:151`): the
  exception that `ShowsAndHides` names.
* `video_output_init_params` replaces both ovps when one was not given (`video_output.c:63`).
* `--boot_profile=1` shows the profile (`klog.c:51`), which `main.c:107` says it hides.
* `s64_to_s32` gives 0 for every value that fits (`basic_operation.h:73`): a frame that was written is
  logged as a failure (`camera.c:1010-1012`), and a part that was written ends the loop.
* Four bytes per pixel are written to a file whatever the format (`camera.c:996`), from beyond the frame if it
  has fewer; a file of an earlier process keeps its tail, for want of O_TRUNC.

Each property of a passing run has a mutant in `PROJECT.json`: an operator ending in `_NoWait`,
`_KeepsList` and so on, in the modules next to what it alters, under which TLC finds the property
violated.

## 5. What is proved

Every safety property that a passing run checks, and the types that no run asks for (`TypeOK` of `CameraControl` and
`Startup`), are conclusions of theorems, for every value of the constants, under the assumptions the modules declare
(`ControlAssumption`, `AppAssumption`, `BuffersAssumption`, `OptionsAssumption`, `FaultsAssumption`,
`PartsAssumption`) and the hypotheses named below. `PROJECT.json` lists the theorems. TLC confirmed the inductive
invariants on the instances of the runs before they were proved: those of control on `control_signals`, `Inv` of the
preview on `preview_faults`, of the start-up on `startup`, and the one of the capture on the instance in `parts`.

**`MessengerProofs`**, for any requesters (a finite set, for `MessengerConserves`) and any commands.

* `MessengerTypes`, and `MessengerConserves`: `Conservation` is inductive together with `TypeOK`: a
  put adds one waiting requester and one message, a get removes one of each, the message thread moves one.
  The lemmas `PutAwaits` and `GetFrees` count the waiting requesters; `AtMostOne` and `HeldMessage` say that
  the local message is none or one.
* `MessengerOwnAck` and `MessengerSyncCalls` are theorems of `Spec /\ []OneAtATime`: as long as no two calls
  overlap, a caller returns on its own acknowledge, and the pipes implement `SyncCall`. The invariant is `Lone`:
  who waits has its message in exactly one place, alone (`Alone`), and when nobody waits nothing is under way.

**`CameraControlProofs`**, for any threads that take signals (the message thread may be among them), any of
the three failures, any number of suspensions.

* `ControlImplementsMessenger`: every step of `CameraControl` is a step of the protocol or leaves the pipes
  alone (`StepOfMessenger`). `ControlTypes` and `ControlConserves` take the messenger's theorems over through
  it (instance `QP`); the rest of the types is `RestStep`.
* `ControlStopsDark`. `StopsDark` is not inductive: that the handler's STOP was executed, and that no START
  can still be executed, is not in the state it looks at. `Darkens` says it: while a handler that met no
  poll is at work, the switch thread sleeps, only orders to stop are under way (`OnlyStops`), and once one
  of them was executed (an acknowledge exists, or a handler has left its get, or the process is stopped) the
  status is not STARTED. It needs `WhoAwaits` (who waits, and so, with `Conservation`, that nothing is under
  way when nobody waits: `NoneUnderWay`) and `Fresh` (no message in the command pipe is an acknowledge).
* `ControlOffMeansOff`. Its strengthening `StaysOff` says that after the order of 0 the *last* order under
  way is to stop (`OffOrdered`), in the pipe, in the hands of the message thread, or carried out; the puts of
  handlers are orders to stop and keep it.
* `ControlOnMeansOn`, if neither a start nor a recovery fails. Its strengthening `StaysOn` is that of `StaysOff` for
  the other order (`OnOrdered`; both are instances of `Ordered`), and says besides that before a suspension no handler
  is at work, which is what a handler's order to stop would break.
* `ControlOneWayToHang`. Nothing is strengthened: `SomebodyGoes` shows from `Conservation` and `WhoAwaits` that if
  somebody waits there is a message, and somebody can move it. In a pipe of commands or in hand the message thread
  can, unless it is in its handler; an acknowledge can be taken by whoever waits, because a thread in a handler waits
  there and one that is not runs. What is left is a handler on the message thread with an empty acknowledge pipe.
  `ControlNeverWakes` follows from each step: only the message thread puts acknowledges. `ControlNeverHangs` is for
  `SigThreads` without the message thread, whose handler then never begins.
* `ControlHandoverFirst`: the order of the handover is the first one in the pipes and the last of its kind.
* `ControlOwnAck`, `ControlSyncCalls`: until somebody sends SIGTSTP no handler runs (`QuietSoFar`) and main has
  returned from its call before the switch thread exists (`WhoAwaits`), so that no two calls overlap (`AloneSoFar`);
  the steps until then are those about which the messenger's lemmas speak (`LoneSoFar`).

**`PreviewProofs`**, for any number of buffers above one, any `Faults`, any options. The invariant is `Inv`:
types, `Sound(dev)`, and a device that is as it was opened until the handover is done. `Sound` is `Consistent`
(status against stream and array; the lines of the driver and `buf_list`, which share no buffer; what is
held back), which no failure breaks, and one part for each property that some failures break, conditional on
those failures not occurring:

| part | says | under |
|---|---|---|
| `Safe` | nothing was followed that is not mapped; a started preview has all its buffers mapped | `NoMmapFault` |
| `Truthful` | what is displayed is of this session, after a good frame | `NoHideFault`: the layer can be disabled, and `--ignore_ovp` is 0 |
| `LastShown` | the displayed buffer is the last in the queue of the driver | `NoHideFault`, `NoShowFault` |
| | a stream runs only behind STARTED | `NoStreamoffFault`, `NoHandoverFault` |
| `Tidy` | no array was lost, and the one there is has its stream | `NoStartFault`: none of the calls from REQBUFS to STREAMON fails, `malloc` apart |

The hypotheses of the theorems are these, and they are the frontier that TLC found: the findings 2 and 3 and the
failures that `preview_faults` and `preview_heals` leave out are what is excluded, and all other failures are allowed.
Three theorems say what is promised under `NoRestartFault`, that no call which a stop or a start of the preview gives
up on fails, from the colour table to STREAMON and STREAMOFF (the display and `mmap` are none of them):
`PreviewStaysStarted` is inductive on top of `Inv` (`StartPreviewSucceeds` takes a device that does not stream through
every call of the start, whatever else it keeps, and a stop leaves such a device); `PreviewRecoveryPersists` from it,
since what never goes away need not come back, so that no fairness is used; and `PreviewOrdersSucceed`, with
`NoHandoverFault` and the allocation mode that works. The proof follows the calls of the code: one lemma for each
function of `video_input.c` says what its results are, then starts and stops, orders, frames with their recovery, and
the steps. `PreviewImplementsStatus`: each order and each look at a frame is a move of `PreviewStatus`.

**`CameraAppProofs`**. Each step of the application is mapped twice. As a step of `Preview` it needs that the order of
the handover comes first, which is `ControlHandoverFirst`; that keeps the invariant of `Preview`, with which orders
move the status as `PreviewStatus` says, and so the step is one of `CameraControl` and keeps the invariants of the
pipes. `AppInv` has both invariants and the turn of the message thread. Results: `AppImplementsPreview`;
`AppImplementsControl`, under `AnyFailure` (the constant of `CameraControl` lets a start and a recovery fail if in
`Preview` they may; under `CallsSucceed` they do not, and it need not); `AppStopsHidden` and `AppOffIsHidden` under
`NoHideFault`, which combine `ControlStopsDark` and `ControlOffMeansOff` with `Truthful`; `AppOnStreams` under
`CallsSucceed`, which combines `ControlOnMeansOn` with `StartedRuns`. For this the half of the pipes is taken with the
failures that the preview can have (`MayFail`), so that its theorems about calls that succeed apply. The conclusions
of the halves are stated of the whole where they are most of use: `AppMemorySafe`, `AppOneWayToHang`, `AppNeverHangs`
and `AppOwnAck`.

**`StartupProofs`**, for any set of calls that fail. The invariant says which number each opened file has at each
place of `main` (`Placed`), from the three tables a process may start with: the lowest free numbers are
given in order, and 0 goes to the first device if there is no standard input. From the numbers follow `Usable`,
and that closing finds every number (`Found`). `Heard`: who heard an acknowledge of the handover has a message thread.

**`BootLogProofs`**, for any callers, outcomes of a fork, and bound on the processes: all processes but the
last wait for ever (`OneThread`), so that the last is the message thread, and the one order under way is in a pipe or
with that process (`Lone`). `StepsSyncCalls` needs no fairness.

**`WindowPriorityProofs`**, for any layer number, options, ovps and failures. Lemmas about the table (`Tops`,
`FirstFound`) show that the search of `overlay_get_default_ovps` finds an order with the camera on top for each
residue of the layer (`DefaultOnTop`); the invariant says which ovp the mixer has after each order. `WindowTypes`:
what the mixer has is what it had at first, what an option gave, or an entry of the table.

**`PartsProofs`**, for any sizes and sets.

* `PipeIsMailbox`: the pipe is always n whole messages (`Holds`), although a read may return part of one: a
  reader that got part would leave a torn message, and writes of whole messages are why it never gets part.
* `ListSound`, `ListIsAQueue`, for any finite set of entries other than the head. The invariant `Linked(q)` says that
  `next` goes once round the head and the entries of q, and `prev` round the same way backwards; q has at most one
  entry between two looks and two at a look. `Frames`, a walk defined by the code's loop, then gives q.
* `CaptureInOrder`, `CaptureAsked`, for any numbers of buffers, frames and processes: each buffer is in one line once
  (`InLines`); a buffer given back holds one frame, later ones later frames (`Stamps`); and the files of this process
  hold frames before those still to be saved (`Files`).
* `PartsTypes`: the types of the pipe, of the window priority and of the capture (`CaptureTypes`). That no file number
  is used without a frame rests on each number being of a frame that came in (`InRange`); that the format is one of
  the table, on the search for its name (`LookUpFinds`), which takes the first place of the entry.
* `PartsOfEach`: a step of `Parts` is a step of one part and leaves the others alone, so that these theorems and those
  of the two modules before are theorems of `Parts` (`PartsSound` to `PartsNoMoreThanAsked`).

Only model-checked: what is temporal (`CallsReturn`, `ResumeRestarts`, `StarvationHeals`, `KeepsMoving`,
`OnBringsPicture`, `OffTakesPicture`, `Settles`), which needs fairness and ENABLED and is beyond the prover;
and the refuted properties outside the hypotheses of the theorems, for which a counterexample is all there is to find.

## 6. What is not modelled, and why

The mode by commands, which cannot be entered; `getopt_long` and its table (the options that steer something are
constants or initial values of the modules about it); the field, the codes of the display, the colour depth and
the table of `lut.h`, which only select constants for a driver; the composition rectangle and the capabilities,
which are only logged; what the window priority reads back, which is only logged; the texts and the layout of
logging; the two parts that are not compiled. `read` and `write` on the pipes are not interrupted:
`signal` installs handlers with SA_RESTART. `klog` under a signal is not composed with `CameraControl`.

## 7. Plan

Order: the way orders reach the preview, then what they do, then what surrounds both, then the whole. All the
modules of section 2 are written, and the theorems of section 5 proved. What remains open:

1. The liveness properties, which TLC checks on small instances. `ControlNeverHangs` is the part of `CallsReturn` that
   needs no fairness: somebody can always go on; that each caller gets its turn is left to TLC.
2. `klog` under a signal: a child of the boot profile is a process with one thread, on which the handler runs; that is
   the dead end of `OneWayToHang`, but the two modules are not composed.
3. Hazards without a property, because no step of the code and no comment says what should hold: the frame at address
   0 after a last frame that could not be created (`camera.c:419`), a SIGTSTP before or between the calls of `signal`
   (`main.c:424`, `429`), and an ovp that was given and is dropped (`video_output.c:63`).
