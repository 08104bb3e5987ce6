# A TLA+ model of the Brio SDK

Brio is the C++ system software of LeapFrog's hand-held consoles: a set of
modules ("MPIs") for events, audio, display, input and so on, loaded on demand
into the application's process and run by its threads and by threads of their
own. This directory models the parts of `System/` that carry the control logic
of the whole: the event manager, the kernel's timers, the module manager, the
atomic files, the audio mixer, and the recording and playing tasks of the
microphone, the camera and the video player. TLC checks them on small instances,
and TLAPS proves the safety properties of all of them for every size of instance.
All source paths below are relative to `src/System/`.

- [Inventory](#inventory)
- [Modules](#modules)
- [What the runs check](#what-the-runs-check)
- [Bounds](#bounds)
- [Fairness, and why deadlock is not checked](#fairness-and-why-deadlock-is-not-checked)
- [What is proved](#what-is-proved)
- [Where the code disagrees with its documents](#where-the-code-disagrees-with-its-documents)
- [What is not modelled](#what-is-not-modelled)
- [Plan](#plan)

## Inventory

### Components

**Event manager** (`Event/Event.cpp`, `Event/EventListenerPriv.cpp`,
`Event/PublicMPI/`). *State:* an array of listeners that grows by two; a POSIX
message queue of eight slots named after the process id; the flags
`g_threadRun_`, `g_threadRunning_` and `bThreadRun_`; per listener its list of
types, the types disabled and the next listener of its chain. *Operations:*
register, unregister, destroy, chain and disable listeners; post an event, at
high priority on the caller's thread, otherwise by way of the queue and
`EventDispatchTask`; start and stop. *Interacts with* every module that reports
something: the input tasks, audio, timers' clients, cartridge and USB all post
events, and a handler may call back any operation from `Notify`. *Hard:* nothing
locks the array while events are delivered from several threads; handlers change
it under the walk; copies of messages pass from thread to thread through a
bounded queue that may also hold what a dead process left there. *Correct when*
accepted events are handed over once and in order, no memory is used after it is
freed, a delivery reaches those who stay registered, chains have no cycle, and
posting and shutting down end.

**Kernel timers** (`Kernel/Kernel.cpp`). *State:* the set of real-time signals
in use, the list of timers with their callback data, the handle and the run flag
of `TimerTask`, and the POSIX timers themselves. *Operations:* create, start,
reset, stop, pause, resume and destroy a timer; the thread waits for any of the
signals, finds the timer and calls back. *Interacts with* the microphone, the
camera, the cartridge task and applications. *Hard:* one lock covers only parts of the calls;
an expiry may be in the kernel, in the thread, or about to be called when its
timer is destroyed and its signal given to another. *Correct when* an expiry
reaches its own timer's callback once, no freed data is called, and the
destructor ends.

**Kernel: tasks, mutexes, condition variables, message queues, memory**
(`Kernel/Kernel.cpp`, `Kernel/MemPool.cpp`). Wrappers of POSIX calls, which the
other components use as primitives. A failed assertion powers the device down.

**Module manager** (`Module/ModuleImpl.cpp`). *State:* a vector of connected
modules with their counts; each library's singleton. *Operations:* `Connect`
loads a library and creates its one instance, or counts one more reference;
`Disconnect` destroys and unloads with the last. *Interacts with* every module:
constructors connect to the modules they need and destructors disconnect, inside
the manager's calls. *Hard:* its lock covers single searches and updates, never a
whole call; the calls nest, and an erase moves entries that an outer call points
at. *Correct when* what a client holds is alive and loaded, and counts are the
numbers of references.

**Atomic files** (`Utility/AtomicFile.cpp`). *State:* a list of open files with
real and work names. *Operations:* open for replacement, close (flush, sync,
close, rename), abort one or all. *Used by* the settings and
profile code of applications. *Hard:* any library call may fail, and the machine
may crash between two of them. *Correct when* a file is replaced by all of what
was written or not at all, and the caller is told which.

**Audio mixer and players** (`Audio/Audio.cpp`, `Mixer.cpp`, `Stream.cpp`,
`AudioPlayer.cpp`, `AlsaOutput.cpp`'s thread). *State:* a fixed number of streams,
each with a player or none; counts of players per class, with limits; priorities
and the policy; the one external output; the callback thread. *Operations:* start,
stop, pause, resume, seek and query players; the callback mixes, finishes and
loops them and posts done, loop-end and time events. *Hard:* two locks: the
module's is held over a whole call, the mixer's is given up around a constructor
after a stream was chosen and after a stream was found, and the callback runs
then; players may be halted for others. *Correct when* no player is lost or used
after its deletion, limits and policy hold, and each player ends and is reported
once.

**Audio decoding and signal processing** (`Audio/*Player.cpp`, `src.cpp`,
`fir.cpp`, `Dsputil.cpp`, `AlsaOutput.cpp`). Numerical code and the sound device.

**Microphone** (`Microphone/Microphone.cpp`, `MicrophoneTask.cpp`). *State:* a
context guarded by one lock; the flags `bRunning`, `bStopping`, `bInited` and
`timeout`, global and unguarded; the device, a timer and a recording task.
*Operations:* start, which waits for the task by polling a flag; stop, which
tells it to end, polls and joins it; pause and resume; the timer's callback,
which stops a recording that is too long; the USB listener, which stops it when
the device is pulled out. *Interacts with* the kernel's timers and the event
manager: the end event is delivered on the task, the trigger event through the
queue. *Hard:* five kinds of threads stop one recording, one of them holds the
lock while it waits for another, and handles are read before it is taken.
*Correct when* each call returns, a recording keeps its device, and exactly one
end event is posted for it with the true reason.

**Camera** (`Camera/CameraTask.cpp`, `Camera/Platform/`). *State:* as the
microphone's, with two locks, a V4L stream that is on or off, and buffers that a
frame of the driver lies in. *Operations:* those of the microphone; snapshots,
which turn the stream off and on around their own; the lock on the surface; the
task's restart of a stream that gives no frames. *Hard:* everything that turns
the stream off unmaps the buffers; a snapshot may fail at any of its steps; events
are delivered with a lock held. *Correct when* a frame in the task's hands
stays mapped, pausing lasts, a lost stream comes back, and as above.

**Video** (`Video/Video.cpp`, `VideoTask.cpp`). *State:* a context per video,
whose address is its handle; the list of handles and the current one; one global
handle of a task and the global flags `bRunning` and `bStopping`. *Operations:*
start, open without a surface, stop, pause, resume and query; the task decodes,
shows and rewinds, and posts its end. *Hard:* contexts are many and the globals
one; the task writes the flag by which it is stopped; a task that does not end in
time is cancelled. *Correct when* a context is freed once, after its task has
ended, and each call returns.

**Input tasks** (`Event/Lightning/ButtonPowerUSBTask.cpp`, which also has the
cartridge task). *State:* last button, power, USB, touch and cartridge state.
*Operations:* poll the devices, turn changes into events, serve child processes
over a socket, one at a time, until the child hangs up. *Correct when* each
transition is reported once and no child blocks the task: a `recv` without a
timeout can, and with it the destructor of the event module, which joins the task
(`dispatch`).

**Button, touch, accelerometer and cartridge interfaces** (`Button/`,
`Accelerometer/`, `Cartridge/`). Reads of devices, and event queues with a double
buffer that a listener fills and an application empties: *correct when* an event
is delivered in one buffer or the next, never in both or none.

**Wireless** (`Wireless/`). D-Bus calls, and a queue between threads
(`IncludePriv/ThreadCommQueue.h`) that must wake its readers when it is killed.

**Display**, **OpenGL configuration**, **Font**, **Image input and output**,
**Vision**, **Controller**, **Analog stick**, **Power and USB device**,
**Debug**, **Utilities**: rendering, conversion, device access and configuration;
`PROJECT.json` says of each why it is left out.

### How the components interact

An application connects to modules through the module manager. Posting an event
runs listeners on the caller's thread or on the dispatcher's; listeners are
application code or other modules (audio forwards to its clients, the button and
touch queues collect). Timer callbacks run on `TimerTask`, and may post events
and stop recordings. Destroying the event module stops first the input tasks and
then the dispatcher. The message queue and the sockets of the cartridge task
outlive a process that dies; everything else is shared memory.

### What is hard to test

`PROJECT.json` lists each hazard at its line with the properties that would
catch it: handlers and threads that change the array under a walk, self-blocking
on the full event queue, an expiry on its way to a destroyed timer, nested module
calls, failing library calls, crashes, listeners called back on a thread that
somebody waits for, globals that belong to another recording or video by now.
Smaller ones are kept here only: the version rules in the comment above
`Connect` (ModuleImpl.cpp:231) are not implemented, and all callers ask for the
one version there is; a `push_back` moves the vector of modules as an erase does
(298); work files of failed or interrupted sessions stay behind
(AtomicFile.cpp:380); `DestroyTimer` walks its list unlocked (Kernel.cpp:958),
where the model lets the process crash; the release of the power key cuts the
pass over the polled files short (ButtonPowerUSBTask.cpp:637); and
`ThreadCommQueue::Kill` signals one waiter only (ThreadCommQueue.h:100), which
does for its one user.

## Modules

| Module | Models | Composes with |
|---|---|---|
| `AsyncChannel` | what posting at low priority promises: accepted once, handed over in order, while open | |
| `EventDispatch` | `PostEvent`, the queue, `EventDispatchTask`, constructor and destructor of the manager, the polling threads | implements `AsyncChannel` |
| `EventListener` | `CEventListenerImpl`: types, disabled types, chains | |
| `EventManager` | the array of listeners and the walk of `PostEventImpl` over it | extends `EventListener` |
| `KernelTimers` | the timer functions, `TimerTask`, `~CKernelModule`, and the POSIX timers they use | |
| `ModuleManager` | `Connect` and `Disconnect`, with the constructors and destructors that call them | |
| `AtomicFile` | the functions of `AtomicFile.cpp`, stdio, the file system and its crashes | |
| `AudioMixer` | `CAudioModule`'s calls, the mixer's streams and players, the callback thread | |
| `Microphone` | the calls of the microphone module, its task, its timer and its USB listener | timers and signals as in `KernelTimers`, a queue as in `EventDispatch` |
| `Camera` | the calls of the camera module, its task, its timer and its USB listener | timers and signals as in `KernelTimers` |
| `VideoTask` | the calls of the video module and its tasks | |
| `EventProofs`, `KernelTimersProofs`, `AtomicFileProofs`, `AudioMixerProofs`, `ModuleManagerProofs`, `MicrophoneProofs`, `CameraProofs`, `VideoTaskProofs` | theorems and proofs | extend the module they are about; `EventProofs` is about `EventDispatch`, `EventListener` and `EventManager` |
| `MC...` | constants for TLC that a `.cfg` cannot write | extend the module they instantiate |

Variables and actions have the names of the fields and functions of the source
where there are any. Operators commented *Faulty* are no part of any
specification: each is a plausible slip in the operator that follows it, kept to
show that the properties would notice.

**`EventDispatch`.** One action is one step of one thread between points where
another can see it. `PostEvent` allocates the copy, `SendMessage` is the blocking
`mq_send`; a listener may call both from the dispatcher (`HandlersPost`).
`Drain`, `DrainTimeout`, `TestRun`, `Receive`, `ReceiveTimeout`, `Dispatch` or
`Discard`, `FreeMessage` and `CloseQueue` are the lines of `EventDispatchTask` in
order; `FinishStartup`, `StopPolling`, `StopDispatcher` and `JoinDispatcher` the
waits of constructor and destructor. The polling threads have the loop of
`ButtonPowerUSBTask` and `CartridgeTask`: `PollEvents` while `bThreadRun_` is set,
`AcceptPeer` into an inner loop of `recv` that looks at no flag, `PeerCloses` out
of it, and `PollExit` at the test of the flag, or at once when `CartridgeTask`
cannot listen. A thread may post from either loop. The queue may begin with messages of a dead
process. A message is a number, its place in the order of allocation.

**`EventListener` and `EventManager`.** `CheckNextListener` and
`StoreNextListener` are the two halves of `SetNextListener`, which takes no lock.
A walk is a record: the entries still to read, the listener it is at, whether its
`Notify` runs, and history. Between two steps of a walk anything may happen:
`AddListener` with its two ways to place an entry and its growth, which frees the
array under the walk; `UnregisterEventListener`, which moves the later entries
down; `DestroyListener`. The entries past `numListeners` keep what was there, as
memory does. An event is under way one at a time; synchronous posts from inside
`Notify` nest on the same thread and do not change what a step of the outer walk
may find between two of its steps.

**`KernelTimers`.** Calls are cut where the lock is taken or not taken:
`FindSignal`, `AddSignal`, `PushTimer`, `SpawnTask` are `CreateTimer`;
`DeleteTimer`, `FreeTimer`, `EraseTimer` are `DestroyTimer`; `PauseTimer` and
`PauseStop` read and then stop a timer. The thread is `WaitSignal`, `Lookup`,
`Callback`. The kernel's side is external: `Expire` queues at most one
notification per timer, `WaitSignal` takes the lowest signal pending, deleting a
timer leaves what it has queued.

**`ModuleManager`.** Each thread has a stack of calls, for a constructor that
connects runs inside `Connect`. A pointer to an entry of the vector is a
position, so that after an erase it names what moved there. Counting reads and
writes in two steps, as `++` on shared memory does.

**`AtomicFile`.** Each library call of `fcloseAtomic` is a step that succeeds or
fails. A file's content is the sequence of who wrote its blocks, and how much of
it is safe from a crash; `Crash` may cut files behind that and undo renames.
`fopenAtomic` for append copies the real file (`CopyAndOpen`) or, when opening that
one fails for any reason, goes on as if it were not there (`OpenUnread`), which
`unread` remembers. A client's write may fail and add nothing.
`overtaken` remembers the sessions that were open when another one was
renamed over their file.

**`AudioMixer`.** A section under the mixer's lock is one step, for all others
take the same lock; the module's lock is the variable `audioLock`. `StartAudio`
is `AddPlayer` and `CreatePlayer` up to the unlock: the stream is chosen and
emptied, the limit tested, a second player halted at the limit. `Construct` or
`ConstructFails` runs with the mixer unlocked, `Attach` is the rest; an output of
its own that cannot be opened leaves `AlsaOutput` with the stream it had, which
nobody notices. `FindStream` and `SetAudioPriority` are the halves of the queries.
The callback thread goes through a pass of the mixer (`Render`, or `RenderStalls`
when a memory player has no data), `TakeExternal`, which reads the external stream
with nothing locked, and `RenderExternal` of the stream that was read. A clip is the number of frames it has
left, a buffer is `Buffer` frames.

**`Microphone`, `Camera` and `VideoTask`.** `call` says where each thread is in a
call, `task` where the task of each capture or video is; a lock is a variable
that names its holder, and a section under it in which nobody else can interfere
is one step. `StartLocks`, `InitMicTask` (`InitCameraTask`) and `StartReturns`
are the halves of a start around its wait for `bRunning`; `StopLocks`,
`HaltTask` and `StopReturns` those of a stop around its wait for `bStopping` and
the join. The USB listener runs the same stop with a handle it has read before
(`ReadHandle`); in the microphone a report that the device is there opens it again
(`Plug`, `PlugOpens`), during a capture as well, under a mutex that no capture
takes. The microphone's timer callback is a thread that calls stop; the
camera's sets a flag. Of a timer the state of its signal is kept too: `Expire`
queues it, `TaskEnds` destroys the timer and leaves it, and `TimerTask` takes it
and calls back for the timer that has the signal now, which may be a later
capture's (`timerFor`; `strayed` and `late` remember for whom) or nobody's. Signals
of other modules' destroyed timers come in as well (`None` of `Owner` in
`Microphone`, `ForeignCallback` in `Camera`). An end event is notified by the task itself: its listener
may call the module (`ListenerCalls`) and waits for the locks. `GrabFails` has a
disjunct for each state in which a failing step of `GrabFrame` leaves the stream
and `bPaused`. In `VideoTask` a context is memory that can be used after it was
freed; `raced`, `overlap` and `fault` remember what has gone wrong. `CallPause` and
`CallQuery` take a handle for the address of a context and look at nothing, or at
a field of it; `SetPaused` and `Query` use the context once they have the mutex,
which is when a stop may have freed it. The reads and
writes of `bRunning` and `bCodecReady` by the task are separate steps
(`TaskDecides` and `TaskGoesOn`), for a stop may come in between.

## What the runs check

| Run | Question |
|---|---|
| `dispatch` | Is each copy of a message owned once, freed once and never used later, are stale messages dropped, is order kept, does everything come to rest? |
| `listeners` | What does a delivery guarantee while listeners come, go, chain and are destroyed? |
| `timers` | Does an expiry reach its own callback, once, with live data, and does the destructor end? |
| `atomic_file` | Is a file replaced as a whole, and is the caller told, whichever call fails and whenever the machine crashes? |
| `atomic_file_torn` | Is a file always completely changed or unchanged? Not after a failed `fclose`. |
| `modules` | Is what a client holds alive, loaded and counted, until calls disturb each other? |
| `mixer` | Is any player lost, used after deletion, halted against the policy, finished without its message or never finished? |
| `mixer_policy` | Does a start without a policy fail when all streams play, and is no player halted for one of lower priority? The last stream's player is halted. |
| `microphone` | Does a capture keep its device and end once, for the reason it tells, whoever stops it, and does each call return? |
| `video` | Is a context freed once and after its task, and does each call return, although flags are shared and overwritten? |
| `camera` | Does a frame stay mapped, does pausing last, does a lost stream come back, and does each call return? |
| `camera_paused` | Does nothing but a resume end a pause? A failing snapshot does. |

In many properties the code is right only under a condition, and the property
names it: `CyclesOnlyFromOverlap`, `FaultNeedsDisturbance`,
`SharedSignalNeedsOverlap`, `QuietDestroyIsSafe`, `ChangedAsTold`,
`AppendKeepsContent`, `HeldUnlessDisturbed`, `DeviceHeld`, `FaultsNeedRace`,
`FramesStay`, `EndIsExplained`. The run
that passes shows that nothing but the named condition breaks the promise; the
violation run beside it shows, where a document or a test makes the promise
without the condition, that the condition occurs.

- *dispatch.* `SelfBlocked` is the one way the manager stops by itself: a listener
  on the dispatching thread posts at low priority while the queue is full, and only
  that thread empties it. `EveryMessageHandled` holds in every behaviour where it
  does not happen. `ShutdownTerminates` needs `PeersHangUp` as well: a peer that
  keeps its connection to a polling task open keeps the destructor in its join
  for as long. It begins where the destructor waits for the polling threads, so it
  includes that their posts return. `ImplementsChannel` is the refinement of
  `AsyncChannel!Safe`.
- *listeners.* A walk that nobody disturbs reads every entry once. Removing the
  listener being notified, or one registered later, is harmless. Removing an older one makes
  the walk read an entry twice but miss none. Growth during the walk makes it read
  freed memory, and so does a destroyed listener that was registered twice.
- *timers.* `OwnExpiry` tells the cases in which a callback answers another
  timer's expiry: an expiry still queued on a signal that was given out again.
  `OneShotFiresOnce` holds but for an expiry between the read and the write of
  `PauseTimer`. `ExpiryAnswered` is subject to starvation by lower signals.
- *atomic_file.* `ChangedAsTold` relates results to the disk. `AppendKeepsContent`
  names the two ways in which a commit loses what an appending session should
  have kept: the real file was there and could not be opened (`unread`), or the file
  goes by two names, which are compared as text, and another session was
  committed in between (`overtaken`).
- *modules.* `HeldUnlessDisturbed` is `HeldIsLive`, what a client holds is alive
  and loaded, and `CountsMatch`, the accounting between calls: entries, live
  instances, references and loaded libraries agree. One thread by itself can
  disturb them, when a destructor disconnects.
- *mixer.* `PlayersAccounted` and `FoundPlayerStays` show that the module's lock
  makes up for the mixer's being given up. `HaltedByRule` is the documents' rule
  for a start that finds a stream free; without one the rule is broken, as
  `mixer_policy` shows. `DoneIsTold` excepts looped clips shorter than a buffer: they end
  twice in one pass, and stay silent and unreported after that. `PlaysOut` is for
  players some callback renders: an external one is not, once a newer one has
  taken its output.
- *microphone.* `DeviceHeld` fails only when the USB listener has read the handle
  before a start stored it, for then it forgets a capture that goes on, and closes
  the device under its task; and for a capture under which the listener opens the
  device again. `EndIsExplained` allows a wrong reason only after a capture ended
  while its timer's callback was waiting for the lock, which then stops the next
  one, and for a capture whose timer was given the signal of a destroyed one that
  had expired. `LimitEnds` is about a capture's own expiry, whether its timer
  is there still when the signal is taken or not. `CallsReturn` and `LimitEnds` name the two ways in which
  the threads wait for each other for ever (`SelfBlocked`): a listener calls the
  module from the end event while somebody waits for the task, and the trigger
  event meets a full queue whose dispatching thread is in a call.
- *video.* `FaultsNeedRace` says which misuse of the interface each fault in memory
  needs: memory is used after it was freed when tasks overlap, when two calls stop
  one video, or when a call that pauses or queries it waits for the mutex while it
  is stopped. None is needed for tasks to be stopped by a flag they overwrite, since
  `StopMarks` has cleared `bCodecReady` before (`CallsReturn`).
  `StopTerminates` is what the documents promise of `StopVideo`.
- *camera.* `FramesStay` is what `mThread` is for; `stale` names the path that does
  not take it. In `EndIsExplained` a capture is told that its time has elapsed when
  its own timer's signal was taken, or, one of `late`, when that of another timer
  was while it was the last capture. `PauseOutlivesSnapshot` holds but for the failures `GrabFails` lists.
  `SelfBlocked` has two more ways to stop than the microphone: a frame's listener
  calls the module, and a restart that failed leaves `mThread` locked by a task
  that has ended.

## Bounds

| Run | Instance | Why it is enough |
|---|---|---|
| `dispatch` | one application thread, two polling threads, the dispatcher; queue of 2 for 8; 4 posts; 1 stale message | the queue fills with each kind of poster blocked, and wraps past a full queue; one polling thread may wait for its peer and the other for the queue while both are joined |
| `listeners` | 3 listeners, 2 types of one group, `Slots` 4, 5 client calls | the array grows twice (at 0 and 2), a listener is registered twice with others before and behind, chains of three close; one listener lists a wildcard, the other two are interchangeable (symmetry) |
| `timers` | 2 clients, 2 signals, 3 timers, 1 task, timer 1 may be paused | signals run out and are given out again; the third timer is the destructor's; one thread is all `OneTimerTask` leaves without ending the process |
| `atomic_file`, `atomic_file_torn` | 3 names of 2 files, 2 FILEs, 2 opens, 2 writes each | two sessions on one file by two names, and a freed FILE handed out again |
| `modules` | 2 threads, modules A (needs B), B, C; clients call `Connect` 4 times; 8 objects at most, and 8 places in the vector (`MaxMade`) | nesting on both stacks, an erase under an outer call, two threads on one entry; after a disturbance the calls under way end and no new one starts |
| `mixer` | 2 clients, 2 streams, 3 players of classes with limit 1, clips of at most one buffer, one seek of a player, done messages counted up to 1 | all streams play, a class is at its limit with a stream free, two external players follow each other, the short loop ends twice in a pass |
| `mixer_policy` | 1 client, 2 streams, 3 players, no seeks and no changes of priority | two players fill the streams, the third is one too many |
| `microphone` | 2 clients, one of them the dispatching thread, the timer thread and the USB thread; a queue of 1; 2 captures, 3 calls, one expired signal of a timer of another module that is gone, or none | one capture can follow another while a callback, a signal or a handle of the first is under way: start, stop and start; start, removal and, after a return, start; start, another report that the device is there, and stop |
| `video` | 2 clients, 2 videos, 4 calls | two contexts on one set of globals: start and stop of both, two stops of one with another start, or a pause that waits while its video is stopped |
| `camera`, `camera_paused` | 2 clients and the USB thread, 2 captures, 3 calls, `PollMax` 1 for 1000 | start, pause and snapshot; start, snapshot and stop; start, removal and start; one poll without a frame is enough to restart |

`MaxPosts`, `Slots`, `MaxChanges`, `MaxTimers`, `Pausable`, `MaxOpens`,
`MaxWrites`, `MaxMade`, `MaxPlayers`, `MaxTold`, `MaxCaptures`, `MaxVideos` and
`MaxCalls` are bounds of the model and stand in guards; `MaxCalls` counts the
calls of clients and the changes of a device together, but in `Microphone` not the
return of a device that was pulled out. `QueueMax`,
`SigMax` and `PollMax` are sizes the code has too. The count of a module wraps at
`CountMod`, which stands for 2^32.

## Fairness, and why deadlock is not checked

Fairness is what a scheduler that runs every runnable thread gives, and no more.
`EventDispatch`: weak fairness of each thread's own step, of the dispatcher's
loop, of the polling threads' loops, and of the destructor once begun. Nothing makes
a thread post, a peer close its connection or the process shut down, and a
listener is taken to return from `Notify`.
`KernelTimers`: a call in progress goes on, so does `TimerTask`, so does the
destructor, and a timer that is armed expires while the destructor waits for it.
`AudioMixer`: the callback thread runs, and a memory player's own callback has
data again in the end; no client is assumed to go on. `Microphone`: a call in
progress, the task, `TimerTask`, the USB listener and the dispatching thread go on,
for which `snd_pcm_open` and the other calls of the sound library have to return.
Nothing makes a client call, a timer expire, a device come or go, or a listener
call back.

Strong fairness is assumed only where a lock is free again and again and its
waiter asleep for a short while only. In `Camera` the task gives up `mThread` and sleeps for a
millisecond after each poll, and waits for it by trying (CameraTask.cpp); all
steps of a thread share one condition, so that a thread that can go on does but
the choice between a snapshot that succeeds and one that fails stays open. In
`VideoTask` a stop gives the mutex up for 10 ms at a time; its 50 tries end after
490 ms whatever the task does (`StopGivesUp`). The other modules have no liveness property:
`EventManager`'s walk ends by counting down unless a chain has a cycle, which
`CyclesOnlyFromOverlap` covers, and the steps of the others are straight lines.

The mixer's callback thread never ends, and its runs check for deadlock. Every
other system here may rightly stop, so no other run does: applications
stop calling, processes crash, and the bounds on calls are reached. In
`EventDispatch` a self-blocked dispatcher stops every thread; that state is
named, and the liveness properties say it is the only one.

## What is proved

TLAPS checks the proofs in the eight `...Proofs` modules. They hold for every
value of the constants that meets the assumptions in the modules, and those only
say that null values differ from real ones, that bounds are natural numbers
(some of them positive), that some sets have a member, that there are finitely many
modules and threads to connect them, and that the tables of types, requests and
needs are well formed.

**`EventProofs`**, about `EventDispatch`, for any number of threads, queue size and number of
messages: `TypeCorrect`, `NoMessageUsedAfterFree` (`OneOwner`),
`StaleMessagesDropped` (`NoStaleDispatch`), `JoinOrderIsSafe`
(`NoOrphanedPoster`) and `DispatchImplementsChannel`, the refinement. The
invariant is `TypeOK /\ LifeCycle /\ Owned /\ OneOwner /\ InOrder`. `OneOwner` by
itself is not inductive: that a newly allocated copy is nobody's needs `Owned`
(what is in the heap has been allocated), and that no thread is left inside
`mq_send` needs `LifeCycle` (which stage of start and stop each thread is in).
`InOrder` says that what was accepted is what was handled, then what is in hand,
then the queue, which is why a step of the detailed model is one of the abstract
model.

About `EventListener`, for any number of listeners: `CyclesNeedOverlap`. The strengthening, `LinksChecked`, is that until calls have overlapped at most one
is between its check and its store, and what it checked still holds. Chains are
closed sets and not walks, so that no induction is needed.
`DisabledListFits`: the disabled types are listed types, each once
(`DisabledOnce`), and so inject into the places of the event list.

About `EventManager`, for any number of listeners and entries:
`ManagerTypeCorrect`; `ManagerCyclesNeedOverlap`, by showing that the manager's
steps are steps of `EventListener` or leave it alone; `DestructorUnregisters`;
`DeliveryIsExact`; `DeliveryMissesNone`; `FaultsAreDisturbances`, an action
property. `UndisturbedWalkIsExact` and `NoListenerMissed` speak of a walk's end
and are not inductive: `WalkExact` and `WalkComplete` say the same of every
moment, with the entry of a listener not read yet still ahead of the walk.
`FaultsAreDisturbances` needs both `WalkExact` (an undisturbed walk stays among the
entries that count) and `NoDeadEntry` (which are of live listeners).

**`KernelTimersProofs`**, for any number of clients, signals, timers and tasks:
`TimersTypeCorrect`, `SignalsNeedOverlap` (`SharedSignalNeedsOverlap`), `ExpiriesAreOwn`
(`OwnExpiry`), `QuietDestroysAreSafe` (`QuietDestroyIsSafe`) and `OneShotsFireOnce`
(`OneShotFiresOnce`). The invariant has two halves. `Calls`, `Handles`, `Ending` and
`List` hold in all states: which timer each call has in hand, and that `listMemory`
has one entry for each timer that was pushed and not erased yet. `Handles` counts:
there is a handle left for each client that chooses a signal and one for the
destructor, which is why the type of `ctmr` holds at the last timer. `Signals` and
`NothingOnTheWay` hold until two clients have chosen a signal at once. `DestroyTimer`
clears a timer's signal before it erases the entry, so "the signals of listed timers
differ" is not inductive: another client may choose that signal in between.
`Signals` excepts the entry that is being erased, and `timers_mutex`, held all along
(`TypeOK`), keeps the newcomer out of the list until it is gone. `Routed` says that
each signal on its way names a timer whose entry has that signal, and
`OneShotFiresOnce` needs `Shots`: an armed or saved one-shot has exactly one expiry to
come.

**`AtomicFileProofs`**, for any number of names, files, FILEs, sessions and writes:
`AtomicTypeCorrect` (`TypeOK`), `FilesChangeAsTold` (`ChangedAsTold`) and
`AppendsKeepContent` (`AppendKeepsContent`), whatever names the files have. `AllOrNothing` speaks of the content a
file has now, but a crash may bring back an older one and cut it, so the invariant
says of every content still on the disk that it is whole and synced (`Versions`). That a
rename adds another such content takes `Flushed` (when `fclose` is reached, the work file
has all of the session's data and is synced to the end) and `OwnRecord` (the
record that `find_by_fp` finds by its FILE is the caller's own). `OwnRecord` is what
an error of `fclose` destroys, and the only thing: `Sound`, the part of the invariant that
`freedByError` excuses, holds until then, and `atomic_file_torn` shows it fail after.
`Fresh` says that sessions not opened yet have left no trace. `AppendsKeepContent` does
without `Sound`: even after such an error, what a session writes begins with the
content of its file (`Appending`), as long as it could read that when it was opened
and no other session was renamed over the file since; `Faithful` are the sessions with
a record of which both is true.

**`AudioMixerProofs`**, for any number of clients, streams and players and any set of
requests: `MixerTypeCorrect` (`TypeOK`), `PlayersAreAccounted`, `FoundPlayersStay`,
`DoneMessagesSent` (`DoneIsTold`), and two action properties, `PlayersHaltedByRule`
(`HaltedByRule`) and `ToldOnlyOnCompletion` (`ToldOnCompletion`). `Locked` carries most of
it: between two sections of the mixer's mutex the call has the module's mutex, so that
what the callback thread does meanwhile (it finishes players and never removes one) is
all that can happen to a stream chosen by `AddPlayer` or a player found by a query
(`Calls`). `Streams` and `Counts` say that stream, player and count agree, with the player of
a call between construction and attachment in no stream yet; `DoneIsTold` needs `Loops`.
Of the stream that the callback thread has read from `AlsaOutput` only `Taken` is
known, that there is one: it may have another player by then, or none.
`HaltedByRule` also rests on lemmas about the three searches (`FindFreeStream`,
`FindKillableStream`, the limits of the classes), which are proved for every number of
streams.

**`ModuleManagerProofs`**, for any finite sets of threads and modules, any `Needs`
(circular ones too) and any bounds: `ModulesTypeCorrect` (`TypeOK`) and
`InstancesStayHeld` (`HeldUnlessDisturbed`). The invariant is
`TypeOK /\ Formed /\ (raced \/ shifted \/ Undisturbed)`. `Formed` holds whatever the calls
do to each other: a frame points at a place that has held an entry, calls of
`Connect` nest in constructors and calls of `Disconnect` in destructors. The rest holds
until calls have disturbed each other. That what a client holds is alive is not
inductive, because it is the count that keeps an instance: `Counted` says that the
count of an entry is the number of `References`, which are clients, the objects
constructed with it, and calls of `Disconnect` that have not counted down yet; `Listed`
that a module has one entry at most; `Living` that the instance of an entry exists unless
a call is destroying it (`Leaving`). `Connecting` and `Disconnecting` say what each call on a
stack knows, at every depth: the module that it loads has no entry, the entry that it
destroys has no reference left. `Apart` leaves a thread that loads or destroys alone
(`OthersIdle`), so that only its own inner calls can take this knowledge away: a
constructor's calls only add entries, an inner erase keeps the entries of the outer
calls unless `shifted`, and where needs are circular the inner calls never return
(`NotBelow`), which is why `Connecting` counts a library only where its module is
`Alone` on the stack. `Unlisted` says what is left of a module with no entry: nothing, unless a
call is loading it. The counts of sets of references are finite sums, of which
`CountMod` is a bound, so that no count wraps.

**`MicrophoneProofs`**, for any number of clients, captures and calls and any
size of the event queue: `MicrophoneTypeCorrect`, `DeviceIsHeld` (`DeviceHeld`) and
`CapturesEndAsTold` (`EndIsExplained`). Neither property is inductive. That the device is open
for a recording needs `OneTask` (until `stale`, the last capture alone has a task that
has not ended, the handle is its own, and the device is open or the listener has
opened it again, which may have failed) and `Calling` (one thread at most is
starting one); that an end event has been posted for every other capture needs `Stopping`
(a capture that is over while it is the current one has somebody waiting for its task,
who holds `dlock`); that its reason is true needs `OwnTimer` (the capture that a
callback under way will stop is the one under way, and its own timer has expired
or has answered the signal of one that was gone).

**`CameraProofs`**, for any number of clients, captures, calls and polls:
`CameraTypeCorrect`, `FrameIsKept` (`FramesStay`), `CapturesEndAsTold`
(`EndIsExplained`) and `PauseIsKept` (`PauseOutlivesSnapshot`). `FramesStay` needs `Locked`:
a task with a frame holds `mThread`, and so does every thread at a point where it
turns the stream off. `EndIsExplained` needs `Ended`: a task that has left its loop, or
is about to, was stopped, has failed, or has run out of time, and `timeout` was set
by the last capture's own timer or has made that capture one of `late`. Pausing is inductive
by itself.

**`VideoTaskProofs`**, for any number of clients, videos and calls: `VideoTypeCorrect`,
`FaultsAreRaces` (`FaultsNeedRace`) and `StopEndsTask` (`StopTerminates`). The invariant
says what each kind of misuse would break and holds until that misuse has happened: one
call stops a video, and the video is live until then (`OneStop`); while a call waits to
use a context, the context is live and nobody is stopping its video (`OneUse`); one
video is live and the global handle is its task (`OneVideo`); one task is active
(`OneTask`); a live context's task is its own and not joined (`OwnTask`). `Contexts` ties the list of
handles to the contexts.

Only TLC checks: liveness (`ShutdownTerminates`, `EveryMessageHandled`,
`DestructorReturns`, `ExpiryAnswered`, `PlaysOut`, `CallsReturn`, `LimitEnds`,
`StreamRecovers`), which is out of TLAPS's reach under fairness.

## Where the code disagrees with its documents

1. *A torn file* (`atomic_file_torn`). After an `fclose` that fails, the record
   stays with a FILE that is freed and may be handed out to another open;
   closing that one renames the first one's work file.
2. *A player halted against the policy* (`mixer_policy`). `AudioTypes.h:145-148`
   has a start without a policy fail when all channels are full or the maximum
   number of players is in use, and 164-170 allow only players of no higher
   priority to be halted. `FindFreeStream` answers with the last stream when none is
   free, `AddPlayer` halts its player whatever its priority and the policy, and the
   start may fail after that. The page is contradicted a second way, which needs a
   longer behaviour: with a stream free and the class at its limit,
   `FindKillableStream` offers any finished player, of whatever class
   (Mixer.cpp:773, 801), and the new player is made beyond the limit of its own class.
3. *A pause that ends by itself* (`camera_paused`). `CameraMPI.h:49` has a pause end
   with a resume. A snapshot that fails after it has restarted the stream leaves
   `bPaused` cleared: the assignment that should restore it goes the wrong way
   (CameraCommon.cpp:2971).

`PROJECT.json` quotes the line each of these contradicts. More have no run of
their own; the conditions in properties of the passing runs name them, but for
the last. *Unregistered listeners are notified*: the walk holds a raw pointer and a
count, and when older entries go it reads slots behind the end
(`NoListenerMissed`, `FaultNeedsDisturbance`). *One signal for two timers*: the scan
for an unused signal and its reservation are not locked (Kernel.cpp:884)
(`SharedSignalNeedsOverlap`). *An instance in use is deleted*: the inner erase of a
nested `Disconnect` moves the entry the outer call points at
(`HeldUnlessDisturbed`). *An append loses the file*: `fopenAtomic` takes every
failure to open the real file for its absence, and the commit that follows replaces
the old content (`AppendKeepsContent`). *Freed contexts are used*: a handle is the
address of a context, and a call that waits for the mutex while the video is stopped
writes to freed memory (`FaultsNeedRace`). *A capture ends by another's timer*: a
signal left queued by a destroyed timer is answered by the next that has it
(`EndIsExplained`, `OwnExpiry`). *Copies are not all freed*: `Event.cpp:156` wants every
message freed before the thread exits, but one that is received after the run
flag was cleared, and all that are queued, keep their copies; the actions
`Discard` and `CloseQueue` of `EventDispatch` show where.

## What is not modelled

- *Response listeners.* `PostEvent` may name a listener to be told first; the
  queue then holds its raw pointer. Messages in `EventDispatch` carry none.
- *Two walks at once.* Events delivered from several threads at once run separate
  walks over one array; each may disturb the other only through handlers, and
  that is in the model.
- *Torn reads.* Memory is read and written in words. The moves of
  `RemoveListener` and the growth of the vector of modules are one step each.
- *In the module manager,* the search of the module directory, the errors of
  `dlopen`, which power the device down, and the move of the vector to a larger
  buffer.
- *Signals by number.* Real-time signals are those the timers use; a process in
  which other code takes some is not modelled.
- *In the mixer,* volumes and pan, loop-end and time events, the impersonation of
  MIDI, the exchange of priority and volume for old titles, the failures of the
  mixer's own sound device and of the allocation of a buffer, and identifiers that
  come round again. Events are counted, not queued:
  that the callback may wait for the event queue with the mixer locked is a hazard
  without a property.
- *In the recorders,* samples, files, sound, modes, controls and rendering, capture
  frame by frame without a task, and the destruction of the module. `bInited` of
  the camera changes under `mutex_` together with the task and is left out.
- *In the video player,* decoding, audio, frame times, the display, seeking by
  clients, and the task for GStreamer, which replaces the one modelled only in
  builds with that library.
- Components with status `not_modelled`, each with its reason in `PROJECT.json`.

## Plan

Done, in this order: `EventDispatch` with `AsyncChannel`, its proofs;
`EventListener`; `EventManager`; `KernelTimers`; `AtomicFile`; `ModuleManager`;
the proofs about listeners and the manager; `AudioMixer`; `Microphone`;
`VideoTask`; `Camera`.

Then their proofs: `VideoTaskProofs`, `MicrophoneProofs`, `CameraProofs`,
`KernelTimersProofs`, `AudioMixerProofs`, `AtomicFileProofs`, `ModuleManagerProofs`.

Next, the most important first:

1. The button, touch and cartridge tasks, as far as they keep state between
   polls; the double-buffered queues; `ThreadCommQueue`.
2. A run for wildcard listeners that disable more types than their list has room
   for (`DisabledAlwaysFits`).
