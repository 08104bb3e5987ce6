----------------------------- MODULE Microphone -----------------------------
(***************************************************************************)
(* The microphone module (System/Microphone: Microphone.cpp and            *)
(* MicrophoneTask.cpp).  Clients start, stop, pause and resume a capture;  *)
(* a task of its own records it; the kernel's timer thread stops it at its *)
(* time limit; the thread that reports USB changes stops it when the       *)
(* device is pulled out, and opens the device again on any other report,   *)
(* under a mutex that no capture takes.  They meet in the flags of         *)
(* MicrophoneTask.cpp, which are polled, and in the module's context,      *)
(* which is guarded by dlock (DATA_LOCK).                                  *)
(*                                                                         *)
(* The end event has priority 0, so the listener is notified on the        *)
(* recording task; the trigger event has priority 128 and goes through the *)
(* event queue, which the dispatching thread empties.                      *)
(***************************************************************************)
EXTENDS Naturals

CONSTANTS
  Client,       \* threads of the application
  Dispatcher,   \* the client that is the event module's dispatching thread
  Timer,        \* the kernel's TimerTask
  Usb,          \* the thread that posts USB changes: it runs the module's listener
  NoOne,
  QueueMax,     \* messages the event queue has room for
  MaxCaptures,  \* bound: captures started in a behaviour
  MaxCalls      \* bound: calls made by clients, and USB changes: see Plug

Actor == Client \cup {Timer, Usb}
Capture == 1..MaxCaptures
None == 0     \* no capture; of timers, one of another module that is gone
Owner == Capture \cup {None}

ASSUME ActorAssumption == /\ Dispatcher \in Client
                          /\ Timer \notin Client /\ Usb \notin Client
                          /\ Timer # Usb /\ NoOne \notin Actor
ASSUME BoundAssumption == /\ QueueMax \in Nat \ {0}
                          /\ MaxCaptures \in Nat /\ MaxCalls \in Nat

VARIABLES
  dlock,       \* holder of micCtx_.dlock
  call,        \* where each thread is: see Place
  hndl,        \* micCtx_.hndl is a capture handle; there is only one value for it
  hMicThread,  \* the task's handle: the capture it records
  bRunning, bStopping, bInited, timeout,
  valid,       \* the microphone is present
  pcm,         \* pcm_handle: the device is open
  bPaused,     \* micCtx_.bPaused
  limit,       \* micCtx_.maxLength is not zero
  task,        \* where the task of each capture is
  wasPaused,   \* bWasPaused of each task
  timer,       \* the timer of each capture, and its signal: see TimerState
  timerFor,    \* the capture whose timer TimerTask answers
  usbHndl,     \* the handle the USB listener has read
  queue,       \* messages in the event queue
  captures, calls,
  stoppedBy,   \* history: who cleared bRunning for a capture
  told,        \* history: the end event posted for a capture
  late,        \* history: a capture ended while the callback of its timer was under way
  stale,       \* history: a device was closed by way of a handle read too early
  strayed,     \* history: captures whose timer answered the signal of one that was gone
  replugged    \* history: captures whose device was opened again under them

flags == <<bRunning, bStopping, bInited, timeout>>
history == <<stoppedBy, late, stale, strayed, replugged>>
vars == <<dlock, call, hndl, hMicThread, flags, valid, pcm, bPaused, limit, task,
          wasPaused, timer, timerFor, usbHndl, queue, captures, calls, told, history>>

Place == {"idle", "start", "fill", "await", "stop", "halt", "join",
          "callback", "read", "deinit", "plug"}
Step == {"none", "begin", "starting", "loop", "send", "ending", "notify",
         "calling", "called", "ended"}
Reason == {"removed", "stopped", "timeout"}  \* "timeout" is also the disk's quota

(* A timer that expires queues a signal, which outlives it: "expired" until *)
(* TimerTask has taken the signal, "fired" from then on.                    *)
TimerState == {"off", "armed", "paused", "expired", "fired"}

TypeOK ==
  /\ dlock \in Actor \cup {NoOne} /\ call \in [Actor -> Place]
  /\ hndl \in BOOLEAN /\ hMicThread \in Capture \cup {None}
  /\ {bRunning, bStopping, bInited, timeout, valid, pcm, bPaused, limit} \subseteq BOOLEAN
  /\ task \in [Capture -> Step] /\ wasPaused \in [Capture -> BOOLEAN]
  /\ timer \in [Owner -> TimerState]
  /\ timerFor \in Owner /\ usbHndl \in BOOLEAN
  /\ queue \in 0..QueueMax /\ captures \in 0..MaxCaptures /\ calls \in 0..MaxCalls
  /\ stoppedBy \in [Capture -> Actor \cup {NoOne}]
  /\ told \in [Capture -> Reason \cup {"none"}]
  /\ late \in BOOLEAN /\ stale \in BOOLEAN
  /\ strayed \subseteq Capture /\ replugged \subseteq Capture

Init ==
  /\ dlock = NoOne /\ call = [a \in Actor |-> "idle"]
  /\ hndl = FALSE /\ hMicThread = None
  /\ bRunning = FALSE /\ bStopping = FALSE /\ bInited = FALSE /\ timeout = FALSE
  /\ valid = TRUE /\ pcm = FALSE /\ bPaused = FALSE /\ limit = FALSE
  /\ task = [r \in Capture |-> "none"] /\ wasPaused = [r \in Capture |-> FALSE]
  /\ \E left \in {"off", "expired"} :
       timer = [r \in Owner |-> IF r = None THEN left ELSE "off"]
  /\ timerFor = None /\ usbHndl = FALSE
  /\ queue = 0 /\ captures = 0 /\ calls = 0
  /\ stoppedBy = [r \in Capture |-> NoOne] /\ told = [r \in Capture |-> "none"]
  /\ late = FALSE /\ stale = FALSE /\ strayed = {} /\ replugged = {}

Goto(a, place) == call' = [call EXCEPT ![a] = place]
TaskGoto(r, step) == task' = [task EXCEPT ![r] = step]

(* A call of a client; those that start captures leave room for one each.   *)
Calls(c) == /\ call[c] = "idle" /\ calls < MaxCalls
            /\ calls' = calls + 1
-----------------------------------------------------------------------------
(* StartAudioCapture and InitMicTask *)

Starting == {c \in Client : call[c] \in {"start", "fill"}}

CallStart(c) ==
  /\ Calls(c) /\ Starting = {} /\ captures < MaxCaptures
  /\ Goto(c, "start")
  /\ UNCHANGED <<dlock, hndl, hMicThread, flags, valid, pcm, bPaused, limit, task,
                 wasPaused, timer, timerFor, usbHndl, queue, captures, told, history>>

(* DATA_LOCK; the device is opened when it is closed, which may fail; a     *)
(* capture under way or an absent microphone refuses the call.              *)
StartLocks(c) ==
  /\ call[c] = "start" /\ dlock = NoOne
  /\ \/ ~pcm /\ Goto(c, "idle") /\ UNCHANGED <<dlock, pcm>>
     \/ (hndl \/ ~valid) /\ pcm' = TRUE /\ Goto(c, "idle") /\ UNCHANGED dlock
     \/ ~hndl /\ valid /\ pcm' = TRUE /\ Goto(c, "fill") /\ dlock' = c
  /\ UNCHANGED <<hndl, hMicThread, flags, valid, bPaused, limit, task, wasPaused,
                 timer, timerFor, usbHndl, queue, captures, calls, told, history>>

(* The directory is missing or the disk is full: the context is changed.    *)
StartNoSpace(c, paused) ==
  /\ call[c] = "fill"
  /\ bPaused' = paused
  /\ Goto(c, "idle") /\ dlock' = NoOne
  /\ UNCHANGED <<hndl, hMicThread, flags, valid, pcm, limit, task, wasPaused,
                 timer, timerFor, usbHndl, queue, captures, calls, told, history>>

(* The context is filled in, the flags are cleared and the task is created. *)
InitMicTask(c, paused, max) ==
  /\ call[c] = "fill"
  /\ bPaused' = paused /\ limit' = max
  /\ hndl' = TRUE
  /\ bRunning' = FALSE /\ bStopping' = FALSE
  /\ captures' = captures + 1 /\ hMicThread' = captures + 1
  /\ TaskGoto(captures + 1, "begin")
  /\ Goto(c, "await")
  /\ UNCHANGED <<dlock, bInited, timeout, valid, pcm, wasPaused, timer, timerFor,
                 usbHndl, queue, calls, told, history>>

(* while (!bRunning) is over.                                               *)
StartReturns(c) ==
  /\ call[c] = "await" /\ bRunning
  /\ bInited' = TRUE
  /\ Goto(c, "idle") /\ dlock' = NoOne
  /\ UNCHANGED <<hndl, hMicThread, bRunning, bStopping, timeout, valid, pcm, bPaused,
                 limit, task, wasPaused, timer, timerFor, usbHndl, queue, captures,
                 calls, told, history>>
-----------------------------------------------------------------------------
(* StopAudioCapture and DeInitMicTask, which clients, the timer's callback  *)
(* and the USB listener call.                                               *)

CallStop(c) ==
  /\ Calls(c) /\ captures > 0
  /\ Goto(c, "stop")
  /\ UNCHANGED <<dlock, hndl, hMicThread, flags, valid, pcm, bPaused, limit, task,
                 wasPaused, timer, timerFor, usbHndl, queue, captures, told, history>>

(* IS_THREAD_HANDLE of the argument: clients have the handle that           *)
(* StartAudioCapture returned, the callback the one the task has stored.    *)
IsThreadHandle(a) == IF a = Usb THEN usbHndl ELSE TRUE

(* Where a thread goes on after StopAudioCapture.                           *)
Return(a) == /\ Goto(a, IF a = Usb THEN "deinit" ELSE "idle")
             /\ timerFor' = IF a = Timer THEN None ELSE timerFor

(* Faulty: the early return leaves dlock locked.                            *)
StopLocksForGood(a) ==
  /\ call[a] = "stop" /\ dlock = NoOne
  /\ dlock' = a
  /\ IF hndl THEN Goto(a, "halt") /\ UNCHANGED timerFor ELSE Return(a)
  /\ UNCHANGED <<hndl, hMicThread, flags, valid, pcm, bPaused, limit, task, wasPaused,
                 timer, usbHndl, queue, captures, calls, told, history>>

(* DATA_LOCK; without a capture the call is over.                           *)
StopLocks(a) ==
  /\ call[a] = "stop" /\ dlock = NoOne
  /\ IF hndl THEN Goto(a, "halt") /\ dlock' = a /\ UNCHANGED timerFor
             ELSE Return(a) /\ UNCHANGED dlock
  /\ UNCHANGED <<hndl, hMicThread, flags, valid, pcm, bPaused, limit, task, wasPaused,
                 timer, usbHndl, queue, captures, calls, told, history>>

(* The handle is not one of a task, or there is no task: the capture is     *)
(* forgotten and the device closed, whatever runs.                          *)
StopForgets(a) ==
  /\ call[a] = "halt" /\ (~IsThreadHandle(a) \/ hMicThread = None)
  /\ hndl' = FALSE /\ pcm' = FALSE
  /\ stale' = (stale \/ hMicThread # None)
  /\ Return(a) /\ dlock' = NoOne
  /\ UNCHANGED <<hMicThread, flags, valid, bPaused, limit, task, wasPaused, timer,
                 usbHndl, queue, captures, calls, told, stoppedBy, late, strayed,
                 replugged>>

(* DeInitMicTask tells the task to stop, once InitMicTask is over.          *)
HaltTask(a) ==
  /\ call[a] = "halt" /\ IsThreadHandle(a) /\ hMicThread # None /\ bInited
  /\ bRunning' = FALSE
  /\ stoppedBy' = [stoppedBy EXCEPT ![hMicThread] = IF @ = NoOne THEN a ELSE @]
  /\ Goto(a, "join")
  /\ UNCHANGED <<dlock, hndl, hMicThread, bStopping, bInited, timeout, valid, pcm,
                 bPaused, limit, task, wasPaused, timer, timerFor, usbHndl, queue,
                 captures, calls, told, late, stale, strayed, replugged>>

(* Faulty: the task is neither waited for nor joined.                       *)
StopReturnsAtOnce(a) ==
  /\ call[a] = "join"
  /\ hMicThread' = None /\ bInited' = FALSE
  /\ hndl' = FALSE /\ pcm' = FALSE
  /\ Return(a) /\ dlock' = NoOne
  /\ UNCHANGED <<bRunning, bStopping, timeout, valid, bPaused, limit, task, wasPaused,
                 timer, usbHndl, queue, captures, calls, told, history>>

(* while (!bStopping) is over, so CancelTask is never called; the task is   *)
(* joined and the device closed.                                            *)
StopReturns(a) ==
  /\ call[a] = "join" /\ bStopping /\ task[hMicThread] = "ended"
  /\ hMicThread' = None /\ bInited' = FALSE
  /\ hndl' = FALSE /\ pcm' = FALSE
  /\ Return(a) /\ dlock' = NoOne
  /\ UNCHANGED <<bRunning, bStopping, timeout, valid, bPaused, limit, task, wasPaused,
                 timer, usbHndl, queue, captures, calls, told, history>>
-----------------------------------------------------------------------------
(* Pause and resume, each one section under dlock: StopAudio and StartAudio *)
(* may fail.                                                                *)

PauseAudioCapture(c) ==
  /\ Calls(c) /\ dlock = NoOne /\ hndl /\ ~bPaused
  /\ bPaused' = TRUE
  /\ UNCHANGED <<dlock, call, hndl, hMicThread, flags, valid, pcm, limit, task,
                 wasPaused, timer, timerFor, usbHndl, queue, captures, told, history>>

ResumeAudioCapture(c) ==
  /\ Calls(c) /\ dlock = NoOne /\ hndl /\ bPaused
  /\ bPaused' = FALSE
  /\ UNCHANGED <<dlock, call, hndl, hMicThread, flags, valid, pcm, limit, task,
                 wasPaused, timer, timerFor, usbHndl, queue, captures, told, history>>
-----------------------------------------------------------------------------
(* MicTaskMain.  The device is used with nothing locked; once it is closed  *)
(* under the task (stale) the process may end at any moment, which adds no  *)
(* state, or go on.                                                         *)

(* Faulty: timeout keeps what the last capture left in it.                  *)
TaskBeginsUncleared(r) ==
  /\ task[r] = "begin"
  /\ timer' = [timer EXCEPT ![r] = IF limit THEN "armed" ELSE "off"]
  /\ TaskGoto(r, "starting")
  /\ UNCHANGED <<dlock, call, hndl, hMicThread, flags, valid, pcm, bPaused, limit,
                 wasPaused, timerFor, usbHndl, queue, captures, calls, told, history>>

(* The timer is created and started; a limit of zero leaves it disarmed.    *)
TaskBegins(r) ==
  /\ task[r] = "begin"
  /\ timeout' = FALSE
  /\ timer' = [timer EXCEPT ![r] = IF limit THEN "armed" ELSE "off"]
  /\ TaskGoto(r, "starting")
  /\ UNCHANGED <<dlock, call, hndl, hMicThread, bRunning, bStopping, bInited, valid, pcm,
                 bPaused, limit, wasPaused, timerFor, usbHndl, queue, captures, calls,
                 told, history>>

TaskRuns(r) ==
  /\ task[r] = "starting"
  /\ bRunning' = TRUE
  /\ TaskGoto(r, "loop")
  /\ UNCHANGED <<dlock, call, hndl, hMicThread, bStopping, bInited, timeout, valid, pcm,
                 bPaused, limit, wasPaused, timer, timerFor, usbHndl, queue, captures,
                 calls, told, history>>

(* One way round the loop that finds the capture newly paused or resumed:   *)
(* PauseTimer keeps what is left of a timer that is armed.                  *)
TaskPauses(r) ==
  /\ task[r] = "loop" /\ bRunning /\ bPaused # wasPaused[r]
  /\ wasPaused' = [wasPaused EXCEPT ![r] = bPaused]
  /\ timer' = [timer EXCEPT ![r] = CASE @ = "armed" /\ bPaused -> "paused"
                                     [] @ = "paused" /\ ~bPaused -> "armed"
                                     [] OTHER -> @]
  /\ UNCHANGED <<dlock, call, hndl, hMicThread, flags, valid, pcm, bPaused, limit, task,
                 timerFor, usbHndl, queue, captures, calls, told, history>>

(* A capture without a file, or whose file could not be opened, posts an    *)
(* event when the sound crosses the threshold; the post waits while the     *)
(* event queue is full.                                                     *)
TaskTriggers(r) ==
  /\ task[r] = "loop" /\ bRunning /\ ~bPaused /\ ~wasPaused[r]
  /\ TaskGoto(r, "send")
  /\ UNCHANGED <<dlock, call, hndl, hMicThread, flags, valid, pcm, bPaused, limit,
                 wasPaused, timer, timerFor, usbHndl, queue, captures, calls, told, history>>

TaskSent(r) ==
  /\ task[r] = "send" /\ queue < QueueMax
  /\ queue' = queue + 1
  /\ TaskGoto(r, "loop")
  /\ UNCHANGED <<dlock, call, hndl, hMicThread, flags, valid, pcm, bPaused, limit,
                 wasPaused, timer, timerFor, usbHndl, captures, calls, told, history>>

(* The loop is left and the timer destroyed: neither the signal it may have *)
(* queued nor a callback that has begun.                                    *)
TaskEnds(r) ==
  /\ task[r] = "loop" /\ ~bRunning
  /\ timer' = [timer EXCEPT ![r] = IF @ \in {"expired", "fired"} THEN @ ELSE "off"]
  /\ late' = (late \/ (timerFor = r /\ stoppedBy[r] # Timer))
  /\ wasPaused' = [wasPaused EXCEPT ![r] = FALSE]
  /\ TaskGoto(r, "ending")
  /\ UNCHANGED <<dlock, call, hndl, hMicThread, flags, valid, pcm, bPaused, limit,
                 timerFor, usbHndl, queue, captures, calls, told, stoppedBy,
                 stale, strayed, replugged>>

EndReason == CASE ~valid -> "removed"
               [] valid /\ ~timeout -> "stopped"
               [] valid /\ timeout -> "timeout"

(* The end event: the listener is notified by this thread.                  *)
TaskPosts(r) ==
  /\ task[r] = "ending"
  /\ told' = [told EXCEPT ![r] = EndReason]
  /\ TaskGoto(r, "notify")
  /\ UNCHANGED <<dlock, call, hndl, hMicThread, flags, valid, pcm, bPaused, limit,
                 wasPaused, timer, timerFor, usbHndl, queue, captures, calls, history>>

(* A listener that asks the module something, as IsAudioCapturePaused, from *)
(* Notify waits for dlock.                                                  *)
ListenerCalls(r) ==
  /\ task[r] = "notify"
  /\ TaskGoto(r, "calling")
  /\ UNCHANGED <<dlock, call, hndl, hMicThread, flags, valid, pcm, bPaused, limit,
                 wasPaused, timer, timerFor, usbHndl, queue, captures, calls, told, history>>

ListenerReturns(r) ==
  /\ task[r] = "calling" /\ dlock = NoOne
  /\ TaskGoto(r, "called")
  /\ UNCHANGED <<dlock, call, hndl, hMicThread, flags, valid, pcm, bPaused, limit,
                 wasPaused, timer, timerFor, usbHndl, queue, captures, calls, told, history>>

TaskStops(r) ==
  /\ task[r] \in {"notify", "called"}
  /\ bStopping' = TRUE
  /\ TaskGoto(r, "ended")
  /\ UNCHANGED <<dlock, call, hndl, hMicThread, bRunning, bInited, timeout, valid, pcm,
                 bPaused, limit, wasPaused, timer, timerFor, usbHndl, queue, captures,
                 calls, told, history>>
-----------------------------------------------------------------------------
(* The timer thread, as KernelTimers has it, and TimerCallback.             *)

Expire(r) ==
  /\ timer[r] = "armed"
  /\ timer' = [timer EXCEPT ![r] = "expired"]
  /\ UNCHANGED <<dlock, call, hndl, hMicThread, flags, valid, pcm, bPaused, limit, task,
                 wasPaused, timerFor, usbHndl, queue, captures, calls, told, history>>

(* Captures whose timer exists.                                             *)
Timed == {r \in Capture : task[r] \in {"starting", "loop", "send"}}

(* sigwait, and the search for the timer that has the signal: the one that  *)
(* queued it; when that is gone, any other that was given its signal, or    *)
(* none of the module.                                                      *)
TimerTask(r) ==
  /\ timer[r] = "expired" /\ call[Timer] = "idle"
  /\ timer' = [timer EXCEPT ![r] = "fired"]
  /\ \/ /\ r \notin Timed
        /\ UNCHANGED <<call, timerFor, strayed>>
     \/ \E heir \in Timed :
          /\ r \in Timed => heir = r
          /\ timerFor' = heir /\ Goto(Timer, "callback")
          /\ strayed' = strayed \cup ({heir} \ {r})
  /\ UNCHANGED <<dlock, hndl, hMicThread, flags, valid, pcm, bPaused, limit, task,
                 wasPaused, usbHndl, queue, captures, calls, told, stoppedBy, late,
                 stale, replugged>>

(* Faulty: the callback sets timeout and leaves it to the task to look.     *)
TimerCallbackFlags ==
  /\ call[Timer] = "callback"
  /\ timeout' = TRUE
  /\ Goto(Timer, "idle") /\ timerFor' = None
  /\ UNCHANGED <<dlock, hndl, hMicThread, bRunning, bStopping, bInited, valid, pcm,
                 bPaused, limit, task, wasPaused, timer, usbHndl, queue, captures,
                 calls, told, history>>

TimerCallback ==
  /\ call[Timer] = "callback"
  /\ timeout' = TRUE
  /\ Goto(Timer, "stop")
  /\ UNCHANGED <<dlock, hndl, hMicThread, bRunning, bStopping, bInited, valid, pcm,
                 bPaused, limit, task, wasPaused, timer, timerFor, usbHndl, queue,
                 captures, calls, told, history>>
-----------------------------------------------------------------------------
(* MicrophoneListener::Notify, on reports of hot plugging: the device is no *)
(* longer there, or it is there, newly or as before.                        *)

Unplug ==
  /\ Calls(Usb) /\ valid
  /\ valid' = FALSE
  /\ Goto(Usb, "read")
  /\ UNCHANGED <<dlock, hndl, hMicThread, flags, pcm, bPaused, limit, task, wasPaused,
                 timer, timerFor, usbHndl, queue, captures, told, history>>

(* The argument of StopAudioCapture is read with nothing locked.            *)
ReadHandle ==
  /\ call[Usb] = "read"
  /\ usbHndl' = hndl
  /\ Goto(Usb, "stop")
  /\ UNCHANGED <<dlock, hndl, hMicThread, flags, valid, pcm, bPaused, limit, task,
                 wasPaused, timer, timerFor, queue, captures, calls, told, history>>

(* The device is closed once more, under a mutex nobody else takes.         *)
DeinitMicrophone ==
  /\ call[Usb] = "deinit"
  /\ pcm' = FALSE
  /\ Goto(Usb, "idle")
  /\ UNCHANGED <<dlock, hndl, hMicThread, flags, valid, bPaused, limit, task, wasPaused,
                 timer, timerFor, usbHndl, queue, captures, calls, told, history>>

(* The capture under way, which a client may be about to start.             *)
Current == IF \E c \in Client : call[c] = "fill" THEN {captures + 1}
                                                 ELSE {hMicThread} \ {None}

(* InitMicInt forgets the open device, whoever uses it.  The return of one  *)
(* that was pulled out is not counted among the calls.                      *)
Plug ==
  /\ \/ valid /\ Calls(Usb)
     \/ ~valid /\ call[Usb] = "idle" /\ UNCHANGED calls
  /\ pcm' = FALSE
  /\ replugged' = replugged \cup Current
  /\ Goto(Usb, "plug")
  /\ UNCHANGED <<dlock, hndl, hMicThread, flags, valid, bPaused, limit, task, wasPaused,
                 timer, timerFor, usbHndl, queue, captures, told, stoppedBy, late,
                 stale, strayed>>

(* It opens the device, which may fail.                                     *)
PlugOpens ==
  /\ call[Usb] = "plug"
  /\ \E opened \in BOOLEAN : valid' = opened /\ pcm' = opened
  /\ replugged' = replugged \cup Current
  /\ Goto(Usb, "idle")
  /\ UNCHANGED <<dlock, hndl, hMicThread, flags, bPaused, limit, task, wasPaused, timer,
                 timerFor, usbHndl, queue, captures, calls, told, stoppedBy, late,
                 stale, strayed>>
-----------------------------------------------------------------------------
(* The dispatching thread takes a message when it is in no call of a client.*)
Dispatch ==
  /\ call[Dispatcher] = "idle" /\ queue > 0
  /\ queue' = queue - 1
  /\ UNCHANGED <<dlock, call, hndl, hMicThread, flags, valid, pcm, bPaused, limit, task,
                 wasPaused, timer, timerFor, usbHndl, captures, calls, told, history>>
-----------------------------------------------------------------------------
StartStep(c) ==
  \/ StartLocks(c) \/ StartReturns(c)
  \/ \E paused \in BOOLEAN : \/ StartNoSpace(c, paused)
                             \/ \E max \in BOOLEAN : InitMicTask(c, paused, max)

StopStep(a) == StopLocks(a) \/ StopForgets(a) \/ HaltTask(a) \/ StopReturns(a)

TaskStep(r) ==
  \/ TaskBegins(r) \/ TaskRuns(r) \/ TaskPauses(r) \/ TaskTriggers(r) \/ TaskSent(r)
  \/ TaskEnds(r) \/ TaskPosts(r) \/ ListenerReturns(r) \/ TaskStops(r)

UsbStep == ReadHandle \/ DeinitMicrophone \/ PlugOpens

Next ==
  \/ \E c \in Client : \/ CallStart(c) \/ CallStop(c) \/ StartStep(c)
                       \/ PauseAudioCapture(c) \/ ResumeAudioCapture(c)
  \/ \E a \in Actor : StopStep(a)
  \/ \E r \in Capture : TaskStep(r) \/ ListenerCalls(r) \/ Expire(r)
  \/ \E r \in Owner : TimerTask(r)
  \/ TimerCallback
  \/ Unplug \/ Plug \/ UsbStep
  \/ Dispatch

(* Threads that can go on do.  Nothing makes a client call, a timer expire, *)
(* a device come or go, or a listener call back.                            *)
Fairness ==
  /\ \A c \in Client : WF_vars(StartStep(c))
  /\ \A a \in Actor : WF_vars(StopStep(a))
  /\ \A r \in Capture : WF_vars(TaskStep(r))
  /\ WF_vars(\E r \in Owner : TimerTask(r)) /\ WF_vars(TimerCallback)
  /\ WF_vars(UsbStep) /\ WF_vars(Dispatch)

Spec == Init /\ [][Next]_vars /\ Fairness
-----------------------------------------------------------------------------
(* Properties *)

(* Has the task of a capture begun to record and not finished?              *)
Recording == {r \in Capture : task[r] \in {"starting", "loop", "send", "ending"}}

(* One task at a time uses the device, and the device stays open for it,    *)
(* whoever stops or pulls out: except when the USB listener has read the    *)
(* handle before StartAudioCapture stored it, and for a capture during      *)
(* which the listener was told that the device is there.                    *)
DeviceHeld ==
  stale \/ /\ \A r \in Recording : (pcm \/ r \in replugged) /\ hMicThread = r
           /\ hMicThread # None /\ dlock = NoOne => hndl

(* The capture's own timer has expired, or has answered another's signal.   *)
Expired(r) == timer[r] \in {"expired", "fired"} \/ r \in strayed

(* MicrophoneMPI.h:54-55: the listener is "notified of any recording        *)
(* termination".  Outside of the calls the captures that have not had their *)
(* end event are the one under way and no other.  The event tells the       *)
(* truth: "stopped" when a client stopped the capture, "timeout" when its   *)
(* own timer expired, and a capture that the timer stopped is its own.      *)
(* It may be otherwise after a capture ended while its timer's callback was *)
(* already waiting for dlock, and for a capture whose timer has the signal  *)
(* of one that expired and was destroyed before TimerTask took the signal.  *)
EndIsExplained ==
  stale \/
  /\ dlock = NoOne =>
       \A r \in 1..captures : told[r] = "none" <=> r = hMicThread
  /\ late \/ \A r \in Capture : told[r] # "none" =>
       /\ told[r] = "stopped" => stoppedBy[r] \in Client
       /\ told[r] = "timeout" => Expired(r)
       /\ stoppedBy[r] = Timer => Expired(r)
       /\ stoppedBy[r] = Usb => told[r] = "removed"

(* A listener called back from the end event and waits for dlock, which the *)
(* thread holds that waits for this task; or the task's trigger event waits *)
(* for room in the queue, and the dispatching thread is in a call.          *)
SelfBlocked ==
  \/ \E r \in Capture : task[r] = "calling" /\ dlock # NoOne
  \/ \E r \in Capture : task[r] = "send" /\ queue = QueueMax /\ call[Dispatcher] # "idle"

(* Every call of a client, of the timer's callback and of the USB listener  *)
(* returns, unless the threads are blocked on each other for ever.          *)
CallsReturn == (\A a \in Actor : []<>(call[a] = "idle")) \/ <>[]SelfBlocked

(* A capture whose timer has expired ends.                                  *)
LimitEnds ==
  \/ \A r \in Capture : timer[r] = "expired" ~> told[r] # "none"
  \/ <>[]SelfBlocked \/ <>stale
=============================================================================
