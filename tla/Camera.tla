------------------------------- MODULE Camera -------------------------------
(***************************************************************************)
(* The camera module (System/Camera: CameraTask.cpp and, under Platform,   *)
(* CameraCommon.cpp and CameraUSB.cpp).  Clients start, stop, pause and    *)
(* resume a capture and take snapshots; a task of its own fetches and      *)
(* returns the frames of the capture and restarts a V4L stream that gives  *)
(* none; the kernel's timer thread sets the flag that ends it; the thread  *)
(* that reports USB changes stops it when the camera is pulled out.        *)
(*                                                                         *)
(* There are two locks.  mThread is held by the task while it goes once    *)
(* round its loop and by every call that must not run meanwhile (in        *)
(* THREAD_LOCK mThread2 always follows it and keeps nobody out who has     *)
(* it); mutex_ guards the context (CAMERA_LOCK).  Both frame and end       *)
(* events have priority 0: the listener is notified on the task.           *)
(*                                                                         *)
(* Sound, display, file contents and frame-by-frame capture without a task *)
(* are left out, and bInited, which changes under mutex_ only, together    *)
(* with the task.                                                          *)
(***************************************************************************)
EXTENDS Naturals

CONSTANTS
  Client,       \* threads of the application
  Usb,          \* the thread that posts USB changes: it runs the module's listener
  NoOne,
  PollMax,      \* 1000: polls without a frame before the stream is restarted
  MaxCaptures,  \* bound: captures started in a behaviour
  MaxCalls      \* bound: calls made by clients, and USB changes

Actor == Client \cup {Usb}
Capture == 1..MaxCaptures
None == 0

ASSUME ActorAssumption == /\ Usb \notin Client /\ NoOne \notin Actor
                          /\ (Actor \cup {NoOne}) \cap Nat = {}
ASSUME BoundAssumption == {PollMax, MaxCaptures, MaxCalls} \subseteq Nat

VARIABLES
  mThread, mutex,  \* who holds them; the task keeps mutex_ for parts of a step only
  call,            \* where each thread is: see Place
  hndl,            \* camCtx_.hndl is a capture handle; there is only one value for it
  hCameraThread,   \* the task's handle: the capture it makes
  bRunning, bStopping, timeout,
  valid,           \* the camera is present
  streaming,       \* the V4L stream is on and its buffers are mapped
  bPaused,         \* camCtx_.bPaused
  bFile,           \* the capture is written to a file
  task,            \* where the task of each capture is
  pollcount,       \* of each task; PollMax + 1 stands for bRestart
  timer,           \* the timer of each capture, and its signal: see TimerState
  timerFor,        \* whose signal TimerTask answers with a callback
  usbHndl,         \* the handle the USB listener has read
  captures, calls,
  told,            \* history: the end event posted for a capture
  stopped,         \* history: captures that a call has told to stop
  failed,          \* history: captures that ended with a write or a restart that failed
  asked,           \* history: PauseVideoCapture was called, ResumeVideoCapture not yet
  unpaused,        \* history: a snapshot that failed or a restart has cleared bPaused
  late,            \* history: captures ended, if not over, by the signal of another
  stale            \* history: the device was closed under a task

flags == <<bRunning, bStopping, timeout>>
history == <<told, stopped, failed, asked, unpaused, late, stale>>
locks == <<mThread, mutex>>
device == <<valid, streaming, bPaused>>
vars == <<locks, call, hndl, hCameraThread, flags, device, bFile, task, pollcount,
          timer, timerFor, usbHndl, captures, calls, history>>

Place == {"idle", "start", "fill", "await", "stop", "halt", "join", "grab", "snap",
          "surface", "read", "deinit"}
Step == {"none", "begin", "starting", "loop", "locked", "frame", "blocked", "broken",
         "ending", "notify", "calling", "called", "ended"}
Told == {"notify", "calling", "called", "ended"}
Reason == {"removed", "stopped", "elapsed"}

(* A timer that expires queues a signal, which outlives it: "expired" until *)
(* TimerTask has taken the signal, "fired" from then on.                    *)
TimerState == {"off", "armed", "paused", "expired", "fired"}

TypeOK ==
  /\ mThread \in Actor \cup Capture \cup {NoOne} /\ mutex \in Actor \cup {NoOne}
  /\ call \in [Actor -> Place] /\ hndl \in BOOLEAN
  /\ hCameraThread \in Capture \cup {None}
  /\ {bRunning, bStopping, timeout, valid, streaming, bPaused} \subseteq BOOLEAN
  /\ bFile \in BOOLEAN /\ task \in [Capture -> Step]
  /\ pollcount \in [Capture -> 0..PollMax + 1]
  /\ timer \in [Capture -> TimerState] /\ timerFor \in Capture \cup {None}
  /\ usbHndl \in BOOLEAN /\ captures \in 0..MaxCaptures /\ calls \in 0..MaxCalls
  /\ told \in [Capture -> Reason \cup {"none"}]
  /\ stopped \subseteq Capture /\ failed \subseteq Capture
  /\ late \subseteq Capture /\ {asked, unpaused, stale} \subseteq BOOLEAN

Init ==
  /\ mThread = NoOne /\ mutex = NoOne /\ call = [a \in Actor |-> "idle"]
  /\ hndl = FALSE /\ hCameraThread = None
  /\ bRunning = FALSE /\ bStopping = FALSE /\ timeout = FALSE
  /\ valid = TRUE /\ streaming = FALSE /\ bPaused = FALSE /\ bFile = FALSE
  /\ task = [r \in Capture |-> "none"]
  /\ pollcount = [r \in Capture |-> 0] /\ timer = [r \in Capture |-> "off"]
  /\ timerFor = None /\ usbHndl = FALSE /\ captures = 0 /\ calls = 0
  /\ told = [r \in Capture |-> "none"] /\ stopped = {}
  /\ failed = {} /\ asked = FALSE /\ unpaused = FALSE /\ late = {} /\ stale = FALSE

Goto(a, place) == call' = [call EXCEPT ![a] = place]
TaskGoto(r, step) == task' = [task EXCEPT ![r] = step]

(* A call of a client, or a USB change.                                     *)
Calls(a) == call[a] = "idle" /\ calls < MaxCalls /\ calls' = calls + 1
-----------------------------------------------------------------------------
(* StartVideoCapture and InitCameraTask                                     *)

Starting == {c \in Client : call[c] \in {"start", "fill"}}

(* Calls that start captures leave room for one each.                       *)
CallStart(c) ==
  /\ Calls(c) /\ Starting = {} /\ captures < MaxCaptures
  /\ Goto(c, "start")
  /\ UNCHANGED <<locks, hndl, hCameraThread, flags, device, bFile, task, pollcount,
                 timer, timerFor, usbHndl, captures, history>>

(* CAMERA_LOCK.  A capture under way, an absent camera, a full disk or a    *)
(* buffer, mode or stream that fails refuses the call; otherwise the stream *)
(* is on and InitCameraStartInt has cleared bPaused.                        *)
StartLocks(c) ==
  /\ call[c] = "start" /\ mutex = NoOne
  /\ \/ Goto(c, "idle") /\ UNCHANGED <<mutex, streaming, bPaused, asked, unpaused>>
     \/ /\ ~hndl /\ valid
        /\ mutex' = c /\ Goto(c, "fill")
        /\ streaming' = TRUE /\ bPaused' = FALSE
        /\ asked' = FALSE /\ unpaused' = FALSE
  /\ UNCHANGED <<mThread, hndl, hCameraThread, flags, valid, bFile, task, pollcount,
                 timer, timerFor, usbHndl, captures, calls, told, stopped, failed,
                 late, stale>>

(* The handle is stored, the flags are cleared and the task is created.     *)
InitCameraTask(c) ==
  /\ call[c] = "fill"
  /\ bFile' \in BOOLEAN
  /\ hndl' = TRUE
  /\ bRunning' = FALSE /\ bStopping' = FALSE
  /\ captures' = captures + 1 /\ hCameraThread' = captures + 1
  /\ TaskGoto(captures + 1, "begin")
  /\ Goto(c, "await")
  /\ UNCHANGED <<locks, timeout, device, pollcount, timer, timerFor, usbHndl, calls,
                 history>>

(* while (!bRunning) is over.                                               *)
StartReturns(c) ==
  /\ call[c] = "await" /\ bRunning
  /\ Goto(c, "idle") /\ mutex' = NoOne
  /\ UNCHANGED <<mThread, hndl, hCameraThread, flags, device, bFile, task, pollcount,
                 timer, timerFor, usbHndl, captures, calls, history>>
-----------------------------------------------------------------------------
(* StopVideoCapture and DeInitCameraTask, which clients and the USB         *)
(* listener call.                                                           *)

CallStop(c) ==
  /\ Calls(c) /\ captures > 0
  /\ Goto(c, "stop")
  /\ UNCHANGED <<locks, hndl, hCameraThread, flags, device, bFile, task, pollcount,
                 timer, timerFor, usbHndl, captures, history>>

(* THREAD_LOCK                                                              *)
StopLocks(a) ==
  /\ call[a] = "stop" /\ mThread = NoOne
  /\ mThread' = a /\ Goto(a, "halt")
  /\ UNCHANGED <<mutex, hndl, hCameraThread, flags, device, bFile, task, pollcount,
                 timer, timerFor, usbHndl, captures, calls, history>>

(* IS_STREAMING_HANDLE of the argument: clients have the handle that        *)
(* StartVideoCapture returned.                                              *)
IsStreamingHandle(a) == hndl /\ (a = Usb => usbHndl)

(* Where a thread goes on after StopVideoCapture.                           *)
Return(a) == Goto(a, IF a = Usb THEN "deinit" ELSE "idle")

(* Faulty: the early return leaves mThread locked.                          *)
HaltLocksForGood(a) ==
  /\ call[a] = "halt" /\ mutex = NoOne
  /\ IF IsStreamingHandle(a)
     THEN /\ mutex' = a /\ Goto(a, "join")
          /\ bRunning' = FALSE
          /\ stopped' = stopped \cup {hCameraThread}
     ELSE Return(a) /\ UNCHANGED <<mutex, bRunning, stopped>>
  /\ UNCHANGED <<mThread, hndl, hCameraThread, bStopping, timeout, device, bFile,
                 task, pollcount, timer, timerFor, usbHndl, captures, calls, told,
                 failed, asked, unpaused, late, stale>>

(* CAMERA_LOCK; without a capture the call is over, else the task is told   *)
(* to stop.                                                                 *)
HaltTask(a) ==
  /\ call[a] = "halt" /\ mutex = NoOne
  /\ IF IsStreamingHandle(a)
     THEN /\ mutex' = a /\ Goto(a, "join")
          /\ bRunning' = FALSE
          /\ stopped' = stopped \cup {hCameraThread}
          /\ UNCHANGED mThread
     ELSE mThread' = NoOne /\ Return(a) /\ UNCHANGED <<mutex, bRunning, stopped>>
  /\ UNCHANGED <<hndl, hCameraThread, bStopping, timeout, device, bFile, task,
                 pollcount, timer, timerFor, usbHndl, captures, calls, told, failed,
                 asked, unpaused, late, stale>>

(* while (!bStopping) is over, so CancelTask is never called; the task is   *)
(* joined, the stream is turned off and its buffers are unmapped.           *)
StopReturns(a) ==
  /\ call[a] = "join" /\ bStopping /\ task[hCameraThread] = "ended"
  /\ hCameraThread' = None /\ hndl' = FALSE /\ streaming' = FALSE
  /\ Return(a) /\ mThread' = NoOne /\ mutex' = NoOne
  /\ UNCHANGED <<flags, valid, bPaused, bFile, task, pollcount, timer, timerFor,
                 usbHndl, captures, calls, history>>
-----------------------------------------------------------------------------
(* PauseVideoCapture and ResumeVideoCapture: one section under THREAD_LOCK. *)
(* A thread handle is accepted, whether it is streaming or not.             *)
SetPaused(c, paused) ==
  /\ Calls(c) /\ captures > 0 /\ mThread = NoOne
  /\ bPaused' = paused /\ asked' = paused /\ unpaused' = FALSE
  /\ UNCHANGED <<locks, call, hndl, hCameraThread, flags, valid, streaming, bFile,
                 task, pollcount, timer, timerFor, usbHndl, captures, told, stopped,
                 failed, late, stale>>

(* LockCaptureVideoSurface and UnLockCaptureVideoSurface: THREAD_LOCK is    *)
(* kept from one call to the other.                                         *)
LockSurface(c) ==
  /\ Calls(c) /\ mThread = NoOne
  /\ mThread' = c /\ Goto(c, "surface")
  /\ UNCHANGED <<mutex, hndl, hCameraThread, flags, device, bFile, task, pollcount,
                 timer, timerFor, usbHndl, captures, history>>

UnLockSurface(c) ==
  /\ call[c] = "surface"
  /\ mThread' = NoOne /\ Goto(c, "idle")
  /\ UNCHANGED <<mutex, hndl, hCameraThread, flags, device, bFile, task, pollcount,
                 timer, timerFor, usbHndl, captures, calls, history>>
-----------------------------------------------------------------------------
(* GrabFrame, by which SnapFrame and GetFrame take a snapshot in a mode of  *)
(* its own, with or without a capture under way.                            *)

CallGrab(c) ==
  /\ Calls(c)
  /\ Goto(c, "grab")
  /\ UNCHANGED <<locks, hndl, hCameraThread, flags, device, bFile, task, pollcount,
                 timer, timerFor, usbHndl, captures, history>>

(* Faulty: the task goes on meanwhile.                                      *)
GrabLocksNothing(c) ==
  /\ call[c] = "grab" /\ mThread = NoOne
  /\ Goto(c, "snap")
  /\ UNCHANGED <<locks, hndl, hCameraThread, flags, device, bFile, task, pollcount,
                 timer, timerFor, usbHndl, captures, calls, history>>

(* THREAD_LOCK                                                              *)
GrabLocks(c) ==
  /\ call[c] = "grab" /\ mThread = NoOne
  /\ mThread' = c /\ Goto(c, "snap")
  /\ UNCHANGED <<mutex, hndl, hCameraThread, flags, device, bFile, task, pollcount,
                 timer, timerFor, usbHndl, captures, calls, history>>

(* Faulty: what the stream's starts have cleared is not restored.           *)
GrabUnpauses(c) ==
  /\ call[c] = "snap" /\ mutex = NoOne /\ valid
  /\ streaming' = (hCameraThread # None) /\ bPaused' = FALSE
  /\ mThread' = NoOne /\ Goto(c, "idle")
  /\ UNCHANGED <<mutex, hndl, hCameraThread, flags, valid, bFile, task, pollcount,
                 timer, timerFor, usbHndl, captures, calls, history>>

(* CAMERA_LOCK.  The stream is turned off, started in the other mode, off   *)
(* again and, for a task, on again; bPaused is restored.                    *)
GrabFrame(c) ==
  /\ call[c] = "snap" /\ mutex = NoOne /\ valid
  /\ streaming' = (hCameraThread # None)
  /\ mThread' = NoOne /\ Goto(c, "idle")
  /\ UNCHANGED <<mutex, hndl, hCameraThread, flags, valid, bPaused, bFile, task,
                 pollcount, timer, timerFor, usbHndl, captures, calls, history>>

(* Whichever step fails, things are left as they are, and bPaused as it is. *)
GrabFails(c) ==
  /\ call[c] = "snap" /\ mutex = NoOne
  /\ \/ UNCHANGED <<streaming, bPaused, unpaused>>
     \/ valid /\ streaming' = FALSE /\ UNCHANGED <<bPaused, unpaused>>
     \/ /\ valid /\ \E on \in BOOLEAN : streaming' = on
        /\ bPaused' = FALSE /\ unpaused' = (unpaused \/ bPaused)
  /\ mThread' = NoOne /\ Goto(c, "idle")
  /\ UNCHANGED <<mutex, hndl, hCameraThread, flags, valid, bFile, task, pollcount,
                 timer, timerFor, usbHndl, captures, calls, told, stopped, failed,
                 asked, late, stale>>
-----------------------------------------------------------------------------
(* CameraTaskMain                                                           *)

(* Faulty: timeout keeps what the last capture left in it.                  *)
TaskBeginsUncleared(r) ==
  /\ task[r] = "begin"
  /\ timer' = [timer EXCEPT ![r] = "armed"]
  /\ TaskGoto(r, "starting")
  /\ UNCHANGED <<locks, call, hndl, hCameraThread, flags, device, bFile, pollcount,
                 timerFor, usbHndl, captures, calls, history>>

(* The timer is created and started; with a limit of zero it is one that    *)
(* never expires.                                                           *)
TaskBegins(r) ==
  /\ task[r] = "begin"
  /\ timeout' = FALSE
  /\ timer' = [timer EXCEPT ![r] = "armed"]
  /\ TaskGoto(r, "starting")
  /\ UNCHANGED <<locks, call, hndl, hCameraThread, bRunning, bStopping, device, bFile,
                 pollcount, timerFor, usbHndl, captures, calls, history>>

TaskRuns(r) ==
  /\ task[r] = "starting"
  /\ bRunning' = TRUE
  /\ TaskGoto(r, "loop")
  /\ UNCHANGED <<locks, call, hndl, hCameraThread, bStopping, timeout, device, bFile,
                 pollcount, timer, timerFor, usbHndl, captures, calls, history>>

(* while (bRunning && !timeout) and TryLockMutex.                           *)
TaskLocks(r) ==
  /\ task[r] = "loop" /\ bRunning /\ ~timeout /\ mThread = NoOne
  /\ mThread' = r
  /\ TaskGoto(r, "locked")
  /\ UNCHANGED <<mutex, call, hndl, hCameraThread, flags, device, bFile, pollcount,
                 timer, timerFor, usbHndl, captures, calls, history>>

bRestart(r) == pollcount[r] > PollMax

(* The stream is restarted, which clears bPaused.  If that fails the loop   *)
(* is left with mThread locked.                                             *)
TaskRestarts(r) ==
  /\ task[r] = "locked" /\ bRestart(r)
  /\ pollcount' = [pollcount EXCEPT ![r] = 0]
  /\ \/ /\ valid
        /\ streaming' = TRUE
        /\ bPaused' = FALSE /\ unpaused' = (unpaused \/ bPaused)
        /\ UNCHANGED <<task, failed>>
     \/ /\ streaming' = FALSE
        /\ failed' = failed \cup {r}
        /\ TaskGoto(r, "broken")
        /\ UNCHANGED <<bPaused, unpaused>>
  /\ UNCHANGED <<locks, call, hndl, hCameraThread, flags, valid, bFile, timer,
                 timerFor, usbHndl, captures, calls, told, stopped, asked, late,
                 stale>>

(* A paused capture fetches no frames.  PauseTimer keeps what is left of a  *)
(* timer that is armed; bWasPaused is TRUE from then to ResumeTimer.        *)
TaskPauses(r) ==
  /\ task[r] = "locked" /\ ~bRestart(r) /\ bPaused
  /\ timer' = [timer EXCEPT ![r] = IF @ = "armed" THEN "paused" ELSE @]
  /\ mThread' = NoOne /\ TaskGoto(r, "loop")
  /\ UNCHANGED <<mutex, call, hndl, hCameraThread, flags, device, bFile, pollcount,
                 timerFor, usbHndl, captures, calls, history>>

(* Faulty: a stream that gives no frames is polled for ever.                *)
TaskPollsOn(r) ==
  /\ task[r] = "locked" /\ ~bRestart(r) /\ ~bPaused /\ mutex = NoOne
  /\ mThread' = NoOne /\ TaskGoto(r, "loop")
  /\ UNCHANGED <<mutex, call, hndl, hCameraThread, flags, device, bFile, pollcount,
                 timer, timerFor, usbHndl, captures, calls, history>>

(* PollFrame finds no frame.                                                *)
TaskPollsNone(r) ==
  /\ task[r] = "locked" /\ ~bRestart(r) /\ ~bPaused /\ mutex = NoOne
  /\ pollcount' = [pollcount EXCEPT ![r] = @ + 1]
  /\ mThread' = NoOne /\ TaskGoto(r, "loop")
  /\ UNCHANGED <<mutex, call, hndl, hCameraThread, flags, device, bFile, timer,
                 timerFor, usbHndl, captures, calls, history>>

(* PollFrame finds one, and GetFrame takes it from the driver or fails.     *)
TaskGetsFrame(r) ==
  /\ task[r] = "locked" /\ ~bRestart(r) /\ ~bPaused /\ mutex = NoOne /\ streaming
  /\ pollcount' = [pollcount EXCEPT ![r] = 0]
  /\ \/ TaskGoto(r, "frame") /\ UNCHANGED mThread
     \/ TaskGoto(r, "loop") /\ mThread' = NoOne
  /\ UNCHANGED <<mutex, call, hndl, hCameraThread, flags, device, bFile, timer,
                 timerFor, usbHndl, captures, calls, history>>

(* The first frames are dropped.  With any other a paused timer goes on; it *)
(* is written to the file, if there is one, which may fail.  ReturnFrame    *)
(* gives the frame back to the driver.                                      *)
TaskReturnsFrame(r) ==
  /\ task[r] = "frame" /\ mutex = NoOne
  /\ \/ UNCHANGED <<timer, bRunning, failed>>
     \/ /\ timer' = [timer EXCEPT ![r] = IF @ = "paused" THEN "armed" ELSE @]
        /\ \/ bFile /\ bRunning' = FALSE /\ failed' = failed \cup {r}
           \/ UNCHANGED <<bRunning, failed>>
  /\ mThread' = NoOne /\ TaskGoto(r, "loop")
  /\ UNCHANGED <<mutex, call, hndl, hCameraThread, bStopping, timeout, device, bFile,
                 pollcount, timerFor, usbHndl, captures, calls, told, stopped, asked,
                 unpaused, late, stale>>

(* The loop is left and the timer destroyed: neither the signal it may have *)
(* queued nor a callback that has begun.                                    *)
TaskEnds(r) ==
  /\ \/ task[r] = "loop" /\ (~bRunning \/ timeout)
     \/ task[r] = "broken"
  /\ timer' = [timer EXCEPT ![r] = IF @ \in {"expired", "fired"} THEN @ ELSE "off"]
  /\ pollcount' = [pollcount EXCEPT ![r] = 0]
  /\ TaskGoto(r, "ending")
  /\ UNCHANGED <<locks, call, hndl, hCameraThread, flags, device, bFile,
                 timerFor, usbHndl, captures, calls, history>>

(* "elapsed" stands for a timeout and for the disk's quota.                 *)
EndReason == CASE ~valid -> "removed"
               [] valid /\ ~timeout -> "stopped"
               [] valid /\ timeout -> "elapsed"

(* The end event: the listener is notified by this thread.                  *)
TaskPosts(r) ==
  /\ task[r] = "ending"
  /\ told' = [told EXCEPT ![r] = EndReason]
  /\ TaskGoto(r, "notify")
  /\ UNCHANGED <<locks, call, hndl, hCameraThread, flags, device, bFile, pollcount,
                 timer, timerFor, usbHndl, captures, calls, stopped, failed, asked,
                 unpaused, late, stale>>

(* A listener that calls the module from Notify, as SetCameraControl, waits *)
(* for both locks; for a frame event its own thread holds the first.        *)
ListenerCalls(r) ==
  /\ \/ task[r] = "frame" /\ ~bFile /\ TaskGoto(r, "blocked")
     \/ task[r] = "notify" /\ TaskGoto(r, "calling")
  /\ UNCHANGED <<locks, call, hndl, hCameraThread, flags, device, bFile, pollcount,
                 timer, timerFor, usbHndl, captures, calls, history>>

ListenerReturns(r) ==
  /\ task[r] = "calling" /\ mThread = NoOne /\ mutex = NoOne
  /\ TaskGoto(r, "called")
  /\ UNCHANGED <<locks, call, hndl, hCameraThread, flags, device, bFile, pollcount,
                 timer, timerFor, usbHndl, captures, calls, history>>

TaskStops(r) ==
  /\ task[r] \in {"notify", "called"}
  /\ bStopping' = TRUE
  /\ TaskGoto(r, "ended")
  /\ UNCHANGED <<locks, call, hndl, hCameraThread, bRunning, timeout, device, bFile,
                 pollcount, timer, timerFor, usbHndl, captures, calls, history>>
-----------------------------------------------------------------------------
(* The timer thread, as KernelTimers has it, and TimerCallback.             *)

Expire(r) ==
  /\ timer[r] = "armed"
  /\ timer' = [timer EXCEPT ![r] = "expired"]
  /\ UNCHANGED <<locks, call, hndl, hCameraThread, flags, device, bFile, task,
                 pollcount, timerFor, usbHndl, captures, calls, history>>

(* Captures whose timer exists.                                             *)
Timed == {r \in Capture : task[r] \notin {"none", "begin", "ending"} \cup Told}

(* sigwait, and the search for the timer that has the signal: the one that  *)
(* queued it; when that is gone, any other that was given its signal, or    *)
(* none of the module.                                                      *)
TimerTask(r) ==
  /\ timer[r] = "expired" /\ timerFor = None
  /\ timer' = [timer EXCEPT ![r] = "fired"]
  /\ \/ r \notin Timed /\ UNCHANGED timerFor
     \/ Timed # {} /\ timerFor' = r
  /\ UNCHANGED <<locks, call, hndl, hCameraThread, flags, device, bFile, task,
                 pollcount, usbHndl, captures, calls, history>>

(* The flag is global: it ends the last capture, whose timer it may not be. *)
EndByTimer(r) ==
  /\ timeout' = TRUE
  /\ late' = late \cup ({captures} \ {r})
  /\ UNCHANGED <<locks, call, hndl, hCameraThread, bRunning, bStopping, device, bFile,
                 task, pollcount, timer, usbHndl, captures, calls, told, stopped,
                 failed, asked, unpaused, stale>>

TimerCallback ==
  /\ timerFor # None
  /\ EndByTimer(timerFor)
  /\ timerFor' = None

(* A timer of another module was destroyed with its signal queued, and one  *)
(* of this module was given the signal.                                     *)
ForeignCallback ==
  /\ timerFor = None /\ captures > 0
  /\ EndByTimer(None)
  /\ UNCHANGED timerFor
-----------------------------------------------------------------------------
(* CameraListener::Notify: the camera was pulled out or plugged in.         *)

Unplug ==
  /\ Calls(Usb) /\ valid
  /\ valid' = FALSE
  /\ Goto(Usb, "read")
  /\ UNCHANGED <<locks, hndl, hCameraThread, flags, streaming, bPaused, bFile, task,
                 pollcount, timer, timerFor, usbHndl, captures, history>>

(* The argument of StopVideoCapture is read with nothing locked.            *)
ReadHandle ==
  /\ call[Usb] = "read"
  /\ usbHndl' = hndl
  /\ Goto(Usb, "stop")
  /\ UNCHANGED <<locks, hndl, hCameraThread, flags, device, bFile, task, pollcount,
                 timer, timerFor, captures, calls, history>>

(* The device is closed under mutex_ alone.                                 *)
DeinitCamera ==
  /\ call[Usb] = "deinit" /\ mutex = NoOne
  /\ streaming' = FALSE
  /\ stale' = (stale \/ hCameraThread # None)
  /\ Goto(Usb, "idle")
  /\ UNCHANGED <<locks, hndl, hCameraThread, flags, valid, bPaused, bFile, task,
                 pollcount, timer, timerFor, usbHndl, captures, calls, told,
                 stopped, failed, asked, unpaused, late>>

Plug ==
  /\ Calls(Usb) /\ ~valid /\ mutex = NoOne
  /\ valid' = TRUE
  /\ UNCHANGED <<locks, call, hndl, hCameraThread, flags, streaming, bPaused, bFile,
                 task, pollcount, timer, timerFor, usbHndl, captures, history>>
-----------------------------------------------------------------------------
ThreadStep(a) ==
  \/ StartLocks(a) \/ InitCameraTask(a) \/ StartReturns(a)
  \/ StopLocks(a) \/ HaltTask(a) \/ StopReturns(a)
  \/ GrabLocks(a) \/ GrabFrame(a) \/ GrabFails(a)
  \/ UnLockSurface(a)
  \/ a = Usb /\ (ReadHandle \/ DeinitCamera)

TaskStep(r) ==
  \/ TaskBegins(r) \/ TaskRuns(r) \/ TaskLocks(r) \/ TaskRestarts(r) \/ TaskPauses(r)
  \/ TaskPollsNone(r) \/ TaskGetsFrame(r) \/ TaskReturnsFrame(r) \/ TaskEnds(r)
  \/ TaskPosts(r) \/ ListenerReturns(r) \/ TaskStops(r)

Next ==
  \/ \E c \in Client : \/ CallStart(c) \/ CallStop(c) \/ CallGrab(c) \/ LockSurface(c)
                       \/ \E paused \in BOOLEAN : SetPaused(c, paused)
  \/ \E a \in Actor : ThreadStep(a)
  \/ \E r \in Capture : TaskStep(r) \/ ListenerCalls(r) \/ Expire(r) \/ TimerTask(r)
  \/ TimerCallback \/ ForeignCallback
  \/ Unplug \/ Plug

(* Threads that can go on do.  The task leaves mThread free for a           *)
(* millisecond after each poll that finds nothing, so a thread that waits   *)
(* for it gets it, and the task tries it again and again.  A client unlocks *)
(* the surface.  Nothing makes a client call, a timer expire, a camera come *)
(* or go, a frame arrive or a listener call back.                           *)
Fairness ==
  /\ \A a \in Actor : SF_vars(ThreadStep(a))
  /\ \A r \in Capture : SF_vars(TaskStep(r))
  /\ WF_vars(\E r \in Capture : TimerTask(r)) /\ WF_vars(TimerCallback)

Spec == Init /\ [][Next]_vars /\ Fairness
-----------------------------------------------------------------------------
(* Properties *)

InLoop == {"loop", "locked", "frame"}
Live(r) == task[r] \notin {"none", "ended"}

(* The task that holds a frame of the driver is the only one, and the       *)
(* stream stays on with its buffers mapped until the frame is returned,     *)
(* whoever stops, snaps or pulls out: except when the USB listener has read *)
(* the handle before StartVideoCapture stored it and closes the device.     *)
FramesStay ==
  /\ \A r \in Capture : Live(r) => hCameraThread = r
  /\ \A r \in Capture : task[r] = "frame" => streaming \/ stale

(* Every capture but the last has posted its end event, the last has when   *)
(* no task is left, and the event tells the truth: time elapsed when        *)
(* TimerTask took the signal of its own timer, unless it answered that of   *)
(* another while this was the last capture: of one that had ended, whose    *)
(* callback came late or whose timer was destroyed before its signal was    *)
(* taken; stopped when somebody called StopVideoCapture, or a write or      *)
(* restart failed.                                                          *)
EndIsExplained ==
  /\ \A r \in 1..captures : r # hCameraThread => told[r] # "none"
  /\ \A r \in Capture :
       /\ told[r] = "elapsed" => timer[r] = "fired" \/ r \in late
       /\ told[r] = "stopped" => r \in stopped \cup failed

(* A capture that was paused stays paused whatever snapshots are taken      *)
(* (CameraMPI.h:209), unless a snapshot fails or the stream is restarted.   *)
PauseOutlivesSnapshot == asked => bPaused \/ unpaused

(* CameraMPI.h:49: "Capture can be paused with PauseVideoCapture(), and     *)
(* resumed with ResumeVideoCapture()": nothing else resumes it.             *)
PausedStays == asked => bPaused

(* A listener has called the module from a frame event, or from the end     *)
(* event while somebody holds a lock and waits for the task; or a restart   *)
(* that failed has left mThread locked by a task that has ended.            *)
SelfBlocked ==
  \/ \E r \in Capture : task[r] = "blocked"
  \/ \E r \in Capture : task[r] = "calling" /\ (mThread # NoOne \/ mutex # NoOne)
  \/ \E r \in Capture : task[r] = "ended" /\ mThread = r

(* Every call of a client and of the USB listener returns, unless the       *)
(* threads are blocked for ever.                                            *)
CallsReturn == (\A a \in Actor : []<>(call[a] = "idle")) \/ <>[]SelfBlocked

(* A stream that a failed snapshot has left off is on again or the capture  *)
(* ends, unless it is paused.                                               *)
StreamRecovers ==
  \/ \A r \in Capture :
       task[r] \in InLoop /\ ~streaming ~> streaming \/ bPaused \/ task[r] \notin InLoop
  \/ <>[]SelfBlocked
=============================================================================
