-------------------------- MODULE MicrophoneProofs --------------------------
(***************************************************************************)
(* Proofs about Microphone, for every number of clients, captures and      *)
(* calls and every size of the event queue.  The inductive invariant is    *)
(*                                                                         *)
(*    TypeOK /\ Calling /\ Locked /\ Tasks /\ OneTask /\ Stopping          *)
(*           /\ OwnTimer /\ TrueReason                                     *)
(*                                                                         *)
(* Calling and Locked say where threads are and what they hold; Tasks ties *)
(* events and timers to where the tasks are.  OneTask and Stopping hold    *)
(* until a device was closed by way of a stale handle: the last capture is *)
(* the only one with a task, and who has stopped it is still waiting for   *)
(* it.  OwnTimer holds until, also, a capture ended with its timer's       *)
(* callback under way: the callback stops the capture whose timer it was   *)
(* called for, which has expired unless it answered the signal of one that *)
(* is gone, and an end event tells the truth (TrueReason).                 *)
(***************************************************************************)
EXTENDS Microphone, TLAPS

-----------------------------------------------------------------------------
(* The inductive invariant *)

Told == {"notify", "calling", "called", "ended"}
Over == Told \cup {"ending"}

Calling ==
  /\ \A c \in Client :
       /\ call[c] \in {"idle", "start", "fill", "await", "stop", "halt", "join"}
       /\ call[c] \in {"start", "fill"} => captures < MaxCaptures
       /\ call[c] = "fill" => ~hndl
       /\ call[c] = "await" => hndl
  /\ \A c, d \in Client :
       {call[c], call[d]} \subseteq {"start", "fill"} => c = d
  /\ call[Timer] \in {"idle", "callback", "stop", "halt", "join"}
  /\ call[Timer] = "idle" <=> timerFor = None
  /\ call[Usb] \in {"idle", "read", "stop", "halt", "join", "deinit", "plug"}
  /\ call[Usb] \notin {"idle", "plug"} => ~valid

Locked ==
  \A a \in Actor : call[a] \in {"fill", "await", "halt", "join"} => dlock = a

Tasks ==
  /\ \A r \in Capture :
       /\ r > captures => task[r] = "none"
       /\ told[r] # "none" <=> task[r] \in Told
       /\ task[r] = "none" => stoppedBy[r] = NoOne
       /\ task[r] \in {"none", "begin"} => timer[r] = "off"
       /\ timer[r] \in {"armed", "paused"}
            => task[r] \in {"starting", "loop", "send"}
  /\ timerFor # None => task[timerFor] \notin {"none", "begin"}
  /\ hMicThread # None => task[hMicThread] # "none"

OneTask ==
  ~stale =>
    /\ hndl <=> hMicThread # None
    /\ hMicThread \in {None, captures}
    /\ \A r \in 1..captures : r # hMicThread => task[r] = "ended"
    /\ hMicThread # None =>
         /\ pcm \/ hMicThread \in replugged
         /\ task[hMicThread] \in {"begin", "starting"} => ~bRunning
    /\ bInited => hMicThread # None
       /\ task[hMicThread] \notin {"begin", "starting"}
    /\ \A c \in Client : call[c] = "fill" =>
         (pcm \/ captures + 1 \in replugged) /\ call[Usb] # "deinit"
    /\ call[Usb] = "deinit" => hMicThread = None

Stopping ==
  ~stale =>
    /\ \A r \in Capture :
         hMicThread = r /\ (task[r] \in {"loop", "send"} => ~bRunning)
                        /\ task[r] \notin {"none", "begin", "starting"}
           => \E a \in Actor : call[a] = "join"
    /\ \A a \in Actor :
         call[a] = "join" => hMicThread # None /\ stoppedBy[hMicThread] = a
    /\ hMicThread # None /\ stoppedBy[hMicThread] # NoOne
         => call[stoppedBy[hMicThread]] = "join"

OwnTimer ==
  ~stale /\ ~late =>
    /\ timerFor # None =>
         /\ timerFor = hMicThread /\ Expired(timerFor)
         /\ task[timerFor] \in Over => stoppedBy[timerFor] = Timer
    /\ call[Timer] \in {"stop", "halt", "join"} => timeout
    /\ \A r \in Capture :
         hMicThread = r /\ timeout /\ task[r] # "begin" => Expired(r)
    /\ \A r \in Capture : stoppedBy[r] = Timer => Expired(r)

TrueReason ==
  ~stale /\ ~late =>
    \A r \in Capture : told[r] # "none" =>
      /\ told[r] = "stopped" => stoppedBy[r] \in Client
      /\ told[r] = "timeout" => Expired(r)
      /\ stoppedBy[r] = Usb => told[r] = "removed"

IInv == TypeOK /\ Calling /\ Locked /\ Tasks /\ OneTask /\ Stopping /\ OwnTimer
        /\ TrueReason

-----------------------------------------------------------------------------
LEMMA Constants ==
  /\ Client \subseteq Actor /\ Timer \in Actor /\ Usb \in Actor
  /\ Timer \notin Client /\ Usb \notin Client /\ Timer # Usb
  /\ NoOne \notin Actor /\ Dispatcher \in Client
  /\ QueueMax \in Nat /\ MaxCaptures \in Nat /\ MaxCalls \in Nat
  /\ Capture \subseteq Nat /\ None \notin Capture
  /\ Owner = Capture \cup {None}
  /\ \A a \in Actor : a \in Client \/ a = Timer \/ a = Usb
  BY ActorAssumption, BoundAssumption DEF Actor, Capture, Owner, None

(* A task that has not ended is that of the current capture.                *)
LEMMA LiveIsCurrent ==
  ASSUME TypeOK, Tasks, OneTask, ~stale, NEW r \in Capture,
         task[r] \notin {"none", "ended"}
  PROVE  hMicThread = r /\ r = captures
<1>1. r \in 1..captures
  BY Constants DEF Tasks, TypeOK, Capture
<1>. QED
  BY <1>1, Constants DEF OneTask

LEMMA InitInv == Init => IInv
<1> SUFFICES ASSUME Init PROVE IInv
  OBVIOUS
<1>1. TypeOK
  <2>1. /\ {bRunning, bStopping, bInited, timeout, valid, pcm, bPaused, limit}
             \subseteq BOOLEAN
        /\ wasPaused \in [Capture -> BOOLEAN] /\ usbHndl \in BOOLEAN
        /\ hndl \in BOOLEAN /\ late \in BOOLEAN /\ stale \in BOOLEAN
        /\ timer \in [Owner -> TimerState]
    BY DEF Init, TimerState
  <2>2. queue \in 0..QueueMax /\ captures \in 0..MaxCaptures
        /\ calls \in 0..MaxCalls
    BY Constants DEF Init
  <2>. QED
    BY <2>1, <2>2 DEF Init, TypeOK, Place, Step, Owner, Reason
<1>2. Calling /\ Locked /\ Tasks
  BY Constants DEF Init, Calling, Locked, Tasks, Told, None
<1>3. OneTask /\ Stopping /\ OwnTimer /\ TrueReason
  BY Constants
     DEF Init, OneTask, Stopping, OwnTimer, TrueReason, Over, Told, None
<1>. QED
  BY <1>1, <1>2, <1>3 DEF IInv

LEMMA TypeStep ==
  TypeOK /\ Calling /\ [Next]_vars
    => TypeOK'
<1> SUFFICES ASSUME TypeOK, Calling, [Next]_vars
             PROVE  TypeOK'
  OBVIOUS
<1>1. ASSUME NEW c \in Client, CallStart(c)
      PROVE  TypeOK'
  BY <1>1, Constants
     DEF CallStart, Calls, Goto, Starting, flags, history, TypeOK, Place, Step,
         TimerState, Owner, Reason
<1>2. ASSUME NEW c \in Client, StartLocks(c)
      PROVE  TypeOK'
  BY <1>2, Constants
     DEF StartLocks, Goto, flags, history, TypeOK, Place, Step, TimerState,
         Owner, Reason
<1>3. ASSUME NEW c \in Client, NEW paused \in BOOLEAN, StartNoSpace(c, paused)
      PROVE  TypeOK'
  BY <1>3, Constants
     DEF StartNoSpace, Goto, flags, history, TypeOK, Place, Step, TimerState,
         Owner, Reason
<1>4. ASSUME NEW c \in Client, NEW paused \in BOOLEAN, NEW max \in BOOLEAN,
   InitMicTask(c, paused, max)
      PROVE  TypeOK'
  <2>1. captures + 1 \in Capture /\ captures' \in 0..MaxCaptures
    BY <1>4, Constants DEF InitMicTask, Calling, TypeOK, Capture
  <2>2. ({bRunning, bStopping, bInited, timeout, valid, pcm,
     bPaused, limit} \subseteq BOOLEAN)'
    BY <1>4 DEF InitMicTask, TypeOK
  <2>3. task' \in [Capture -> Step] /\ call' \in [Actor -> Place]
    BY <1>4, <2>1 DEF InitMicTask, Goto, TaskGoto, TypeOK, Step, Place
  <2>. QED
    BY <1>4, <2>1, <2>2, <2>3 DEF InitMicTask, history, TypeOK
<1>5. ASSUME NEW c \in Client, StartReturns(c)
      PROVE  TypeOK'
  BY <1>5, Constants
     DEF StartReturns, Goto, history, TypeOK, Place, Step, TimerState, Owner,
         Reason
<1>6. ASSUME NEW c \in Client, CallStop(c)
      PROVE  TypeOK'
  BY <1>6, Constants
     DEF CallStop, Calls, Goto, flags, history, TypeOK, Place, Step, TimerState,
         Owner, Reason
<1>7. ASSUME NEW c \in Client, PauseAudioCapture(c)
      PROVE  TypeOK'
  BY <1>7, Constants
     DEF PauseAudioCapture, Calls, flags, history, TypeOK, Place, Step,
         TimerState, Owner, Reason
<1>8. ASSUME NEW c \in Client, ResumeAudioCapture(c)
      PROVE  TypeOK'
  <2>1. ({bRunning, bStopping, bInited, timeout, valid, pcm,
     bPaused, limit} \subseteq BOOLEAN)'
    BY <1>8 DEF ResumeAudioCapture, flags, TypeOK
  <2>2. calls' \in 0..MaxCalls
    BY <1>8, Constants DEF ResumeAudioCapture, Calls, TypeOK
  <2>. QED
    BY <1>8, <2>1, <2>2 DEF ResumeAudioCapture, history, TypeOK
<1>9. ASSUME NEW a \in Actor, StopLocks(a)
      PROVE  TypeOK'
  BY <1>9, Constants
     DEF StopLocks, Goto, Return, flags, history, TypeOK, Place, Step,
         TimerState, Owner, Reason
<1>10. ASSUME NEW a \in Actor, StopForgets(a)
      PROVE  TypeOK'
  BY <1>10, Constants
     DEF StopForgets, Return, IsThreadHandle, Goto, flags, TypeOK, Place, Step,
         TimerState, Owner, Reason
<1>11. ASSUME NEW a \in Actor, HaltTask(a)
      PROVE  TypeOK'
  BY <1>11, Constants
     DEF HaltTask, Goto, IsThreadHandle, TypeOK, Place, Step, TimerState, Owner,
         Reason
<1>12. ASSUME NEW a \in Actor, StopReturns(a)
      PROVE  TypeOK'
  BY <1>12, Constants
     DEF StopReturns, Return, Goto, history, TypeOK, Place, Step, TimerState,
         Owner, Reason
<1>13. ASSUME NEW r \in Capture, TaskBegins(r)
      PROVE  TypeOK'
  BY <1>13, Constants
     DEF TaskBegins, TaskGoto, history, TypeOK, Place, Step, TimerState, Owner,
         Reason
<1>14. ASSUME NEW r \in Capture, TaskRuns(r)
      PROVE  TypeOK'
  BY <1>14, Constants
     DEF TaskRuns, TaskGoto, history, TypeOK, Place, Step, TimerState, Owner,
         Reason
<1>15. ASSUME NEW r \in Capture, TaskPauses(r)
      PROVE  TypeOK'
  BY <1>15, Constants
     DEF TaskPauses, flags, history, TypeOK, Place, Step, TimerState, Owner,
         Reason
<1>16. ASSUME NEW r \in Capture, TaskTriggers(r)
      PROVE  TypeOK'
  BY <1>16, Constants
     DEF TaskTriggers, TaskGoto, flags, history, TypeOK, Place, Step,
         TimerState, Owner, Reason
<1>17. ASSUME NEW r \in Capture, TaskSent(r)
      PROVE  TypeOK'
  BY <1>17, Constants
     DEF TaskSent, TaskGoto, flags, history, TypeOK, Place, Step, TimerState,
         Owner, Reason
<1>18. ASSUME NEW r \in Capture, TaskEnds(r)
      PROVE  TypeOK'
  BY <1>18, Constants
     DEF TaskEnds, TaskGoto, flags, TypeOK, Place, Step, TimerState, Owner,
         Reason
<1>19. ASSUME NEW r \in Capture, TaskPosts(r)
      PROVE  TypeOK'
  BY <1>19, Constants
     DEF TaskPosts, TaskGoto, EndReason, flags, history, TypeOK, Place, Step,
         TimerState, Owner, Reason
<1>20. ASSUME NEW r \in Capture, ListenerCalls(r)
      PROVE  TypeOK'
  BY <1>20, Constants
     DEF ListenerCalls, TaskGoto, flags, history, TypeOK, Place, Step,
         TimerState, Owner, Reason
<1>21. ASSUME NEW r \in Capture, ListenerReturns(r)
      PROVE  TypeOK'
  BY <1>21, Constants
     DEF ListenerReturns, TaskGoto, flags, history, TypeOK, Place, Step,
         TimerState, Owner, Reason
<1>22. ASSUME NEW r \in Capture, TaskStops(r)
      PROVE  TypeOK'
  BY <1>22, Constants
     DEF TaskStops, TaskGoto, history, TypeOK, Place, Step, TimerState, Owner,
         Reason
<1>23. ASSUME NEW r \in Capture, Expire(r)
      PROVE  TypeOK'
  BY <1>23, Constants
     DEF Expire, Goto, flags, history, TypeOK, Place, Step, TimerState, Owner,
         Reason
<1>24. CASE TimerCallback
  BY <1>24, Constants
     DEF TimerCallback, Goto, history, TypeOK, Place, Step, TimerState, Owner,
         Reason
<1>25. CASE Unplug
  <2>1. ({bRunning, bStopping, bInited, timeout, valid, pcm,
     bPaused, limit} \subseteq BOOLEAN)'
    BY <1>25 DEF Unplug, flags, TypeOK
  <2>2. calls' \in 0..MaxCalls /\ call' \in [Actor -> Place]
    BY <1>25, Constants DEF Unplug, Calls, Goto, TypeOK, Place
  <2>. QED
    BY <1>25, <2>1, <2>2 DEF Unplug, history, TypeOK
<1>26. CASE ReadHandle
  BY <1>26, Constants
     DEF ReadHandle, Goto, flags, history, TypeOK, Place, Step, TimerState,
         Owner, Reason
<1>27. CASE DeinitMicrophone
  BY <1>27, Constants
     DEF DeinitMicrophone, Goto, flags, history, TypeOK, Place, Step,
         TimerState, Owner, Reason
<1>28. CASE Dispatch
  BY <1>28, Constants
     DEF Dispatch, flags, history, TypeOK, Place, Step, TimerState, Owner,
         Reason
<1>29. ASSUME NEW r \in Owner, TimerTask(r)
      PROVE  TypeOK'
  BY <1>29, Constants
     DEF TimerTask, Timed, Goto, flags, TypeOK, Place, Step, TimerState, Owner,
         Reason
<1>30. CASE Plug
  <2>1. ({bRunning, bStopping, bInited, timeout, valid, pcm,
     bPaused, limit} \subseteq BOOLEAN)'
    BY <1>30 DEF Plug, flags, TypeOK
  <2>2. call' \in [Actor -> Place] /\ calls' \in 0..MaxCalls
    BY <1>30, Constants DEF Plug, Calls, Goto, TypeOK, Place
  <2>3. replugged' \subseteq Capture
    <3>1. Current \subseteq Capture
      BY Constants DEF Current, Calling, TypeOK, Capture
    <3>. QED
      BY <1>30, <3>1 DEF Plug, TypeOK
  <2>. QED
    BY <1>30, <2>1, <2>2, <2>3 DEF Plug, TypeOK
<1>31. CASE PlugOpens
  <2>1. ({bRunning, bStopping, bInited, timeout, valid, pcm,
     bPaused, limit} \subseteq BOOLEAN)'
    BY <1>31 DEF PlugOpens, flags, TypeOK
  <2>2. call' \in [Actor -> Place] /\ calls' \in 0..MaxCalls
    BY <1>31, Constants DEF PlugOpens, Goto, TypeOK, Place
  <2>3. replugged' \subseteq Capture
    <3>1. Current \subseteq Capture
      BY Constants DEF Current, Calling, TypeOK, Capture
    <3>. QED
      BY <1>31, <3>1 DEF PlugOpens, TypeOK
  <2>. QED
    BY <1>31, <2>1, <2>2, <2>3 DEF PlugOpens, TypeOK
<1>32. CASE UNCHANGED <<dlock, call, hndl, hMicThread, bRunning, bStopping,
                        bInited, timeout, valid, pcm, bPaused, limit, task,
                        wasPaused, timer, timerFor, usbHndl, queue, captures,
                        calls, told, stoppedBy, late, stale,
                        strayed, replugged>>
  BY <1>32 DEF TypeOK, Place, Step, TimerState, Owner, Reason
<1>. QED
  BY <1>1, <1>2, <1>3, <1>4, <1>5, <1>6, <1>7, <1>8, <1>9, <1>10, <1>11, <1>12,
     <1>13, <1>14, <1>15, <1>16, <1>17, <1>18, <1>19, <1>20, <1>21, <1>22,
     <1>23, <1>24, <1>25, <1>26, <1>27, <1>28, <1>29, <1>30, <1>31, <1>32
     DEF Next, StartStep, StopStep, TaskStep, UsbStep, vars, flags, history

LEMMA CallingStep ==
  TypeOK /\ Locked /\ Calling /\ [Next]_vars
    => Calling'
<1> SUFFICES ASSUME TypeOK, Locked, Calling, [Next]_vars
             PROVE  Calling'
  OBVIOUS
<1>1. ASSUME NEW c \in Client, CallStart(c)
      PROVE  Calling'
  BY <1>1, Constants
     DEF CallStart, Calls, Goto, Starting, Calling, Locked, TypeOK
<1>2. ASSUME NEW c \in Client, StartLocks(c)
      PROVE  Calling'
  BY <1>2, Constants DEF StartLocks, Goto, Calling, Locked, TypeOK
<1>3. ASSUME NEW c \in Client, NEW paused \in BOOLEAN, StartNoSpace(c, paused)
      PROVE  Calling'
  BY <1>3, Constants DEF StartNoSpace, Goto, Calling, Locked, TypeOK
<1>4. ASSUME NEW c \in Client, NEW paused \in BOOLEAN, NEW max \in BOOLEAN,
   InitMicTask(c, paused, max)
      PROVE  Calling'
  BY <1>4, Constants DEF InitMicTask, Goto, TaskGoto, Calling, Locked, TypeOK
<1>5. ASSUME NEW c \in Client, StartReturns(c)
      PROVE  Calling'
  BY <1>5, Constants DEF StartReturns, Goto, Calling, Locked, TypeOK
<1>6. ASSUME NEW c \in Client, CallStop(c)
      PROVE  Calling'
  BY <1>6, Constants DEF CallStop, Calls, Goto, Calling, Locked, TypeOK
<1>7. ASSUME NEW a \in Actor, StopLocks(a)
      PROVE  Calling'
  BY <1>7, Constants DEF StopLocks, Goto, Return, Calling, Locked, TypeOK
<1>8. ASSUME NEW a \in Actor, StopForgets(a)
      PROVE  Calling'
  BY <1>8, Constants
     DEF StopForgets, Return, IsThreadHandle, Goto, Calling, Locked, TypeOK
<1>9. ASSUME NEW a \in Actor, HaltTask(a)
      PROVE  Calling'
  BY <1>9, Constants DEF HaltTask, Goto, IsThreadHandle, Calling, Locked, TypeOK
<1>10. ASSUME NEW a \in Actor, StopReturns(a)
      PROVE  Calling'
  BY <1>10, Constants DEF StopReturns, Return, Goto, Calling, Locked, TypeOK
<1>11. ASSUME NEW r \in Capture, Expire(r)
      PROVE  Calling'
  BY <1>11, Constants DEF Expire, Goto, Calling, Locked, TypeOK
<1>12. CASE TimerCallback
  BY <1>12, Constants DEF TimerCallback, Goto, Calling, Locked, TypeOK
<1>13. CASE Unplug
  BY <1>13, Constants DEF Unplug, Calls, Goto, Calling, Locked, TypeOK
<1>14. CASE ReadHandle
  BY <1>14, Constants DEF ReadHandle, Goto, Calling, Locked, TypeOK
<1>15. CASE DeinitMicrophone
  BY <1>15, Constants DEF DeinitMicrophone, Goto, Calling, Locked, TypeOK
<1>16. ASSUME NEW r \in Owner, TimerTask(r)
      PROVE  Calling'
  BY <1>16, Constants DEF TimerTask, Timed, Goto, Calling, Locked, TypeOK
<1>17. CASE Plug
  BY <1>17, Constants DEF Plug, Calls, Goto, Current, Calling, Locked, TypeOK
<1>18. CASE PlugOpens
  BY <1>18, Constants DEF PlugOpens, Goto, Current, Calling, Locked, TypeOK
<1>19. CASE UNCHANGED <<call, captures, hndl, timerFor, valid>>
  BY <1>19 DEF Calling, Locked, TypeOK
<1>. QED
  BY <1>1, <1>2, <1>3, <1>4, <1>5, <1>6, <1>7, <1>8, <1>9, <1>10, <1>11, <1>12,
     <1>13, <1>14, <1>15, <1>16, <1>17, <1>18, <1>19
     DEF Next, StartStep, StopStep, TaskStep, UsbStep, vars, PauseAudioCapture,
         ResumeAudioCapture, TaskBegins, TaskRuns, TaskPauses, TaskTriggers,
         TaskSent, TaskEnds, TaskPosts, ListenerCalls, ListenerReturns,
         TaskStops, Dispatch

LEMMA LockedStep ==
  TypeOK /\ Locked /\ [Next]_vars
    => Locked'
<1> SUFFICES ASSUME TypeOK, Locked, [Next]_vars
             PROVE  Locked'
  OBVIOUS
<1>1. ASSUME NEW c \in Client, CallStart(c)
      PROVE  Locked'
  BY <1>1, Constants DEF CallStart, Calls, Goto, Starting, Locked, TypeOK
<1>2. ASSUME NEW c \in Client, StartLocks(c)
      PROVE  Locked'
  BY <1>2, Constants DEF StartLocks, Goto, Locked, TypeOK
<1>3. ASSUME NEW c \in Client, NEW paused \in BOOLEAN, StartNoSpace(c, paused)
      PROVE  Locked'
  BY <1>3, Constants DEF StartNoSpace, Goto, Locked, TypeOK
<1>4. ASSUME NEW c \in Client, NEW paused \in BOOLEAN, NEW max \in BOOLEAN,
   InitMicTask(c, paused, max)
      PROVE  Locked'
  BY <1>4, Constants DEF InitMicTask, Goto, TaskGoto, Locked, TypeOK
<1>5. ASSUME NEW c \in Client, StartReturns(c)
      PROVE  Locked'
  BY <1>5, Constants DEF StartReturns, Goto, Locked, TypeOK
<1>6. ASSUME NEW c \in Client, CallStop(c)
      PROVE  Locked'
  BY <1>6, Constants DEF CallStop, Calls, Goto, Locked, TypeOK
<1>7. ASSUME NEW a \in Actor, StopLocks(a)
      PROVE  Locked'
  BY <1>7, Constants DEF StopLocks, Goto, Return, Locked, TypeOK
<1>8. ASSUME NEW a \in Actor, StopForgets(a)
      PROVE  Locked'
  BY <1>8, Constants
     DEF StopForgets, Return, IsThreadHandle, Goto, Locked, TypeOK
<1>9. ASSUME NEW a \in Actor, HaltTask(a)
      PROVE  Locked'
  BY <1>9, Constants DEF HaltTask, Goto, IsThreadHandle, Locked, TypeOK
<1>10. ASSUME NEW a \in Actor, StopReturns(a)
      PROVE  Locked'
  BY <1>10, Constants DEF StopReturns, Return, Goto, Locked, TypeOK
<1>11. ASSUME NEW r \in Capture, Expire(r)
      PROVE  Locked'
  BY <1>11, Constants DEF Expire, Goto, Locked, TypeOK
<1>12. CASE TimerCallback
  BY <1>12, Constants DEF TimerCallback, Goto, Locked, TypeOK
<1>13. CASE Unplug
  BY <1>13, Constants DEF Unplug, Calls, Goto, Locked, TypeOK
<1>14. CASE ReadHandle
  BY <1>14, Constants DEF ReadHandle, Goto, Locked, TypeOK
<1>15. CASE DeinitMicrophone
  BY <1>15, Constants DEF DeinitMicrophone, Goto, Locked, TypeOK
<1>16. ASSUME NEW r \in Owner, TimerTask(r)
      PROVE  Locked'
  BY <1>16, Constants DEF TimerTask, Timed, Goto, Locked, TypeOK
<1>17. CASE Plug
  BY <1>17, Constants DEF Plug, Calls, Goto, Current, Locked, TypeOK
<1>18. CASE PlugOpens
  BY <1>18, Constants DEF PlugOpens, Goto, Current, Locked, TypeOK
<1>19. CASE UNCHANGED <<call, dlock>>
  BY <1>19 DEF Locked, TypeOK
<1>. QED
  BY <1>1, <1>2, <1>3, <1>4, <1>5, <1>6, <1>7, <1>8, <1>9, <1>10, <1>11, <1>12,
     <1>13, <1>14, <1>15, <1>16, <1>17, <1>18, <1>19
     DEF Next, StartStep, StopStep, TaskStep, UsbStep, vars, PauseAudioCapture,
         ResumeAudioCapture, TaskBegins, TaskRuns, TaskPauses, TaskTriggers,
         TaskSent, TaskEnds, TaskPosts, ListenerCalls, ListenerReturns,
         TaskStops, Dispatch

LEMMA TasksStep ==
  TypeOK /\ Calling /\ Tasks /\ OneTask /\ Stopping /\ Locked /\ [Next]_vars
    => Tasks'
<1> SUFFICES ASSUME TypeOK, Calling, Tasks, OneTask, Stopping, Locked,
   [Next]_vars
             PROVE  Tasks'
  OBVIOUS
<1>1. ASSUME NEW c \in Client, NEW paused \in BOOLEAN, NEW max \in BOOLEAN,
   InitMicTask(c, paused, max)
      PROVE  Tasks'
  <2>1. task[captures + 1] = "none" /\ captures + 1 \in Capture
    BY <1>1, Constants DEF InitMicTask, Tasks, Calling, TypeOK, Capture
  <2>2. /\ task' = [task EXCEPT ![captures + 1] = "begin"]
        /\ hMicThread' = captures + 1 /\ captures' = captures + 1
        /\ UNCHANGED <<told, stoppedBy, timer, timerFor>>
    BY <1>1 DEF InitMicTask, TaskGoto, history
  <2>3. timerFor # None => timerFor \in Capture /\ timerFor # captures + 1
    BY <2>1, Constants DEF Tasks, TypeOK
  <2>4. \A r \in Capture : r > captures + 1 => r > captures /\ r # captures + 1
    BY Constants DEF TypeOK, Capture
  <2>. QED
    BY <2>1, <2>2, <2>3, <2>4 DEF Tasks, Told, TypeOK
<1>2. ASSUME NEW a \in Actor, StopLocks(a)
      PROVE  Tasks'
  BY <1>2, Constants DEF StopLocks, Goto, Return, history, Tasks, Told, TypeOK
<1>3. ASSUME NEW a \in Actor, StopForgets(a)
      PROVE  Tasks'
  BY <1>3, Constants
     DEF StopForgets, Return, IsThreadHandle, Goto, Tasks, Told, TypeOK
<1>4. ASSUME NEW a \in Actor, HaltTask(a)
      PROVE  Tasks'
  BY <1>4, Constants DEF HaltTask, Goto, IsThreadHandle, Tasks, Told, TypeOK
<1>5. ASSUME NEW a \in Actor, StopReturns(a)
      PROVE  Tasks'
  BY <1>5, Constants DEF StopReturns, Return, Goto, history, Tasks, Told, TypeOK
<1>6. ASSUME NEW r \in Capture, TaskBegins(r)
      PROVE  Tasks'
  BY <1>6, Constants DEF TaskBegins, TaskGoto, history, Tasks, Told, TypeOK
<1>7. ASSUME NEW r \in Capture, TaskRuns(r)
      PROVE  Tasks'
  BY <1>7, Constants DEF TaskRuns, TaskGoto, history, Tasks, Told, TypeOK
<1>8. ASSUME NEW r \in Capture, TaskPauses(r)
      PROVE  Tasks'
  BY <1>8, Constants DEF TaskPauses, history, Tasks, Told, TypeOK
<1>9. ASSUME NEW r \in Capture, TaskTriggers(r)
      PROVE  Tasks'
  BY <1>9, Constants DEF TaskTriggers, TaskGoto, history, Tasks, Told, TypeOK
<1>10. ASSUME NEW r \in Capture, TaskSent(r)
      PROVE  Tasks'
  BY <1>10, Constants DEF TaskSent, TaskGoto, history, Tasks, Told, TypeOK
<1>11. ASSUME NEW r \in Capture, TaskEnds(r)
      PROVE  Tasks'
  BY <1>11, Constants DEF TaskEnds, TaskGoto, Tasks, Told, TypeOK
<1>12. ASSUME NEW r \in Capture, TaskPosts(r)
      PROVE  Tasks'
  BY <1>12, Constants
     DEF TaskPosts, TaskGoto, EndReason, history, Tasks, Told, TypeOK
<1>13. ASSUME NEW r \in Capture, ListenerCalls(r)
      PROVE  Tasks'
  BY <1>13, Constants DEF ListenerCalls, TaskGoto, history, Tasks, Told, TypeOK
<1>14. ASSUME NEW r \in Capture, ListenerReturns(r)
      PROVE  Tasks'
  BY <1>14, Constants
     DEF ListenerReturns, TaskGoto, history, Tasks, Told, TypeOK
<1>15. ASSUME NEW r \in Capture, TaskStops(r)
      PROVE  Tasks'
  BY <1>15, Constants DEF TaskStops, TaskGoto, history, Tasks, Told, TypeOK
<1>16. ASSUME NEW r \in Capture, Expire(r)
      PROVE  Tasks'
  BY <1>16, Constants DEF Expire, Goto, history, Tasks, Told, TypeOK
<1>17. ASSUME NEW r \in Owner, TimerTask(r)
      PROVE  Tasks'
  BY <1>17, Constants DEF TimerTask, Timed, Goto, Tasks, Told, TypeOK
<1>18. CASE UNCHANGED <<task, told, stoppedBy, timer, timerFor, captures,
                        hMicThread>>
  BY <1>18 DEF Tasks, Told, TypeOK
<1>. QED
  BY <1>1, <1>2, <1>3, <1>4, <1>5, <1>6, <1>7, <1>8, <1>9, <1>10, <1>11, <1>12,
     <1>13, <1>14, <1>15, <1>16, <1>17, <1>18
     DEF Next, StartStep, StopStep, TaskStep, UsbStep, vars, history, CallStart,
         StartLocks, StartNoSpace, StartReturns, CallStop, PauseAudioCapture,
         ResumeAudioCapture, TimerCallback, Unplug, ReadHandle,
         DeinitMicrophone, Plug, Dispatch, PlugOpens

LEMMA OneTaskStep ==
  TypeOK /\ Calling /\ Locked /\ Tasks /\ OneTask /\ [Next]_vars
    => OneTask'
<1> SUFFICES ASSUME TypeOK, Calling, Locked, Tasks, OneTask, [Next]_vars
             PROVE  OneTask'
  OBVIOUS
<1>1. ASSUME NEW c \in Client, CallStart(c)
      PROVE  OneTask'
  BY <1>1, Constants, LiveIsCurrent
     DEF CallStart, Calls, Goto, Starting, flags, history, OneTask, Calling,
         Locked, Tasks, TypeOK
<1>2. ASSUME NEW c \in Client, StartLocks(c)
      PROVE  OneTask'
  BY <1>2, Constants, LiveIsCurrent
     DEF StartLocks, Goto, flags, history, OneTask, Calling, Locked, Tasks,
         TypeOK
<1>3. ASSUME NEW c \in Client, NEW paused \in BOOLEAN, StartNoSpace(c, paused)
      PROVE  OneTask'
  BY <1>3, Constants, LiveIsCurrent
     DEF StartNoSpace, Goto, flags, history, OneTask, Calling, Locked, Tasks,
         TypeOK
<1>4. ASSUME NEW c \in Client, NEW paused \in BOOLEAN, NEW max \in BOOLEAN,
   InitMicTask(c, paused, max)
      PROVE  OneTask'
  <2>1. SUFFICES ASSUME ~stale PROVE OneTask'
    BY <1>4 DEF InitMicTask, history, OneTask
  <2>2. hMicThread = None /\ captures + 1 \in Capture
        /\ \A r \in Capture : task[r] \in {"none", "ended"}
    BY <1>4, <2>1, Constants, LiveIsCurrent
       DEF InitMicTask, Calling, OneTask, TypeOK, Capture
  <2>3. \A r \in 1..captures : task'[r] = task[r] /\ task[r] = "ended"
    BY <1>4, <2>1, <2>2, Constants
       DEF InitMicTask, TaskGoto, OneTask, TypeOK, Capture
  <2>4. task'[captures + 1] = "begin"
    BY <1>4, <2>2 DEF InitMicTask, TaskGoto, TypeOK
  <2>5. \A d \in Client : call'[d] # "fill"
    BY <1>4, Constants DEF InitMicTask, Goto, Calling, TypeOK
  <2>6. call[Usb] # "deinit" /\ call'[Usb] = call[Usb] /\ ~bInited
        /\ (pcm \/ captures + 1 \in replugged) /\ replugged' = replugged
    BY <1>4, <2>1, <2>2, Constants
       DEF InitMicTask, Goto, history, OneTask, TypeOK
  <2>7. /\ hndl' /\ hMicThread' = captures' /\ captures' = captures + 1
        /\ ~bRunning' /\ pcm' = pcm /\ bInited' = bInited
    BY <1>4 DEF InitMicTask
  <2>8. captures' # None
        /\ \A r \in 1..captures' : r # captures' => r \in 1..captures
    BY <2>2, <2>7, Constants DEF TypeOK, Capture, None
  <2>. QED
    BY <2>3, <2>4, <2>5, <2>6, <2>7, <2>8 DEF OneTask
<1>5. ASSUME NEW c \in Client, StartReturns(c)
      PROVE  OneTask'
  BY <1>5, Constants, LiveIsCurrent
     DEF StartReturns, Goto, history, OneTask, Calling, Locked, Tasks, TypeOK
<1>6. ASSUME NEW c \in Client, CallStop(c)
      PROVE  OneTask'
  BY <1>6, Constants, LiveIsCurrent
     DEF CallStop, Calls, Goto, flags, history, OneTask, Calling, Locked, Tasks,
         TypeOK
<1>7. ASSUME NEW a \in Actor, StopLocks(a)
      PROVE  OneTask'
  BY <1>7, Constants, LiveIsCurrent
     DEF StopLocks, Goto, Return, flags, history, OneTask, Calling, Locked,
         Tasks, TypeOK
<1>8. ASSUME NEW a \in Actor, StopForgets(a)
      PROVE  OneTask'
  BY <1>8, Constants, LiveIsCurrent
     DEF StopForgets, Return, IsThreadHandle, Goto, flags, OneTask, Calling,
         Locked, Tasks, TypeOK
<1>9. ASSUME NEW a \in Actor, HaltTask(a)
      PROVE  OneTask'
  BY <1>9, Constants, LiveIsCurrent
     DEF HaltTask, Goto, IsThreadHandle, OneTask, Calling, Locked, Tasks, TypeOK
<1>10. ASSUME NEW a \in Actor, StopReturns(a)
      PROVE  OneTask'
  BY <1>10, Constants, LiveIsCurrent
     DEF StopReturns, Return, Goto, history, OneTask, Calling, Locked, Tasks,
         TypeOK
<1>11. ASSUME NEW r \in Capture, TaskBegins(r)
      PROVE  OneTask'
  BY <1>11, Constants, LiveIsCurrent
     DEF TaskBegins, TaskGoto, history, OneTask, Calling, Locked, Tasks, TypeOK
<1>12. ASSUME NEW r \in Capture, TaskRuns(r)
      PROVE  OneTask'
  BY <1>12, Constants, LiveIsCurrent
     DEF TaskRuns, TaskGoto, history, OneTask, Calling, Locked, Tasks, TypeOK
<1>13. ASSUME NEW r \in Capture, TaskTriggers(r)
      PROVE  OneTask'
  BY <1>13, Constants, LiveIsCurrent
     DEF TaskTriggers, TaskGoto, flags, history, OneTask, Calling, Locked,
         Tasks, TypeOK
<1>14. ASSUME NEW r \in Capture, TaskSent(r)
      PROVE  OneTask'
  BY <1>14, Constants, LiveIsCurrent
     DEF TaskSent, TaskGoto, flags, history, OneTask, Calling, Locked, Tasks,
         TypeOK
<1>15. ASSUME NEW r \in Capture, TaskEnds(r)
      PROVE  OneTask'
  BY <1>15, Constants, LiveIsCurrent
     DEF TaskEnds, TaskGoto, flags, OneTask, Calling, Locked, Tasks, TypeOK
<1>16. ASSUME NEW r \in Capture, TaskPosts(r)
      PROVE  OneTask'
  BY <1>16, Constants, LiveIsCurrent
     DEF TaskPosts, TaskGoto, EndReason, flags, history, OneTask, Calling,
         Locked, Tasks, TypeOK
<1>17. ASSUME NEW r \in Capture, ListenerCalls(r)
      PROVE  OneTask'
  BY <1>17, Constants, LiveIsCurrent
     DEF ListenerCalls, TaskGoto, flags, history, OneTask, Calling, Locked,
         Tasks, TypeOK
<1>18. ASSUME NEW r \in Capture, ListenerReturns(r)
      PROVE  OneTask'
  BY <1>18, Constants, LiveIsCurrent
     DEF ListenerReturns, TaskGoto, flags, history, OneTask, Calling, Locked,
         Tasks, TypeOK
<1>19. ASSUME NEW r \in Capture, TaskStops(r)
      PROVE  OneTask'
  BY <1>19, Constants, LiveIsCurrent
     DEF TaskStops, TaskGoto, history, OneTask, Calling, Locked, Tasks, TypeOK
<1>20. ASSUME NEW r \in Capture, Expire(r)
      PROVE  OneTask'
  BY <1>20, Constants, LiveIsCurrent
     DEF Expire, Goto, flags, history, OneTask, Calling, Locked, Tasks, TypeOK
<1>21. CASE TimerCallback
  BY <1>21, Constants, LiveIsCurrent
     DEF TimerCallback, Goto, history, OneTask, Calling, Locked, Tasks, TypeOK
<1>22. CASE Unplug
  BY <1>22, Constants, LiveIsCurrent
     DEF Unplug, Calls, Goto, flags, history, OneTask, Calling, Locked, Tasks,
         TypeOK
<1>23. CASE ReadHandle
  BY <1>23, Constants, LiveIsCurrent
     DEF ReadHandle, Goto, flags, history, OneTask, Calling, Locked, Tasks,
         TypeOK
<1>24. CASE DeinitMicrophone
  BY <1>24, Constants, LiveIsCurrent
     DEF DeinitMicrophone, Goto, flags, history, OneTask, Calling, Locked,
         Tasks, TypeOK
<1>25. ASSUME NEW r \in Owner, TimerTask(r)
      PROVE  OneTask'
  BY <1>25, Constants, LiveIsCurrent
     DEF TimerTask, Timed, Goto, flags, OneTask, Calling, Locked, Tasks, TypeOK
<1>26. CASE Plug
  BY <1>26, Constants, LiveIsCurrent
     DEF Plug, Calls, Goto, Current, flags, OneTask, Calling, Locked, Tasks,
         TypeOK
<1>27. CASE PlugOpens
  BY <1>27, Constants, LiveIsCurrent
     DEF PlugOpens, Goto, Current, flags, OneTask, Calling, Locked, Tasks,
         TypeOK
<1>28. CASE UNCHANGED <<stale, hndl, hMicThread, captures, task, pcm, bRunning,
                        bInited, call, replugged>>
  BY <1>28 DEF OneTask, Calling, Locked, Tasks, TypeOK
<1>. QED
  BY <1>1, <1>2, <1>3, <1>4, <1>5, <1>6, <1>7, <1>8, <1>9, <1>10, <1>11, <1>12,
     <1>13, <1>14, <1>15, <1>16, <1>17, <1>18, <1>19, <1>20, <1>21, <1>22,
     <1>23, <1>24, <1>25, <1>26, <1>27, <1>28
     DEF Next, StartStep, StopStep, TaskStep, UsbStep, vars, flags, history,
         PauseAudioCapture, ResumeAudioCapture, TaskPauses, Dispatch

LEMMA StoppingStep ==
  TypeOK /\ Calling /\ Locked /\ Tasks /\ OneTask /\ Stopping /\ [Next]_vars
    => Stopping'
<1> SUFFICES ASSUME TypeOK, Calling, Locked, Tasks, OneTask, Stopping,
   [Next]_vars
             PROVE  Stopping'
  OBVIOUS
<1>1. ASSUME NEW c \in Client, CallStart(c)
      PROVE  Stopping'
  BY <1>1, Constants, LiveIsCurrent
     DEF CallStart, Calls, Goto, Starting, flags, history, Stopping, Over, Told,
         OneTask, Calling, Locked, Tasks, TypeOK
<1>2. ASSUME NEW c \in Client, StartLocks(c)
      PROVE  Stopping'
  BY <1>2, Constants, LiveIsCurrent
     DEF StartLocks, Goto, flags, history, Stopping, Over, Told, OneTask,
         Calling, Locked, Tasks, TypeOK
<1>3. ASSUME NEW c \in Client, NEW paused \in BOOLEAN, StartNoSpace(c, paused)
      PROVE  Stopping'
  BY <1>3, Constants, LiveIsCurrent
     DEF StartNoSpace, Goto, flags, history, Stopping, Over, Told, OneTask,
         Calling, Locked, Tasks, TypeOK
<1>4. ASSUME NEW c \in Client, NEW paused \in BOOLEAN, NEW max \in BOOLEAN,
   InitMicTask(c, paused, max)
      PROVE  Stopping'
  <2>1. SUFFICES ASSUME ~stale PROVE Stopping'
    BY <1>4 DEF InitMicTask, history, Stopping
  <2>2. hMicThread = None /\ captures + 1 \in Capture
        /\ \A r \in Capture : task[r] \in {"none", "ended"}
    BY <1>4, <2>1, Constants, LiveIsCurrent
       DEF InitMicTask, Calling, OneTask, TypeOK, Capture
  <2>3. task[captures + 1] = "none" /\ stoppedBy[captures + 1] = NoOne
    BY <2>2, Constants DEF Tasks, TypeOK, Capture
  <2>4. \A b \in Actor : call'[b] # "join"
    BY <1>4, Constants DEF InitMicTask, Goto, Locked, TypeOK
  <2>5. task'[captures + 1] = "begin"
    BY <1>4, <2>2 DEF InitMicTask, TaskGoto, TypeOK
  <2>. QED
    BY <1>4, <2>2, <2>3, <2>4, <2>5, Constants
       DEF InitMicTask, history, Stopping, Over, Told
<1>5. ASSUME NEW c \in Client, StartReturns(c)
      PROVE  Stopping'
  BY <1>5, Constants, LiveIsCurrent
     DEF StartReturns, Goto, history, Stopping, Over, Told, OneTask, Calling,
         Locked, Tasks, TypeOK
<1>6. ASSUME NEW c \in Client, CallStop(c)
      PROVE  Stopping'
  BY <1>6, Constants, LiveIsCurrent
     DEF CallStop, Calls, Goto, flags, history, Stopping, Over, Told, OneTask,
         Calling, Locked, Tasks, TypeOK
<1>7. ASSUME NEW a \in Actor, StopLocks(a)
      PROVE  Stopping'
  BY <1>7, Constants, LiveIsCurrent
     DEF StopLocks, Goto, Return, flags, history, Stopping, Over, Told, OneTask,
         Calling, Locked, Tasks, TypeOK
<1>8. ASSUME NEW a \in Actor, StopForgets(a)
      PROVE  Stopping'
  BY <1>8, Constants, LiveIsCurrent
     DEF StopForgets, Return, IsThreadHandle, Goto, flags, Stopping, Over, Told,
         OneTask, Calling, Locked, Tasks, TypeOK
<1>9. ASSUME NEW a \in Actor, HaltTask(a)
      PROVE  Stopping'
  BY <1>9, Constants, LiveIsCurrent
     DEF HaltTask, Goto, IsThreadHandle, Stopping, Over, Told, OneTask, Calling,
         Locked, Tasks, TypeOK
<1>10. ASSUME NEW a \in Actor, StopReturns(a)
      PROVE  Stopping'
  BY <1>10, Constants, LiveIsCurrent
     DEF StopReturns, Return, Goto, history, Stopping, Over, Told, OneTask,
         Calling, Locked, Tasks, TypeOK
<1>11. ASSUME NEW r \in Capture, TaskBegins(r)
      PROVE  Stopping'
  BY <1>11, Constants, LiveIsCurrent
     DEF TaskBegins, TaskGoto, history, Stopping, Over, Told, OneTask, Calling,
         Locked, Tasks, TypeOK
<1>12. ASSUME NEW r \in Capture, TaskRuns(r)
      PROVE  Stopping'
  BY <1>12, Constants, LiveIsCurrent
     DEF TaskRuns, TaskGoto, history, Stopping, Over, Told, OneTask, Calling,
         Locked, Tasks, TypeOK
<1>13. ASSUME NEW r \in Capture, TaskTriggers(r)
      PROVE  Stopping'
  BY <1>13, Constants, LiveIsCurrent
     DEF TaskTriggers, TaskGoto, flags, history, Stopping, Over, Told, OneTask,
         Calling, Locked, Tasks, TypeOK
<1>14. ASSUME NEW r \in Capture, TaskSent(r)
      PROVE  Stopping'
  BY <1>14, Constants, LiveIsCurrent
     DEF TaskSent, TaskGoto, flags, history, Stopping, Over, Told, OneTask,
         Calling, Locked, Tasks, TypeOK
<1>15. ASSUME NEW r \in Capture, TaskEnds(r)
      PROVE  Stopping'
  BY <1>15, Constants, LiveIsCurrent
     DEF TaskEnds, TaskGoto, flags, Stopping, Over, Told, OneTask, Calling,
         Locked, Tasks, TypeOK
<1>16. ASSUME NEW r \in Capture, TaskPosts(r)
      PROVE  Stopping'
  BY <1>16, Constants, LiveIsCurrent
     DEF TaskPosts, TaskGoto, EndReason, flags, history, Stopping, Over, Told,
         OneTask, Calling, Locked, Tasks, TypeOK
<1>17. ASSUME NEW r \in Capture, ListenerCalls(r)
      PROVE  Stopping'
  BY <1>17, Constants, LiveIsCurrent
     DEF ListenerCalls, TaskGoto, flags, history, Stopping, Over, Told, OneTask,
         Calling, Locked, Tasks, TypeOK
<1>18. ASSUME NEW r \in Capture, ListenerReturns(r)
      PROVE  Stopping'
  BY <1>18, Constants, LiveIsCurrent
     DEF ListenerReturns, TaskGoto, flags, history, Stopping, Over, Told,
         OneTask, Calling, Locked, Tasks, TypeOK
<1>19. ASSUME NEW r \in Capture, TaskStops(r)
      PROVE  Stopping'
  BY <1>19, Constants, LiveIsCurrent
     DEF TaskStops, TaskGoto, history, Stopping, Over, Told, OneTask, Calling,
         Locked, Tasks, TypeOK
<1>20. ASSUME NEW r \in Capture, Expire(r)
      PROVE  Stopping'
  BY <1>20, Constants, LiveIsCurrent
     DEF Expire, Goto, flags, history, Stopping, Over, Told, OneTask, Calling,
         Locked, Tasks, TypeOK
<1>21. CASE TimerCallback
  BY <1>21, Constants, LiveIsCurrent
     DEF TimerCallback, Goto, history, Stopping, Over, Told, OneTask, Calling,
         Locked, Tasks, TypeOK
<1>22. CASE Unplug
  BY <1>22, Constants, LiveIsCurrent
     DEF Unplug, Calls, Goto, flags, history, Stopping, Over, Told, OneTask,
         Calling, Locked, Tasks, TypeOK
<1>23. CASE ReadHandle
  BY <1>23, Constants, LiveIsCurrent
     DEF ReadHandle, Goto, flags, history, Stopping, Over, Told, OneTask,
         Calling, Locked, Tasks, TypeOK
<1>24. CASE DeinitMicrophone
  BY <1>24, Constants, LiveIsCurrent
     DEF DeinitMicrophone, Goto, flags, history, Stopping, Over, Told, OneTask,
         Calling, Locked, Tasks, TypeOK
<1>25. ASSUME NEW r \in Owner, TimerTask(r)
      PROVE  Stopping'
  BY <1>25, Constants, LiveIsCurrent
     DEF TimerTask, Timed, Goto, flags, Stopping, Over, Told, OneTask, Calling,
         Locked, Tasks, TypeOK
<1>26. CASE Plug
  BY <1>26, Constants, LiveIsCurrent
     DEF Plug, Calls, Goto, Current, flags, Stopping, Over, Told, OneTask,
         Calling, Locked, Tasks, TypeOK
<1>27. CASE PlugOpens
  BY <1>27, Constants, LiveIsCurrent
     DEF PlugOpens, Goto, Current, flags, Stopping, Over, Told, OneTask,
         Calling, Locked, Tasks, TypeOK
<1>28. CASE UNCHANGED <<stale, hMicThread, task, bRunning, call, stoppedBy>>
  BY <1>28 DEF Stopping, Over, Told, OneTask, Calling, Locked, Tasks, TypeOK
<1>. QED
  BY <1>1, <1>2, <1>3, <1>4, <1>5, <1>6, <1>7, <1>8, <1>9, <1>10, <1>11, <1>12,
     <1>13, <1>14, <1>15, <1>16, <1>17, <1>18, <1>19, <1>20, <1>21, <1>22,
     <1>23, <1>24, <1>25, <1>26, <1>27, <1>28
     DEF Next, StartStep, StopStep, TaskStep, UsbStep, vars, flags, history,
         PauseAudioCapture, ResumeAudioCapture, TaskPauses, Dispatch

LEMMA OwnTimerStep ==
  TypeOK /\ Calling /\ Locked /\ Tasks /\ OneTask /\ Stopping /\ OwnTimer
    /\ [Next]_vars
    => OwnTimer'
<1> SUFFICES ASSUME TypeOK, Calling, Locked, Tasks, OneTask, Stopping, OwnTimer,
   [Next]_vars
             PROVE  OwnTimer'
  OBVIOUS
<1>1. ASSUME NEW c \in Client, CallStart(c)
      PROVE  OwnTimer'
  BY <1>1, Constants, LiveIsCurrent
     DEF CallStart, Calls, Goto, Starting, flags, history, OwnTimer, Expired,
         Stopping, OneTask, Over, Told, Calling, Tasks, Locked, TypeOK
<1>2. ASSUME NEW c \in Client, StartLocks(c)
      PROVE  OwnTimer'
  BY <1>2, Constants, LiveIsCurrent
     DEF StartLocks, Goto, flags, history, OwnTimer, Expired, Stopping, OneTask,
         Over, Told, Calling, Tasks, Locked, TypeOK
<1>3. ASSUME NEW c \in Client, NEW paused \in BOOLEAN, StartNoSpace(c, paused)
      PROVE  OwnTimer'
  BY <1>3, Constants, LiveIsCurrent
     DEF StartNoSpace, Goto, flags, history, OwnTimer, Expired, Stopping,
         OneTask, Over, Told, Calling, Tasks, Locked, TypeOK
<1>4. ASSUME NEW c \in Client, NEW paused \in BOOLEAN, NEW max \in BOOLEAN,
   InitMicTask(c, paused, max)
      PROVE  OwnTimer'
  <2>1. SUFFICES ASSUME ~stale, ~late PROVE OwnTimer'
    BY <1>4 DEF InitMicTask, history, OwnTimer
  <2>2. hMicThread = None /\ captures + 1 \in Capture
    BY <1>4, <2>1, Constants DEF InitMicTask, Calling, OneTask, TypeOK, Capture
  <2>3. timerFor = None /\ call[Timer] = "idle"
    BY <2>1, <2>2, Constants DEF OwnTimer, Calling
  <2>4. /\ task' = [task EXCEPT ![captures + 1] = "begin"]
        /\ hMicThread' = captures + 1
        /\ call'[Timer] = call[Timer]
        /\ UNCHANGED <<stoppedBy, timer, timerFor, timeout, strayed>>
    BY <1>4, Constants DEF InitMicTask, TaskGoto, Goto, history, TypeOK
  <2>. QED
    BY <2>1, <2>2, <2>3, <2>4, Constants DEF OwnTimer, Expired, TypeOK
<1>5. ASSUME NEW c \in Client, StartReturns(c)
      PROVE  OwnTimer'
  BY <1>5, Constants, LiveIsCurrent
     DEF StartReturns, Goto, history, OwnTimer, Expired, Stopping, OneTask,
         Over, Told, Calling, Tasks, Locked, TypeOK
<1>6. ASSUME NEW c \in Client, CallStop(c)
      PROVE  OwnTimer'
  BY <1>6, Constants
     DEF CallStop, Calls, Goto, history, flags, OwnTimer, Expired, Over, Told,
         Calling, Tasks, TypeOK
<1>7. ASSUME NEW a \in Actor, StopLocks(a)
      PROVE  OwnTimer'
  BY <1>7, Constants
     DEF StopLocks, Goto, Return, history, flags, OwnTimer, Expired, Over, Told,
         Calling, Tasks, TypeOK
<1>8. ASSUME NEW a \in Actor, StopForgets(a)
      PROVE  OwnTimer'
  BY <1>8, Constants, LiveIsCurrent
     DEF StopForgets, Return, IsThreadHandle, Goto, flags, OwnTimer, Expired,
         Stopping, OneTask, Over, Told, Calling, Tasks, Locked, TypeOK
<1>9. ASSUME NEW a \in Actor, HaltTask(a)
      PROVE  OwnTimer'
  BY <1>9, Constants, LiveIsCurrent
     DEF HaltTask, Goto, IsThreadHandle, OwnTimer, Expired, Stopping, OneTask,
         Over, Told, Calling, Tasks, Locked, TypeOK
<1>10. ASSUME NEW a \in Actor, StopReturns(a)
      PROVE  OwnTimer'
  BY <1>10, Constants, LiveIsCurrent
     DEF StopReturns, Return, Goto, history, OwnTimer, Expired, Stopping,
         OneTask, Over, Told, Calling, Tasks, Locked, TypeOK
<1>11. ASSUME NEW r \in Capture, TaskBegins(r)
      PROVE  OwnTimer'
  BY <1>11, Constants, LiveIsCurrent
     DEF TaskBegins, TaskGoto, history, OwnTimer, Expired, Stopping, OneTask,
         Over, Told, Calling, Tasks, Locked, TypeOK
<1>12. ASSUME NEW r \in Capture, TaskRuns(r)
      PROVE  OwnTimer'
  BY <1>12, Constants, LiveIsCurrent
     DEF TaskRuns, TaskGoto, history, OwnTimer, Expired, Stopping, OneTask,
         Over, Told, Calling, Tasks, Locked, TypeOK
<1>13. ASSUME NEW r \in Capture, TaskPauses(r)
      PROVE  OwnTimer'
  BY <1>13, Constants, LiveIsCurrent
     DEF TaskPauses, flags, history, OwnTimer, Expired, Stopping, OneTask, Over,
         Told, Calling, Tasks, Locked, TypeOK
<1>14. ASSUME NEW r \in Capture, TaskTriggers(r)
      PROVE  OwnTimer'
  BY <1>14, Constants
     DEF TaskTriggers, TaskGoto, flags, history, OwnTimer, Expired, Over, Told,
         Calling, Tasks, TypeOK
<1>15. ASSUME NEW r \in Capture, TaskSent(r)
      PROVE  OwnTimer'
  BY <1>15, Constants, LiveIsCurrent
     DEF TaskSent, TaskGoto, flags, history, OwnTimer, Expired, Stopping,
         OneTask, Over, Told, Calling, Tasks, Locked, TypeOK
<1>16. ASSUME NEW r \in Capture, TaskEnds(r)
      PROVE  OwnTimer'
  BY <1>16, Constants, LiveIsCurrent
     DEF TaskEnds, TaskGoto, flags, OwnTimer, Expired, Stopping, OneTask, Over,
         Told, Calling, Tasks, Locked, TypeOK
<1>17. ASSUME NEW r \in Capture, TaskPosts(r)
      PROVE  OwnTimer'
  BY <1>17, Constants, LiveIsCurrent
     DEF TaskPosts, TaskGoto, EndReason, flags, history, OwnTimer, Expired,
         Stopping, OneTask, Over, Told, Calling, Tasks, Locked, TypeOK
<1>18. ASSUME NEW r \in Capture, ListenerCalls(r)
      PROVE  OwnTimer'
  BY <1>18, Constants
     DEF ListenerCalls, TaskGoto, flags, history, OwnTimer, Expired, Over, Told,
         Calling, Tasks, TypeOK
<1>19. ASSUME NEW r \in Capture, ListenerReturns(r)
      PROVE  OwnTimer'
  BY <1>19, Constants, LiveIsCurrent
     DEF ListenerReturns, TaskGoto, flags, history, OwnTimer, Stopping, OneTask,
         Over, Told, Calling, Tasks, Locked, TypeOK
<1>20. ASSUME NEW r \in Capture, TaskStops(r)
      PROVE  OwnTimer'
  BY <1>20, Constants, LiveIsCurrent
     DEF TaskStops, TaskGoto, history, OwnTimer, Expired, Stopping, OneTask,
         Over, Told, Calling, Tasks, Locked, TypeOK
<1>21. ASSUME NEW r \in Capture, Expire(r)
      PROVE  OwnTimer'
  BY <1>21, Constants, LiveIsCurrent
     DEF Expire, Goto, flags, history, OwnTimer, Expired, Stopping, OneTask,
         Over, Told, Calling, Tasks, Locked, TypeOK
<1>22. CASE TimerCallback
  BY <1>22, Constants, LiveIsCurrent
     DEF TimerCallback, Goto, history, OwnTimer, Expired, Stopping, OneTask,
         Over, Told, Calling, Tasks, Locked, TypeOK
<1>23. CASE Unplug
  BY <1>23, Constants, LiveIsCurrent
     DEF Unplug, Calls, Goto, flags, history, OwnTimer, Expired, Stopping,
         OneTask, Over, Told, Calling, Tasks, Locked, TypeOK
<1>24. CASE ReadHandle
  BY <1>24, Constants, LiveIsCurrent
     DEF ReadHandle, Goto, flags, history, OwnTimer, Expired, Stopping, OneTask,
         Over, Told, Calling, Tasks, Locked, TypeOK
<1>25. CASE DeinitMicrophone
  BY <1>25, Constants
     DEF DeinitMicrophone, Goto, flags, history, OwnTimer, Expired, Over, Told,
         Calling, Tasks, TypeOK
<1>26. ASSUME NEW r \in Owner, TimerTask(r)
      PROVE  OwnTimer'
  BY <1>26, Constants, LiveIsCurrent
     DEF TimerTask, Timed, Goto, flags, OwnTimer, Expired, Stopping, OneTask,
         Over, Told, Calling, Tasks, Locked, TypeOK
<1>27. CASE Plug
  BY <1>27, Constants, LiveIsCurrent
     DEF Plug, Calls, Goto, Current, flags, OwnTimer, Expired, Stopping,
         OneTask, Over, Told, Calling, Tasks, Locked, TypeOK
<1>28. CASE PlugOpens
  BY <1>28, Constants, LiveIsCurrent
     DEF PlugOpens, Goto, Current, flags, OwnTimer, Expired, Stopping, OneTask,
         Over, Told, Calling, Tasks, Locked, TypeOK
<1>29. CASE UNCHANGED <<stale, late, timerFor, hMicThread, task, stoppedBy,
                        call, timeout, timer, strayed>>
  BY <1>29
     DEF OwnTimer, Expired, Stopping, OneTask, Over, Told, Calling, Tasks,
         Locked, TypeOK
<1>. QED
  BY <1>1, <1>2, <1>3, <1>4, <1>5, <1>6, <1>7, <1>8, <1>9, <1>10, <1>11, <1>12,
     <1>13, <1>14, <1>15, <1>16, <1>17, <1>18, <1>19, <1>20, <1>21, <1>22,
     <1>23, <1>24, <1>25, <1>26, <1>27, <1>28, <1>29
     DEF Next, StartStep, StopStep, TaskStep, UsbStep, vars, flags, history,
         PauseAudioCapture, ResumeAudioCapture, Dispatch

(* No recording task but the current one's, and its device is open.         *)
LEMMA HeldWhileCurrent == TypeOK /\ Tasks /\ OneTask => DeviceHeld
<1> SUFFICES ASSUME TypeOK, Tasks, OneTask, ~stale PROVE DeviceHeld
  BY DEF DeviceHeld
<1>1. ASSUME NEW r \in Recording
      PROVE  (pcm \/ r \in replugged) /\ hMicThread = r
  <2>1. r \in Capture /\ task[r] \notin {"none", "ended"}
    BY DEF Recording
  <2>2. hMicThread = r
    BY <2>1, LiveIsCurrent
  <2>. QED
    BY <2>1, <2>2, Constants DEF OneTask
<1>. QED
  BY <1>1 DEF OneTask, DeviceHeld

LEMMA TrueReasonStep ==
  TypeOK /\ Calling /\ Locked /\ Tasks /\ OneTask /\ Stopping /\ OwnTimer
    /\ TrueReason /\ [Next]_vars
    => TrueReason'
<1> SUFFICES ASSUME TypeOK, Calling, Locked, Tasks, OneTask, Stopping, OwnTimer,
   TrueReason, [Next]_vars
             PROVE  TrueReason'
  OBVIOUS
<1>1. ASSUME NEW a \in Actor, StopForgets(a)
      PROVE  TrueReason'
  BY <1>1, Constants
     DEF StopForgets, Return, IsThreadHandle, Goto, TrueReason, Expired, TypeOK
<1>2. ASSUME NEW a \in Actor, HaltTask(a)
      PROVE  TrueReason'
  <2>1. SUFFICES ASSUME ~stale, ~late PROVE TrueReason'
    BY <1>2 DEF HaltTask, TrueReason
  <2>2. \A b \in Actor : call[b] # "join"
    BY <1>2, Constants DEF HaltTask, Locked
  <2>3. hMicThread \in Capture /\ told[hMicThread] = "none"
    BY <1>2, <2>1, <2>2, Constants DEF HaltTask, Stopping, Tasks, Told, TypeOK
  <2>4. /\ UNCHANGED <<told, timer, stale, late, strayed>>
        /\ \A r \in Capture : r # hMicThread => stoppedBy'[r] = stoppedBy[r]
    BY <1>2 DEF HaltTask, TypeOK
  <2>. QED
    BY <2>1, <2>3, <2>4 DEF TrueReason, Expired
<1>3. ASSUME NEW r \in Capture, TaskBegins(r)
      PROVE  TrueReason'
  <2>1. told[r] = "none"
    BY <1>3 DEF TaskBegins, Tasks, Told
  <2>2. /\ UNCHANGED <<told, stoppedBy, stale, late, strayed>>
        /\ \A s \in Capture : s # r => timer'[s] = timer[s]
    BY <1>3 DEF TaskBegins, history, TypeOK
  <2>. QED
    BY <2>1, <2>2 DEF TrueReason, Expired
<1>4. ASSUME NEW r \in Capture, TaskPauses(r)
      PROVE  TrueReason'
  BY <1>4, Constants DEF TaskPauses, history, TrueReason, Expired, TypeOK
<1>5. ASSUME NEW r \in Capture, TaskEnds(r)
      PROVE  TrueReason'
  BY <1>5, Constants DEF TaskEnds, TaskGoto, TrueReason, Expired, TypeOK
<1>6. ASSUME NEW r \in Capture, TaskPosts(r)
      PROVE  TrueReason'
  <2>1. SUFFICES ASSUME ~stale, ~late PROVE TrueReason'
    BY <1>6 DEF TaskPosts, history, TrueReason
  <2>2. hMicThread = r
    BY <1>6, <2>1, LiveIsCurrent DEF TaskPosts
  <2>3. PICK a \in Actor : call[a] = "join" /\ stoppedBy[r] = a
    BY <1>6, <2>1, <2>2 DEF TaskPosts, Stopping
  <2>4. EndReason = "stopped" => stoppedBy[r] \in Client
    BY <2>1, <2>3, Constants DEF EndReason, OwnTimer, Calling, TypeOK
  <2>5. EndReason = "timeout" => Expired(r)
    BY <1>6, <2>1, <2>2, Constants DEF TaskPosts, EndReason, OwnTimer, TypeOK
  <2>6. stoppedBy[r] = Usb => EndReason = "removed"
    BY <2>3 DEF EndReason, Calling
  <2>7. /\ UNCHANGED <<timer, stoppedBy, stale, late, strayed>>
        /\ told' = [told EXCEPT ![r] = EndReason]
    BY <1>6 DEF TaskPosts, history
  <2>. QED
    BY <2>4, <2>5, <2>6, <2>7 DEF TrueReason, Expired, TypeOK
<1>7. ASSUME NEW r \in Capture, Expire(r)
      PROVE  TrueReason'
  BY <1>7, Constants DEF Expire, Goto, history, TrueReason, Expired, TypeOK
<1>8. ASSUME NEW r \in Owner, TimerTask(r)
      PROVE  TrueReason'
  BY <1>8, Constants DEF TimerTask, TrueReason, Expired, TypeOK
<1>9. CASE UNCHANGED <<stale, late, told, stoppedBy, timer, strayed>>
  BY <1>9 DEF TrueReason, Expired, TypeOK
<1>. QED
  BY <1>1, <1>2, <1>3, <1>4, <1>5, <1>6, <1>7, <1>8, <1>9
     DEF Next, StartStep, StopStep, TaskStep, UsbStep, vars, history, CallStart,
         StartLocks, StartNoSpace, InitMicTask, StartReturns, CallStop,
         PauseAudioCapture, ResumeAudioCapture, StopLocks, StopReturns,
         TaskRuns, TaskTriggers, TaskSent, ListenerCalls, ListenerReturns,
         TaskStops, TimerCallback, Unplug, ReadHandle, DeinitMicrophone, Plug,
         Dispatch, PlugOpens

(* Between calls only the current capture has not had its end event.        *)
LEMMA EndsAreExplained ==
  TypeOK /\ Locked /\ Tasks /\ OneTask /\ Stopping /\ OwnTimer /\ TrueReason
    => EndIsExplained
<1> SUFFICES ASSUME TypeOK, Locked, Tasks, OneTask, Stopping, OwnTimer,
                    TrueReason, ~stale
             PROVE  EndIsExplained
  BY DEF EndIsExplained
<1>1. ASSUME dlock = NoOne, NEW r \in 1..captures
      PROVE  told[r] = "none" <=> r = hMicThread
  <2>1. r \in Capture
    BY Constants DEF TypeOK, Capture
  <2>2. r = hMicThread => task[r] \notin Told
    <3>1. \A a \in Actor : call[a] # "join"
      BY <1>1, Constants DEF Locked
    <3>. QED
      BY <2>1, <3>1 DEF Stopping, Told
  <2>3. r # hMicThread => task[r] = "ended"
    BY DEF OneTask
  <2>. QED
    BY <2>1, <2>2, <2>3 DEF Tasks, Told
<1>2. \A r \in Capture : ~late /\ told[r] # "none" =>
        /\ told[r] = "stopped" => stoppedBy[r] \in Client
        /\ told[r] = "timeout" => Expired(r)
        /\ stoppedBy[r] = Timer => Expired(r)
        /\ stoppedBy[r] = Usb => told[r] = "removed"
  BY DEF OwnTimer, TrueReason
<1>. QED
  BY <1>1, <1>2 DEF EndIsExplained
-----------------------------------------------------------------------------
(* The theorems *)

LEMMA Invariant == Spec => []IInv
<1>1. IInv /\ [Next]_vars => IInv'
  BY TypeStep, CallingStep, LockedStep, TasksStep, OneTaskStep, StoppingStep,
     OwnTimerStep, TrueReasonStep
     DEF IInv
<1>. QED
  BY <1>1, InitInv, PTL DEF Spec

(* Every variable keeps its type; the event queue never overflows, whatever *)
(* its size.                                                                *)
THEOREM MicrophoneTypeCorrect == Spec => []TypeOK
  BY Invariant, PTL DEF IInv

(* A recording has the device open and to itself until it is over, but for  *)
(* the handle that the USB listener reads before StartAudioCapture stores   *)
(* it; and only a report of hot plugging during a capture takes its device  *)
(* away otherwise.                                                          *)
THEOREM DeviceIsHeld == Spec => []DeviceHeld
<1>1. IInv => DeviceHeld
  BY HeldWhileCurrent DEF IInv
<1>. QED
  BY <1>1, Invariant, PTL

(* Each capture that is over has posted its end event before the call that  *)
(* ended it gives up dlock, and with the true reason, unless its timer had  *)
(* the signal of one that is gone or a callback came late.                  *)
THEOREM CapturesEndAsTold == Spec => []EndIsExplained
<1>1. IInv => EndIsExplained
  BY EndsAreExplained DEF IInv
<1>. QED
  BY <1>1, Invariant, PTL
=============================================================================
