---------------------------- MODULE CameraProofs ----------------------------
(***************************************************************************)
(* Proofs about Camera, for every number of clients, captures, calls and   *)
(* polls.  The inductive invariant is                                      *)
(*                                                                         *)
(*    TypeOK /\ Calling /\ Locked /\ OneTask /\ FramesStay /\ Ended         *)
(*           /\ EndIsExplained                                             *)
(*                                                                         *)
(* Locked says who holds which lock where; OneTask ties the handle, the    *)
(* task and the count of captures; Ended says why a loop has been left, and *)
(* that only timers of captures whose task has begun have queued a signal.  *)
(***************************************************************************)
EXTENDS Camera, TLAPS

-----------------------------------------------------------------------------
(* The inductive invariant *)

Looping == {"loop", "locked", "frame", "blocked"}
Holding == {"locked", "frame", "blocked", "broken"}

Calling ==
  /\ \A c \in Client : call[c] \in {"start", "fill"} => captures < MaxCaptures
  /\ \A c, d \in Client :
       {call[c], call[d]} \subseteq {"start", "fill"} => c = d
  /\ \A c \in Client : call[c] = "fill" => ~hndl
  /\ call[Usb] \in {"idle", "stop", "halt", "join", "read", "deinit"}

Locked ==
  /\ \A a \in Actor :
       call[a] \in {"halt", "join", "snap", "surface"} => mThread = a
  /\ \A r \in Capture : task[r] \in Holding => mThread = r
  /\ \A a \in Actor : call[a] \in {"fill", "await", "join"} => mutex = a

OneTask ==
  /\ hndl <=> hCameraThread # None
  /\ hCameraThread \in {None, captures}
  /\ \A r \in Capture : r > captures => task[r] = "none"

Ended ==
  /\ \A r \in Capture : told[r] # "none" <=> task[r] \in Told
  /\ \A r \in Capture :
       \/ task[r] \in Looping /\ ~bRunning
       \/ task[r] = "broken"
       \/ task[r] = "ending" /\ ~timeout
       => r \in stopped \cup failed
  /\ \A r \in Capture : r = captures /\ timeout /\ task[r] # "begin" =>
       timer[r] = "fired" \/ r \in late
  /\ \A r \in Capture : task[r] \in {"none", "begin"} => timer[r] = "off"
  /\ timerFor # None => timer[timerFor] = "fired"

IInv == TypeOK /\ Calling /\ Locked /\ OneTask /\ FramesStay /\ Ended
        /\ EndIsExplained

-----------------------------------------------------------------------------
LEMMA Constants ==
  /\ Client \subseteq Actor /\ Usb \in Actor /\ Usb \notin Client
  /\ NoOne \notin Actor /\ NoOne \notin Capture /\ None \notin Capture
  /\ \A a \in Actor, r \in Capture : a # r
  /\ PollMax \in Nat /\ MaxCaptures \in Nat /\ MaxCalls \in Nat
  /\ Capture \subseteq Nat
  BY ActorAssumption, BoundAssumption DEF Actor, Capture, None

LEMMA InitInv == Init => IInv /\ PauseOutlivesSnapshot
<1> SUFFICES ASSUME Init PROVE IInv /\ PauseOutlivesSnapshot
  OBVIOUS
<1>1. TypeOK
  <2>1.
        /\ {bRunning, bStopping, timeout, valid, streaming, bPaused} \subseteq BOOLEAN
        /\ {asked, unpaused, stale} \subseteq BOOLEAN
    BY DEF Init
  <2>2. pollcount \in [Capture -> 0..PollMax + 1] /\ captures \in 0..MaxCaptures
        /\ calls \in 0..MaxCalls /\ failed \subseteq Capture
    BY Constants DEF Init
  <2>3. call \in [Actor -> Place] /\ task \in [Capture -> Step]
        /\ timer \in [Capture -> TimerState]
    BY DEF Init, Place, Step, TimerState
  <2>. QED
    BY <2>1, <2>2, <2>3 DEF Init, TypeOK, Reason, None
<1>2. Calling /\ Locked /\ OneTask
  BY Constants DEF Init, Calling, Locked, OneTask, Holding, None, Capture
<1>3. FramesStay /\ Ended /\ EndIsExplained /\ PauseOutlivesSnapshot
  BY Constants
     DEF Init, FramesStay, Ended, EndIsExplained, PauseOutlivesSnapshot, Live,
         Looping, Told
<1>. QED
  BY <1>1, <1>2, <1>3 DEF IInv

LEMMA TypeStep ==
  TypeOK /\ Calling /\ OneTask /\ Ended /\ [Next]_vars
    => TypeOK'
<1> SUFFICES ASSUME TypeOK, Calling, OneTask, Ended, [Next]_vars
             PROVE  TypeOK'
  OBVIOUS
<1>1. ASSUME NEW c \in Client, CallStart(c)
      PROVE  TypeOK'
  BY <1>1, Constants
     DEF CallStart, Calls, Goto, Starting, locks, flags, device, history,
         TypeOK, Place, Step, TimerState, Reason
<1>2. ASSUME NEW c \in Client, CallStop(c)
      PROVE  TypeOK'
  BY <1>2, Constants
     DEF CallStop, Calls, Goto, locks, flags, device, history, TypeOK,
         Place, Step, TimerState, Reason
<1>3. ASSUME NEW c \in Client, CallGrab(c)
      PROVE  TypeOK'
  BY <1>3, Constants
     DEF CallGrab, Calls, Goto, locks, flags, device, history, TypeOK,
         Place, Step, TimerState, Reason
<1>4. ASSUME NEW c \in Client, LockSurface(c)
      PROVE  TypeOK'
  BY <1>4, Constants
     DEF LockSurface, Calls, Goto, flags, device, history, TypeOK, Place,
         Step, TimerState, Reason
<1>5. ASSUME NEW c \in Client, NEW paused \in BOOLEAN, SetPaused(c, paused)
      PROVE  TypeOK'
  <2>1. ({bRunning, bStopping, timeout, valid, streaming,
     bPaused} \subseteq BOOLEAN)'
    BY <1>5 DEF SetPaused, flags, TypeOK
  <2>2. ({asked, unpaused, stale} \subseteq BOOLEAN)'
    BY <1>5 DEF SetPaused, TypeOK
  <2>3. calls' \in 0..MaxCalls
    BY <1>5, Constants DEF SetPaused, Calls, TypeOK
  <2>. QED
    BY <1>5, <2>1, <2>2, <2>3 DEF SetPaused, locks, TypeOK
<1>6. ASSUME NEW a \in Actor, StartLocks(a)
      PROVE  TypeOK'
  BY <1>6, Constants
     DEF StartLocks, Goto, flags, TypeOK, Place, Step, TimerState, Reason
<1>7. ASSUME NEW a \in Actor, InitCameraTask(a)
      PROVE  TypeOK'
  <2>1. captures + 1 \in Capture
    <3>1. a \in Client
      BY <1>7, Constants DEF InitCameraTask, Calling, Actor
    <3>. QED
      BY <1>7, <3>1, Constants DEF InitCameraTask, Calling, TypeOK, Capture
  <2>2. captures' \in 0..MaxCaptures
    BY <1>7, <2>1, Constants DEF InitCameraTask, Capture
  <2>. QED
    BY <1>7, <2>1, <2>2, Constants
       DEF InitCameraTask, Goto, TaskGoto, locks, device, history,
          TypeOK,
           Place, Step
<1>8. ASSUME NEW a \in Actor, StartReturns(a)
      PROVE  TypeOK'
  BY <1>8, Constants
     DEF StartReturns, Goto, flags, device, history, TypeOK, Place, Step,
         TimerState, Reason
<1>9. ASSUME NEW a \in Actor, StopLocks(a)
      PROVE  TypeOK'
  BY <1>9, Constants
     DEF StopLocks, Goto, flags, device, history, TypeOK, Place, Step,
         TimerState, Reason
<1>10. ASSUME NEW a \in Actor, HaltTask(a)
      PROVE  TypeOK'
  <2>1. stopped' \subseteq Capture
    BY <1>10 DEF HaltTask, IsStreamingHandle, OneTask, TypeOK
  <2>2. call' \in [Actor -> Place]
    BY <1>10 DEF HaltTask, Return, Goto, TypeOK, Place
  <2>3. bRunning' \in BOOLEAN /\ mThread' \in Actor \cup Capture \cup {NoOne}
        /\ mutex' \in Actor \cup {NoOne}
    BY <1>10 DEF HaltTask, TypeOK
  <2>. QED
    BY <1>10, <2>1, <2>2, <2>3 DEF HaltTask, device, TypeOK
<1>11. ASSUME NEW a \in Actor, StopReturns(a)
      PROVE  TypeOK'
  BY <1>11, Constants
     DEF StopReturns, Return, Goto, flags, history, TypeOK, Place, Step,
         TimerState, Reason
<1>12. ASSUME NEW a \in Actor, GrabLocks(a)
      PROVE  TypeOK'
  BY <1>12, Constants
     DEF GrabLocks, Goto, flags, device, history, TypeOK, Place, Step,
         TimerState, Reason
<1>13. ASSUME NEW a \in Actor, GrabFrame(a)
      PROVE  TypeOK'
  BY <1>13, Constants
     DEF GrabFrame, Goto, flags, history, TypeOK, Place, Step, TimerState,
         Reason
<1>14. ASSUME NEW a \in Actor, GrabFails(a)
      PROVE  TypeOK'
  BY <1>14, Constants
     DEF GrabFails, Goto, flags, TypeOK, Place, Step, TimerState, Reason
<1>15. ASSUME NEW a \in Actor, UnLockSurface(a)
      PROVE  TypeOK'
  BY <1>15, Constants
     DEF UnLockSurface, Goto, flags, device, history, TypeOK, Place,
         Step, TimerState, Reason
<1>16. CASE ReadHandle
  BY <1>16, Constants
     DEF ReadHandle, Goto, locks, flags, device, history, TypeOK, Place,
         Step, TimerState, Reason
<1>17. CASE DeinitCamera
  BY <1>17, Constants
     DEF DeinitCamera, Goto, locks, flags, TypeOK, Place, Step, TimerState,
         Reason
<1>18. ASSUME NEW r \in Capture, TaskBegins(r)
      PROVE  TypeOK'
  BY <1>18, Constants
     DEF TaskBegins, TaskGoto, locks, device, history, TypeOK, Place,
         Step, TimerState, Reason
<1>19. ASSUME NEW r \in Capture, TaskRuns(r)
      PROVE  TypeOK'
  BY <1>19, Constants
     DEF TaskRuns, TaskGoto, locks, device, history, TypeOK, Place, Step,
         TimerState, Reason
<1>20. ASSUME NEW r \in Capture, TaskLocks(r)
      PROVE  TypeOK'
  BY <1>20, Constants
     DEF TaskLocks, TaskGoto, flags, device, history, TypeOK, Place,
         Step, TimerState, Reason
<1>21. ASSUME NEW r \in Capture, TaskRestarts(r)
      PROVE  TypeOK'
  <2>1. failed' \subseteq Capture
    <3>1. CASE failed' = failed
      BY <3>1 DEF TypeOK
    <3>2. CASE failed' = failed \cup {r}
      BY <3>2 DEF TypeOK
    <3>. QED
      BY <1>21, <3>1, <3>2 DEF TaskRestarts
  <2>2. ({bRunning, bStopping, timeout, valid, streaming,
     bPaused} \subseteq BOOLEAN)'
        /\ ({asked, unpaused, stale} \subseteq BOOLEAN)'
    BY <1>21 DEF TaskRestarts, flags, TypeOK
  <2>3. task' \in [Capture -> Step]
        /\ pollcount' \in [Capture -> 0..PollMax + 1]
    BY <1>21, Constants DEF TaskRestarts, TaskGoto, TypeOK, Step
  <2>. QED
    BY <1>21, <2>1, <2>2, <2>3 DEF TaskRestarts, locks, TypeOK
<1>22. ASSUME NEW r \in Capture, TaskPauses(r)
      PROVE  TypeOK'
  BY <1>22, Constants
     DEF TaskPauses, TaskGoto, bRestart, flags, device, history, TypeOK, Place,
         Step, TimerState, Reason
<1>23. ASSUME NEW r \in Capture, TaskPollsNone(r)
      PROVE  TypeOK'
  BY <1>23, Constants
     DEF TaskPollsNone, TaskGoto, bRestart, flags, device, history, TypeOK,
         Place, Step, TimerState, Reason
<1>24. ASSUME NEW r \in Capture, TaskGetsFrame(r)
      PROVE  TypeOK'
  BY <1>24, Constants
     DEF TaskGetsFrame, TaskGoto, bRestart, flags, device, history, TypeOK,
         Place, Step, TimerState, Reason
<1>25. ASSUME NEW r \in Capture, TaskReturnsFrame(r)
      PROVE  TypeOK'
  BY <1>25, Constants
     DEF TaskReturnsFrame, TaskGoto, device, TypeOK, Place, Step, TimerState,
         Reason
<1>26. ASSUME NEW r \in Capture, TaskEnds(r)
      PROVE  TypeOK'
  BY <1>26, Constants
     DEF TaskEnds, TaskGoto, locks, flags, device, history, TypeOK,
         Place, Step, TimerState, Reason
<1>27. ASSUME NEW r \in Capture, TaskPosts(r)
      PROVE  TypeOK'
  BY <1>27, Constants
     DEF TaskPosts, TaskGoto, EndReason, locks, flags, device, TypeOK,
         Place, Step, TimerState, Reason
<1>28. ASSUME NEW r \in Capture, ListenerReturns(r)
      PROVE  TypeOK'
  BY <1>28, Constants
     DEF ListenerReturns, TaskGoto, locks, flags, device, history,
         TypeOK, Place, Step, TimerState, Reason
<1>29. ASSUME NEW r \in Capture, TaskStops(r)
      PROVE  TypeOK'
  BY <1>29, Constants
     DEF TaskStops, TaskGoto, locks, device, history, TypeOK, Place,
         Step, TimerState, Reason
<1>30. ASSUME NEW r \in Capture, ListenerCalls(r)
      PROVE  TypeOK'
  BY <1>30, Constants
     DEF ListenerCalls, TaskGoto, locks, flags, device, history, TypeOK,
         Place, Step, TimerState, Reason
<1>31. ASSUME NEW r \in Capture, Expire(r)
      PROVE  TypeOK'
  BY <1>31, Constants
     DEF Expire, locks, flags, device, history, TypeOK, Place, Step,
         TimerState, Reason
<1>32. CASE Unplug
  <2>1. call' \in [Actor -> Place] /\ calls' \in 0..MaxCalls
    BY <1>32, Constants DEF Unplug, Calls, Goto, TypeOK, Place
  <2>2. ({bRunning, bStopping, timeout, valid, streaming,
     bPaused} \subseteq BOOLEAN)'
    BY <1>32 DEF Unplug, flags, TypeOK
  <2>. QED
    BY <1>32, <2>1, <2>2 DEF Unplug, locks, history, TypeOK
<1>33. CASE Plug
  BY <1>33, Constants
     DEF Plug, Calls, locks, flags, history, TypeOK, Place, Step, TimerState,
         Reason
<1>34. ASSUME NEW r \in Capture, TimerTask(r)
      PROVE  TypeOK'
  BY <1>34, Constants
     DEF TimerTask, locks, flags, device, history, TypeOK, TimerState
<1>35. CASE TimerCallback
  <2>1. captures \in Capture
    <3>1. timerFor \in Capture /\ timer[timerFor] = "fired"
      BY <1>35 DEF TimerCallback, Ended, TypeOK
    <3>2. task[timerFor] # "none"
      BY <3>1 DEF Ended
    <3>. QED
      BY <3>1, <3>2, Constants DEF OneTask, TypeOK, Capture
  <2>2. late' \subseteq Capture /\ timerFor' \in Capture \cup {None}
    BY <1>35, <2>1 DEF TimerCallback, EndByTimer, TypeOK
  <2>. QED
    BY <1>35, <2>2 DEF TimerCallback, EndByTimer, locks, device, TypeOK
<1>36. CASE ForeignCallback
  <2>1. captures \in Capture
    BY <1>36, Constants DEF ForeignCallback, TypeOK, Capture
  <2>2. late' \subseteq Capture /\ timerFor' \in Capture \cup {None}
    BY <1>36, <2>1 DEF ForeignCallback, EndByTimer, TypeOK
  <2>. QED
    BY <1>36, <2>2 DEF ForeignCallback, EndByTimer, locks, device, TypeOK
<1>37. CASE UNCHANGED <<mThread, mutex, call, hndl, hCameraThread, bRunning,
                        bStopping, timeout, valid, streaming, bPaused, bFile,
                        task, pollcount, timer, timerFor, usbHndl, captures,
                        calls, told, stopped, failed, asked, unpaused, late,
                        stale>>
  BY <1>37 DEF TypeOK, Place, Step, TimerState, Reason
<1>. QED
  BY <1>1, <1>2, <1>3, <1>4, <1>5, <1>6, <1>7, <1>8, <1>9, <1>10, <1>11, <1>12,
     <1>13, <1>14, <1>15, <1>16, <1>17, <1>18, <1>19, <1>20, <1>21, <1>22,
     <1>23, <1>24, <1>25, <1>26, <1>27, <1>28, <1>29, <1>30, <1>31, <1>32,
     <1>33, <1>34, <1>35, <1>36, <1>37
     DEF Next, ThreadStep, TaskStep, vars, locks, flags, device, history

LEMMA CallingStep ==
  TypeOK /\ Locked /\ Calling /\ [Next]_vars
    => Calling'
<1> SUFFICES ASSUME TypeOK, Locked, Calling, [Next]_vars
             PROVE  Calling'
  OBVIOUS
<1>1. ASSUME NEW c \in Client, CallStart(c)
      PROVE  Calling'
  BY <1>1, Constants
     DEF CallStart, Calls, Goto, Starting, Calling, Locked, TypeOK
<1>2. ASSUME NEW c \in Client, CallStop(c)
      PROVE  Calling'
  BY <1>2, Constants DEF CallStop, Calls, Goto, Calling, Locked, TypeOK
<1>3. ASSUME NEW c \in Client, CallGrab(c)
      PROVE  Calling'
  BY <1>3, Constants DEF CallGrab, Calls, Goto, Calling, Locked, TypeOK
<1>4. ASSUME NEW c \in Client, LockSurface(c)
      PROVE  Calling'
  BY <1>4, Constants DEF LockSurface, Calls, Goto, Calling, Locked, TypeOK
<1>5. ASSUME NEW a \in Actor, StartLocks(a)
      PROVE  Calling'
  BY <1>5, Constants DEF StartLocks, Goto, Calling, Locked, TypeOK
<1>6. ASSUME NEW a \in Actor, InitCameraTask(a)
      PROVE  Calling'
  <2>1. a \in Client
    BY <1>6, Constants DEF InitCameraTask, Calling, Actor
  <2>2. \A c \in Client : c # a => call'[c] \notin {"start", "fill"}
    BY <1>6, <2>1, Constants DEF InitCameraTask, Goto, Calling, TypeOK
  <2>3. call'[a] = "await" /\ call'[Usb] = call[Usb]
    BY <1>6, <2>1, Constants DEF InitCameraTask, Goto, TypeOK
  <2>. QED
    BY <2>1, <2>2, <2>3 DEF Calling
<1>7. ASSUME NEW a \in Actor, StartReturns(a)
      PROVE  Calling'
  BY <1>7, Constants DEF StartReturns, Goto, Calling, Locked, TypeOK
<1>8. ASSUME NEW a \in Actor, StopLocks(a)
      PROVE  Calling'
  BY <1>8, Constants DEF StopLocks, Goto, Calling, Locked, TypeOK
<1>9. ASSUME NEW a \in Actor, HaltTask(a)
      PROVE  Calling'
  BY <1>9, Constants
     DEF HaltTask, Goto, Return, IsStreamingHandle, Calling, Locked, TypeOK
<1>10. ASSUME NEW a \in Actor, StopReturns(a)
      PROVE  Calling'
  BY <1>10, Constants DEF StopReturns, Return, Goto, Calling, Locked, TypeOK
<1>11. ASSUME NEW a \in Actor, GrabLocks(a)
      PROVE  Calling'
  BY <1>11, Constants DEF GrabLocks, Goto, Calling, Locked, TypeOK
<1>12. ASSUME NEW a \in Actor, GrabFrame(a)
      PROVE  Calling'
  BY <1>12, Constants DEF GrabFrame, Goto, Calling, Locked, TypeOK
<1>13. ASSUME NEW a \in Actor, GrabFails(a)
      PROVE  Calling'
  BY <1>13, Constants DEF GrabFails, Goto, Calling, Locked, TypeOK
<1>14. ASSUME NEW a \in Actor, UnLockSurface(a)
      PROVE  Calling'
  BY <1>14, Constants DEF UnLockSurface, Goto, Calling, Locked, TypeOK
<1>15. CASE ReadHandle
  BY <1>15, Constants DEF ReadHandle, Goto, Calling, Locked, TypeOK
<1>16. CASE DeinitCamera
  BY <1>16, Constants DEF DeinitCamera, Goto, Calling, Locked, TypeOK
<1>17. CASE Unplug
  BY <1>17, Constants DEF Unplug, Calls, Goto, Calling, Locked, TypeOK
<1>18. CASE UNCHANGED <<call, captures, hndl>>
  BY <1>18 DEF Calling, Locked, TypeOK
<1>. QED
  BY <1>1, <1>2, <1>3, <1>4, <1>5, <1>6, <1>7, <1>8, <1>9, <1>10, <1>11, <1>12,
     <1>13, <1>14, <1>15, <1>16, <1>17, <1>18
     DEF Next, ThreadStep, TaskStep, vars, SetPaused, TaskBegins, TaskRuns,
         TaskLocks, TaskRestarts, TaskPauses, TaskPollsNone, TaskGetsFrame,
         TaskReturnsFrame, TaskEnds, TaskPosts, ListenerReturns, TaskStops,
         ListenerCalls, Expire, TimerCallback, Plug, TimerTask, ForeignCallback,
         EndByTimer

LEMMA LockedStep ==
  TypeOK /\ Locked /\ OneTask /\ FramesStay /\ [Next]_vars
    => Locked'
<1> SUFFICES ASSUME TypeOK, Locked, OneTask, FramesStay, [Next]_vars
             PROVE  Locked'
  OBVIOUS
<1>1. ASSUME NEW c \in Client, CallStart(c)
      PROVE  Locked'
  BY <1>1, Constants
     DEF CallStart, Calls, Goto, Starting, locks, Locked, TypeOK, Holding
<1>2. ASSUME NEW c \in Client, CallStop(c)
      PROVE  Locked'
  BY <1>2, Constants DEF CallStop, Calls, Goto, locks, Locked, TypeOK, Holding
<1>3. ASSUME NEW c \in Client, CallGrab(c)
      PROVE  Locked'
  BY <1>3, Constants DEF CallGrab, Calls, Goto, locks, Locked, TypeOK, Holding
<1>4. ASSUME NEW c \in Client, LockSurface(c)
      PROVE  Locked'
  BY <1>4, Constants DEF LockSurface, Calls, Goto, Locked, TypeOK, Holding
<1>5. ASSUME NEW a \in Actor, StartLocks(a)
      PROVE  Locked'
  BY <1>5, Constants DEF StartLocks, Goto, Locked, TypeOK, Holding
<1>6. ASSUME NEW a \in Actor, InitCameraTask(a)
      PROVE  Locked'
  BY <1>6, Constants
     DEF InitCameraTask, Goto, TaskGoto, locks, Locked, TypeOK, Holding
<1>7. ASSUME NEW a \in Actor, StartReturns(a)
      PROVE  Locked'
  BY <1>7, Constants DEF StartReturns, Goto, Locked, TypeOK, Holding
<1>8. ASSUME NEW a \in Actor, StopLocks(a)
      PROVE  Locked'
  BY <1>8, Constants DEF StopLocks, Goto, Locked, TypeOK, Holding
<1>9. ASSUME NEW a \in Actor, HaltTask(a)
      PROVE  Locked'
  BY <1>9, Constants
     DEF HaltTask, Goto, Return, IsStreamingHandle, Locked, TypeOK, Holding
<1>10. ASSUME NEW a \in Actor, StopReturns(a)
      PROVE  Locked'
  BY <1>10, Constants DEF StopReturns, Return, Goto, Locked, TypeOK, Holding
<1>11. ASSUME NEW a \in Actor, GrabLocks(a)
      PROVE  Locked'
  BY <1>11, Constants DEF GrabLocks, Goto, Locked, TypeOK, Holding
<1>12. ASSUME NEW a \in Actor, GrabFrame(a)
      PROVE  Locked'
  BY <1>12, Constants DEF GrabFrame, Goto, Locked, TypeOK, Holding
<1>13. ASSUME NEW a \in Actor, GrabFails(a)
      PROVE  Locked'
  BY <1>13, Constants DEF GrabFails, Goto, Locked, TypeOK, Holding
<1>14. ASSUME NEW a \in Actor, UnLockSurface(a)
      PROVE  Locked'
  BY <1>14, Constants DEF UnLockSurface, Goto, Locked, TypeOK, Holding
<1>15. CASE ReadHandle
  BY <1>15, Constants DEF ReadHandle, Goto, locks, Locked, TypeOK, Holding
<1>16. CASE DeinitCamera
  BY <1>16, Constants DEF DeinitCamera, Goto, locks, Locked, TypeOK, Holding
<1>17. ASSUME NEW r \in Capture, TaskBegins(r)
      PROVE  Locked'
  BY <1>17, Constants DEF TaskBegins, TaskGoto, locks, Locked, TypeOK, Holding
<1>18. ASSUME NEW r \in Capture, TaskRuns(r)
      PROVE  Locked'
  BY <1>18, Constants DEF TaskRuns, TaskGoto, locks, Locked, TypeOK, Holding
<1>19. ASSUME NEW r \in Capture, TaskLocks(r)
      PROVE  Locked'
  BY <1>19, Constants DEF TaskLocks, TaskGoto, Locked, TypeOK, Holding
<1>20. ASSUME NEW r \in Capture, TaskRestarts(r)
      PROVE  Locked'
  BY <1>20, Constants
     DEF TaskRestarts, TaskGoto, bRestart, locks, Locked, TypeOK, Holding
<1>21. ASSUME NEW r \in Capture, TaskPauses(r)
      PROVE  Locked'
  BY <1>21, Constants
     DEF TaskPauses, TaskGoto, bRestart, Locked, TypeOK, Holding
<1>22. ASSUME NEW r \in Capture, TaskPollsNone(r)
      PROVE  Locked'
  BY <1>22, Constants
     DEF TaskPollsNone, TaskGoto, bRestart, Locked, TypeOK, Holding
<1>23. ASSUME NEW r \in Capture, TaskGetsFrame(r)
      PROVE  Locked'
  BY <1>23, Constants
     DEF TaskGetsFrame, TaskGoto, bRestart, Locked, TypeOK, Holding
<1>24. ASSUME NEW r \in Capture, TaskReturnsFrame(r)
      PROVE  Locked'
  BY <1>24, Constants DEF TaskReturnsFrame, TaskGoto, Locked, TypeOK, Holding
<1>25. ASSUME NEW r \in Capture, TaskEnds(r)
      PROVE  Locked'
  BY <1>25, Constants DEF TaskEnds, TaskGoto, locks, Locked, TypeOK, Holding
<1>26. ASSUME NEW r \in Capture, TaskPosts(r)
      PROVE  Locked'
  BY <1>26, Constants
     DEF TaskPosts, TaskGoto, EndReason, locks, Locked, TypeOK, Holding
<1>27. ASSUME NEW r \in Capture, ListenerReturns(r)
      PROVE  Locked'
  BY <1>27, Constants
     DEF ListenerReturns, TaskGoto, locks, Locked, TypeOK, Holding
<1>28. ASSUME NEW r \in Capture, TaskStops(r)
      PROVE  Locked'
  BY <1>28, Constants DEF TaskStops, TaskGoto, locks, Locked, TypeOK, Holding
<1>29. ASSUME NEW r \in Capture, ListenerCalls(r)
      PROVE  Locked'
  BY <1>29, Constants
     DEF ListenerCalls, TaskGoto, locks, Locked, TypeOK, Holding
<1>30. CASE Unplug
  BY <1>30, Constants DEF Unplug, Calls, Goto, locks, Locked, TypeOK, Holding
<1>31. CASE UNCHANGED <<call, task, mThread, mutex>>
  BY <1>31 DEF Locked, TypeOK, Holding
<1>. QED
  BY <1>1, <1>2, <1>3, <1>4, <1>5, <1>6, <1>7, <1>8, <1>9, <1>10, <1>11, <1>12,
     <1>13, <1>14, <1>15, <1>16, <1>17, <1>18, <1>19, <1>20, <1>21, <1>22,
     <1>23, <1>24, <1>25, <1>26, <1>27, <1>28, <1>29, <1>30, <1>31
     DEF Next, ThreadStep, TaskStep, vars, locks, SetPaused, Expire,
         TimerCallback, Plug, TimerTask, ForeignCallback, EndByTimer

LEMMA OneTaskStep ==
  TypeOK /\ Calling /\ OneTask /\ [Next]_vars
    => OneTask'
<1> SUFFICES ASSUME TypeOK, Calling, OneTask, [Next]_vars
             PROVE  OneTask'
  OBVIOUS
<1>1. ASSUME NEW a \in Actor, InitCameraTask(a)
      PROVE  OneTask'
  BY <1>1, Constants
     DEF InitCameraTask, Goto, TaskGoto, OneTask, TypeOK, Capture, None
<1>2. ASSUME NEW a \in Actor, StopReturns(a)
      PROVE  OneTask'
  BY <1>2, Constants
     DEF StopReturns, Return, Goto, OneTask, TypeOK, Capture, None
<1>3. ASSUME NEW r \in Capture, TaskBegins(r)
      PROVE  OneTask'
  BY <1>3, Constants DEF TaskBegins, TaskGoto, OneTask, TypeOK, Capture, None
<1>4. ASSUME NEW r \in Capture, TaskRuns(r)
      PROVE  OneTask'
  BY <1>4, Constants DEF TaskRuns, TaskGoto, OneTask, TypeOK, Capture, None
<1>5. ASSUME NEW r \in Capture, TaskLocks(r)
      PROVE  OneTask'
  BY <1>5, Constants DEF TaskLocks, TaskGoto, OneTask, TypeOK, Capture, None
<1>6. ASSUME NEW r \in Capture, TaskRestarts(r)
      PROVE  OneTask'
  BY <1>6, Constants
     DEF TaskRestarts, TaskGoto, bRestart, OneTask, TypeOK, Capture, None
<1>7. ASSUME NEW r \in Capture, TaskPauses(r)
      PROVE  OneTask'
  BY <1>7, Constants
     DEF TaskPauses, TaskGoto, bRestart, OneTask, TypeOK, Capture, None
<1>8. ASSUME NEW r \in Capture, TaskPollsNone(r)
      PROVE  OneTask'
  BY <1>8, Constants
     DEF TaskPollsNone, TaskGoto, bRestart, OneTask, TypeOK, Capture, None
<1>9. ASSUME NEW r \in Capture, TaskGetsFrame(r)
      PROVE  OneTask'
  BY <1>9, Constants
     DEF TaskGetsFrame, TaskGoto, bRestart, OneTask, TypeOK, Capture, None
<1>10. ASSUME NEW r \in Capture, TaskReturnsFrame(r)
      PROVE  OneTask'
  BY <1>10, Constants
     DEF TaskReturnsFrame, TaskGoto, OneTask, TypeOK, Capture, None
<1>11. ASSUME NEW r \in Capture, TaskEnds(r)
      PROVE  OneTask'
  BY <1>11, Constants DEF TaskEnds, TaskGoto, OneTask, TypeOK, Capture, None
<1>12. ASSUME NEW r \in Capture, TaskPosts(r)
      PROVE  OneTask'
  BY <1>12, Constants
     DEF TaskPosts, TaskGoto, EndReason, OneTask, TypeOK, Capture, None
<1>13. ASSUME NEW r \in Capture, ListenerReturns(r)
      PROVE  OneTask'
  BY <1>13, Constants
     DEF ListenerReturns, TaskGoto, OneTask, TypeOK, Capture, None
<1>14. ASSUME NEW r \in Capture, TaskStops(r)
      PROVE  OneTask'
  BY <1>14, Constants DEF TaskStops, TaskGoto, OneTask, TypeOK, Capture, None
<1>15. ASSUME NEW r \in Capture, ListenerCalls(r)
      PROVE  OneTask'
  BY <1>15, Constants
     DEF ListenerCalls, TaskGoto, OneTask, TypeOK, Capture, None
<1>16. CASE UNCHANGED <<hndl, hCameraThread, captures, task>>
  BY <1>16 DEF OneTask, TypeOK, Capture, None
<1>. QED
  BY <1>1, <1>2, <1>3, <1>4, <1>5, <1>6, <1>7, <1>8, <1>9, <1>10, <1>11, <1>12,
     <1>13, <1>14, <1>15, <1>16
     DEF Next, ThreadStep, TaskStep, vars, CallStart, CallStop, CallGrab,
         LockSurface, SetPaused, StartLocks, StartReturns, StopLocks, HaltTask,
         GrabLocks, GrabFrame, GrabFails, UnLockSurface, ReadHandle,
         DeinitCamera, Expire, TimerCallback, Unplug, Plug, TimerTask,
         ForeignCallback, EndByTimer

LEMMA FramesStep ==
  TypeOK /\ Calling /\ Locked /\ OneTask /\ FramesStay /\ [Next]_vars
    => FramesStay'
<1> SUFFICES ASSUME TypeOK, Calling, Locked, OneTask, FramesStay, [Next]_vars
             PROVE  FramesStay'
  OBVIOUS
<1>1. ASSUME NEW a \in Actor, StartLocks(a)
      PROVE  FramesStay'
  BY <1>1, Constants DEF StartLocks, Goto, FramesStay, Live, TypeOK
<1>2. ASSUME NEW a \in Actor, InitCameraTask(a)
      PROVE  FramesStay'
  <2>1. a \in Client
    BY <1>2, Constants DEF InitCameraTask, Calling, Actor
  <2>2. \A r \in Capture : ~Live(r)
    BY <1>2, <2>1, Constants DEF InitCameraTask, Calling, OneTask, FramesStay
  <2>. QED
    BY <1>2, <2>2
       DEF InitCameraTask, TaskGoto, device, history, FramesStay, Live, TypeOK
<1>3. ASSUME NEW a \in Actor, StopReturns(a)
      PROVE  FramesStay'
  BY <1>3, Constants
     DEF StopReturns, Return, Goto, history, FramesStay, Live, TypeOK
<1>4. ASSUME NEW a \in Actor, GrabFrame(a)
      PROVE  FramesStay'
  BY <1>4, Constants DEF GrabFrame, Goto, history, FramesStay, Live, TypeOK
<1>5. ASSUME NEW a \in Actor, GrabFails(a)
      PROVE  FramesStay'
  BY <1>5, Constants
     DEF GrabFails, Goto, FramesStay, Live, TypeOK, Locked, Holding
<1>6. CASE DeinitCamera
  BY <1>6, Constants DEF DeinitCamera, Goto, FramesStay, Live, TypeOK
<1>7. ASSUME NEW r \in Capture, TaskBegins(r)
      PROVE  FramesStay'
  BY <1>7, Constants
     DEF TaskBegins, TaskGoto, device, history, FramesStay, Live, TypeOK
<1>8. ASSUME NEW r \in Capture, TaskRuns(r)
      PROVE  FramesStay'
  BY <1>8, Constants
     DEF TaskRuns, TaskGoto, device, history, FramesStay, Live, TypeOK
<1>9. ASSUME NEW r \in Capture, TaskLocks(r)
      PROVE  FramesStay'
  BY <1>9, Constants
     DEF TaskLocks, TaskGoto, device, history, FramesStay, Live, TypeOK
<1>10. ASSUME NEW r \in Capture, TaskRestarts(r)
      PROVE  FramesStay'
  BY <1>10, Constants
     DEF TaskRestarts, TaskGoto, bRestart, FramesStay, Live, TypeOK
<1>11. ASSUME NEW r \in Capture, TaskPauses(r)
      PROVE  FramesStay'
  BY <1>11, Constants
     DEF TaskPauses, TaskGoto, bRestart, device, history, FramesStay, Live,
         TypeOK
<1>12. ASSUME NEW r \in Capture, TaskPollsNone(r)
      PROVE  FramesStay'
  BY <1>12, Constants
     DEF TaskPollsNone, TaskGoto, bRestart, device, history, FramesStay, Live,
         TypeOK
<1>13. ASSUME NEW r \in Capture, TaskGetsFrame(r)
      PROVE  FramesStay'
  BY <1>13, Constants
     DEF TaskGetsFrame, TaskGoto, bRestart, device, history, FramesStay, Live,
         TypeOK
<1>14. ASSUME NEW r \in Capture, TaskReturnsFrame(r)
      PROVE  FramesStay'
  BY <1>14, Constants
     DEF TaskReturnsFrame, TaskGoto, device, FramesStay, Live, TypeOK
<1>15. ASSUME NEW r \in Capture, TaskEnds(r)
      PROVE  FramesStay'
  BY <1>15, Constants
     DEF TaskEnds, TaskGoto, device, history, FramesStay, Live, TypeOK
<1>16. ASSUME NEW r \in Capture, TaskPosts(r)
      PROVE  FramesStay'
  BY <1>16, Constants
     DEF TaskPosts, TaskGoto, EndReason, device, FramesStay, Live, TypeOK
<1>17. ASSUME NEW r \in Capture, ListenerReturns(r)
      PROVE  FramesStay'
  BY <1>17, Constants
     DEF ListenerReturns, TaskGoto, device, history, FramesStay, Live, TypeOK
<1>18. ASSUME NEW r \in Capture, TaskStops(r)
      PROVE  FramesStay'
  BY <1>18, Constants
     DEF TaskStops, TaskGoto, device, history, FramesStay, Live, TypeOK
<1>19. ASSUME NEW r \in Capture, ListenerCalls(r)
      PROVE  FramesStay'
  BY <1>19, Constants
     DEF ListenerCalls, TaskGoto, device, history, FramesStay, Live, TypeOK
<1>20. CASE UNCHANGED <<task, hCameraThread, streaming, stale>>
  BY <1>20 DEF FramesStay, Live, TypeOK
<1>. QED
  BY <1>1, <1>2, <1>3, <1>4, <1>5, <1>6, <1>7, <1>8, <1>9, <1>10, <1>11, <1>12,
     <1>13, <1>14, <1>15, <1>16, <1>17, <1>18, <1>19, <1>20
     DEF Next, ThreadStep, TaskStep, vars, device, history, CallStart, CallStop,
         CallGrab, LockSurface, SetPaused, StartReturns, StopLocks, HaltTask,
         GrabLocks, UnLockSurface, ReadHandle, Expire, TimerCallback, Unplug,
         Plug, TimerTask, ForeignCallback, EndByTimer

LEMMA EndedStep ==
  TypeOK /\ Calling /\ OneTask /\ FramesStay /\ Ended /\ [Next]_vars
    => Ended'
<1> SUFFICES ASSUME TypeOK, Calling, OneTask, FramesStay, Ended, [Next]_vars
             PROVE  Ended'
  OBVIOUS
<1>1. ASSUME NEW a \in Actor, InitCameraTask(a)
      PROVE  Ended'
  <2>1. a \in Client
    BY <1>1, Constants DEF InitCameraTask, Calling, Actor
  <2>2. \A r \in Capture : ~Live(r)
    BY <1>1, <2>1, Constants DEF InitCameraTask, Calling, OneTask, FramesStay
  <2>3. \A r \in Capture : r = captures + 1 =>
          task[r] = "none" /\ task'[r] = "begin"
    BY <1>1, Constants DEF InitCameraTask, TaskGoto, OneTask, TypeOK, Capture
  <2>4. \A r \in Capture : r # captures + 1 => task'[r] = task[r]
    BY <1>1 DEF InitCameraTask, TaskGoto, TypeOK
  <2>5. /\ UNCHANGED <<told, timeout, stopped, failed, timer, timerFor, late>>
        /\ captures' = captures + 1
    BY <1>1 DEF InitCameraTask, history
  <2>. QED
    BY <2>2, <2>3, <2>4, <2>5 DEF Ended, Live, Told, Looping
<1>2. ASSUME NEW a \in Actor, HaltTask(a)
      PROVE  Ended'
  BY <1>2, Constants
     DEF HaltTask, Goto, Return, IsStreamingHandle, Ended, Told, Looping,
         TypeOK, OneTask, FramesStay, Live
<1>3. ASSUME NEW r \in Capture, TaskBegins(r)
      PROVE  Ended'
  BY <1>3, Constants
     DEF TaskBegins, TaskGoto, history, Ended, Told, Looping, TypeOK,
         FramesStay, Live, OneTask
<1>4. ASSUME NEW r \in Capture, TaskRuns(r)
      PROVE  Ended'
  BY <1>4, Constants
     DEF TaskRuns, TaskGoto, history, Ended, Told, Looping, TypeOK, FramesStay,
         Live
<1>5. ASSUME NEW r \in Capture, TaskLocks(r)
      PROVE  Ended'
  BY <1>5, Constants
     DEF TaskLocks, TaskGoto, flags, history, Ended, Told, Looping, TypeOK
<1>6. ASSUME NEW r \in Capture, TaskRestarts(r)
      PROVE  Ended'
  BY <1>6, Constants
     DEF TaskRestarts, TaskGoto, bRestart, flags, Ended, Told, Looping, TypeOK
<1>7. ASSUME NEW r \in Capture, TaskPauses(r)
      PROVE  Ended'
  BY <1>7, Constants
     DEF TaskPauses, TaskGoto, bRestart, flags, history, Ended, Told, Looping,
         TypeOK
<1>8. ASSUME NEW r \in Capture, TaskPollsNone(r)
      PROVE  Ended'
  BY <1>8, Constants
     DEF TaskPollsNone, TaskGoto, bRestart, flags, history, Ended, Told,
         Looping, TypeOK
<1>9. ASSUME NEW r \in Capture, TaskGetsFrame(r)
      PROVE  Ended'
  BY <1>9, Constants
     DEF TaskGetsFrame, TaskGoto, bRestart, flags, history, Ended, Told,
         Looping, TypeOK
<1>10. ASSUME NEW r \in Capture, TaskReturnsFrame(r)
      PROVE  Ended'
  BY <1>10, Constants
     DEF TaskReturnsFrame, TaskGoto, Ended, Told, Looping, TypeOK, FramesStay,
         Live
<1>11. ASSUME NEW r \in Capture, TaskEnds(r)
      PROVE  Ended'
  BY <1>11, Constants
     DEF TaskEnds, TaskGoto, flags, history, Ended, Told, Looping, TypeOK
<1>12. ASSUME NEW r \in Capture, TaskPosts(r)
      PROVE  Ended'
  BY <1>12, Constants
     DEF TaskPosts, TaskGoto, EndReason, flags, Ended, Told, Looping, TypeOK
<1>13. ASSUME NEW r \in Capture, ListenerReturns(r)
      PROVE  Ended'
  BY <1>13, Constants
     DEF ListenerReturns, TaskGoto, flags, history, Ended, Told, Looping, TypeOK
<1>14. ASSUME NEW r \in Capture, TaskStops(r)
      PROVE  Ended'
  BY <1>14, Constants
     DEF TaskStops, TaskGoto, history, Ended, Told, Looping, TypeOK
<1>15. ASSUME NEW r \in Capture, ListenerCalls(r)
      PROVE  Ended'
  BY <1>15, Constants
     DEF ListenerCalls, TaskGoto, flags, history, Ended, Told, Looping, TypeOK
<1>16. ASSUME NEW r \in Capture, Expire(r)
      PROVE  Ended'
  BY <1>16, Constants DEF Expire, flags, history, Ended, Told, Looping, TypeOK
<1>17. ASSUME NEW r \in Capture, TimerTask(r)
      PROVE  Ended'
  BY <1>17, Constants
     DEF TimerTask, flags, history, Ended, Told, Looping, TypeOK, None
<1>18. CASE TimerCallback
  BY <1>18, Constants
     DEF TimerCallback, EndByTimer, Ended, Told, Looping, TypeOK, None
<1>19. CASE ForeignCallback
  BY <1>19, Constants
     DEF ForeignCallback, EndByTimer, Ended, Told, Looping, TypeOK, None
<1>20. CASE UNCHANGED <<told, task, bRunning, timeout, stopped, failed,
                        captures, timer, timerFor, late>>
  BY <1>20 DEF Ended, Told, Looping, TypeOK
<1>. QED
  BY <1>1, <1>2, <1>3, <1>4, <1>5, <1>6, <1>7, <1>8, <1>9, <1>10, <1>11, <1>12,
     <1>13, <1>14, <1>15, <1>16, <1>17, <1>18, <1>19, <1>20
     DEF Next, ThreadStep, TaskStep, vars, flags, history, CallStart, CallStop,
         CallGrab, LockSurface, SetPaused, StartLocks, StartReturns, StopLocks,
         StopReturns, GrabLocks, GrabFrame, GrabFails, UnLockSurface,
         ReadHandle, DeinitCamera, Unplug, Plug

LEMMA ExplainedStep ==
  TypeOK /\ Calling /\ OneTask /\ FramesStay /\ Ended /\ EndIsExplained
    /\ [Next]_vars
    => EndIsExplained'
<1> SUFFICES ASSUME TypeOK, Calling, OneTask, FramesStay, Ended, EndIsExplained,
   [Next]_vars
             PROVE  EndIsExplained'
  OBVIOUS
<1>1. ASSUME NEW a \in Actor, InitCameraTask(a)
      PROVE  EndIsExplained'
  <2>1. /\ hCameraThread = None /\ captures' = captures + 1
        /\ hCameraThread' = captures + 1
    BY <1>1, Constants DEF InitCameraTask, Calling, OneTask, Actor
  <2>2. UNCHANGED <<told, timer, late, stopped, failed>>
    BY <1>1 DEF InitCameraTask, history
  <2>3. captures \in Nat /\ \A r \in 1..captures : r # hCameraThread
    BY <2>1, Constants DEF None, TypeOK
  <2>. QED
    BY <2>1, <2>2, <2>3 DEF EndIsExplained
<1>2. ASSUME NEW a \in Actor, HaltTask(a)
      PROVE  EndIsExplained'
  BY <1>2, Constants
     DEF HaltTask, Goto, Return, IsStreamingHandle, EndIsExplained, TypeOK
<1>3. ASSUME NEW a \in Actor, StopReturns(a)
      PROVE  EndIsExplained'
  BY <1>3, Constants
     DEF StopReturns, Return, Goto, history, EndIsExplained, TypeOK, Ended,
         Told, OneTask, Capture
<1>4. ASSUME NEW r \in Capture, TaskBegins(r)
      PROVE  EndIsExplained'
  BY <1>4, Constants
     DEF TaskBegins, TaskGoto, history, EndIsExplained, TypeOK, Ended, Told
<1>5. ASSUME NEW r \in Capture, TaskRestarts(r)
      PROVE  EndIsExplained'
  BY <1>5, Constants
     DEF TaskRestarts, TaskGoto, bRestart, EndIsExplained, TypeOK
<1>6. ASSUME NEW r \in Capture, TaskPauses(r)
      PROVE  EndIsExplained'
  BY <1>6, Constants
     DEF TaskPauses, TaskGoto, bRestart, history, EndIsExplained, TypeOK
<1>7. ASSUME NEW r \in Capture, TaskReturnsFrame(r)
      PROVE  EndIsExplained'
  BY <1>7, Constants DEF TaskReturnsFrame, TaskGoto, EndIsExplained, TypeOK
<1>8. ASSUME NEW r \in Capture, TaskEnds(r)
      PROVE  EndIsExplained'
  BY <1>8, Constants DEF TaskEnds, TaskGoto, history, EndIsExplained, TypeOK
<1>9. ASSUME NEW r \in Capture, TaskPosts(r)
      PROVE  EndIsExplained'
  <2>1. r = captures
    BY <1>9, Constants DEF TaskPosts, FramesStay, Live, OneTask
  <2>2. EndReason = "elapsed" => timer[r] = "fired" \/ r \in late
    BY <1>9, <2>1 DEF TaskPosts, EndReason, Ended, TypeOK
  <2>3. EndReason = "stopped" => r \in stopped \cup failed
    BY <1>9 DEF TaskPosts, EndReason, Ended, TypeOK
  <2>4. EndReason # "none"
    BY DEF EndReason, TypeOK
  <2>5. /\ told' = [told EXCEPT ![r] = EndReason]
        /\ UNCHANGED <<captures, hCameraThread, timer, late, stopped, failed>>
    BY <1>9 DEF TaskPosts
  <2>. QED
    BY <2>2, <2>3, <2>4, <2>5 DEF EndIsExplained, TypeOK
<1>10. ASSUME NEW r \in Capture, Expire(r)
      PROVE  EndIsExplained'
  BY <1>10, Constants DEF Expire, history, EndIsExplained, TypeOK
<1>11. ASSUME NEW r \in Capture, TimerTask(r)
      PROVE  EndIsExplained'
  BY <1>11, Constants DEF TimerTask, history, EndIsExplained, TypeOK
<1>12. CASE TimerCallback
  BY <1>12, Constants DEF TimerCallback, EndByTimer, EndIsExplained, TypeOK
<1>13. CASE ForeignCallback
  BY <1>13, Constants DEF ForeignCallback, EndByTimer, EndIsExplained, TypeOK
<1>14. CASE UNCHANGED <<captures, hCameraThread, told, timer, late, stopped,
                        failed>>
  BY <1>14 DEF EndIsExplained, TypeOK
<1>. QED
  BY <1>1, <1>2, <1>3, <1>4, <1>5, <1>6, <1>7, <1>8, <1>9, <1>10, <1>11, <1>12,
     <1>13, <1>14
     DEF Next, ThreadStep, TaskStep, vars, history, CallStart, CallStop,
         CallGrab, LockSurface, SetPaused, StartLocks, StartReturns, StopLocks,
         GrabLocks, GrabFrame, GrabFails, UnLockSurface, ReadHandle,
         DeinitCamera, TaskRuns, TaskLocks, TaskPollsNone, TaskGetsFrame,
         ListenerReturns, TaskStops, ListenerCalls, Unplug, Plug

LEMMA PauseStep ==
  PauseOutlivesSnapshot /\ [Next]_vars
    => PauseOutlivesSnapshot'
<1> SUFFICES ASSUME PauseOutlivesSnapshot, [Next]_vars
             PROVE  PauseOutlivesSnapshot'
  OBVIOUS
<1>1. ASSUME NEW c \in Client, NEW paused \in BOOLEAN, SetPaused(c, paused)
      PROVE  PauseOutlivesSnapshot'
  BY <1>1 DEF SetPaused, Calls, PauseOutlivesSnapshot
<1>2. ASSUME NEW a \in Actor, StartLocks(a)
      PROVE  PauseOutlivesSnapshot'
  BY <1>2 DEF StartLocks, Goto, PauseOutlivesSnapshot
<1>3. ASSUME NEW a \in Actor, GrabFails(a)
      PROVE  PauseOutlivesSnapshot'
  BY <1>3 DEF GrabFails, Goto, PauseOutlivesSnapshot
<1>4. ASSUME NEW r \in Capture, TaskRestarts(r)
      PROVE  PauseOutlivesSnapshot'
  <2>1. CASE bPaused' = FALSE /\ unpaused' = (unpaused \/ bPaused)
    BY <1>4, <2>1 DEF TaskRestarts, PauseOutlivesSnapshot
  <2>2. CASE UNCHANGED <<bPaused, unpaused>>
    BY <1>4, <2>2 DEF TaskRestarts, PauseOutlivesSnapshot
  <2>. QED
    BY <1>4, <2>1, <2>2 DEF TaskRestarts
<1>5. CASE UNCHANGED <<asked, bPaused, unpaused>>
  BY <1>5 DEF PauseOutlivesSnapshot
<1>. QED
  BY <1>1, <1>2, <1>3, <1>4, <1>5
     DEF Next, ThreadStep, TaskStep, vars, device, history, CallStart, CallStop,
         CallGrab, LockSurface, InitCameraTask, StartReturns, StopLocks,
         HaltTask, StopReturns, GrabLocks, GrabFrame, UnLockSurface, ReadHandle,
         DeinitCamera, TaskBegins, TaskRuns, TaskLocks, TaskPauses,
         TaskPollsNone, TaskGetsFrame, TaskReturnsFrame, TaskEnds, TaskPosts,
         ListenerReturns, TaskStops, ListenerCalls, Expire, TimerCallback,
         Unplug, Plug, TimerTask, ForeignCallback, EndByTimer

-----------------------------------------------------------------------------
(* The theorems *)

LEMMA Invariant == Spec => []IInv
<1>1. IInv /\ [Next]_vars => IInv'
  BY TypeStep, CallingStep, LockedStep, OneTaskStep, FramesStep, EndedStep,
     ExplainedStep
     DEF IInv
<1>. QED
  BY <1>1, InitInv, PTL DEF Spec

(* Every variable keeps its type; polls are never counted past PollMax + 1, *)
(* and no capture is started beyond the last place: a call that has begun   *)
(* to start one is the only one and has room.                               *)
THEOREM CameraTypeCorrect == Spec => []TypeOK
  BY Invariant, PTL DEF IInv

(* One task at a time, and the frame it holds stays mapped: only the holder *)
(* of mThread turns the stream off, and a task with a frame is that holder; *)
(* the USB listener, which does not take it, sets stale.                    *)
THEOREM FrameIsKept == Spec => []FramesStay
  BY Invariant, PTL DEF IInv

(* A capture that is over has posted its end event, with the reason for     *)
(* which its loop was left; "elapsed" when the signal of its own timer was  *)
(* answered, or of another while it was the last capture.                   *)
THEOREM CapturesEndAsTold == Spec => []EndIsExplained
  BY Invariant, PTL DEF IInv

(* A pause outlives snapshots and calls of any number of threads, unless a  *)
(* snapshot fails or the stream is restarted.                               *)
THEOREM PauseIsKept == Spec => []PauseOutlivesSnapshot
<1>1. PauseOutlivesSnapshot /\ [Next]_vars => PauseOutlivesSnapshot'
  BY PauseStep
<1>. QED
  BY <1>1, InitInv, PTL DEF Spec
=============================================================================
