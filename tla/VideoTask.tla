----------------------------- MODULE VideoTask -----------------------------
(***************************************************************************)
(* The video module (System/Video: Video.cpp and VideoTask.cpp).  Clients  *)
(* start, open, stop, pause, resume and query videos; a task of its own    *)
(* plays each video that was started.  Every video has a context, whose    *)
(* address is its handle.  The contexts and the codec are guarded by       *)
(* gVidMutex; the handle of the task and the flags bRunning and bStopping, *)
(* by which it is started and stopped, are globals of VideoTask.cpp,       *)
(* shared by all videos and read and written with nothing locked.          *)
(*                                                                         *)
(* Audio, frame times and the display are left out.  The event queue is    *)
(* that of EventDispatch: a task that posts may be held up by it.          *)
(***************************************************************************)
EXTENDS Naturals, FiniteSets

CONSTANTS
  Client,     \* threads of the application
  NoOne,
  MaxVideos,  \* bound: contexts allocated in a behaviour
  MaxCalls    \* bound: calls made by clients

Video == 1..MaxVideos
None == 0

ASSUME ClientAssumption == NoOne \notin Client /\ Client \cap Nat = {}
ASSUME BoundAssumption == MaxVideos \in Nat /\ MaxCalls \in Nat

VARIABLES
  gVidMutex,     \* the client that holds it; a task never keeps it between two steps
  ghVideoHndl,   \* the current video
  ghVideoList,   \* the handles in use, whose order does not matter
  hVideoThread,  \* the global: the task started last, until it is joined
  bRunning, bStopping,
  ctx,           \* the memory of each context
  bPlaying, bPaused, bCodecReady,
  hTask,         \* the context's own hVideoThread is not null
  task,          \* where the task of each video is
  cancelled,     \* tasks on which CancelTask was called
  call, arg,     \* where each client is, and the video its call is about
  calls,
  raced,         \* history: ways in which calls have overlapped, see Race
  overlap,       \* history: a task was created before another one had ended
  fault          \* history: see Fault

globals == <<ghVideoHndl, ghVideoList, hVideoThread>>
context == <<ctx, bPlaying, bPaused, bCodecReady, hTask>>
history == <<raced, overlap, fault>>
vars == <<gVidMutex, globals, bRunning, bStopping, context, task, cancelled,
          call, arg, calls, history>>

Using == {"pause", "query"}
Stopping == {"stop", "trylock", "wait", "sleep", "join", "free"}
Place == {"idle", "await"} \cup Using \cup Stopping
Step == {"none", "begin", "top", "loop", "lock", "shown", "end", "seek", "decide",
         "write", "post", "stopping", "ended", "joined"}
(* A video was opened before another was stopped; one was stopped while     *)
(* another call was starting or stopping it; one was paused, resumed or     *)
(* queried while it was being stopped, or after that.                       *)
Race == {"start", "stop", "use"}
(* A freed context was used, or freed again; a task was joined twice or     *)
(* there was none to join; StopVideo has stopped another video's task.      *)
Fault == {"use", "free", "join", "other"}

TypeOK ==
  /\ gVidMutex \in Client \cup {NoOne}
  /\ ghVideoHndl \in Video \cup {None} /\ ghVideoList \subseteq Video
  /\ hVideoThread \in Video \cup {None} /\ {bRunning, bStopping} \subseteq BOOLEAN
  /\ ctx \in [Video -> {"none", "live", "freed"}]
  /\ {bPlaying, bPaused, bCodecReady, hTask} \subseteq [Video -> BOOLEAN]
  /\ task \in [Video -> Step] /\ cancelled \subseteq Video
  /\ call \in [Client -> Place] /\ arg \in [Client -> Video \cup {None}]
  /\ calls \in 0..MaxCalls
  /\ raced \subseteq Race /\ overlap \in BOOLEAN
  /\ fault \subseteq Fault

Init ==
  /\ gVidMutex = NoOne /\ ghVideoHndl = None /\ ghVideoList = {}
  /\ hVideoThread = None /\ bRunning = FALSE /\ bStopping = FALSE
  /\ ctx = [v \in Video |-> "none"]
  /\ bPlaying = [v \in Video |-> FALSE] /\ bPaused = [v \in Video |-> FALSE]
  /\ bCodecReady = [v \in Video |-> FALSE]
  /\ hTask = [v \in Video |-> FALSE]
  /\ task = [v \in Video |-> "none"] /\ cancelled = {}
  /\ call = [c \in Client |-> "idle"] /\ arg = [c \in Client |-> None] /\ calls = 0
  /\ raced = {} /\ overlap = FALSE /\ fault = {}

Active(v) == task[v] \notin {"none", "ended", "joined"}

Goto(c, place, v) == /\ call' = [call EXCEPT ![c] = place]
                     /\ arg' = [arg EXCEPT ![c] = v]
TaskGoto(v, step) == task' = [task EXCEPT ![v] = step]

(* Another call of a client.                                                *)
Calls(c) == call[c] = "idle" /\ calls < MaxCalls /\ calls' = calls + 1

(* The context of v is read or written.                                     *)
Touch(v) == fault' = IF ctx[v] = "freed" THEN fault \cup {"use"} ELSE fault
-----------------------------------------------------------------------------
(* StartVideo.  A call that is refused, because the current video plays or  *)
(* the file cannot be opened, changes nothing.                              *)

(* StartVideoInt: the context of a new video, with its codec.               *)
Open(v, playing) ==
  /\ v \in Video
  /\ ctx' = [ctx EXCEPT ![v] = "live"]
  /\ bCodecReady' = [bCodecReady EXCEPT ![v] = TRUE]
  /\ bPlaying' = [bPlaying EXCEPT ![v] = playing]
  /\ ghVideoList' = ghVideoList \cup {v} /\ ghVideoHndl' = v
  /\ raced' = IF ghVideoList = {} THEN raced ELSE raced \cup {"start"}

CurrentPlays == ghVideoHndl # None /\ bPlaying[ghVideoHndl]

NewVideo == Cardinality({v \in Video : ctx[v] # "none"}) + 1

(* With a surface: under the mutex, and only if the current video has       *)
(* played out; InitVideoTask clears the flags and creates the task.         *)
StartVideo(c) ==
  /\ Calls(c) /\ gVidMutex = NoOne
  /\ ~CurrentPlays
  /\ Open(NewVideo, TRUE)
  /\ bRunning' = FALSE /\ bStopping' = FALSE
  /\ hVideoThread' = NewVideo
  /\ hTask' = [hTask EXCEPT ![NewVideo] = TRUE]
  /\ TaskGoto(NewVideo, "begin")
  /\ overlap' = (overlap \/ \E v \in Video : Active(v))
  /\ gVidMutex' = c /\ Goto(c, "await", NewVideo)
  /\ UNCHANGED <<bPaused, cancelled, fault>>

(* while (!bRunning) is over.                                               *)
StartReturns(c) ==
  /\ call[c] = "await" /\ bRunning
  /\ gVidMutex' = NoOne /\ Goto(c, "idle", None)
  /\ UNCHANGED <<globals, bRunning, bStopping, context, task, cancelled, calls, history>>

(* Without a surface, as GetVideoLength does it: no mutex and no task.      *)
OpenVideo(c) ==
  /\ Calls(c)
  /\ Open(NewVideo, FALSE)
  /\ UNCHANGED <<gVidMutex, hVideoThread, bRunning, bStopping, bPaused, hTask, task,
                 cancelled, call, arg, overlap, fault>>
-----------------------------------------------------------------------------
(* StopVideo and DeInitVideoTask                                            *)

(* The list is searched with nothing locked; a video that is not in it has  *)
(* been stopped, and the call returns.                                      *)
CallStop(c, v) ==
  /\ Calls(c) /\ v \in ghVideoList
  /\ Goto(c, "stop", v)
  /\ raced' = raced
       \cup (IF \E d \in Client : arg[d] = v /\ call[d] \notin Using
             THEN {"stop"} ELSE {})
       \cup (IF \E d \in Client : arg[d] = v /\ call[d] \in Using
             THEN {"use"} ELSE {})
  /\ UNCHANGED <<gVidMutex, globals, bRunning, bStopping, context, task, cancelled,
                 overlap, fault>>

(* Faulty: bCodecReady is left to the codec.                                *)
StopMarksNothing(c) ==
  /\ call[c] = "stop"
  /\ Touch(arg[c])
  /\ Goto(c, "trylock", arg[c])
  /\ UNCHANGED <<gVidMutex, globals, bRunning, bStopping, context, task, cancelled,
                 calls, raced, overlap>>

StopMarks(c) ==
  /\ call[c] = "stop"
  /\ bCodecReady' = [bCodecReady EXCEPT ![arg[c]] = FALSE]
  /\ Touch(arg[c])
  /\ Goto(c, "trylock", arg[c])
  /\ UNCHANGED <<gVidMutex, globals, bRunning, bStopping, ctx, bPlaying, bPaused,
                 hTask, task, cancelled, calls, raced, overlap>>

(* Faulty: a task is stopped only if the video still plays.                 *)
StopLocksIfPlaying(c) ==
  /\ call[c] = "trylock" /\ gVidMutex = NoOne
  /\ gVidMutex' = c
  /\ Touch(arg[c])
  /\ IF bPlaying[arg[c]] /\ hVideoThread # None
     THEN bRunning' = FALSE /\ Goto(c, "wait", arg[c])
     ELSE Goto(c, "free", arg[c]) /\ UNCHANGED bRunning
  /\ UNCHANGED <<globals, bStopping, context, task, cancelled, calls, raced, overlap>>

(* The mutex is tried every 10 ms.  A task is told to stop if the context   *)
(* has one, but it is the global handle that says which one there is.       *)
StopLocks(c) ==
  /\ call[c] = "trylock" /\ gVidMutex = NoOne
  /\ gVidMutex' = c
  /\ IF hTask[arg[c]] /\ hVideoThread # None
     THEN /\ bRunning' = FALSE
          /\ Goto(c, "wait", arg[c])
          /\ fault' = fault \cup (IF ctx[arg[c]] = "freed" THEN {"use"} ELSE {})
                            \cup (IF \E v \in Video \ {arg[c]} : Active(v)
                                  THEN {"other"} ELSE {})
     ELSE Goto(c, "free", arg[c]) /\ Touch(arg[c]) /\ UNCHANGED bRunning
  /\ UNCHANGED <<globals, bStopping, context, task, cancelled, calls, raced, overlap>>

(* while (!bStopping && --count): the mutex is released for 10 ms.          *)
StopSleeps(c) ==
  /\ call[c] = "wait" /\ ~bStopping
  /\ gVidMutex' = NoOne /\ Goto(c, "sleep", arg[c]) /\ Touch(arg[c])
  /\ UNCHANGED <<globals, bRunning, bStopping, context, task, cancelled, calls,
                 raced, overlap>>

StopWakes(c) ==
  /\ call[c] = "sleep" /\ gVidMutex = NoOne
  /\ gVidMutex' = c /\ Goto(c, "wait", arg[c]) /\ Touch(arg[c])
  /\ UNCHANGED <<globals, bRunning, bStopping, context, task, cancelled, calls,
                 raced, overlap>>

StopSees(c) ==
  /\ call[c] = "wait" /\ bStopping
  /\ Goto(c, "join", arg[c])
  /\ UNCHANGED <<gVidMutex, globals, bRunning, bStopping, context, task, cancelled,
                 calls, history>>

(* A task that has not set bStopping after 490 ms is held up by the event   *)
(* queue, or nothing tells it to stop, or it has set the flag before it was *)
(* cleared for another task: any other one takes less time than that.       *)
HeldUp(v) == \/ task[v] \in {"post", "ended", "joined"}
             \/ bRunning /\ bCodecReady[v]

StopGivesUp(c) ==
  /\ call[c] = "wait" /\ ~bStopping
  /\ ~(hVideoThread # None /\ ~HeldUp(hVideoThread))
  /\ cancelled' = cancelled \cup ({hVideoThread} \ {None})
  /\ fault' = IF \E v \in Video \ {arg[c]} : v = hVideoThread /\ Active(v)
              THEN fault \cup {"other"} ELSE fault
  /\ Goto(c, "join", arg[c])
  /\ UNCHANGED <<gVidMutex, globals, bRunning, bStopping, context, task, calls,
                 raced, overlap>>

(* The mutex is held while the task is waited for.                          *)
JoinTask(c) ==
  /\ call[c] = "join"
  /\ IF hVideoThread = None \/ (hVideoThread # None /\ task[hVideoThread] = "joined")
     THEN fault' = fault \cup {"join"} /\ UNCHANGED task
     ELSE /\ task[hVideoThread] = "ended"
          /\ TaskGoto(hVideoThread, "joined")
          /\ Touch(arg[c])
  /\ hTask' = [hTask EXCEPT ![arg[c]] = FALSE] /\ hVideoThread' = None
  /\ Goto(c, "free", arg[c])
  /\ UNCHANGED <<gVidMutex, ghVideoHndl, ghVideoList, bRunning, bStopping, ctx, bPlaying,
                 bPaused, bCodecReady, cancelled, calls, raced, overlap>>

(* Faulty: the handle stays in the list.                                    *)
StopKeepsHandle(c) ==
  /\ call[c] = "free"
  /\ ctx' = [ctx EXCEPT ![arg[c]] = "freed"]
  /\ fault' = IF ctx[arg[c]] = "freed" THEN fault \cup {"free"} ELSE fault
  /\ ghVideoHndl' = None
  /\ gVidMutex' = NoOne /\ Goto(c, "idle", None)
  /\ UNCHANGED <<ghVideoList, hVideoThread, bRunning, bStopping, bPlaying, bPaused,
                 bCodecReady, hTask, task, cancelled, calls, raced, overlap>>

StopReturns(c) ==
  /\ call[c] = "free"
  /\ ctx' = [ctx EXCEPT ![arg[c]] = "freed"]
  /\ fault' = IF ctx[arg[c]] = "freed" THEN fault \cup {"free"} ELSE fault
  /\ ghVideoList' = ghVideoList \ {arg[c]} /\ ghVideoHndl' = None
  /\ gVidMutex' = NoOne /\ Goto(c, "idle", None)
  /\ UNCHANGED <<hVideoThread, bRunning, bStopping, bPlaying, bPaused,
                 bCodecReady, hTask, task, cancelled, calls, raced, overlap>>
-----------------------------------------------------------------------------
(* The other calls, which take the handle for a context that is there, and  *)
(* use it once they have the mutex.                                         *)

(* Handles that a StartVideo has returned, of videos stopped or not.        *)
Returned(v) == /\ ctx[v] # "none"
               /\ \A d \in Client : call[d] = "await" => arg[d] # v

(* A call about v is under way, without a look at the list of handles.      *)
UseBegins(c, place, v) ==
  /\ Calls(c) /\ Returned(v)
  /\ Goto(c, place, v)
  /\ raced' = IF \/ ctx[v] = "freed"
                 \/ \E d \in Client : arg[d] = v /\ call[d] \in Stopping
              THEN raced \cup {"use"} ELSE raced
  /\ UNCHANGED <<gVidMutex, globals, bRunning, bStopping, context, task, cancelled,
                 overlap>>

(* PauseVideo and ResumeVideo look at nothing.                              *)
CallPause(c, v) == UseBegins(c, "pause", v) /\ UNCHANGED fault

(* IsVideoPaused and IsVideoPlaying compare the handle with the current one,*)
(* the calls that use the codec read bCodecReady; else they return at once. *)
CallQuery(c, v) ==
  /\ UseBegins(c, "query", v)
  /\ \/ v = ghVideoHndl /\ UNCHANGED fault
     \/ bCodecReady[v] /\ Touch(v)

SetPaused(c, paused) ==
  /\ call[c] = "pause" /\ gVidMutex = NoOne
  /\ bPaused' = [bPaused EXCEPT ![arg[c]] = paused]
  /\ Touch(arg[c]) /\ Goto(c, "idle", None)
  /\ UNCHANGED <<gVidMutex, globals, bRunning, bStopping, ctx, bPlaying,
                 bCodecReady, hTask, task, cancelled, calls, raced, overlap>>

Query(c) ==
  /\ call[c] = "query" /\ gVidMutex = NoOne
  /\ Touch(arg[c]) /\ Goto(c, "idle", None)
  /\ UNCHANGED <<gVidMutex, globals, bRunning, bStopping, context, task, cancelled,
                 calls, raced, overlap>>
-----------------------------------------------------------------------------
(* VideoTaskMain                                                            *)

TaskBegins(v) ==
  /\ task[v] = "begin"
  /\ bRunning' = TRUE /\ bPlaying' = [bPlaying EXCEPT ![v] = TRUE]
  /\ Touch(v) /\ TaskGoto(v, "top")
  /\ UNCHANGED <<gVidMutex, globals, bStopping, ctx, bPaused, bCodecReady, hTask,
                 cancelled, call, arg, calls, raced, overlap>>

(* Steps that change nothing but where the task is.                         *)
Moves(v, step) ==
  /\ TaskGoto(v, step)
  /\ UNCHANGED <<gVidMutex, globals, bRunning, bStopping, context, cancelled, call, arg,
                 calls, raced, overlap>>

(* while (bRunning), once for each time the video is played.                *)
TaskLoops(v) ==
  /\ task[v] = "top"
  /\ Moves(v, IF bRunning THEN "loop" ELSE "post") /\ UNCHANGED fault

(* while (bRunning && SyncVideoFrame()): bCodecReady is read first.         *)
TaskSyncs(v) ==
  /\ task[v] = "loop"
  /\ Moves(v, IF bRunning /\ bCodecReady[v] THEN "lock" ELSE "end") /\ Touch(v)

(* Then the codec is used under the mutex: a frame, or the end of the video.*)
TaskDecodes(v) ==
  /\ task[v] = "lock" /\ gVidMutex = NoOne
  /\ \E step \in {"shown", "end"} : Moves(v, step)
  /\ Touch(v)

(* The frame stays until its time has come, or the video is resumed.        *)
TaskShows(v) ==
  /\ task[v] = "shown" /\ (~bRunning \/ ~bPaused[v])
  /\ Moves(v, "loop") /\ Touch(v)

(* A looped video is rewound, which may fail; any other has played out.     *)
(* Which it is stays open: a video that cannot be rewound has played out.   *)
TaskFinishes(v) ==
  /\ task[v] = "end"
  /\ \/ bRunning /\ bCodecReady[v] /\ TaskGoto(v, "seek") /\ UNCHANGED bPlaying
     \/ TaskGoto(v, "decide") /\ bPlaying' = [bPlaying EXCEPT ![v] = FALSE]
  /\ Touch(v)
  /\ UNCHANGED <<gVidMutex, globals, bRunning, bStopping, ctx, bPaused,
                 bCodecReady, hTask, cancelled, call, arg, calls, raced, overlap>>

TaskRewinds(v) ==
  /\ task[v] = "seek" /\ gVidMutex = NoOne
  /\ \E found \in BOOLEAN : bPlaying' = [bPlaying EXCEPT ![v] = found]
  /\ Touch(v) /\ TaskGoto(v, "decide")
  /\ UNCHANGED <<gVidMutex, globals, bRunning, bStopping, ctx, bPaused,
                 bCodecReady, hTask, cancelled, call, arg, calls, raced, overlap>>

(* if (!bRunning) break; bRunning = bPlaying;                               *)
TaskDecides(v) ==
  /\ task[v] = "decide"
  /\ Moves(v, IF bRunning THEN "write" ELSE "post") /\ UNCHANGED fault

TaskGoesOn(v) ==
  /\ task[v] = "write"
  /\ bRunning' = bPlaying[v]
  /\ Touch(v) /\ TaskGoto(v, "top")
  /\ UNCHANGED <<gVidMutex, globals, bStopping, context, cancelled, call, arg, calls,
                 raced, overlap>>

(* The done message is put in the event queue.                              *)
TaskPosts(v) ==
  /\ task[v] = "post"
  /\ Touch(v) /\ TaskGoto(v, "stopping")
  /\ UNCHANGED <<gVidMutex, globals, bRunning, bStopping, context, cancelled, call, arg,
                 calls, raced, overlap>>

TaskStops(v) ==
  /\ task[v] = "stopping"
  /\ bStopping' = TRUE
  /\ TaskGoto(v, "ended")
  /\ UNCHANGED <<gVidMutex, globals, bRunning, context, cancelled, call, arg, calls, history>>

(* Cancellation points: the sleep between frames, and a full event queue.   *)
TaskCancelled(v) ==
  /\ v \in cancelled /\ task[v] \in {"shown", "post"}
  /\ Moves(v, "ended") /\ UNCHANGED fault
-----------------------------------------------------------------------------
ClientLocks(c) == \/ StopLocks(c) \/ StopWakes(c) \/ Query(c)
                  \/ \E paused \in BOOLEAN : SetPaused(c, paused)
ClientStep(c) == \/ StartReturns(c) \/ StopMarks(c) \/ StopSleeps(c) \/ StopSees(c)
                 \/ JoinTask(c) \/ StopReturns(c)
TaskLocks(v) == TaskDecodes(v) \/ TaskRewinds(v)
TaskStep(v) == \/ TaskBegins(v) \/ TaskLoops(v) \/ TaskSyncs(v) \/ TaskShows(v)
               \/ TaskFinishes(v) \/ TaskDecides(v) \/ TaskGoesOn(v) \/ TaskPosts(v)
               \/ TaskStops(v) \/ TaskCancelled(v)

Next ==
  \/ \E c \in Client : \/ StartVideo(c) \/ OpenVideo(c)
                       \/ \E v \in Video : \/ CallStop(c, v) \/ CallPause(c, v)
                                           \/ CallQuery(c, v)
                       \/ ClientStep(c) \/ ClientLocks(c) \/ StopGivesUp(c)
  \/ \E v \in Video : TaskStep(v) \/ TaskLocks(v)

(* Threads that can go on do.  The mutex is free for 10 ms at a time while  *)
(* StopVideo waits, so whoever waits for it gets it; 49 passes of that wait *)
(* are enough for a task that is not held up, and the 50th gives up.        *)
Fairness ==
  /\ \A c \in Client : /\ WF_vars(ClientStep(c)) /\ SF_vars(ClientLocks(c))
                       /\ SF_vars(StopGivesUp(c))
  /\ \A v \in Video : WF_vars(TaskStep(v)) /\ SF_vars(TaskLocks(v))

Spec == Init /\ [][Next]_vars /\ Fairness
-----------------------------------------------------------------------------
(* Properties *)

(* Memory is freed once and not used afterwards, tasks are joined once, and *)
(* StopVideo stops the task of its own video, as long as the clients stop   *)
(* each video before they open the next one and let the other calls about a *)
(* video return before they stop it.  Nothing is freed twice without two    *)
(* stops of one video at once, nor used after it was freed without them or  *)
(* two tasks at once, or a call that has taken the handle for a context and *)
(* waits for the mutex, which StopVideo holds while it frees the context.   *)
FaultsNeedRace ==
  /\ fault # {} => raced # {}
  /\ "free" \in fault => "stop" \in raced
  /\ "use" \in fault => overlap \/ raced \cap {"stop", "use"} # {}

(* VideoMPI.h:49: a video is "stopped by StopVideo() which will terminate   *)
(* the task thread", and Video.cpp:184: "We only support one video context  *)
(* active at a time".  Tasks overlap only when videos do.  Once the context *)
(* is freed its task has ended, unless two tasks have overlapped, and been  *)
(* joined, unless videos have: then another task may have been waited for.  *)
StopTerminates ==
  /\ overlap => "start" \in raced
  /\ \A v \in Video : ctx[v] = "freed" =>
       /\ Active(v) => overlap
       /\ task[v] = "ended" => "start" \in raced

(* Every call returns, though a stop can be overwritten by the task that it *)
(* is for, and though tasks are joined with gVidMutex held: unless tasks    *)
(* overlap, or a video is stopped while it is started, or StopVideo meets a *)
(* task that is not the one it told to stop.                                *)
CallsReturn ==
  \/ \A c \in Client : []<>(call[c] = "idle")
  \/ <>(overlap \/ "stop" \in raced \/ "other" \in fault)
=============================================================================
