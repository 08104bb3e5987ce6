--------------------------- MODULE VideoTaskProofs ---------------------------
(***************************************************************************)
(* Proofs about VideoTask, for every number of clients, videos and calls.  *)
(* The inductive invariant is                                              *)
(*                                                                         *)
(*    TypeOK /\ Contexts /\ OneStop /\ OneUse /\ OneVideo /\ OneTask       *)
(*           /\ OwnTask /\ FaultsNeedRace /\ StopTerminates                *)
(*                                                                         *)
(* Its middle parts say what holds as long as calls have not overlapped in *)
(* one way or another: a video has one stop (OneStop), which nobody who    *)
(* uses the video overlaps (OneUse), there is one video and it has the     *)
(* only task not joined yet (OneVideo), one task is active (OneTask), and  *)
(* a context that has a task has its own (OwnTask).                        *)
(***************************************************************************)
EXTENDS VideoTask, FiniteSetTheorems, TLAPS

-----------------------------------------------------------------------------
(* The inductive invariant *)

Live(v) == ctx[v] = "live"
Unjoined(v) == task[v] \notin {"none", "joined"}

Contexts ==
  /\ \E k \in 0..MaxVideos : {v \in Video : ctx[v] # "none"} = 1..k
  /\ ghVideoList = {v \in Video : Live(v)}
  /\ \A v \in Video : ctx[v] = "none" => task[v] = "none" /\ ~hTask[v]
  /\ \A c \in Client : IF call[c] = "idle" THEN arg[c] = None
                       ELSE arg[c] \in Video /\ ctx[arg[c]] # "none"

OneStop ==
  "stop" \notin raced =>
    /\ \A c, d \in Client :
         arg[c] # None /\ arg[c] = arg[d] /\ Using \cap {call[c], call[d]} = {}
         => c = d
    /\ \A c \in Client : arg[c] # None /\ call[c] \notin Using => Live(arg[c])

OneUse ==
  "use" \notin raced =>
    \A c \in Client : call[c] \in Using =>
      /\ Live(arg[c])
      /\ \A d \in Client : call[d] \in Stopping => arg[d] # arg[c]

OneVideo ==
  "start" \notin raced =>
    /\ \A u, v \in Video : Live(u) /\ Live(v) => u = v
    /\ \A v \in Video : Unjoined(v) => hVideoThread = v /\ hTask[v]
    /\ \A c \in Client : call[c] = "free" => ~Unjoined(arg[c])

OneTask ==
  ~overlap =>
    /\ \A v \in Video : Active(v) => hVideoThread = v /\ hTask[v]
    /\ \A c \in Client : call[c] = "free" => ~Active(arg[c])

OwnTask ==
  raced = {} =>
    /\ \A v \in Video : hTask[v] /\ Live(v) => hVideoThread = v /\ Unjoined(v)
    /\ \A c \in Client : call[c] \in {"wait", "sleep", "join"} => hTask[arg[c]]

IInv == TypeOK /\ Contexts /\ OneStop /\ OneUse /\ OneVideo /\ OneTask
        /\ OwnTask /\ FaultsNeedRace /\ StopTerminates

-----------------------------------------------------------------------------
LEMMA Constants ==
  /\ NoOne \notin Client /\ None \notin Video /\ None \notin Client
  /\ MaxVideos \in Nat /\ MaxCalls \in Nat /\ Video \subseteq Nat
  BY ClientAssumption, BoundAssumption DEF Video, None

LEMMA InitInv == Init => IInv
<1> SUFFICES ASSUME Init PROVE IInv
  OBVIOUS
<1>1. TypeOK
  <2>1. {bPlaying, bPaused, bCodecReady, hTask} \subseteq [Video -> BOOLEAN]
    BY DEF Init
  <2>2. calls \in 0..MaxCalls
    BY Constants DEF Init
  <2>3. overlap \in BOOLEAN /\ {bRunning, bStopping} \subseteq BOOLEAN
    BY DEF Init
  <2>. QED
    BY <2>1, <2>2, <2>3 DEF Init, TypeOK, Place, Step, None
<1>2. Contexts
  <2>1. {v \in Video : ctx[v] # "none"} = 1..0
    BY DEF Init
  <2>2. 0 \in 0..MaxVideos
    BY Constants
  <2>. QED
    BY <2>1, <2>2 DEF Init, Contexts, Live
<1>3. OneStop /\ OneUse /\ OneVideo /\ OneTask /\ OwnTask
  BY DEF Init, OneStop, OneUse, OneVideo, OneTask, OwnTask, Live, Unjoined,
         Active, Using
<1>4. FaultsNeedRace /\ StopTerminates
  BY DEF Init, FaultsNeedRace, StopTerminates, Active
<1>. QED
  BY <1>1, <1>2, <1>3, <1>4 DEF IInv

(* A new context is one that was never used, the next in the order.         *)
LEMMA NewVideoIsNew ==
  ASSUME TypeOK, Contexts, NewVideo \in Video
  PROVE  /\ ctx[NewVideo] = "none" /\ task[NewVideo] = "none"
    /\ ~hTask[NewVideo]
         /\ \A c \in Client : arg[c] # NewVideo
         /\ \E k \in 0..MaxVideos :
              {v \in Video : ctx[v] # "none" \/ v = NewVideo} = 1..k
<1>1. PICK k \in 0..MaxVideos : {v \in Video : ctx[v] # "none"} = 1..k
  BY DEF Contexts
<1>2. NewVideo = k + 1
  <2>1. Cardinality(1..k) = k
    BY FS_Interval
  <2>. QED
    BY <1>1, <2>1 DEF NewVideo
<1>3. ctx[NewVideo] = "none"
  BY <1>1, <1>2
<1>4. {v \in Video : ctx[v] # "none" \/ v = NewVideo} = 1..(k + 1)
  BY <1>1, <1>2 DEF Video
<1>5. k + 1 \in 0..MaxVideos
  BY <1>2, Constants DEF Video
<1>6. \A c \in Client : arg[c] # NewVideo
  BY <1>3, Constants DEF Contexts
<1>. QED
  BY <1>3, <1>4, <1>5, <1>6 DEF Contexts

LEMMA TypeStep ==
  TypeOK /\ [Next]_vars
    => TypeOK'
<1> SUFFICES ASSUME TypeOK, [Next]_vars
             PROVE  TypeOK'
  OBVIOUS
<1>1. ASSUME NEW c \in Client, StartVideo(c)
      PROVE  TypeOK'
  <2>1. ({bPlaying, bPaused, bCodecReady,
     hTask} \subseteq [Video -> BOOLEAN])'
    BY <1>1 DEF StartVideo, Open, TypeOK
  <2>2. fault' \subseteq Fault /\ raced' \subseteq Race
    BY <1>1 DEF StartVideo, Open, TypeOK, Touch, Fault, Race
  <2>3. call' \in [Client -> Place] /\ arg' \in [Client -> Video \cup {None}]
    BY <1>1 DEF StartVideo, Open, Goto, TypeOK, Place, Using, Stopping
  <2>4. task' \in [Video -> Step] /\ ctx' \in [Video -> {"none", "live",
     "freed"}]
    BY <1>1 DEF StartVideo, Open, TaskGoto, TypeOK, Step
  <2>5. overlap' \in BOOLEAN /\ ({bRunning, bStopping} \subseteq BOOLEAN)'
    BY <1>1 DEF StartVideo, TypeOK
  <2>6. ghVideoHndl' \in Video /\ ghVideoList' \subseteq Video
        /\ hVideoThread' \in Video
    BY <1>1 DEF StartVideo, Open, TypeOK
  <2>7. calls' \in 0..MaxCalls /\ gVidMutex' \in Client \cup {NoOne}
        /\ cancelled' \subseteq Video
    BY <1>1, Constants DEF StartVideo, Calls, TypeOK
  <2>. QED
    BY <1>1, <2>1, <2>2, <2>3, <2>4, <2>5, <2>6, <2>7, Constants
       DEF StartVideo, Open, globals, context, TypeOK, Calls
<1>2. ASSUME NEW c \in Client, StartReturns(c)
      PROVE  TypeOK'
  BY <1>2, Constants
     DEF StartReturns, Goto, globals, context, history, TypeOK, Place, Using,
         Stopping, Step, Race, Fault
<1>3. ASSUME NEW c \in Client, OpenVideo(c)
      PROVE  TypeOK'
  BY <1>3, Constants
     DEF OpenVideo, Calls, Open, TypeOK, Place, Using, Stopping, Step, Race,
         Fault
<1>4. ASSUME NEW c \in Client, NEW v \in Video, CallStop(c, v)
      PROVE  TypeOK'
  BY <1>4, Constants
     DEF CallStop, Calls, Goto, globals, context, TypeOK, Place, Using,
         Stopping, Step, Race, Fault
<1>5. ASSUME NEW c \in Client, StopMarks(c)
      PROVE  TypeOK'
  <2>1. ({bPlaying, bPaused, bCodecReady,
     hTask} \subseteq [Video -> BOOLEAN])'
    <3>1. bCodecReady' \in [Video -> BOOLEAN]
      BY <1>5 DEF StopMarks, TypeOK
    <3>2. UNCHANGED <<bPlaying, bPaused, hTask>>
      BY <1>5 DEF StopMarks
    <3>. QED
      BY <3>1, <3>2 DEF TypeOK
  <2>2. fault' \subseteq Fault /\ raced' \subseteq Race
    BY <1>5 DEF StopMarks, TypeOK, Touch, Fault, Race
  <2>3. call' \in [Client -> Place] /\ arg' \in [Client -> Video \cup {None}]
    BY <1>5 DEF StopMarks, Goto, TypeOK, Place, Using, Stopping
  <2>4. task' \in [Video -> Step] /\ ctx' \in [Video -> {"none", "live",
     "freed"}]
    BY <1>5 DEF StopMarks, TaskGoto, TypeOK, Step
  <2>. QED
    BY <1>5, <2>1, <2>2, <2>3, <2>4, Constants
       DEF StopMarks, globals, context, TypeOK, Calls
<1>6. ASSUME NEW c \in Client, StopLocks(c)
      PROVE  TypeOK'
  <2>1. ({bPlaying, bPaused, bCodecReady,
     hTask} \subseteq [Video -> BOOLEAN])'
    BY <1>6 DEF StopLocks, context, TypeOK
  <2>2. fault' \subseteq Fault /\ raced' \subseteq Race
    BY <1>6 DEF StopLocks, context, TypeOK, Touch, Fault, Race
  <2>3. call' \in [Client -> Place] /\ arg' \in [Client -> Video \cup {None}]
    BY <1>6 DEF StopLocks, context, Goto, TypeOK, Place, Using, Stopping
  <2>4. task' \in [Video -> Step] /\ ctx' \in [Video -> {"none", "live",
     "freed"}]
    BY <1>6 DEF StopLocks, context, TaskGoto, TypeOK, Step
  <2>. QED
    BY <1>6, <2>1, <2>2, <2>3, <2>4, Constants
       DEF StopLocks, context, globals, context, TypeOK, Calls
<1>7. ASSUME NEW c \in Client, StopSleeps(c)
      PROVE  TypeOK'
  BY <1>7, Constants
     DEF StopSleeps, Goto, Touch, globals, context, TypeOK, Place, Using,
         Stopping, Step, Race, Fault
<1>8. ASSUME NEW c \in Client, StopWakes(c)
      PROVE  TypeOK'
  BY <1>8, Constants
     DEF StopWakes, Goto, Touch, globals, context, TypeOK, Place, Using,
         Stopping, Step, Race, Fault
<1>9. ASSUME NEW c \in Client, StopSees(c)
      PROVE  TypeOK'
  BY <1>9, Constants
     DEF StopSees, Goto, globals, context, history, TypeOK, Place, Using,
         Stopping, Step, Race, Fault
<1>10. ASSUME NEW c \in Client, StopGivesUp(c)
      PROVE  TypeOK'
  BY <1>10, Constants
     DEF StopGivesUp, Goto, globals, context, TypeOK, Place, Using, Stopping,
         Step, Race, Fault
<1>11. ASSUME NEW c \in Client, JoinTask(c)
      PROVE  TypeOK'
  <2>1. ({bPlaying, bPaused, bCodecReady,
     hTask} \subseteq [Video -> BOOLEAN])'
    <3>1. hTask' \in [Video -> BOOLEAN]
      BY <1>11 DEF JoinTask, TypeOK
    <3>2. UNCHANGED <<bPlaying, bPaused, bCodecReady>>
      BY <1>11 DEF JoinTask
    <3>. QED
      BY <3>1, <3>2 DEF TypeOK
  <2>2. fault' \subseteq Fault /\ raced' \subseteq Race
    BY <1>11 DEF JoinTask, TypeOK, Touch, Fault, Race
  <2>3. call' \in [Client -> Place] /\ arg' \in [Client -> Video \cup {None}]
    BY <1>11 DEF JoinTask, Goto, TypeOK, Place, Using, Stopping
  <2>4. task' \in [Video -> Step] /\ ctx' \in [Video -> {"none", "live",
     "freed"}]
    BY <1>11 DEF JoinTask, TaskGoto, TypeOK, Step
  <2>. QED
    BY <1>11, <2>1, <2>2, <2>3, <2>4, Constants
       DEF JoinTask, globals, context, TypeOK, Calls
<1>12. ASSUME NEW c \in Client, StopReturns(c)
      PROVE  TypeOK'
  BY <1>12, Constants
     DEF StopReturns, Goto, TypeOK, Place, Using, Stopping, Step, Race, Fault
<1>13. ASSUME NEW v \in Video, TaskBegins(v)
      PROVE  TypeOK'
  BY <1>13, Constants
     DEF TaskBegins, TaskGoto, Touch, globals, TypeOK, Place, Using, Stopping,
         Step, Race, Fault
<1>14. ASSUME NEW v \in Video, TaskLoops(v)
      PROVE  TypeOK'
  BY <1>14, Constants
     DEF TaskLoops, Moves, TaskGoto, globals, context, history, TypeOK, Place,
         Using, Stopping, Step, Race, Fault
<1>15. ASSUME NEW v \in Video, TaskSyncs(v)
      PROVE  TypeOK'
  BY <1>15, Constants
     DEF TaskSyncs, Touch, Moves, TaskGoto, globals, context, history, TypeOK,
         Place, Using, Stopping, Step, Race, Fault
<1>16. ASSUME NEW v \in Video, TaskDecodes(v)
      PROVE  TypeOK'
  BY <1>16, Constants
     DEF TaskDecodes, Touch, Moves, TaskGoto, globals, context, history, TypeOK,
         Place, Using, Stopping, Step, Race, Fault
<1>17. ASSUME NEW v \in Video, TaskShows(v)
      PROVE  TypeOK'
  BY <1>17, Constants
     DEF TaskShows, Touch, Moves, TaskGoto, globals, context, history, TypeOK,
         Place, Using, Stopping, Step, Race, Fault
<1>18. ASSUME NEW v \in Video, TaskFinishes(v)
      PROVE  TypeOK'
  <2>1. ({bPlaying, bPaused, bCodecReady,
     hTask} \subseteq [Video -> BOOLEAN])'
    <3>1. bPlaying' \in [Video -> BOOLEAN]
      BY <1>18 DEF TaskFinishes, TypeOK
    <3>2. UNCHANGED <<bPaused, bCodecReady, hTask>>
      BY <1>18 DEF TaskFinishes
    <3>. QED
      BY <3>1, <3>2 DEF TypeOK
  <2>2. fault' \subseteq Fault /\ raced' \subseteq Race
    BY <1>18 DEF TaskFinishes, TypeOK, Touch, Fault, Race
  <2>3. call' \in [Client -> Place] /\ arg' \in [Client -> Video \cup {None}]
    BY <1>18 DEF TaskFinishes, Goto, TypeOK, Place, Using, Stopping
  <2>4. task' \in [Video -> Step] /\ ctx' \in [Video -> {"none", "live",
     "freed"}]
    BY <1>18 DEF TaskFinishes, TaskGoto, TypeOK, Step
  <2>. QED
    BY <1>18, <2>1, <2>2, <2>3, <2>4, Constants
       DEF TaskFinishes, globals, context, TypeOK, Calls
<1>19. ASSUME NEW v \in Video, TaskRewinds(v)
      PROVE  TypeOK'
  BY <1>19, Constants
     DEF TaskRewinds, TaskGoto, Touch, globals, TypeOK, Place, Using, Stopping,
         Step, Race, Fault
<1>20. ASSUME NEW v \in Video, TaskDecides(v)
      PROVE  TypeOK'
  BY <1>20, Constants
     DEF TaskDecides, Moves, TaskGoto, globals, context, history, TypeOK, Place,
         Using, Stopping, Step, Race, Fault
<1>21. ASSUME NEW v \in Video, TaskGoesOn(v)
      PROVE  TypeOK'
  BY <1>21, Constants
     DEF TaskGoesOn, TaskGoto, Touch, globals, context, TypeOK, Place, Using,
         Stopping, Step, Race, Fault
<1>22. ASSUME NEW v \in Video, TaskPosts(v)
      PROVE  TypeOK'
  BY <1>22, Constants
     DEF TaskPosts, TaskGoto, Touch, globals, context, TypeOK, Place, Using,
         Stopping, Step, Race, Fault
<1>23. ASSUME NEW v \in Video, TaskStops(v)
      PROVE  TypeOK'
  BY <1>23, Constants
     DEF TaskStops, TaskGoto, globals, context, history, TypeOK, Place, Using,
         Stopping, Step, Race, Fault
<1>24. ASSUME NEW v \in Video, TaskCancelled(v)
      PROVE  TypeOK'
  BY <1>24, Constants
     DEF TaskCancelled, Moves, TaskGoto, globals, context, history, TypeOK,
         Place, Using, Stopping, Step, Race, Fault
<1>25. ASSUME NEW c \in Client, NEW v \in Video, CallPause(c, v)
      PROVE  TypeOK'
  BY <1>25, Constants
     DEF CallPause, UseBegins, Calls, Goto, globals, context, Returned, TypeOK,
         Place, Using, Stopping, Step, Race, Fault
<1>26. ASSUME NEW c \in Client, NEW v \in Video, CallQuery(c, v)
      PROVE  TypeOK'
  <2>1. fault' \subseteq Fault /\ raced' \subseteq Race
    BY <1>26 DEF CallQuery, UseBegins, Touch, TypeOK, Fault, Race
  <2>2. call' \in [Client -> Place] /\ arg' \in [Client -> Video \cup {None}]
    BY <1>26 DEF CallQuery, UseBegins, Goto, TypeOK, Place, Using
  <2>. QED
    BY <1>26, <2>1, <2>2, Constants
       DEF CallQuery, UseBegins, Calls, globals, context, TypeOK
<1>27. ASSUME NEW c \in Client, NEW paused \in BOOLEAN, SetPaused(c, paused)
      PROVE  TypeOK'
  <2>1. ({bPlaying, bPaused, bCodecReady,
     hTask} \subseteq [Video -> BOOLEAN])'
    <3>1. bPaused' \in [Video -> BOOLEAN]
      BY <1>27 DEF SetPaused, TypeOK
    <3>2. UNCHANGED <<bPlaying, bCodecReady, hTask>>
      BY <1>27 DEF SetPaused
    <3>. QED
      BY <3>1, <3>2 DEF TypeOK
  <2>2. fault' \subseteq Fault
    BY <1>27 DEF SetPaused, TypeOK, Touch, Fault
  <2>3. call' \in [Client -> Place] /\ arg' \in [Client -> Video \cup {None}]
    BY <1>27 DEF SetPaused, Goto, TypeOK, Place
  <2>. QED
    BY <1>27, <2>1, <2>2, <2>3 DEF SetPaused, globals, TypeOK
<1>28. ASSUME NEW c \in Client, Query(c)
      PROVE  TypeOK'
  BY <1>28, Constants
     DEF Query, Goto, Touch, globals, context, Returned, TypeOK, Place, Using,
         Stopping, Step, Race, Fault
<1>29. CASE UNCHANGED <<gVidMutex, ghVideoHndl, ghVideoList, hVideoThread,
                        bRunning, bStopping, ctx, bPlaying, bPaused,
                        bCodecReady, hTask, task, cancelled, call, arg, calls,
                        raced, overlap, fault>>
  BY <1>29 DEF TypeOK, Place, Using, Stopping, Step, Race, Fault
<1>. QED
  BY <1>1, <1>2, <1>3, <1>4, <1>5, <1>6, <1>7, <1>8, <1>9, <1>10, <1>11, <1>12,
     <1>13, <1>14, <1>15, <1>16, <1>17, <1>18, <1>19, <1>20, <1>21, <1>22,
     <1>23, <1>24, <1>25, <1>26, <1>27, <1>28, <1>29
     DEF Next, ClientStep, ClientLocks, TaskStep, TaskLocks, vars, globals,
         context, history

LEMMA ContextsStep ==
  TypeOK /\ Contexts /\ [Next]_vars
    => Contexts'
<1> SUFFICES ASSUME TypeOK, Contexts, [Next]_vars
             PROVE  Contexts'
  OBVIOUS
<1>1. ASSUME NEW c \in Client, StartVideo(c)
      PROVE  Contexts'
  <2>1. NewVideo \in Video
    BY <1>1 DEF StartVideo, Open
  <2>2. ctx' = [ctx EXCEPT ![NewVideo] = "live"]
        /\ ghVideoList' = ghVideoList \cup {NewVideo}
    BY <1>1 DEF StartVideo, Open
  <2>3. {w \in Video : ctx'[w] # "none"} = {w \in Video : ctx[w] # "none" \/ w = NewVideo}
    BY <2>2 DEF TypeOK
  <2>4. \E k \in 0..MaxVideos : {w \in Video : ctx'[w] # "none"} = 1..k
    BY <2>1, <2>3, NewVideoIsNew
  <2>5. ghVideoList' = {w \in Video : ctx'[w] = "live"}
    BY <2>1, <2>2 DEF Contexts, Live, TypeOK
  <2>6. \A w \in Video : ctx'[w] = "none" => task'[w] = "none" /\ ~hTask'[w]
    BY <1>1, <2>1, <2>2 DEF StartVideo, TaskGoto, Contexts, TypeOK
  <2>7. \A d \in Client : IF call'[d] = "idle" THEN arg'[d] = None
                         ELSE arg'[d] \in Video /\ ctx'[arg'[d]] # "none"
    BY <1>1, <2>1, <2>2, Constants DEF StartVideo, Calls, Goto, Contexts, TypeOK
  <2>. QED
    BY <2>4, <2>5, <2>6, <2>7 DEF Contexts, Live
<1>2. ASSUME NEW c \in Client, StartReturns(c)
      PROVE  Contexts'
  BY <1>2, Constants
     DEF StartReturns, Goto, globals, context, Contexts, Live, TypeOK
<1>3. ASSUME NEW c \in Client, OpenVideo(c)
      PROVE  Contexts'
  <2>1. NewVideo \in Video
    BY <1>3 DEF OpenVideo, Open
  <2>2. ctx' = [ctx EXCEPT ![NewVideo] = "live"]
        /\ ghVideoList' = ghVideoList \cup {NewVideo}
    BY <1>3 DEF OpenVideo, Open
  <2>3. {w \in Video : ctx'[w] # "none"} = {w \in Video : ctx[w] # "none" \/ w = NewVideo}
    BY <2>2 DEF TypeOK
  <2>4. \E k \in 0..MaxVideos : {w \in Video : ctx'[w] # "none"} = 1..k
    BY <2>1, <2>3, NewVideoIsNew
  <2>5. ghVideoList' = {w \in Video : ctx'[w] = "live"}
    BY <2>1, <2>2 DEF Contexts, Live, TypeOK
  <2>6. \A w \in Video : ctx'[w] = "none" => task'[w] = "none" /\ ~hTask'[w]
    BY <1>3, <2>1, <2>2 DEF OpenVideo, TaskGoto, Contexts, TypeOK
  <2>7. \A d \in Client : IF call'[d] = "idle" THEN arg'[d] = None
                         ELSE arg'[d] \in Video /\ ctx'[arg'[d]] # "none"
    BY <1>3, <2>1, <2>2, Constants DEF OpenVideo, Calls, Goto, Contexts, TypeOK
  <2>. QED
    BY <2>4, <2>5, <2>6, <2>7 DEF Contexts, Live
<1>4. ASSUME NEW c \in Client, NEW v \in Video, CallStop(c, v)
      PROVE  Contexts'
  BY <1>4, Constants
     DEF CallStop, Calls, Goto, globals, context, Contexts, Live, TypeOK
<1>5. ASSUME NEW c \in Client, StopMarks(c)
      PROVE  Contexts'
  BY <1>5, Constants DEF StopMarks, Goto, Touch, globals, Contexts, Live, TypeOK
<1>6. ASSUME NEW c \in Client, StopLocks(c)
      PROVE  Contexts'
  BY <1>6, Constants
     DEF StopLocks, Goto, Touch, globals, context, Contexts, Live, TypeOK
<1>7. ASSUME NEW c \in Client, StopSleeps(c)
      PROVE  Contexts'
  BY <1>7, Constants
     DEF StopSleeps, Goto, Touch, globals, context, Contexts, Live, TypeOK
<1>8. ASSUME NEW c \in Client, StopWakes(c)
      PROVE  Contexts'
  BY <1>8, Constants
     DEF StopWakes, Goto, Touch, globals, context, Contexts, Live, TypeOK
<1>9. ASSUME NEW c \in Client, StopSees(c)
      PROVE  Contexts'
  BY <1>9, Constants
     DEF StopSees, Goto, globals, context, Contexts, Live, TypeOK
<1>10. ASSUME NEW c \in Client, StopGivesUp(c)
      PROVE  Contexts'
  BY <1>10, Constants
     DEF StopGivesUp, Goto, globals, context, Contexts, Live, TypeOK
<1>11. ASSUME NEW c \in Client, JoinTask(c)
      PROVE  Contexts'
  BY <1>11, Constants
     DEF JoinTask, Goto, TaskGoto, Touch, Contexts, Live, TypeOK
<1>12. ASSUME NEW c \in Client, StopReturns(c)
      PROVE  Contexts'
  BY <1>12, Constants DEF StopReturns, Goto, Contexts, Live, TypeOK
<1>13. ASSUME NEW v \in Video, TaskBegins(v)
      PROVE  Contexts'
  BY <1>13, Constants
     DEF TaskBegins, TaskGoto, Touch, globals, Contexts, Live, TypeOK
<1>14. ASSUME NEW v \in Video, TaskLoops(v)
      PROVE  Contexts'
  BY <1>14, Constants
     DEF TaskLoops, Moves, TaskGoto, globals, context, Contexts, Live, TypeOK
<1>15. ASSUME NEW v \in Video, TaskSyncs(v)
      PROVE  Contexts'
  BY <1>15, Constants
     DEF TaskSyncs, Touch, Moves, TaskGoto, globals, context, Contexts, Live,
         TypeOK
<1>16. ASSUME NEW v \in Video, TaskDecodes(v)
      PROVE  Contexts'
  BY <1>16, Constants
     DEF TaskDecodes, Touch, Moves, TaskGoto, globals, context, Contexts, Live,
         TypeOK
<1>17. ASSUME NEW v \in Video, TaskShows(v)
      PROVE  Contexts'
  BY <1>17, Constants
     DEF TaskShows, Touch, Moves, TaskGoto, globals, context, Contexts, Live,
         TypeOK
<1>18. ASSUME NEW v \in Video, TaskFinishes(v)
      PROVE  Contexts'
  BY <1>18, Constants
     DEF TaskFinishes, TaskGoto, Touch, globals, Contexts, Live, TypeOK
<1>19. ASSUME NEW v \in Video, TaskRewinds(v)
      PROVE  Contexts'
  BY <1>19, Constants
     DEF TaskRewinds, TaskGoto, Touch, globals, Contexts, Live, TypeOK
<1>20. ASSUME NEW v \in Video, TaskDecides(v)
      PROVE  Contexts'
  BY <1>20, Constants
     DEF TaskDecides, Moves, TaskGoto, globals, context, Contexts, Live, TypeOK
<1>21. ASSUME NEW v \in Video, TaskGoesOn(v)
      PROVE  Contexts'
  BY <1>21, Constants
     DEF TaskGoesOn, TaskGoto, Touch, globals, context, Contexts, Live, TypeOK
<1>22. ASSUME NEW v \in Video, TaskPosts(v)
      PROVE  Contexts'
  BY <1>22, Constants
     DEF TaskPosts, TaskGoto, Touch, globals, context, Contexts, Live, TypeOK
<1>23. ASSUME NEW v \in Video, TaskStops(v)
      PROVE  Contexts'
  BY <1>23, Constants
     DEF TaskStops, TaskGoto, globals, context, Contexts, Live, TypeOK
<1>24. ASSUME NEW v \in Video, TaskCancelled(v)
      PROVE  Contexts'
  BY <1>24, Constants
     DEF TaskCancelled, Moves, TaskGoto, globals, context, Contexts, Live,
         TypeOK
<1>25. ASSUME NEW c \in Client, NEW v \in Video, CallPause(c, v)
      PROVE  Contexts'
  BY <1>25, Constants
     DEF CallPause, UseBegins, Calls, Goto, globals, context, Returned,
         Contexts, Live, TypeOK
<1>26. ASSUME NEW c \in Client, NEW v \in Video, CallQuery(c, v)
      PROVE  Contexts'
  BY <1>26, Constants
     DEF CallQuery, UseBegins, Calls, Goto, Touch, globals, context, Returned,
         Contexts, Live, TypeOK
<1>27. ASSUME NEW c \in Client, NEW paused \in BOOLEAN, SetPaused(c, paused)
      PROVE  Contexts'
  BY <1>27, Constants
     DEF SetPaused, Goto, Touch, globals, context, Returned, Contexts, Live,
         TypeOK
<1>28. ASSUME NEW c \in Client, Query(c)
      PROVE  Contexts'
  BY <1>28, Constants
     DEF Query, Goto, Touch, globals, context, Returned, Contexts, Live, TypeOK
<1>29. CASE UNCHANGED <<ctx, ghVideoList, task, hTask, call, arg>>
  BY <1>29 DEF Contexts, Live, TypeOK
<1>. QED
  BY <1>1, <1>2, <1>3, <1>4, <1>5, <1>6, <1>7, <1>8, <1>9, <1>10, <1>11, <1>12,
     <1>13, <1>14, <1>15, <1>16, <1>17, <1>18, <1>19, <1>20, <1>21, <1>22,
     <1>23, <1>24, <1>25, <1>26, <1>27, <1>28, <1>29
     DEF Next, ClientStep, ClientLocks, TaskStep, TaskLocks, vars, globals,
         context

LEMMA OneStopStep ==
  TypeOK /\ Contexts /\ OneStop /\ [Next]_vars
    => OneStop'
<1> SUFFICES ASSUME TypeOK, Contexts, OneStop, [Next]_vars
             PROVE  OneStop'
  OBVIOUS
<1>1. ASSUME NEW c \in Client, StartVideo(c)
      PROVE  OneStop'
  <2>1. NewVideo \in Video
    BY <1>1 DEF StartVideo, Open
  <2>2. \A d \in Client : arg[d] # NewVideo
    BY <2>1, NewVideoIsNew
  <2>. QED
    BY <1>1, <2>1, <2>2, Constants
       DEF StartVideo, Open, Goto, OneStop, Using, Contexts, Live, TypeOK
<1>2. ASSUME NEW c \in Client, StartReturns(c)
      PROVE  OneStop'
  BY <1>2, Constants
     DEF StartReturns, Goto, context, history, OneStop, Using, Contexts, Live,
         TypeOK
<1>3. ASSUME NEW c \in Client, OpenVideo(c)
      PROVE  OneStop'
  BY <1>3, Constants
     DEF OpenVideo, Calls, Open, OneStop, Using, Contexts, Live, TypeOK
<1>4. ASSUME NEW c \in Client, NEW v \in Video, CallStop(c, v)
      PROVE  OneStop'
  <2>1. SUFFICES ASSUME "stop" \notin raced' PROVE OneStop'
    BY DEF OneStop
  <2>2. /\ "stop" \notin raced
        /\ \A d \in Client : arg[d] = v => call[d] \in Using
    BY <1>4, <2>1 DEF CallStop
  <2>3. ctx[v] = "live" /\ ctx' = ctx
    BY <1>4 DEF CallStop, Contexts, Live, context
  <2>4. /\ call' = [call EXCEPT ![c] = "stop"]
        /\ arg' = [arg EXCEPT ![c] = v]
    BY <1>4 DEF CallStop, Goto
  <2>5. \A d \in Client : d # c => call'[d] = call[d] /\ arg'[d] = arg[d]
    BY <2>4 DEF TypeOK
  <2>6. call'[c] = "stop" /\ arg'[c] = v
    BY <2>4 DEF TypeOK
  <2>7. ASSUME NEW d \in Client, NEW e \in Client, arg'[d] # None,
               arg'[d] = arg'[e], call'[d] \notin Using, call'[e] \notin Using
        PROVE  d = e
    <3>1. CASE d = c \/ e = c
      BY <2>2, <2>5, <2>6, <2>7, <3>1
    <3>2. CASE d # c /\ e # c
      BY <2>2, <2>5, <2>7, <3>2 DEF OneStop
    <3>. QED
      BY <3>1, <3>2
  <2>8. ASSUME NEW d \in Client, arg'[d] # None, call'[d] \notin Using
        PROVE  ctx[arg'[d]] = "live"
    BY <2>2, <2>3, <2>5, <2>6, <2>8 DEF OneStop, Live
  <2>. QED
    BY <2>3, <2>7, <2>8 DEF OneStop, Live
<1>5. ASSUME NEW c \in Client, StopMarks(c)
      PROVE  OneStop'
  BY <1>5, Constants
     DEF StopMarks, Goto, Touch, OneStop, Using, Contexts, Live, TypeOK
<1>6. ASSUME NEW c \in Client, StopLocks(c)
      PROVE  OneStop'
  BY <1>6, Constants
     DEF StopLocks, Goto, Touch, context, OneStop, Using, Contexts, Live, TypeOK
<1>7. ASSUME NEW c \in Client, StopSleeps(c)
      PROVE  OneStop'
  BY <1>7, Constants
     DEF StopSleeps, Goto, Touch, context, OneStop, Using, Contexts, Live,
         TypeOK
<1>8. ASSUME NEW c \in Client, StopWakes(c)
      PROVE  OneStop'
  BY <1>8, Constants
     DEF StopWakes, Goto, Touch, context, OneStop, Using, Contexts, Live, TypeOK
<1>9. ASSUME NEW c \in Client, StopSees(c)
      PROVE  OneStop'
  BY <1>9, Constants
     DEF StopSees, Goto, context, history, OneStop, Using, Contexts, Live,
         TypeOK
<1>10. ASSUME NEW c \in Client, StopGivesUp(c)
      PROVE  OneStop'
  BY <1>10, Constants
     DEF StopGivesUp, Goto, context, OneStop, Using, Contexts, Live, TypeOK
<1>11. ASSUME NEW c \in Client, JoinTask(c)
      PROVE  OneStop'
  BY <1>11, Constants
     DEF JoinTask, Goto, TaskGoto, Touch, OneStop, Using, Contexts, Live, TypeOK
<1>12. ASSUME NEW c \in Client, StopReturns(c)
      PROVE  OneStop'
  BY <1>12, Constants
     DEF StopReturns, Goto, OneStop, Using, Contexts, Live, TypeOK
<1>13. ASSUME NEW c \in Client, NEW v \in Video, CallPause(c, v)
      PROVE  OneStop'
  BY <1>13, Constants
     DEF CallPause, UseBegins, Calls, Goto, context, OneStop, Using, Contexts,
         Live, TypeOK
<1>14. ASSUME NEW c \in Client, NEW v \in Video, CallQuery(c, v)
      PROVE  OneStop'
  BY <1>14, Constants
     DEF CallQuery, UseBegins, Calls, Goto, Touch, context, OneStop, Using,
         Contexts, Live, TypeOK
<1>15. ASSUME NEW c \in Client, NEW paused \in BOOLEAN, SetPaused(c, paused)
      PROVE  OneStop'
  BY <1>15, Constants
     DEF SetPaused, Goto, Touch, context, OneStop, Using, Contexts, Live, TypeOK
<1>16. ASSUME NEW c \in Client, Query(c)
      PROVE  OneStop'
  BY <1>16, Constants
     DEF Query, Goto, Touch, context, OneStop, Using, Contexts, Live, TypeOK
<1>17. CASE UNCHANGED <<raced, arg, ctx, call>>
  BY <1>17 DEF OneStop, Using, Contexts, Live, TypeOK
<1>. QED
  BY <1>1, <1>2, <1>3, <1>4, <1>5, <1>6, <1>7, <1>8, <1>9, <1>10, <1>11, <1>12,
     <1>13, <1>14, <1>15, <1>16, <1>17
     DEF Next, ClientStep, ClientLocks, TaskStep, TaskLocks, vars, context,
         history, TaskBegins, TaskLoops, TaskSyncs, TaskDecodes, TaskShows,
         TaskFinishes, TaskRewinds, TaskDecides, TaskGoesOn, TaskPosts,
         TaskStops, TaskCancelled, Moves

LEMMA OneUseStep ==
  TypeOK /\ Contexts /\ OneUse /\ [Next]_vars
    => OneUse'
<1> SUFFICES ASSUME TypeOK, Contexts, OneUse, [Next]_vars
             PROVE  OneUse'
  OBVIOUS
<1>1. ASSUME NEW c \in Client, StartVideo(c)
      PROVE  OneUse'
  <2>1. NewVideo \in Video
    BY <1>1 DEF StartVideo, Open
  <2>2. \A d \in Client : arg[d] # NewVideo
    BY <2>1, NewVideoIsNew
  <2>. QED
    BY <1>1, <2>1, <2>2, Constants
       DEF StartVideo, Open, Goto, OneUse, Using, Stopping, Contexts, Live,
           TypeOK
<1>2. ASSUME NEW c \in Client, StartReturns(c)
      PROVE  OneUse'
  BY <1>2, Constants
     DEF StartReturns, Goto, context, history, OneUse, Using, Stopping,
         Contexts, Live, TypeOK
<1>3. ASSUME NEW c \in Client, OpenVideo(c)
      PROVE  OneUse'
  BY <1>3, Constants
     DEF OpenVideo, Calls, Open, OneUse, Using, Stopping, Contexts, Live, TypeOK
<1>4. ASSUME NEW c \in Client, NEW v \in Video, CallStop(c, v)
      PROVE  OneUse'
  BY <1>4, Constants
     DEF CallStop, Calls, Goto, context, OneUse, Using, Stopping, Contexts,
         Live, TypeOK
<1>5. ASSUME NEW c \in Client, StopMarks(c)
      PROVE  OneUse'
  BY <1>5, Constants
     DEF StopMarks, Goto, Touch, OneUse, Using, Stopping, Contexts, Live, TypeOK
<1>6. ASSUME NEW c \in Client, StopLocks(c)
      PROVE  OneUse'
  BY <1>6, Constants
     DEF StopLocks, Goto, Touch, context, OneUse, Using, Stopping, Contexts,
         Live, TypeOK
<1>7. ASSUME NEW c \in Client, StopSleeps(c)
      PROVE  OneUse'
  BY <1>7, Constants
     DEF StopSleeps, Goto, Touch, context, OneUse, Using, Stopping, Contexts,
         Live, TypeOK
<1>8. ASSUME NEW c \in Client, StopWakes(c)
      PROVE  OneUse'
  BY <1>8, Constants
     DEF StopWakes, Goto, Touch, context, OneUse, Using, Stopping, Contexts,
         Live, TypeOK
<1>9. ASSUME NEW c \in Client, StopSees(c)
      PROVE  OneUse'
  BY <1>9, Constants
     DEF StopSees, Goto, context, history, OneUse, Using, Stopping, Contexts,
         Live, TypeOK
<1>10. ASSUME NEW c \in Client, StopGivesUp(c)
      PROVE  OneUse'
  BY <1>10, Constants
     DEF StopGivesUp, Goto, context, OneUse, Using, Stopping, Contexts, Live,
         TypeOK
<1>11. ASSUME NEW c \in Client, JoinTask(c)
      PROVE  OneUse'
  BY <1>11, Constants
     DEF JoinTask, Goto, TaskGoto, Touch, OneUse, Using, Stopping, Contexts,
         Live, TypeOK
<1>12. ASSUME NEW c \in Client, StopReturns(c)
      PROVE  OneUse'
  BY <1>12, Constants
     DEF StopReturns, Goto, OneUse, Using, Stopping, Contexts, Live, TypeOK
<1>13. ASSUME NEW c \in Client, NEW v \in Video, CallPause(c, v)
      PROVE  OneUse'
  BY <1>13, Constants
     DEF CallPause, UseBegins, Calls, Goto, context, Returned, OneUse, Using,
         Stopping, Contexts, Live, TypeOK
<1>14. ASSUME NEW c \in Client, NEW v \in Video, CallQuery(c, v)
      PROVE  OneUse'
  BY <1>14, Constants
     DEF CallQuery, UseBegins, Calls, Goto, Touch, context, Returned, OneUse,
         Using, Stopping, Contexts, Live, TypeOK
<1>15. ASSUME NEW c \in Client, NEW paused \in BOOLEAN, SetPaused(c, paused)
      PROVE  OneUse'
  BY <1>15, Constants
     DEF SetPaused, Goto, Touch, context, Returned, OneUse, Using, Stopping,
         Contexts, Live, TypeOK
<1>16. ASSUME NEW c \in Client, Query(c)
      PROVE  OneUse'
  BY <1>16, Constants
     DEF Query, Goto, Touch, context, Returned, OneUse, Using, Stopping,
         Contexts, Live, TypeOK
<1>17. CASE UNCHANGED <<raced, arg, ctx, call>>
  BY <1>17 DEF OneUse, Using, Stopping, Contexts, Live, TypeOK
<1>. QED
  BY <1>1, <1>2, <1>3, <1>4, <1>5, <1>6, <1>7, <1>8, <1>9, <1>10, <1>11, <1>12,
     <1>13, <1>14, <1>15, <1>16, <1>17
     DEF Next, ClientStep, ClientLocks, TaskStep, TaskLocks, vars, context,
         history, TaskBegins, TaskLoops, TaskSyncs, TaskDecodes, TaskShows,
         TaskFinishes, TaskRewinds, TaskDecides, TaskGoesOn, TaskPosts,
         TaskStops, TaskCancelled, Moves

LEMMA OneVideoStep ==
  TypeOK /\ Contexts /\ OneVideo /\ StopTerminates /\ [Next]_vars
    => OneVideo'
<1> SUFFICES ASSUME TypeOK, Contexts, OneVideo, StopTerminates, [Next]_vars
             PROVE  OneVideo'
  OBVIOUS
<1>1. ASSUME NEW c \in Client, StartVideo(c)
      PROVE  OneVideo'
  <2>1. NewVideo \in Video
    BY <1>1 DEF StartVideo, Open
  <2>2. \A d \in Client : arg[d] # NewVideo
    BY <2>1, NewVideoIsNew
  <2>3. SUFFICES ASSUME "start" \notin raced' PROVE OneVideo'
    BY DEF OneVideo
  <2>4. "start" \notin raced /\ ghVideoList = {}
    BY <1>1, <2>3 DEF StartVideo, Open
  <2>5. \A w \in Video : ~Live(w) /\ ~Unjoined(w)
    BY <2>4
       DEF Contexts, StopTerminates, OneVideo, Live, Unjoined, Active, TypeOK
  <2>. QED
    BY <1>1, <2>1, <2>2, <2>5, Constants
       DEF StartVideo, Open, Goto, TaskGoto, Calls, OneVideo, Contexts, Live,
          Unjoined,
           TypeOK
<1>2. ASSUME NEW c \in Client, StartReturns(c)
      PROVE  OneVideo'
  BY <1>2, Constants
     DEF StartReturns, Goto, globals, context, history, OneVideo, Contexts,
         Live, Unjoined, TypeOK
<1>3. ASSUME NEW c \in Client, OpenVideo(c)
      PROVE  OneVideo'
  BY <1>3, Constants
     DEF OpenVideo, Calls, Open, OneVideo, Contexts, Live, Unjoined, TypeOK
<1>4. ASSUME NEW c \in Client, NEW v \in Video, CallStop(c, v)
      PROVE  OneVideo'
  BY <1>4, Constants
     DEF CallStop, Calls, Goto, globals, context, OneVideo, Contexts, Live,
         Unjoined, TypeOK
<1>5. ASSUME NEW c \in Client, StopMarks(c)
      PROVE  OneVideo'
  BY <1>5, Constants
     DEF StopMarks, Goto, Touch, globals, OneVideo, Contexts, Live, Unjoined,
         TypeOK
<1>6. ASSUME NEW c \in Client, StopLocks(c)
      PROVE  OneVideo'
  BY <1>6, Constants
     DEF StopLocks, Goto, Touch, globals, context, OneVideo, Contexts, Live,
         Unjoined, TypeOK
<1>7. ASSUME NEW c \in Client, StopSleeps(c)
      PROVE  OneVideo'
  BY <1>7, Constants
     DEF StopSleeps, Goto, Touch, globals, context, OneVideo, Contexts, Live,
         Unjoined, TypeOK
<1>8. ASSUME NEW c \in Client, StopWakes(c)
      PROVE  OneVideo'
  BY <1>8, Constants
     DEF StopWakes, Goto, Touch, globals, context, OneVideo, Contexts, Live,
         Unjoined, TypeOK
<1>9. ASSUME NEW c \in Client, StopSees(c)
      PROVE  OneVideo'
  BY <1>9, Constants
     DEF StopSees, Goto, globals, context, history, OneVideo, Contexts, Live,
         Unjoined, TypeOK
<1>10. ASSUME NEW c \in Client, StopGivesUp(c)
      PROVE  OneVideo'
  BY <1>10, Constants
     DEF StopGivesUp, Goto, globals, context, OneVideo, Contexts, Live,
         Unjoined, TypeOK
<1>11. ASSUME NEW c \in Client, JoinTask(c)
      PROVE  OneVideo'
  BY <1>11, Constants
     DEF JoinTask, Goto, TaskGoto, Touch, OneVideo, Contexts, Live, Unjoined,
         TypeOK
<1>12. ASSUME NEW c \in Client, StopReturns(c)
      PROVE  OneVideo'
  BY <1>12, Constants
     DEF StopReturns, Goto, OneVideo, Contexts, Live, Unjoined, TypeOK
<1>13. ASSUME NEW v \in Video, TaskBegins(v)
      PROVE  OneVideo'
  BY <1>13, Constants
     DEF TaskBegins, TaskGoto, Touch, globals, OneVideo, Contexts, Live,
         Unjoined, TypeOK
<1>14. ASSUME NEW v \in Video, TaskLoops(v)
      PROVE  OneVideo'
  BY <1>14, Constants
     DEF TaskLoops, Moves, TaskGoto, globals, context, history, OneVideo,
         Contexts, Live, Unjoined, TypeOK
<1>15. ASSUME NEW v \in Video, TaskSyncs(v)
      PROVE  OneVideo'
  BY <1>15, Constants
     DEF TaskSyncs, Touch, Moves, TaskGoto, globals, context, history, OneVideo,
         Contexts, Live, Unjoined, TypeOK
<1>16. ASSUME NEW v \in Video, TaskDecodes(v)
      PROVE  OneVideo'
  BY <1>16, Constants
     DEF TaskDecodes, Touch, Moves, TaskGoto, globals, context, history,
         OneVideo, Contexts, Live, Unjoined, TypeOK
<1>17. ASSUME NEW v \in Video, TaskShows(v)
      PROVE  OneVideo'
  BY <1>17, Constants
     DEF TaskShows, Touch, Moves, TaskGoto, globals, context, history, OneVideo,
         Contexts, Live, Unjoined, TypeOK
<1>18. ASSUME NEW v \in Video, TaskFinishes(v)
      PROVE  OneVideo'
  BY <1>18, Constants
     DEF TaskFinishes, TaskGoto, Touch, globals, OneVideo, Contexts, Live,
         Unjoined, TypeOK
<1>19. ASSUME NEW v \in Video, TaskRewinds(v)
      PROVE  OneVideo'
  BY <1>19, Constants
     DEF TaskRewinds, TaskGoto, Touch, globals, OneVideo, Contexts, Live,
         Unjoined, TypeOK
<1>20. ASSUME NEW v \in Video, TaskDecides(v)
      PROVE  OneVideo'
  BY <1>20, Constants
     DEF TaskDecides, Moves, TaskGoto, globals, context, history, OneVideo,
         Contexts, Live, Unjoined, TypeOK
<1>21. ASSUME NEW v \in Video, TaskGoesOn(v)
      PROVE  OneVideo'
  BY <1>21, Constants
     DEF TaskGoesOn, TaskGoto, Touch, globals, context, OneVideo, Contexts,
         Live, Unjoined, TypeOK
<1>22. ASSUME NEW v \in Video, TaskPosts(v)
      PROVE  OneVideo'
  BY <1>22, Constants
     DEF TaskPosts, TaskGoto, Touch, globals, context, OneVideo, Contexts, Live,
         Unjoined, TypeOK
<1>23. ASSUME NEW v \in Video, TaskStops(v)
      PROVE  OneVideo'
  BY <1>23, Constants
     DEF TaskStops, TaskGoto, globals, context, history, OneVideo, Contexts,
         Live, Unjoined, TypeOK
<1>24. ASSUME NEW v \in Video, TaskCancelled(v)
      PROVE  OneVideo'
  BY <1>24, Constants
     DEF TaskCancelled, Moves, TaskGoto, globals, context, history, OneVideo,
         Contexts, Live, Unjoined, TypeOK
<1>25. ASSUME NEW c \in Client, NEW v \in Video, CallPause(c, v)
      PROVE  OneVideo'
  BY <1>25, Constants
     DEF CallPause, UseBegins, Calls, Goto, globals, context, OneVideo,
         Contexts, Live, Unjoined, TypeOK
<1>26. ASSUME NEW c \in Client, NEW v \in Video, CallQuery(c, v)
      PROVE  OneVideo'
  BY <1>26, Constants
     DEF CallQuery, UseBegins, Calls, Goto, Touch, globals, context, OneVideo,
         Contexts, Live, Unjoined, TypeOK
<1>27. ASSUME NEW c \in Client, NEW paused \in BOOLEAN, SetPaused(c, paused)
      PROVE  OneVideo'
  BY <1>27, Constants
     DEF SetPaused, Goto, Touch, globals, context, OneVideo, Contexts, Live,
         Unjoined, TypeOK
<1>28. ASSUME NEW c \in Client, Query(c)
      PROVE  OneVideo'
  BY <1>28, Constants
     DEF Query, Goto, Touch, globals, context, OneVideo, Contexts, Live,
         Unjoined, TypeOK
<1>29. CASE UNCHANGED <<raced, ctx, task, hVideoThread, hTask, call, arg>>
  BY <1>29 DEF OneVideo, Contexts, Live, Unjoined, TypeOK
<1>. QED
  BY <1>1, <1>2, <1>3, <1>4, <1>5, <1>6, <1>7, <1>8, <1>9, <1>10, <1>11, <1>12,
     <1>13, <1>14, <1>15, <1>16, <1>17, <1>18, <1>19, <1>20, <1>21, <1>22,
     <1>23, <1>24, <1>25, <1>26, <1>27, <1>28, <1>29
     DEF Next, ClientStep, ClientLocks, TaskStep, TaskLocks, vars, globals,
         context, history

LEMMA OneTaskStep ==
  TypeOK /\ Contexts /\ OneTask /\ [Next]_vars
    => OneTask'
<1> SUFFICES ASSUME TypeOK, Contexts, OneTask, [Next]_vars
             PROVE  OneTask'
  OBVIOUS
<1>1. ASSUME NEW c \in Client, StartVideo(c)
      PROVE  OneTask'
  <2>1. NewVideo \in Video
    BY <1>1 DEF StartVideo, Open
  <2>2. \A d \in Client : arg[d] # NewVideo
    BY <2>1, NewVideoIsNew
  <2>3. SUFFICES ASSUME ~overlap' PROVE OneTask'
    BY DEF OneTask
  <2>4. \A w \in Video : ~Active(w)
    BY <1>1, <2>3 DEF StartVideo
  <2>. QED
    BY <1>1, <2>1, <2>2, <2>4, Constants
       DEF StartVideo, Goto, TaskGoto, Calls, OneTask, Contexts, Active, TypeOK
<1>2. ASSUME NEW c \in Client, StartReturns(c)
      PROVE  OneTask'
  BY <1>2, Constants
     DEF StartReturns, Goto, globals, context, history, OneTask, Contexts,
         Active, TypeOK
<1>3. ASSUME NEW c \in Client, NEW v \in Video, CallStop(c, v)
      PROVE  OneTask'
  BY <1>3, Constants
     DEF CallStop, Calls, Goto, globals, context, OneTask, Contexts, Active,
         TypeOK
<1>4. ASSUME NEW c \in Client, StopMarks(c)
      PROVE  OneTask'
  BY <1>4, Constants
     DEF StopMarks, Goto, Touch, globals, OneTask, Contexts, Active, TypeOK
<1>5. ASSUME NEW c \in Client, StopLocks(c)
      PROVE  OneTask'
  BY <1>5, Constants
     DEF StopLocks, Goto, Touch, globals, context, OneTask, Contexts, Active,
         TypeOK
<1>6. ASSUME NEW c \in Client, StopSleeps(c)
      PROVE  OneTask'
  BY <1>6, Constants
     DEF StopSleeps, Goto, Touch, globals, context, OneTask, Contexts, Active,
         TypeOK
<1>7. ASSUME NEW c \in Client, StopWakes(c)
      PROVE  OneTask'
  BY <1>7, Constants
     DEF StopWakes, Goto, Touch, globals, context, OneTask, Contexts, Active,
         TypeOK
<1>8. ASSUME NEW c \in Client, StopSees(c)
      PROVE  OneTask'
  BY <1>8, Constants
     DEF StopSees, Goto, globals, context, history, OneTask, Contexts, Active,
         TypeOK
<1>9. ASSUME NEW c \in Client, StopGivesUp(c)
      PROVE  OneTask'
  BY <1>9, Constants
     DEF StopGivesUp, Goto, globals, context, OneTask, Contexts, Active, TypeOK
<1>10. ASSUME NEW c \in Client, JoinTask(c)
      PROVE  OneTask'
  BY <1>10, Constants
     DEF JoinTask, Goto, TaskGoto, Touch, OneTask, Contexts, Active, TypeOK
<1>11. ASSUME NEW c \in Client, StopReturns(c)
      PROVE  OneTask'
  BY <1>11, Constants DEF StopReturns, Goto, OneTask, Contexts, Active, TypeOK
<1>12. ASSUME NEW v \in Video, TaskBegins(v)
      PROVE  OneTask'
  BY <1>12, Constants
     DEF TaskBegins, TaskGoto, Touch, globals, OneTask, Contexts, Active, TypeOK
<1>13. ASSUME NEW v \in Video, TaskLoops(v)
      PROVE  OneTask'
  BY <1>13, Constants
     DEF TaskLoops, Moves, TaskGoto, globals, context, history, OneTask,
         Contexts, Active, TypeOK
<1>14. ASSUME NEW v \in Video, TaskSyncs(v)
      PROVE  OneTask'
  BY <1>14, Constants
     DEF TaskSyncs, Touch, Moves, TaskGoto, globals, context, history, OneTask,
         Contexts, Active, TypeOK
<1>15. ASSUME NEW v \in Video, TaskDecodes(v)
      PROVE  OneTask'
  BY <1>15, Constants
     DEF TaskDecodes, Touch, Moves, TaskGoto, globals, context, history,
         OneTask, Contexts, Active, TypeOK
<1>16. ASSUME NEW v \in Video, TaskShows(v)
      PROVE  OneTask'
  BY <1>16, Constants
     DEF TaskShows, Touch, Moves, TaskGoto, globals, context, history, OneTask,
         Contexts, Active, TypeOK
<1>17. ASSUME NEW v \in Video, TaskFinishes(v)
      PROVE  OneTask'
  BY <1>17, Constants
     DEF TaskFinishes, TaskGoto, Touch, globals, OneTask, Contexts, Active,
         TypeOK
<1>18. ASSUME NEW v \in Video, TaskRewinds(v)
      PROVE  OneTask'
  BY <1>18, Constants
     DEF TaskRewinds, TaskGoto, Touch, globals, OneTask, Contexts, Active,
         TypeOK
<1>19. ASSUME NEW v \in Video, TaskDecides(v)
      PROVE  OneTask'
  BY <1>19, Constants
     DEF TaskDecides, Moves, TaskGoto, globals, context, history, OneTask,
         Contexts, Active, TypeOK
<1>20. ASSUME NEW v \in Video, TaskGoesOn(v)
      PROVE  OneTask'
  BY <1>20, Constants
     DEF TaskGoesOn, TaskGoto, Touch, globals, context, OneTask, Contexts,
         Active, TypeOK
<1>21. ASSUME NEW v \in Video, TaskPosts(v)
      PROVE  OneTask'
  BY <1>21, Constants
     DEF TaskPosts, TaskGoto, Touch, globals, context, OneTask, Contexts,
         Active, TypeOK
<1>22. ASSUME NEW v \in Video, TaskStops(v)
      PROVE  OneTask'
  BY <1>22, Constants
     DEF TaskStops, TaskGoto, globals, context, history, OneTask, Contexts,
         Active, TypeOK
<1>23. ASSUME NEW v \in Video, TaskCancelled(v)
      PROVE  OneTask'
  BY <1>23, Constants
     DEF TaskCancelled, Moves, TaskGoto, globals, context, history, OneTask,
         Contexts, Active, TypeOK
<1>24. ASSUME NEW c \in Client, NEW v \in Video, CallPause(c, v)
      PROVE  OneTask'
  BY <1>24, Constants
     DEF CallPause, UseBegins, Calls, Goto, globals, context, OneTask, Contexts,
         Active, TypeOK
<1>25. ASSUME NEW c \in Client, NEW v \in Video, CallQuery(c, v)
      PROVE  OneTask'
  BY <1>25, Constants
     DEF CallQuery, UseBegins, Calls, Goto, Touch, globals, context, OneTask,
         Contexts, Active, TypeOK
<1>26. ASSUME NEW c \in Client, NEW paused \in BOOLEAN, SetPaused(c, paused)
      PROVE  OneTask'
  BY <1>26, Constants
     DEF SetPaused, Goto, Touch, globals, context, OneTask, Contexts, Active,
         TypeOK
<1>27. ASSUME NEW c \in Client, Query(c)
      PROVE  OneTask'
  BY <1>27, Constants
     DEF Query, Goto, Touch, globals, context, OneTask, Contexts, Active, TypeOK
<1>28. CASE UNCHANGED <<overlap, task, hVideoThread, hTask, call, arg>>
  BY <1>28 DEF OneTask, Contexts, Active, TypeOK
<1>. QED
  BY <1>1, <1>2, <1>3, <1>4, <1>5, <1>6, <1>7, <1>8, <1>9, <1>10, <1>11, <1>12,
     <1>13, <1>14, <1>15, <1>16, <1>17, <1>18, <1>19, <1>20, <1>21, <1>22,
     <1>23, <1>24, <1>25, <1>26, <1>27, <1>28
     DEF Next, ClientStep, ClientLocks, TaskStep, TaskLocks, vars, globals,
         context, history, OpenVideo

LEMMA OwnTaskStep ==
  TypeOK /\ Contexts /\ OneStop /\ OneVideo /\ OwnTask /\ [Next]_vars
    => OwnTask'
<1> SUFFICES ASSUME TypeOK, Contexts, OneStop, OneVideo, OwnTask, [Next]_vars
             PROVE  OwnTask'
  OBVIOUS
<1>1. ASSUME NEW c \in Client, StartVideo(c)
      PROVE  OwnTask'
  BY <1>1, Constants
     DEF StartVideo, Calls, Goto, TaskGoto, Open, OwnTask, OneVideo, Contexts,
         Live, Unjoined, TypeOK
<1>2. ASSUME NEW c \in Client, StartReturns(c)
      PROVE  OwnTask'
  BY <1>2, Constants
     DEF StartReturns, Goto, globals, context, history, OwnTask, OneVideo,
         Contexts, Live, Unjoined, TypeOK
<1>3. ASSUME NEW c \in Client, OpenVideo(c)
      PROVE  OwnTask'
  <2>1. NewVideo \in Video
    BY <1>3 DEF OpenVideo, Open
  <2>2. ~hTask[NewVideo]
    BY <2>1, NewVideoIsNew
  <2>. QED
    BY <1>3, <2>1, <2>2, Constants
       DEF OpenVideo, Open, OwnTask, Contexts, Live, Unjoined, TypeOK
<1>4. ASSUME NEW c \in Client, NEW v \in Video, CallStop(c, v)
      PROVE  OwnTask'
  BY <1>4, Constants
     DEF CallStop, Calls, Goto, globals, context, OwnTask, OneVideo, Contexts,
         Live, Unjoined, TypeOK
<1>5. ASSUME NEW c \in Client, StopMarks(c)
      PROVE  OwnTask'
  BY <1>5, Constants
     DEF StopMarks, Goto, Touch, globals, OwnTask, OneVideo, Contexts, Live,
         Unjoined, TypeOK
<1>6. ASSUME NEW c \in Client, StopLocks(c)
      PROVE  OwnTask'
  BY <1>6, Constants
     DEF StopLocks, Goto, Touch, globals, context, OwnTask, OneVideo, Contexts,
         Live, Unjoined, TypeOK
<1>7. ASSUME NEW c \in Client, StopSleeps(c)
      PROVE  OwnTask'
  BY <1>7, Constants
     DEF StopSleeps, Goto, Touch, globals, context, OwnTask, OneVideo, Contexts,
         Live, Unjoined, TypeOK
<1>8. ASSUME NEW c \in Client, StopWakes(c)
      PROVE  OwnTask'
  BY <1>8, Constants
     DEF StopWakes, Goto, Touch, globals, context, OwnTask, OneVideo, Contexts,
         Live, Unjoined, TypeOK
<1>9. ASSUME NEW c \in Client, StopSees(c)
      PROVE  OwnTask'
  BY <1>9, Constants
     DEF StopSees, Goto, globals, context, history, OwnTask, OneVideo, Contexts,
         Live, Unjoined, TypeOK
<1>10. ASSUME NEW c \in Client, StopGivesUp(c)
      PROVE  OwnTask'
  BY <1>10, Constants
     DEF StopGivesUp, Goto, globals, context, OwnTask, OneVideo, Contexts, Live,
         Unjoined, TypeOK
<1>11. ASSUME NEW c \in Client, JoinTask(c)
      PROVE  OwnTask'
  BY <1>11, Constants
     DEF JoinTask, Goto, TaskGoto, Touch, OwnTask, OneVideo, Contexts, Live,
         Unjoined, TypeOK, OneStop, Using
<1>12. ASSUME NEW c \in Client, StopReturns(c)
      PROVE  OwnTask'
  BY <1>12, Constants
     DEF StopReturns, Goto, OwnTask, OneVideo, Contexts, Live, Unjoined, TypeOK
<1>13. ASSUME NEW v \in Video, TaskBegins(v)
      PROVE  OwnTask'
  BY <1>13, Constants
     DEF TaskBegins, TaskGoto, Touch, globals, OwnTask, OneVideo, Contexts,
         Live, Unjoined, TypeOK
<1>14. ASSUME NEW v \in Video, TaskLoops(v)
      PROVE  OwnTask'
  BY <1>14, Constants
     DEF TaskLoops, Moves, TaskGoto, globals, context, history, OwnTask,
         OneVideo, Contexts, Live, Unjoined, TypeOK
<1>15. ASSUME NEW v \in Video, TaskSyncs(v)
      PROVE  OwnTask'
  BY <1>15, Constants
     DEF TaskSyncs, Touch, Moves, TaskGoto, globals, context, history, OwnTask,
         OneVideo, Contexts, Live, Unjoined, TypeOK
<1>16. ASSUME NEW v \in Video, TaskDecodes(v)
      PROVE  OwnTask'
  BY <1>16, Constants
     DEF TaskDecodes, Touch, Moves, TaskGoto, globals, context, history,
         OwnTask, OneVideo, Contexts, Live, Unjoined, TypeOK
<1>17. ASSUME NEW v \in Video, TaskShows(v)
      PROVE  OwnTask'
  BY <1>17, Constants
     DEF TaskShows, Touch, Moves, TaskGoto, globals, context, history, OwnTask,
         OneVideo, Contexts, Live, Unjoined, TypeOK
<1>18. ASSUME NEW v \in Video, TaskFinishes(v)
      PROVE  OwnTask'
  BY <1>18, Constants
     DEF TaskFinishes, TaskGoto, Touch, globals, OwnTask, OneVideo, Contexts,
         Live, Unjoined, TypeOK
<1>19. ASSUME NEW v \in Video, TaskRewinds(v)
      PROVE  OwnTask'
  BY <1>19, Constants
     DEF TaskRewinds, TaskGoto, Touch, globals, OwnTask, OneVideo, Contexts,
         Live, Unjoined, TypeOK
<1>20. ASSUME NEW v \in Video, TaskDecides(v)
      PROVE  OwnTask'
  BY <1>20, Constants
     DEF TaskDecides, Moves, TaskGoto, globals, context, history, OwnTask,
         OneVideo, Contexts, Live, Unjoined, TypeOK
<1>21. ASSUME NEW v \in Video, TaskGoesOn(v)
      PROVE  OwnTask'
  BY <1>21, Constants
     DEF TaskGoesOn, TaskGoto, Touch, globals, context, OwnTask, OneVideo,
         Contexts, Live, Unjoined, TypeOK
<1>22. ASSUME NEW v \in Video, TaskPosts(v)
      PROVE  OwnTask'
  BY <1>22, Constants
     DEF TaskPosts, TaskGoto, Touch, globals, context, OwnTask, OneVideo,
         Contexts, Live, Unjoined, TypeOK
<1>23. ASSUME NEW v \in Video, TaskStops(v)
      PROVE  OwnTask'
  BY <1>23, Constants
     DEF TaskStops, TaskGoto, globals, context, history, OwnTask, OneVideo,
         Contexts, Live, Unjoined, TypeOK
<1>24. ASSUME NEW v \in Video, TaskCancelled(v)
      PROVE  OwnTask'
  BY <1>24, Constants
     DEF TaskCancelled, Moves, TaskGoto, globals, context, history, OwnTask,
         OneVideo, Contexts, Live, Unjoined, TypeOK
<1>25. ASSUME NEW c \in Client, NEW v \in Video, CallPause(c, v)
      PROVE  OwnTask'
  BY <1>25, Constants
     DEF CallPause, UseBegins, Calls, Goto, globals, context, OwnTask, OneVideo,
         Contexts, Live, Unjoined, TypeOK
<1>26. ASSUME NEW c \in Client, NEW v \in Video, CallQuery(c, v)
      PROVE  OwnTask'
  BY <1>26, Constants
     DEF CallQuery, UseBegins, Calls, Goto, Touch, globals, context, OwnTask,
         OneVideo, Contexts, Live, Unjoined, TypeOK
<1>27. ASSUME NEW c \in Client, NEW paused \in BOOLEAN, SetPaused(c, paused)
      PROVE  OwnTask'
  BY <1>27, Constants
     DEF SetPaused, Goto, Touch, globals, context, OwnTask, OneVideo, Contexts,
         Live, Unjoined, TypeOK
<1>28. ASSUME NEW c \in Client, Query(c)
      PROVE  OwnTask'
  BY <1>28, Constants
     DEF Query, Goto, Touch, globals, context, OwnTask, OneVideo, Contexts,
         Live, Unjoined, TypeOK
<1>29. CASE UNCHANGED <<raced, hTask, ctx, hVideoThread, task, call, arg>>
  BY <1>29 DEF OwnTask, OneVideo, Contexts, Live, Unjoined, TypeOK
<1>. QED
  BY <1>1, <1>2, <1>3, <1>4, <1>5, <1>6, <1>7, <1>8, <1>9, <1>10, <1>11, <1>12,
     <1>13, <1>14, <1>15, <1>16, <1>17, <1>18, <1>19, <1>20, <1>21, <1>22,
     <1>23, <1>24, <1>25, <1>26, <1>27, <1>28, <1>29
     DEF Next, ClientStep, ClientLocks, TaskStep, TaskLocks, vars, globals,
         context, history

LEMMA FaultsStep ==
  TypeOK /\ Contexts /\ OneStop /\ OneUse /\ OneVideo /\ OneTask /\ OwnTask
    /\ StopTerminates /\ FaultsNeedRace /\ [Next]_vars
    => FaultsNeedRace'
<1> SUFFICES ASSUME TypeOK, Contexts, OneStop, OneUse, OneVideo, OneTask,
                    OwnTask, StopTerminates, FaultsNeedRace, [Next]_vars
             PROVE  FaultsNeedRace'
  OBVIOUS
<1>1. ASSUME NEW c \in Client, StartVideo(c)
      PROVE  FaultsNeedRace'
  BY <1>1, Constants
     DEF StartVideo, Calls, Goto, TaskGoto, Open, FaultsNeedRace, Contexts,
         TypeOK
<1>2. ASSUME NEW c \in Client, OpenVideo(c)
      PROVE  FaultsNeedRace'
  BY <1>2, Constants
     DEF OpenVideo, Calls, Open, FaultsNeedRace, Contexts, TypeOK
<1>3. ASSUME NEW c \in Client, NEW v \in Video, CallStop(c, v)
      PROVE  FaultsNeedRace'
  BY <1>3, Constants DEF CallStop, Calls, Goto, FaultsNeedRace, Contexts, TypeOK
<1>4. ASSUME NEW c \in Client, StopMarks(c)
      PROVE  FaultsNeedRace'
  BY <1>4, Constants
     DEF StopMarks, Goto, Touch, FaultsNeedRace, Contexts, TypeOK, OneStop,
         Using, Live, StopTerminates
<1>5. ASSUME NEW c \in Client, StopLocks(c)
      PROVE  FaultsNeedRace'
  BY <1>5, Constants
     DEF StopLocks, Goto, Touch, FaultsNeedRace, Contexts, TypeOK, OneStop,
         Using, OneVideo, OwnTask, StopTerminates, Live, Active
<1>6. ASSUME NEW c \in Client, StopSleeps(c)
      PROVE  FaultsNeedRace'
  BY <1>6, Constants
     DEF StopSleeps, Goto, Touch, FaultsNeedRace, Contexts, TypeOK, OneStop,
         Using, Live, StopTerminates
<1>7. ASSUME NEW c \in Client, StopWakes(c)
      PROVE  FaultsNeedRace'
  BY <1>7, Constants
     DEF StopWakes, Goto, Touch, FaultsNeedRace, Contexts, TypeOK, OneStop,
         Using, Live, StopTerminates
<1>8. ASSUME NEW c \in Client, StopGivesUp(c)
      PROVE  FaultsNeedRace'
  BY <1>8, Constants
     DEF StopGivesUp, Goto, FaultsNeedRace, Contexts, TypeOK, OneStop, Using,
         OneVideo, OwnTask, StopTerminates, Live, Active
<1>9. ASSUME NEW c \in Client, JoinTask(c)
      PROVE  FaultsNeedRace'
  <2>1. CASE raced = {}
    <3>1. arg[c] \in Video /\ Live(arg[c]) /\ hTask[arg[c]]
      BY <1>9, <2>1 DEF JoinTask, Contexts, OneStop, Using, OwnTask, None
    <3>2. hVideoThread = arg[c] /\ hVideoThread # None
          /\ task[hVideoThread] # "joined"
      BY <2>1, <3>1, Constants DEF OwnTask, Unjoined
    <3>3. fault' = fault
      BY <1>9, <3>1, <3>2 DEF JoinTask, Touch, Live
    <3>. QED
      BY <1>9, <3>3 DEF JoinTask, FaultsNeedRace
  <2>2. CASE raced # {}
    <3>1. arg[c] \in Video
      BY <1>9 DEF JoinTask, Contexts
    <3>2. "use" \in fault' => "use" \in fault \/ ctx[arg[c]] = "freed"
      BY <1>9 DEF JoinTask, Touch
    <3>3. "free" \in fault' => "free" \in fault
      BY <1>9 DEF JoinTask, Touch
    <3>4. ctx[arg[c]] = "freed" => "stop" \in raced
      BY <1>9, <3>1, Constants DEF JoinTask, OneStop, Using, Live
    <3>. QED
      BY <1>9, <2>2, <3>2, <3>3, <3>4 DEF JoinTask, FaultsNeedRace
  <2>. QED
    BY <2>1, <2>2
<1>10. ASSUME NEW c \in Client, StopReturns(c)
      PROVE  FaultsNeedRace'
  BY <1>10, Constants
     DEF StopReturns, Goto, FaultsNeedRace, Contexts, TypeOK, OneStop, Using,
         OneVideo, OwnTask, StopTerminates, Live, Active
<1>11. ASSUME NEW v \in Video, TaskBegins(v)
      PROVE  FaultsNeedRace'
  BY <1>11, Constants
     DEF TaskBegins, TaskGoto, Touch, FaultsNeedRace, Contexts, TypeOK,
         StopTerminates, Active
<1>12. ASSUME NEW v \in Video, TaskLoops(v)
      PROVE  FaultsNeedRace'
  BY <1>12, Constants
     DEF TaskLoops, Moves, TaskGoto, history, FaultsNeedRace, Contexts, TypeOK
<1>13. ASSUME NEW v \in Video, TaskSyncs(v)
      PROVE  FaultsNeedRace'
  BY <1>13, Constants
     DEF TaskSyncs, Touch, Moves, TaskGoto, history, FaultsNeedRace, Contexts,
         TypeOK, StopTerminates, Active
<1>14. ASSUME NEW v \in Video, TaskDecodes(v)
      PROVE  FaultsNeedRace'
  BY <1>14, Constants
     DEF TaskDecodes, Touch, Moves, TaskGoto, history, FaultsNeedRace, Contexts,
         TypeOK, StopTerminates, Active
<1>15. ASSUME NEW v \in Video, TaskShows(v)
      PROVE  FaultsNeedRace'
  BY <1>15, Constants
     DEF TaskShows, Touch, Moves, TaskGoto, history, FaultsNeedRace, Contexts,
         TypeOK, StopTerminates, Active
<1>16. ASSUME NEW v \in Video, TaskFinishes(v)
      PROVE  FaultsNeedRace'
  BY <1>16, Constants
     DEF TaskFinishes, TaskGoto, Touch, FaultsNeedRace, Contexts, TypeOK,
         StopTerminates, Active
<1>17. ASSUME NEW v \in Video, TaskRewinds(v)
      PROVE  FaultsNeedRace'
  BY <1>17, Constants
     DEF TaskRewinds, TaskGoto, Touch, FaultsNeedRace, Contexts, TypeOK,
         StopTerminates, Active
<1>18. ASSUME NEW v \in Video, TaskDecides(v)
      PROVE  FaultsNeedRace'
  BY <1>18, Constants
     DEF TaskDecides, Moves, TaskGoto, history, FaultsNeedRace, Contexts, TypeOK
<1>19. ASSUME NEW v \in Video, TaskGoesOn(v)
      PROVE  FaultsNeedRace'
  BY <1>19, Constants
     DEF TaskGoesOn, TaskGoto, Touch, FaultsNeedRace, Contexts, TypeOK,
         StopTerminates, Active
<1>20. ASSUME NEW v \in Video, TaskPosts(v)
      PROVE  FaultsNeedRace'
  BY <1>20, Constants
     DEF TaskPosts, TaskGoto, Touch, FaultsNeedRace, Contexts, TypeOK,
         StopTerminates, Active
<1>21. ASSUME NEW v \in Video, TaskCancelled(v)
      PROVE  FaultsNeedRace'
  BY <1>21, Constants
     DEF TaskCancelled, Moves, TaskGoto, history, FaultsNeedRace, Contexts,
         TypeOK
<1>22. ASSUME NEW c \in Client, NEW v \in Video, CallPause(c, v)
      PROVE  FaultsNeedRace'
  BY <1>22, Constants
     DEF CallPause, UseBegins, Calls, Goto, FaultsNeedRace, Contexts, TypeOK,
         OneUse, Using, Live
<1>23. ASSUME NEW c \in Client, NEW v \in Video, CallQuery(c, v)
      PROVE  FaultsNeedRace'
  BY <1>23, Constants
     DEF CallQuery, UseBegins, Calls, Goto, Touch, FaultsNeedRace, Contexts,
         TypeOK, OneUse, Using, Live
<1>24. ASSUME NEW c \in Client, NEW paused \in BOOLEAN, SetPaused(c, paused)
      PROVE  FaultsNeedRace'
  BY <1>24, Constants
     DEF SetPaused, Goto, Touch, FaultsNeedRace, Contexts, TypeOK, OneUse,
         Using, Live
<1>25. ASSUME NEW c \in Client, Query(c)
      PROVE  FaultsNeedRace'
  BY <1>25, Constants
     DEF Query, Goto, Touch, FaultsNeedRace, Contexts, TypeOK, OneUse, Using,
         Live
<1>26. CASE UNCHANGED <<fault, raced, overlap>>
  BY <1>26 DEF FaultsNeedRace, Contexts, TypeOK
<1>. QED
  BY <1>1, <1>2, <1>3, <1>4, <1>5, <1>6, <1>7, <1>8, <1>9, <1>10, <1>11, <1>12,
     <1>13, <1>14, <1>15, <1>16, <1>17, <1>18, <1>19, <1>20, <1>21, <1>22,
     <1>23, <1>24, <1>25, <1>26
     DEF Next, ClientStep, ClientLocks, TaskStep, TaskLocks, vars, history,
         StartReturns, StopSees, TaskStops

LEMMA TerminatesStep ==
  TypeOK /\ Contexts /\ OneVideo /\ OneTask /\ StopTerminates /\ [Next]_vars
    => StopTerminates'
<1> SUFFICES ASSUME TypeOK, Contexts, OneVideo, OneTask, StopTerminates,
   [Next]_vars
             PROVE  StopTerminates'
  OBVIOUS
<1>1. ASSUME NEW c \in Client, StartVideo(c)
      PROVE  StopTerminates'
  BY <1>1, Constants
     DEF StartVideo, Calls, Goto, TaskGoto, Open, StopTerminates, Contexts,
         Active, TypeOK, Live
<1>2. ASSUME NEW c \in Client, OpenVideo(c)
      PROVE  StopTerminates'
  BY <1>2, Constants
     DEF OpenVideo, Calls, Open, StopTerminates, Contexts, Active, TypeOK
<1>3. ASSUME NEW c \in Client, NEW v \in Video, CallStop(c, v)
      PROVE  StopTerminates'
  BY <1>3, Constants
     DEF CallStop, Calls, Goto, context, StopTerminates, Contexts, Active,
         TypeOK
<1>4. ASSUME NEW c \in Client, JoinTask(c)
      PROVE  StopTerminates'
  BY <1>4, Constants
     DEF JoinTask, Goto, TaskGoto, Touch, StopTerminates, Contexts, Active,
         TypeOK
<1>5. ASSUME NEW c \in Client, StopReturns(c)
      PROVE  StopTerminates'
  BY <1>5, Constants
     DEF StopReturns, Goto, StopTerminates, Contexts, Active, TypeOK, OneTask,
         OneVideo, Unjoined
<1>6. ASSUME NEW v \in Video, TaskBegins(v)
      PROVE  StopTerminates'
  BY <1>6, Constants
     DEF TaskBegins, TaskGoto, Touch, StopTerminates, Contexts, Active, TypeOK
<1>7. ASSUME NEW v \in Video, TaskLoops(v)
      PROVE  StopTerminates'
  BY <1>7, Constants
     DEF TaskLoops, Moves, TaskGoto, context, history, StopTerminates, Contexts,
         Active, TypeOK
<1>8. ASSUME NEW v \in Video, TaskSyncs(v)
      PROVE  StopTerminates'
  BY <1>8, Constants
     DEF TaskSyncs, Touch, Moves, TaskGoto, context, history, StopTerminates,
         Contexts, Active, TypeOK
<1>9. ASSUME NEW v \in Video, TaskDecodes(v)
      PROVE  StopTerminates'
  BY <1>9, Constants
     DEF TaskDecodes, Touch, Moves, TaskGoto, context, history, StopTerminates,
         Contexts, Active, TypeOK
<1>10. ASSUME NEW v \in Video, TaskShows(v)
      PROVE  StopTerminates'
  BY <1>10, Constants
     DEF TaskShows, Touch, Moves, TaskGoto, context, history, StopTerminates,
         Contexts, Active, TypeOK
<1>11. ASSUME NEW v \in Video, TaskFinishes(v)
      PROVE  StopTerminates'
  BY <1>11, Constants
     DEF TaskFinishes, TaskGoto, Touch, StopTerminates, Contexts, Active, TypeOK
<1>12. ASSUME NEW v \in Video, TaskRewinds(v)
      PROVE  StopTerminates'
  BY <1>12, Constants
     DEF TaskRewinds, TaskGoto, Touch, StopTerminates, Contexts, Active, TypeOK
<1>13. ASSUME NEW v \in Video, TaskDecides(v)
      PROVE  StopTerminates'
  BY <1>13, Constants
     DEF TaskDecides, Moves, TaskGoto, context, history, StopTerminates,
         Contexts, Active, TypeOK
<1>14. ASSUME NEW v \in Video, TaskGoesOn(v)
      PROVE  StopTerminates'
  BY <1>14, Constants
     DEF TaskGoesOn, TaskGoto, Touch, context, StopTerminates, Contexts, Active,
         TypeOK
<1>15. ASSUME NEW v \in Video, TaskPosts(v)
      PROVE  StopTerminates'
  BY <1>15, Constants
     DEF TaskPosts, TaskGoto, Touch, context, StopTerminates, Contexts, Active,
         TypeOK
<1>16. ASSUME NEW v \in Video, TaskStops(v)
      PROVE  StopTerminates'
  BY <1>16, Constants
     DEF TaskStops, TaskGoto, context, history, StopTerminates, Contexts,
         Active, TypeOK
<1>17. ASSUME NEW v \in Video, TaskCancelled(v)
      PROVE  StopTerminates'
  BY <1>17, Constants
     DEF TaskCancelled, Moves, TaskGoto, context, history, StopTerminates,
         Contexts, Active, TypeOK
<1>18. ASSUME NEW c \in Client, NEW v \in Video, CallPause(c, v)
      PROVE  StopTerminates'
  BY <1>18, Constants
     DEF CallPause, UseBegins, Calls, Goto, context, StopTerminates, Contexts,
         Active, TypeOK
<1>19. ASSUME NEW c \in Client, NEW v \in Video, CallQuery(c, v)
      PROVE  StopTerminates'
  BY <1>19, Constants
     DEF CallQuery, UseBegins, Calls, Goto, Touch, context, StopTerminates,
         Contexts, Active, TypeOK
<1>20. CASE UNCHANGED <<overlap, raced, ctx, task>>
  BY <1>20 DEF StopTerminates, Contexts, Active, TypeOK
<1>. QED
  BY <1>1, <1>2, <1>3, <1>4, <1>5, <1>6, <1>7, <1>8, <1>9, <1>10, <1>11, <1>12,
     <1>13, <1>14, <1>15, <1>16, <1>17, <1>18, <1>19, <1>20
     DEF Next, ClientStep, ClientLocks, TaskStep, TaskLocks, vars, context,
         history, StartReturns, StopMarks, StopLocks, StopSleeps, StopWakes,
         StopSees, StopGivesUp, SetPaused, Query

-----------------------------------------------------------------------------
(* The theorems *)

LEMMA Invariant == Spec => []IInv
<1>1. IInv /\ [Next]_vars => IInv'
  BY TypeStep, ContextsStep, OneStopStep, OneUseStep, OneVideoStep, OneTaskStep,
     OwnTaskStep, FaultsStep, TerminatesStep
     DEF IInv
<1>. QED
  BY <1>1, InitInv, PTL DEF Spec

(* Every variable keeps its type.                                           *)
THEOREM VideoTypeCorrect == Spec => []TypeOK
  BY Invariant, PTL DEF IInv

(* Clients that stop each video before they open the next, and stop it once *)
(* and not while it is started, and leave it alone from then on, calls that *)
(* wait for the mutex included, meet no freed context and no task that has  *)
(* been joined or is not theirs; each misuse allows its own faults only.    *)
THEOREM FaultsAreRaces == Spec => []FaultsNeedRace
  BY Invariant, PTL DEF IInv

(* StopVideo frees a context only when its task has ended and been joined,  *)
(* cancelled or not, unless videos have overlapped.                         *)
THEOREM StopEndsTask == Spec => []StopTerminates
  BY Invariant, PTL DEF IInv
=============================================================================
