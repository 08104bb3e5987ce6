---------------------------- MODULE KernelTimers ----------------------------
(***************************************************************************)
(* The timers of the kernel module (System/Kernel/Kernel.cpp).  Each timer *)
(* is a POSIX timer that raises a real-time signal of its own; one thread, *)
(* TimerTask, waits for all of those signals, looks the signal up in       *)
(* listMemory and calls the callback it finds.                             *)
(*                                                                         *)
(* timers_mutex covers the insertion, the lookup and the removal.  It does *)
(* not cover the choice of a signal, the creation of the thread, the use   *)
(* of the callback data after the lookup, or PauseTimer's read and write   *)
(* of the timer.                                                           *)
(*                                                                         *)
(* The POSIX timers are external: a timer queues at most one notification, *)
(* deleting or setting a timer leaves the one it has queued, and sigwait   *)
(* takes the lowest signal that is pending.  Handles are not reused.       *)
(***************************************************************************)
EXTENDS Integers, FiniteSets, SequencesExt

CONSTANTS
  Client,      \* threads that call the timer functions, each on its own timers
  Task,        \* threads that CreateTask may start with TimerTask
  NoTask,      \* timer_task_handle = 0
  NoClient,    \* timers_mutex is free
  NoTimer,     \* no timer found, no timer in hand
  SigMax,      \* the signals SIGRTMIN..SIGRTMAX are 1..SigMax
  MaxTimers,   \* bound: timers created, with the one that ends TimerTask
  Pausable     \* bound: timers that clients pause

ASSUME NoneAssumption ==
  /\ NoTask \notin Task
  /\ NoClient \notin Client
  /\ NoTimer \notin Nat
ASSUME SizeAssumption ==
  /\ SigMax \in Nat \ {0}
  /\ MaxTimers \in Nat \ {0}
  /\ Pausable \subseteq 1..MaxTimers

Signal == 1..SigMax
Timer == 1..MaxTimers
Arming == {"off", "once", "every"}

VARIABLES
  timer_signal_set,   \* signals given to timers
  listMemory,         \* the list of ListData: timer and signal
  timers_mutex,       \* the client that holds it across a step
  timer_task_handle,
  timer_task_run,
  arm,                \* each POSIX timer: not created, off, armed or deleted
  owner,              \* the client that created it
  pending,            \* notifications queued: signal and the timer it is from
  freed,              \* timers whose callback data is freed
  cpc, csig, ctmr,    \* per client: where it is, with which signal and timer
  saved,              \* per timer: what PauseTimer saved
  tpc, tsig, tby, ta, \* per task: where it is, the signal, its timer, the find
  closing,            \* how far ~CKernelModule is
  crashed,            \* freed memory was used with an effect
  shots,              \* history: expiries a one-shot has left since StartTimer
  overlapped,         \* history: two clients were choosing a signal at once
  quiet,              \* history: timers deleted with nothing on the way
  pausedLate          \* history: timers that expired inside PauseTimer

clientVars == <<cpc, csig, ctmr>>
taskVars == <<tpc, tsig, tby, ta>>
threadVars == <<timer_task_handle, timer_task_run>>
listVars == <<timer_signal_set, listMemory, timers_mutex, freed>>
posixVars == <<arm, owner, pending, saved>>
historyVars == <<shots, overlapped, quiet, pausedLate>>
vars == <<timer_signal_set, listMemory, timers_mutex, timer_task_handle,
          timer_task_run, arm, owner, pending, freed, cpc, csig, ctmr, saved,
          tpc, tsig, tby, ta, closing, crashed, shots, overlapped, quiet,
          pausedLate>>

\* Nothing happens after a crash.
At(c, pc) == ~crashed /\ cpc[c] = pc
TaskAt(t, pc) == ~crashed /\ tpc[t] = pc
Closing(stage) == ~crashed /\ closing = stage

\* A call has returned: its locals are gone.
Return(c) ==
  /\ cpc' = [cpc EXCEPT ![c] = "idle"]
  /\ csig' = [csig EXCEPT ![c] = 1]
  /\ ctmr' = [ctmr EXCEPT ![c] = NoTimer]

Init ==
  /\ timer_signal_set = {}
  /\ listMemory = <<>>
  /\ timers_mutex = NoClient
  /\ timer_task_handle = NoTask
  /\ timer_task_run = FALSE
  /\ arm = [h \in Timer |-> "none"]
  /\ owner = [h \in Timer |-> NoClient]
  /\ pending = {}
  /\ freed = {}
  /\ cpc = [c \in Client |-> "idle"]
  /\ csig = [c \in Client |-> 1]
  /\ ctmr = [c \in Client |-> NoTimer]
  /\ saved = [h \in Timer |-> "off"]
  /\ tpc = [t \in Task |-> "unborn"]
  /\ tsig = [t \in Task |-> 1]
  /\ tby = [t \in Task |-> NoTimer]
  /\ ta = [t \in Task |-> NoTimer]
  /\ closing = "no"
  /\ crashed = FALSE
  /\ shots = [h \in Timer |-> 0]
  /\ overlapped = FALSE
  /\ quiet = {}
  /\ pausedLate = {}

-----------------------------------------------------------------------------
(* CreateTimer.  The scan for a free signal and sigaddset are separate      *)
(* steps without a lock.                                                    *)

FreeSignals == Signal \ timer_signal_set
Lowest(S) == CHOOSE s \in S : \A r \in S : s <= r
Uncreated == {h \in Timer : arm[h] = "none"}
Choosing == {c \in Client : cpc[c] = "add"}

\* One handle is kept for the timer of the destructor.
MayCreate(c) ==
  /\ At(c, "idle")
  /\ \/ closing = "no" /\ Cardinality(Uncreated) > Cardinality(Choosing) + 1
     \/ closing = "create"

\* With no signal free CreateTimer returns kInvalidTimerHndl; the destructor
\* starts that handle, and the failed timer_settime ends the process.
FindSignal(c) ==
  /\ MayCreate(c)
  /\ IF FreeSignals = {}
     THEN /\ crashed' = (closing = "create")
          /\ UNCHANGED <<clientVars, overlapped, closing>>
     ELSE /\ csig' = [csig EXCEPT ![c] = Lowest(FreeSignals)]
          /\ cpc' = [cpc EXCEPT ![c] = "add"]
          /\ overlapped' = (overlapped \/ Choosing # {})
          /\ closing' = IF closing = "create" THEN "creating" ELSE closing
          /\ UNCHANGED <<ctmr, crashed>>
  /\ UNCHANGED <<listVars, threadVars, posixVars, taskVars, shots, quiet,
                 pausedLate>>

\* sigaddset, malloc and timer_create
AddSignal(c) ==
  /\ At(c, "add")
  /\ timer_signal_set' = timer_signal_set \cup {csig[c]}
  /\ LET h == Lowest(Uncreated) IN
       /\ arm' = [arm EXCEPT ![h] = "off"]
       /\ owner' = [owner EXCEPT ![h] = c]
       /\ ctmr' = [ctmr EXCEPT ![c] = h]
  /\ cpc' = [cpc EXCEPT ![c] = "push"]
  /\ UNCHANGED <<listMemory, timers_mutex, freed, threadVars, pending, saved,
                 csig, taskVars, closing, crashed, historyVars>>

\* The insertion, under the lock, and the test of timer_task_handle.
PushTimer(c) ==
  /\ At(c, "push")
  /\ timers_mutex = NoClient
  /\ listMemory' = Append(listMemory, [hndl |-> ctmr[c], signo |-> csig[c]])
  /\ IF timer_task_handle # NoTask
     THEN Return(c)
     ELSE cpc' = [cpc EXCEPT ![c] = "spawn"] /\ UNCHANGED <<csig, ctmr>>
  /\ closing' = IF closing = "creating" THEN "start" ELSE closing
  /\ UNCHANGED <<timer_signal_set, timers_mutex, freed, threadVars, posixVars,
                 taskVars, crashed, historyVars>>

\* CreateTask; when it can start no thread, the assertion ends the process.
SpawnTask(c) ==
  /\ At(c, "spawn")
  /\ Return(c)
  /\ timer_task_run' = TRUE
  /\ \/ \E t \in Task : /\ tpc[t] = "unborn"
                        /\ tpc' = [tpc EXCEPT ![t] = "wait"]
                        /\ timer_task_handle' = t
                        /\ UNCHANGED crashed
     \/ /\ \A t \in Task : tpc[t] # "unborn"
        /\ crashed' = TRUE
        /\ UNCHANGED <<tpc, timer_task_handle>>
  /\ UNCHANGED <<listVars, posixVars, tsig, tby, ta, closing, historyVars>>

-----------------------------------------------------------------------------
(* StartTimer, ResetTimer, StopTimer, PauseTimer, ResumeTimer: one          *)
(* timer_settime each, but PauseTimer reads the timer first.                *)

Owned(c) == {h \in Timer : owner[h] = c /\ arm[h] \in Arming}
MaySet(c, h) == At(c, "idle") /\ closing = "no" /\ h \in Owned(c)

SetTimer(h, kind) ==
  /\ arm' = [arm EXCEPT ![h] = kind]
  /\ UNCHANGED <<listVars, threadVars, owner, pending, taskVars, crashed,
                 overlapped, quiet>>

\* A timer that is set anew drops what was saved of it.
Begin(h, kind) ==
  /\ SetTimer(h, kind)
  /\ saved' = [saved EXCEPT ![h] = "off"]
  /\ shots' = [shots EXCEPT ![h] = IF kind = "once" THEN 1 ELSE 0]
  /\ pausedLate' = pausedLate \ {h}

StartTimer(c, h, kind) ==
  /\ MaySet(c, h)
  /\ Begin(h, kind)
  /\ UNCHANGED <<clientVars, closing>>

StopTimer(c, h) ==
  /\ MaySet(c, h)
  /\ Begin(h, "off")
  /\ UNCHANGED <<clientVars, closing>>

\* timer_gettime
PauseTimer(c, h) ==
  /\ MaySet(c, h)
  /\ h \in Pausable
  /\ saved' = [saved EXCEPT ![h] = arm[h]]
  /\ cpc' = [cpc EXCEPT ![c] = "pause"]
  /\ ctmr' = [ctmr EXCEPT ![c] = h]
  /\ UNCHANGED <<listVars, threadVars, arm, owner, pending, csig, taskVars,
                 closing, crashed, historyVars>>

\* Faulty: the timer is read and left armed.
PauseArmed(c) ==
  /\ At(c, "pause")
  /\ Return(c)
  /\ UNCHANGED <<listVars, threadVars, posixVars, taskVars, closing, crashed,
                 historyVars>>

\* timer_settime of zero: what expired since is not taken back
PauseStop(c) ==
  /\ At(c, "pause")
  /\ SetTimer(ctmr[c], "off")
  /\ pausedLate' = IF arm[ctmr[c]] # saved[ctmr[c]]
                   THEN pausedLate \cup {ctmr[c]} ELSE pausedLate
  /\ Return(c)
  /\ UNCHANGED <<saved, shots, closing>>

\* A client resumes what it has paused, once.
ResumeTimer(c, h) ==
  /\ MaySet(c, h)
  /\ arm[h] = "off"
  /\ saved[h] # "off"
  /\ SetTimer(h, saved[h])
  /\ saved' = [saved EXCEPT ![h] = "off"]
  /\ UNCHANGED <<clientVars, shots, closing, pausedLate>>

-----------------------------------------------------------------------------
(* DestroyTimer: timer_delete, find_if without the lock, then the removal.  *)

\* Nothing that could still call the timer is on the way.
Quiet(h) ==
  \A i \in 1..Len(listMemory) : listMemory[i].hndl = h =>
    /\ \A n \in pending : n.sig # listMemory[i].signo
    /\ \A t \in Task : tpc[t] \in {"got", "found"} => tsig[t] # listMemory[i].signo

\* find_if may step on the entry another client is freeing.
DeleteTimer(c, h) ==
  /\ MaySet(c, h)
  /\ arm' = [arm EXCEPT ![h] = "deleted"]
  /\ owner' = [owner EXCEPT ![h] = NoClient]
  /\ saved' = [saved EXCEPT ![h] = "off"]
  /\ shots' = [shots EXCEPT ![h] = 0]
  /\ pausedLate' = pausedLate \ {h}
  /\ quiet' = IF Quiet(h) THEN quiet \cup {h} ELSE quiet
  /\ cpc' = [cpc EXCEPT ![c] = "free"]
  /\ ctmr' = [ctmr EXCEPT ![c] = h]
  /\ crashed' \in {FALSE, timers_mutex # NoClient}
  /\ UNCHANGED <<listVars, threadVars, pending, csig, taskVars, closing, overlapped>>

\* Where find_if finds a timer.
PlaceOf(h) == CHOOSE i \in 1..Len(listMemory) : listMemory[i].hndl = h
SignalOf(h) == listMemory[PlaceOf(h)].signo

\* Faulty: the signal is given back before the lock is taken.
FreeSignalEarly(c) ==
  \/ /\ At(c, "free")
     /\ SignalOf(ctmr[c]) \in timer_signal_set
     /\ timer_signal_set' = timer_signal_set \ {SignalOf(ctmr[c])}
     /\ UNCHANGED <<listMemory, timers_mutex, freed, clientVars>>
     /\ UNCHANGED <<threadVars, posixVars, taskVars, closing, crashed, historyVars>>
  \/ /\ At(c, "free")
     /\ timers_mutex = NoClient
     /\ timers_mutex' = c
     /\ freed' = freed \cup {ctmr[c]}
     /\ cpc' = [cpc EXCEPT ![c] = "erase"]
     /\ UNCHANGED <<timer_signal_set, listMemory, csig, ctmr>>
     /\ UNCHANGED <<threadVars, posixVars, taskVars, closing, crashed, historyVars>>

\* lock, sigdelset, delete
FreeTimer(c) ==
  /\ At(c, "free")
  /\ timers_mutex = NoClient
  /\ timers_mutex' = c
  /\ timer_signal_set' = timer_signal_set \ {SignalOf(ctmr[c])}
  /\ freed' = freed \cup {ctmr[c]}
  /\ cpc' = [cpc EXCEPT ![c] = "erase"]
  /\ UNCHANGED <<listMemory, threadVars, posixVars, csig, ctmr, taskVars,
                 closing, crashed, historyVars>>

\* Faulty: the freed entry stays in the list.
EraseNothing(c) ==
  /\ At(c, "erase")
  /\ timers_mutex' = NoClient
  /\ Return(c)
  /\ UNCHANGED <<timer_signal_set, listMemory, freed, threadVars, posixVars,
                 taskVars, closing, crashed, historyVars>>

\* erase, unlock
EraseTimer(c) ==
  /\ At(c, "erase")
  /\ timers_mutex' = NoClient
  /\ listMemory' = RemoveAt(listMemory, PlaceOf(ctmr[c]))
  /\ Return(c)
  /\ UNCHANGED <<timer_signal_set, freed, threadVars, posixVars, taskVars,
                 closing, crashed, historyVars>>

-----------------------------------------------------------------------------
(* The POSIX timers.                                                        *)

SignalsOf(h) ==
  {listMemory[i].signo : i \in {j \in 1..Len(listMemory) : listMemory[j].hndl = h}}

\* A timer that was pushed is armed only after that, so it is in the list.
Expire(h) ==
  /\ ~crashed
  /\ arm[h] \in {"once", "every"}
  /\ pending' = pending \cup {[sig |-> s, by |-> h] : s \in SignalsOf(h)}
  /\ IF arm[h] = "once"
     THEN /\ arm' = [arm EXCEPT ![h] = "off"]
          /\ shots' = [shots EXCEPT ![h] = IF @ < 0 THEN @ ELSE @ - 1]
     ELSE UNCHANGED <<arm, shots>>
  /\ UNCHANGED <<listVars, threadVars, owner, saved, clientVars, taskVars,
                 closing, crashed, overlapped, quiet, pausedLate>>

-----------------------------------------------------------------------------
(* TimerTask.                                                               *)

\* Faulty: one wait takes all that is pending and keeps the lowest.
WaitAll(t) ==
  /\ TaskAt(t, "wait")
  /\ \E n \in pending :
       /\ \A m \in pending : n.sig <= m.sig
       /\ pending' = {}
       /\ tsig' = [tsig EXCEPT ![t] = n.sig]
       /\ tby' = [tby EXCEPT ![t] = n.by]
  /\ tpc' = [tpc EXCEPT ![t] = "got"]
  /\ UNCHANGED <<listVars, threadVars, arm, owner, saved, clientVars, ta,
                 closing, crashed, historyVars>>

\* sigwait
WaitSignal(t) ==
  /\ TaskAt(t, "wait")
  /\ \E n \in pending :
       /\ \A m \in pending : n.sig <= m.sig
       /\ pending' = pending \ {n}
       /\ tsig' = [tsig EXCEPT ![t] = n.sig]
       /\ tby' = [tby EXCEPT ![t] = n.by]
  /\ tpc' = [tpc EXCEPT ![t] = "got"]
  /\ UNCHANGED <<listVars, threadVars, arm, owner, saved, clientVars, ta,
                 closing, crashed, historyVars>>

\* while(timer_task_run)
LoopAgain(t) ==
  /\ tpc' = [tpc EXCEPT ![t] = IF timer_task_run THEN "wait" ELSE "exit"]
  /\ tsig' = [tsig EXCEPT ![t] = 1]
  /\ tby' = [tby EXCEPT ![t] = NoTimer]
  /\ ta' = [ta EXCEPT ![t] = NoTimer]

\* The callback data of one of the entries in M, if there is one.
FindIn(t, M) ==
  IF M = {} THEN LoopAgain(t)
  ELSE /\ ta' = [ta EXCEPT ![t] = listMemory[Lowest(M)].hndl]
       /\ tpc' = [tpc EXCEPT ![t] = "found"]
       /\ UNCHANGED <<tsig, tby>>

\* Faulty: the first entry is taken, whatever its signal.
LookupAny(t) ==
  /\ TaskAt(t, "got")
  /\ timers_mutex = NoClient
  /\ FindIn(t, 1..Len(listMemory))
  /\ UNCHANGED <<listVars, threadVars, posixVars, clientVars, closing, crashed,
                 historyVars>>

\* The first entry with the signal, under the lock.
Lookup(t) ==
  /\ TaskAt(t, "got")
  /\ timers_mutex = NoClient
  /\ FindIn(t, {i \in 1..Len(listMemory) : listMemory[i].signo = tsig[t]})
  /\ UNCHANGED <<listVars, threadVars, posixVars, clientVars, closing, crashed,
                 historyVars>>

\* The callback is called through data another thread may have freed since.
Callback(t) ==
  /\ TaskAt(t, "found")
  /\ LoopAgain(t)
  /\ crashed' \in {FALSE, ta[t] \in freed}
  /\ UNCHANGED <<listVars, threadVars, posixVars, clientVars, closing, historyVars>>

-----------------------------------------------------------------------------
(* ~CKernelModule: by then the clients are between two calls.               *)

\* Faulty: the run flag is left set.
StopNothing ==
  /\ Closing("no")
  /\ \A c \in Client : cpc[c] = "idle"
  /\ closing' = IF timer_task_handle = NoTask THEN "done" ELSE "create"
  /\ UNCHANGED <<listVars, threadVars, posixVars, clientVars, taskVars,
                 crashed, historyVars>>

StopTask ==
  /\ Closing("no")
  /\ \A c \in Client : cpc[c] = "idle"
  /\ IF timer_task_handle = NoTask
     THEN closing' = "done" /\ UNCHANGED timer_task_run
     ELSE closing' = "create" /\ timer_task_run' = FALSE
  /\ UNCHANGED <<listVars, timer_task_handle, posixVars, clientVars, taskVars,
                 crashed, historyVars>>

\* StartTimer with a period of zero and one second to go
StartKillTimer ==
  /\ Closing("start")
  /\ closing' = "join"
  /\ \E h \in Timer : /\ \A k \in Timer : arm[k] # "none" => k <= h
                      /\ arm[h] # "none"
                      /\ Begin(h, "once")
  /\ UNCHANGED clientVars

JoinTimerTask ==
  /\ Closing("join")
  /\ tpc[timer_task_handle] = "exit"
  /\ closing' = "done"
  /\ UNCHANGED <<listVars, threadVars, posixVars, clientVars, taskVars,
                 crashed, historyVars>>

-----------------------------------------------------------------------------
ClientStep(c) == \/ AddSignal(c) \/ PushTimer(c) \/ SpawnTask(c)
                 \/ PauseStop(c) \/ FreeTimer(c) \/ EraseTimer(c)
ClientCall(c) ==
  \/ FindSignal(c)
  \/ \E h \in Timer : \/ \E kind \in {"once", "every"} : StartTimer(c, h, kind)
                      \/ StopTimer(c, h)
                      \/ PauseTimer(c, h)
                      \/ ResumeTimer(c, h)
                      \/ DeleteTimer(c, h)
TaskStep(t) == WaitSignal(t) \/ Lookup(t) \/ Callback(t)
Next ==
  \/ \E c \in Client : ClientCall(c) \/ ClientStep(c)
  \/ \E h \in Timer : Expire(h)
  \/ \E t \in Task : TaskStep(t)
  \/ StopTask
  \/ StartKillTimer
  \/ JoinTimerTask

CloseStep ==
  \/ StartKillTimer
  \/ JoinTimerTask
  \/ closing = "create" /\ \E c \in Client : FindSignal(c)
  \/ closing = "join" /\ \E h \in Timer : Expire(h)

\* Threads run: a call in progress finishes, TimerTask goes on, the destructor
\* goes on, and while it waits the timers that are armed expire.
Fairness ==
  /\ \A c \in Client : WF_vars(ClientStep(c))
  /\ \A t \in Task : WF_vars(TaskStep(t))
  /\ WF_vars(CloseStep)

Spec == Init /\ [][Next]_vars /\ Fairness

-----------------------------------------------------------------------------
\* Types; a client holds the mutex exactly between freeing and erasing an entry.
TypeOK ==
  /\ timer_signal_set \subseteq Signal
  /\ listMemory \in Seq([hndl : Timer, signo : Signal])
  /\ timers_mutex \in Client \cup {NoClient}
  /\ timer_task_handle \in Task \cup {NoTask}
  /\ timer_task_run \in BOOLEAN
  /\ arm \in [Timer -> Arming \cup {"none", "deleted"}]
  /\ owner \in [Timer -> Client \cup {NoClient}]
  /\ pending \subseteq [sig : Signal, by : Timer]
  /\ freed \subseteq Timer
  /\ cpc \in [Client -> {"idle", "add", "push", "spawn", "pause", "free", "erase"}]
  /\ csig \in [Client -> Signal]
  /\ ctmr \in [Client -> Timer \cup {NoTimer}]
  /\ saved \in [Timer -> Arming]
  /\ tpc \in [Task -> {"unborn", "wait", "got", "found", "exit"}]
  /\ tsig \in [Task -> Signal]
  /\ tby \in [Task -> Timer \cup {NoTimer}]
  /\ ta \in [Task -> Timer \cup {NoTimer}]
  /\ closing \in {"no", "create", "creating", "start", "join", "done"}
  /\ crashed \in BOOLEAN
  /\ shots \in [Timer -> {-1, 0, 1}]
  /\ overlapped \in BOOLEAN
  /\ quiet \subseteq Timer
  /\ pausedLate \subseteq Timer
  /\ \A c \in Client : cpc[c] = "erase" <=> timers_mutex = c

\* "Find unused timer signal" (Kernel.cpp:884): no two timers in the list raise
\* the same signal, for TimerTask would call the first one for both.
UnusedSignal ==
  \A i, j \in 1..Len(listMemory) :
    listMemory[i].signo = listMemory[j].signo => i = j

\* The signals of listed timers differ unless two clients were once choosing a
\* signal at the same time: DestroyTimer never gives one back too early.
SharedSignalNeedsOverlap == overlapped \/ UnusedSignal

\* A callback is called for its own timer's expiry, or for one that a timer
\* destroyed since had left pending on a signal that was given out again.
OwnExpiry ==
  \A t \in Task : tpc[t] = "found" =>
    overlapped \/ ta[t] = tby[t] \/ arm[tby[t]] = "deleted"

\* A timer destroyed while nothing on its signal was on the way to TimerTask is
\* never called through freed callback data.
QuietDestroyIsSafe ==
  \A t \in Task : tpc[t] = "found" /\ ta[t] \in freed =>
    overlapped \/ ta[t] \notin quiet

\* A one-shot expires once for each StartTimer, however it is paused and
\* resumed, unless it expired between the read and the write of PauseTimer.
OneShotFiresOnce == \A h \in Timer : shots[h] >= 0 \/ h \in pausedLate

\* "Create timer thread, if not already exists" (Kernel.cpp:934)
OneTimerTask == \A t, u \in Task : tpc[t] # "unborn" /\ tpc[u] # "unborn" => t = u

\* The destructor returns, or with no signal free for its last timer ends the
\* process, unless two first CreateTimer calls made two threads: it wakes one.
DestructorReturns ==
  (closing = "create" /\ OneTimerTask) ~> (closing = "done" \/ crashed)

PendingBy(h) == \E n \in pending : n.by = h
Lower(h) == \E n, m \in pending : m.by = h /\ n.sig < m.sig
Answered(h) == \E t \in Task : tpc[t] = "found" /\ ta[t] = h

\* A queued expiry reaches its callback unless the timer is destroyed, the
\* module goes away, or lower signals keep coming in ahead of it.
ExpiryAnswered ==
  \A h \in Timer :
    <>[]~Lower(h) =>
      (PendingBy(h) ~> (\/ Answered(h) \/ arm[h] = "deleted" \/ overlapped
                        \/ closing # "no" \/ crashed))
==============================================================================
