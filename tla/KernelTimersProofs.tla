------------------------- MODULE KernelTimersProofs -------------------------
(***************************************************************************)
(* Proofs about KernelTimers, for every number of clients, tasks, signals  *)
(* and timers.  The inductive invariant is                                 *)
(*                                                                         *)
(*    TypeOK /\ Calls /\ Handles /\ Ending /\ List /\ Signals /\ Routed    *)
(*           /\ OwnExpiry /\ NothingOnTheWay /\ Shots                      *)
(*                                                                         *)
(* Calls to List say which timer each call has in hand and which entries   *)
(* listMemory has; they hold in all states.  Signals and NothingOnTheWay   *)
(* hold until two clients have been choosing a signal at once: the signals *)
(* of the entries and of the timers about to be pushed differ, but for the *)
(* entry that is being erased, whose signal may have been chosen already.  *)
(***************************************************************************)
EXTENDS KernelTimers, FiniteSetTheorems, SequenceTheorems,
        WellFoundedInduction, TLAPS

-----------------------------------------------------------------------------
(* The inductive invariant *)

Place == 1..Len(listMemory)
Listed(h) == \E i \in Place : listMemory[i].hndl = h
Leaving == {"free", "erase"}

\* Which timer a call has in hand, and what has been done to it.
Calls ==
  /\ \A c \in Client : cpc[c] \in {"push", "spawn", "pause"} =>
       ctmr[c] \in Timer /\ arm[ctmr[c]] \in Arming /\ owner[ctmr[c]] = c
  /\ \A c \in Client : cpc[c] = "push" => saved[ctmr[c]] = "off"
  /\ \A c \in Client : cpc[c] \in Leaving =>
       ctmr[c] \in Timer /\ arm[ctmr[c]] = "deleted"
  /\ \A c, d \in Client :
       {cpc[c], cpc[d]} \subseteq Leaving /\ ctmr[c] = ctmr[d] => c = d
  /\ \A h \in Timer : arm[h] = "none" => saved[h] = "off"

\* Handles are given out in order; there is one left for each client that is
\* choosing a signal and, until it is taken, one for the destructor.
Spare == IF closing \in {"no", "create"} THEN 1 ELSE 0
Handles ==
  /\ \A h, k \in Timer : arm[h] # "none" /\ k <= h => arm[k] # "none"
  /\ IsFiniteSet(Choosing)
  /\ Cardinality(Uncreated) >= Cardinality(Choosing) + Spare

\* Once the destructor runs, the clients do nothing but create its timer, and
\* that one is the newest.
Newest(h) ==
  h \in Timer /\ arm[h] # "none" /\ \A k \in Timer : arm[k] # "none" => k <= h
Ending ==
  /\ closing = "create" => \A c \in Client : cpc[c] = "idle"
  /\ closing = "creating" =>
       \E c \in Client : /\ cpc[c] \in {"add", "push"}
                         /\ cpc[c] = "push" => Newest(ctmr[c])
                         /\ \A d \in Client \ {c} : cpc[d] = "idle"
  /\ closing = "start" =>
       \E h \in Timer : Newest(h) /\ arm[h] \in Arming /\ Listed(h)
  /\ closing \in {"start", "join", "done"} =>
       \A c \in Client : cpc[c] \in {"idle", "spawn"}

\* An entry for each timer that was pushed and not erased yet.
List ==
  /\ \A i, j \in Place : listMemory[i].hndl = listMemory[j].hndl => i = j
  /\ \A i \in Place :
       \/ /\ arm[listMemory[i].hndl] \in Arming
          /\ \A c \in Client : cpc[c] = "push" => ctmr[c] # listMemory[i].hndl
       \/ /\ arm[listMemory[i].hndl] = "deleted"
          /\ \E c \in Client : cpc[c] \in Leaving
             /\ ctmr[c] = listMemory[i].hndl
  /\ \A h \in Timer : arm[h] \in Arming =>
       Listed(h) \/ \E c \in Client : cpc[c] = "push" /\ ctmr[c] = h
  /\ \A c \in Client : cpc[c] \in Leaving => Listed(ctmr[c])
  /\ \A h \in freed : arm[h] = "deleted"

\* Nobody else has the signal that a client has chosen, and nobody but a timer
\* being erased the signal of an entry.
Erasing(h) == \E c \in Client : cpc[c] = "erase" /\ ctmr[c] = h
Signals == ~overlapped =>
  /\ UnusedSignal
  /\ \A c, d \in Choosing : c = d
  /\ \A c \in Choosing : csig[c] \notin timer_signal_set
  /\ \A c \in Client : cpc[c] = "push" => csig[c] \in timer_signal_set
  /\ \A c, d \in Client :
       cpc[c] = "push" /\ cpc[d] = "push" /\ csig[c] = csig[d] => c = d
  /\ \A i \in Place : ~Erasing(listMemory[i].hndl) =>
       /\ listMemory[i].signo \in timer_signal_set
       /\ \A c \in Client : cpc[c] = "push" => csig[c] # listMemory[i].signo

\* A signal on its way is the signal of its timer's entry, while that timer is
\* not deleted; and so is the one by which TimerTask has found a timer.
Names(s, h) ==
  /\ h \in Timer
  /\ \/ arm[h] = "deleted"
     \/ \E i \in Place : listMemory[i].hndl = h /\ listMemory[i].signo = s
Routed ==
  /\ \A n \in pending : Names(n.sig, n.by)
  /\ \A t \in Task : tpc[t] \in {"got", "found"} => Names(tsig[t], tby[t])
  /\ \A t \in Task : tpc[t] = "found" => Names(tsig[t], ta[t])

\* What was quiet when it was deleted has stayed so.
NothingOnTheWay == ~overlapped =>
  /\ \A h \in quiet : arm[h] = "deleted"
  /\ \A i \in Place : listMemory[i].hndl \in quiet =>
       /\ \A n \in pending : n.sig # listMemory[i].signo
       /\ \A t \in Task : tpc[t] = "got" => tsig[t] # listMemory[i].signo
  /\ \A t \in Task : tpc[t] = "found" => ta[t] \notin quiet

\* A one-shot that is armed, or saved by PauseTimer, has its expiry to come.
Pausing(h) == \E c \in Client : cpc[c] = "pause" /\ ctmr[c] = h
Shots ==
  \A h \in Timer :
    /\ saved[h] # "off" /\ ~Pausing(h) => arm[h] = "off"
    /\ h \notin pausedLate =>
         /\ shots[h] >= 0
         /\ arm[h] = "once" => shots[h] = 1
         /\ saved[h] = "once" => shots[h] = 1 \/ (Pausing(h) /\ arm[h] # "once")

IInv == /\ TypeOK /\ Calls /\ Handles /\ Ending /\ List
        /\ Signals /\ Routed /\ OwnExpiry /\ NothingOnTheWay /\ Shots

-----------------------------------------------------------------------------
(* Constants, least numbers and the list *)

LEMMA Constants ==
  /\ NoTask \notin Task /\ NoClient \notin Client /\ NoTimer \notin Timer
  /\ SigMax \in Nat \ {0} /\ MaxTimers \in Nat \ {0}
  /\ Timer \subseteq Nat /\ Signal \subseteq Nat /\ IsFiniteSet(Timer)
  /\ 1 \in Signal
<1>1. IsFiniteSet(Timer)
  BY SizeAssumption, FS_Interval DEF Timer
<1>. QED
  BY <1>1, NoneAssumption, SizeAssumption DEF Timer, Signal

(* Every set of natural numbers that is not empty has a least element.      *)
LEMMA LeastNatural ==
  \A S \in SUBSET Nat : S # {} => \E m \in S : \A n \in S : m <= n
<1> SUFFICES ASSUME NEW S \in SUBSET Nat, S # {}
             PROVE  \E m \in S : \A n \in S : m <= n
  OBVIOUS
<1>1. PICK m \in S : \A n \in S : <<n, m>> \notin OpToRel(<, Nat)
  BY NatLessThanWellFounded, WFMin, Zenon
<1>2. \A n \in S : ~(n < m)
  BY <1>1 DEF OpToRel
<1>. QED
  BY <1>2

LEMMA LowestIsLeast ==
  ASSUME NEW S \in SUBSET Nat, S # {}
  PROVE  Lowest(S) \in S /\ \A r \in S : Lowest(S) <= r
  BY LeastNatural DEF Lowest

(* A client that is choosing a signal finds a handle for its timer.         *)
LEMMA HandleIsLeft ==
  ASSUME TypeOK, Handles, Choosing # {}
  PROVE  /\ Lowest(Uncreated) \in Timer /\ arm[Lowest(Uncreated)] = "none"
         /\ \A k \in Timer : arm[k] = "none" => Lowest(Uncreated) <= k
<1>1. Cardinality(Choosing) \in Nat /\ Cardinality(Choosing) # 0
  BY FS_CardinalityType, FS_EmptySet DEF Handles
<1>2. Uncreated # {}
  <2>1. Cardinality(Uncreated) # 0
    <3>1. IsFiniteSet(Uncreated)
      BY Constants, FS_Subset DEF Uncreated
    <3>. QED
      BY <1>1, <3>1, FS_CardinalityType DEF Handles, Spare
  <2>. QED
    BY <2>1, FS_EmptySet
<1>3. Uncreated \in SUBSET Nat
  BY Constants DEF Uncreated
<1>. QED
  BY <1>2, <1>3, LowestIsLeast DEF Uncreated

(* find_if finds the entry of a timer that is listed.                       *)
LEMMA PlaceOfListed ==
  ASSUME NEW h, Listed(h)
  PROVE  PlaceOf(h) \in Place /\ listMemory[PlaceOf(h)].hndl = h
  BY DEF Listed, Place, PlaceOf

Entry == [hndl : Timer, signo : Signal]

LEMMA EntryType ==
  ASSUME TypeOK, NEW i \in Place
  PROVE  /\ listMemory[i] \in Entry
         /\ listMemory[i].hndl \in Timer /\ listMemory[i].signo \in Signal
<1>1. listMemory[i] \in Entry
  BY ElementOfSeq DEF TypeOK, Place, Entry
<1>. QED
  BY <1>1 DEF Entry

(* The insertion: the old entries where they were, and one behind them.     *)
LEMMA Pushed ==
  ASSUME TypeOK, Calls, NEW c \in Client, PushTimer(c)
  PROVE  /\ listMemory' \in Seq(Entry)
         /\ Len(listMemory) \in Nat /\ Len(listMemory') = Len(listMemory) + 1
         /\ \A i \in Place : listMemory'[i] = listMemory[i]
         /\ listMemory'[Len(listMemory) + 1]
              = [hndl |-> ctmr[c], signo |-> csig[c]]
<1>1. [hndl |-> ctmr[c], signo |-> csig[c]] \in Entry
  BY DEF PushTimer, At, Calls, TypeOK, Entry
<1>2. listMemory \in Seq(Entry) /\ Len(listMemory) \in Nat
  BY LenProperties DEF TypeOK, Entry
<1>. QED
  BY <1>1, <1>2, AppendProperties DEF PushTimer, Place

(* What RemoveAt leaves: the elements behind the removed one move up by one. *)
LEMMA RemoveAtProperties ==
  ASSUME NEW S, NEW s \in Seq(S), NEW k \in 1..Len(s)
  PROVE  /\ RemoveAt(s, k) \in Seq(S)
         /\ Len(s) \in Nat /\ Len(RemoveAt(s, k)) = Len(s) - 1
         /\ \A i \in 1..(Len(s) - 1) :
              RemoveAt(s, k)[i] = s[IF i < k THEN i ELSE i + 1]
<1> DEFINE m == Len(s)
<1> DEFINE front == SubSeq(s, 1, k - 1)
<1> DEFINE back == SubSeq(s, k + 1, m)
<1>1. m \in Nat /\ k \in Int /\ 1 <= k /\ k <= m
  BY LenProperties
<1>2. \A i \in 1..m : s[i] \in S
  BY ElementOfSeq
<1> HIDE DEF m
<1>3. front \in Seq(S) /\ Len(front) = k - 1
      /\ \A i \in 1..(k - 1) : front[i] = s[i]
  <2>1. \A i \in 1..(k - 1) : s[i] \in S
    BY <1>1, <1>2
  <2>2. k - 1 \in Int
    BY <1>1
  <2>3. /\ front \in Seq(S)
        /\ Len(front) = IF 1 <= k - 1 THEN (k - 1) - 1 + 1 ELSE 0
        /\ \A i \in 1..((k - 1) - 1 + 1) : front[i] = s[1 + i - 1]
    BY <2>1, <2>2, SubSeqProperties
  <2> HIDE DEF front
  <2>. QED
    BY <1>1, <2>3
<1>4. /\ back \in Seq(S) /\ Len(back) = m - k
      /\ \A i \in 1..(m - k) : back[i] = s[k + i]
  <2>1. \A i \in (k + 1)..m : s[i] \in S
    BY <1>1, <1>2
  <2>2. k + 1 \in Int
    BY <1>1
  <2>3. /\ back \in Seq(S)
        /\ Len(back) = IF k + 1 <= m THEN m - (k + 1) + 1 ELSE 0
        /\ \A i \in 1..(m - (k + 1) + 1) : back[i] = s[(k + 1) + i - 1]
    BY <1>1, <2>1, <2>2, SubSeqProperties
  <2> HIDE DEF back
  <2>4. m - (k + 1) + 1 = m - k
    BY <1>1
  <2>5. \A i \in 1..(m - k) : back[i] = s[k + i]
    <3>1. \A i \in 1..(m - k) : (k + 1) + i - 1 = k + i
      BY <1>1
    <3>. QED
      BY <2>3, <2>4, <3>1
  <2>6. Len(back) = m - k
    BY <1>1, <2>3
  <2>. QED
    BY <2>3, <2>5, <2>6
<1> DEFINE r == RemoveAt(s, k)
<1>5. r = front \o back
  BY DEF RemoveAt, m
<1> HIDE DEF front, back, r
<1>6. /\ r \in Seq(S) /\ Len(r) = Len(front) + Len(back)
      /\ \A i \in 1..(Len(front) + Len(back)) :
           r[i] = IF i <= Len(front) THEN front[i] ELSE back[i - Len(front)]
  BY <1>3, <1>4, <1>5, ConcatProperties
<1>7. Len(front) + Len(back) = m - 1
  BY <1>1, <1>3, <1>4
<1>8. \A i \in 1..(m - 1) : r[i] = s[IF i < k THEN i ELSE i + 1]
  <2> SUFFICES ASSUME NEW i \in 1..(m - 1)
               PROVE  r[i] = s[IF i < k THEN i ELSE i + 1]
    OBVIOUS
  <2>1. CASE i < k
    <3>1. r[i] = front[i]
      BY <1>1, <1>3, <1>6, <1>7, <2>1
    <3>2. i \in 1..(k - 1)
      BY <1>1, <2>1
    <3>. QED
      BY <1>3, <2>1, <3>1, <3>2
  <2>2. CASE ~(i < k)
    <3>1. r[i] = back[i - (k - 1)]
      BY <1>1, <1>3, <1>6, <1>7, <2>2
    <3>2. i - (k - 1) \in 1..(m - k) /\ k + (i - (k - 1)) = i + 1
      BY <1>1, <2>2
    <3>. QED
      BY <1>4, <2>2, <3>1, <3>2
  <2>. QED
    BY <2>1, <2>2
<1>. QED
  BY <1>1, <1>6, <1>7, <1>8 DEF m, r

(* The removal: the entry of the timer goes, and the entries behind it move. *)
LEMMA Erased ==
  ASSUME TypeOK, List, NEW c \in Client, EraseTimer(c)
  PROVE  /\ listMemory' \in Seq(Entry)
         /\ Len(listMemory) \in Nat /\ Len(listMemory') = Len(listMemory) - 1
         /\ PlaceOf(ctmr[c]) \in Place
         /\ listMemory[PlaceOf(ctmr[c])].hndl = ctmr[c]
         /\ \A i \in 1..(Len(listMemory) - 1) :
              listMemory'[i] = listMemory[IF i < PlaceOf(ctmr[c]) THEN i ELSE i + 1]
<1>1. PlaceOf(ctmr[c]) \in Place /\ listMemory[PlaceOf(ctmr[c])].hndl = ctmr[c]
  BY PlaceOfListed DEF EraseTimer, At, List, Leaving
<1>2. listMemory \in Seq(Entry)
  BY DEF TypeOK, Entry
<1>3. listMemory' = RemoveAt(listMemory, PlaceOf(ctmr[c]))
  BY DEF EraseTimer
<1>. QED
  BY <1>1, <1>2, <1>3, RemoveAtProperties DEF Place

(* The same, by entries.                                                    *)
LEMMA PushedEntries ==
  ASSUME TypeOK, Calls, NEW c \in Client, PushTimer(c)
  PROVE  /\ \A i \in Place : i \in Place' /\ listMemory'[i] = listMemory[i]
         /\ \A i \in Place' : i \notin Place =>
              i = Len(listMemory) + 1
                /\ listMemory'[i] = [hndl |-> ctmr[c], signo |-> csig[c]]
         /\ Len(listMemory) + 1 \in Place'
         /\ Len(listMemory) + 1 \notin Place
  BY Pushed DEF Place

LEMMA EntriesLeft ==
  ASSUME TypeOK, List, NEW c \in Client, EraseTimer(c)
  PROVE  /\ \A i \in Place' : \E j \in Place :
              listMemory'[i] = listMemory[j] /\ listMemory[j].hndl # ctmr[c]
         /\ \A j \in Place : listMemory[j].hndl # ctmr[c] =>
              \E i \in Place' : listMemory'[i] = listMemory[j]
         /\ \A i, k \in Place' : listMemory'[i].hndl = listMemory'[k].hndl =>
            i = k
<1> DEFINE p == PlaceOf(ctmr[c])
<1> DEFINE n == Len(listMemory)
<1> DEFINE from(i) == IF i < p THEN i ELSE i + 1
<1>1. /\ n \in Nat /\ p \in 1..n /\ listMemory[p].hndl = ctmr[c]
      /\ Place = 1..n /\ Place' = 1..(n - 1)
      /\ \A i \in 1..(n - 1) : listMemory'[i] = listMemory[from(i)]
  BY Erased DEF Place
<1>2. \A i, j \in 1..n : listMemory[i].hndl = listMemory[j].hndl => i = j
  BY DEF List, Place
<1> HIDE DEF p, n
<1>3. \A i \in 1..(n - 1) : from(i) \in 1..n /\ from(i) # p
  BY <1>1
<1>4. \A j \in 1..n : j # p => \E i \in 1..(n - 1) : from(i) = j
  <2> SUFFICES ASSUME NEW j \in 1..n, j # p
               PROVE  \E i \in 1..(n - 1) : from(i) = j
    OBVIOUS
  <2>1. CASE j < p
    <3>1. j \in 1..(n - 1) /\ from(j) = j
      BY <1>1, <2>1
    <3>. QED
      BY <3>1
  <2>2. CASE j > p
    <3>1. j - 1 \in 1..(n - 1) /\ from(j - 1) = j
      BY <1>1, <2>2
    <3>. QED
      BY <3>1
  <2>. QED
    BY <1>1, <2>1, <2>2
<1>5. \A i, k \in 1..(n - 1) : from(i) = from(k) => i = k
  BY <1>1
<1> HIDE DEF from
<1>6. \A i \in 1..(n - 1) : listMemory[from(i)].hndl # ctmr[c]
  BY <1>1, <1>2, <1>3
<1>7. \A i, k \in 1..(n - 1) :
        listMemory'[i].hndl = listMemory'[k].hndl => i = k
  BY <1>1, <1>2, <1>3, <1>5
<1>8. \A i \in 1..(n - 1) : \E j \in 1..n :
        listMemory'[i] = listMemory[j] /\ listMemory[j].hndl # ctmr[c]
  BY <1>1, <1>3, <1>6
<1>9. \A j \in 1..n : listMemory[j].hndl # ctmr[c] =>
        \E i \in 1..(n - 1) : listMemory'[i] = listMemory[j]
  BY <1>1, <1>4
<1>. QED
  BY <1>1, <1>7, <1>8, <1>9

-----------------------------------------------------------------------------
(* The initial states *)

LEMMA InitInv == Init => IInv
<1> SUFFICES ASSUME Init PROVE IInv
  OBVIOUS
<1>1. Place = {} /\ Len(listMemory) = 0
  BY EmptySeq DEF Init, Place
<1>2. TypeOK
  <2>1. listMemory \in Seq([hndl : Timer, signo : Signal])
    BY EmptySeq DEF Init
  <2>. QED
    BY <2>1, Constants DEF Init, TypeOK, Arming
<1>3. Calls /\ Ending /\ List /\ Routed /\ OwnExpiry /\ NothingOnTheWay
  BY <1>1 DEF Init, Calls, Ending, List, Routed, OwnExpiry, NothingOnTheWay,
       Leaving, Arming
<1>4. Handles
  <2>1. Choosing = {} /\ Uncreated = Timer
    BY DEF Init, Choosing, Uncreated
  <2>2. Cardinality(Timer) = MaxTimers
    BY SizeAssumption, FS_Interval DEF Timer
  <2>. QED
    BY <2>1, <2>2, Constants, FS_EmptySet DEF Init, Handles, Spare
<1>5. Signals
  BY <1>1 DEF Init, Signals, UnusedSignal, Choosing
<1>6. Shots
  BY DEF Init, Shots
<1>. QED
  BY <1>2, <1>3, <1>4, <1>5, <1>6 DEF IInv

CallStage == {"idle", "add", "push", "spawn", "pause", "free", "erase"}
TaskStage == {"unborn", "wait", "got", "found", "exit"}

(* What a call leaves when it returns, and what a turn of TimerTask leaves.  *)
LEMMA Returned ==
  ASSUME TypeOK, NEW c \in Client, Return(c)
  PROVE  /\ csig' \in [Client -> Signal]
         /\ ctmr' \in [Client -> Timer \cup {NoTimer}]
         /\ cpc' \in [Client -> CallStage]
         /\ \A d \in Client : cpc'[d] = IF d = c THEN "idle" ELSE cpc[d]
         /\ \A d \in Client : d # c => ctmr'[d] = ctmr[d] /\ csig'[d] = csig[d]
<1>1. 1 \in Signal
  BY Constants
<1>. QED
  BY <1>1 DEF TypeOK, CallStage, TaskStage, Return

LEMMA Looped ==
  ASSUME TypeOK, NEW t \in Task, LoopAgain(t)
  PROVE  /\ tpc' \in [Task -> TaskStage]
         /\ tsig' \in [Task -> Signal]
            /\ tby' \in [Task -> Timer \cup {NoTimer}]
         /\ ta' \in [Task -> Timer \cup {NoTimer}]
         /\ tpc'[t] \in {"wait", "exit"}
         /\ \A u \in Task \ {t} : /\ tpc'[u] = tpc[u] /\ tsig'[u] = tsig[u]
                                  /\ tby'[u] = tby[u] /\ ta'[u] = ta[u]
<1>1. 1 \in Signal
  BY Constants
<1>2. (IF timer_task_run THEN "wait" ELSE "exit") \in {"wait", "exit"}
  OBVIOUS
<1> DEFINE pc == IF timer_task_run THEN "wait" ELSE "exit"
<1>3. tpc' = [tpc EXCEPT ![t] = pc] /\ pc \in {"wait", "exit"}
  BY <1>2 DEF LoopAgain
<1> HIDE DEF pc
<1>4. /\ tpc' \in [Task -> TaskStage]
      /\ tpc'[t] \in {"wait", "exit"} /\ \A u \in Task \ {t} : tpc'[u] = tpc[u]
  BY <1>3 DEF TypeOK, CallStage, TaskStage
<1>. QED
  BY <1>1, <1>4 DEF TypeOK, CallStage, TaskStage, LoopAgain

(* Handles stay as they are while no client starts or ends choosing.        *)
LEMMA HandlesKept ==
  ASSUME Handles, Choosing' = Choosing, Spare' <= Spare,
         \A h \in Timer : arm'[h] = "none" <=> arm[h] = "none"
  PROVE  Handles'
<1>1. Uncreated' = Uncreated
  BY DEF Uncreated
<1>2. Cardinality(Uncreated) \in Nat /\ Cardinality(Choosing) \in Nat
  <2>1. IsFiniteSet(Uncreated)
    BY Constants, FS_Subset DEF Uncreated
  <2>. QED
    BY <2>1, FS_CardinalityType DEF Handles
<1>3. Spare \in Int /\ Spare' \in Int
  BY DEF Spare
<1>4. Cardinality(Uncreated') >= Cardinality(Choosing') + Spare'
  BY <1>1, <1>2, <1>3 DEF Handles
<1>. QED
  BY <1>4 DEF Handles

(* The entries stay accounted for while none comes or goes and no timer is   *)
(* created or deleted.                                                      *)
LEMMA ListKept ==
  ASSUME TypeOK, List, listMemory' = listMemory,
         \A d \in Client : /\ cpc'[d] = "push" <=> cpc[d] = "push"
                           /\ cpc'[d] \in Leaving <=> cpc[d] \in Leaving
                           /\ cpc'[d] \in {"push", "free", "erase"} =>
                              ctmr'[d] = ctmr[d],
         \A h \in Timer : /\ arm'[h] \in Arming <=> arm[h] \in Arming
                          /\ arm'[h] = "deleted" <=> arm[h] = "deleted",
         \A h \in freed' : h \in freed \/ (h \in Timer /\ arm[h] = "deleted")
  PROVE  List'
<1>1. \A i \in Place : listMemory[i].hndl \in Timer
  BY EntryType
<1>2. Place' = Place
  BY DEF Place
<1>3. \A d \in Client : cpc'[d] \in Leaving =>
      \E i \in Place : listMemory[i].hndl = ctmr'[d]
  BY DEF List, Listed, Leaving
<1>4. \A h \in Timer : arm'[h] \in Arming =>
        \/ \E i \in Place : listMemory[i].hndl = h
        \/ \E d \in Client : cpc'[d] = "push" /\ ctmr'[d] = h
  BY DEF List, Listed
<1>5. \A h \in freed' : arm'[h] = "deleted"
  BY DEF List, TypeOK
<1>6. \A i \in Place :
       \/ /\ arm'[listMemory[i].hndl] \in Arming
          /\ \A d \in Client : cpc'[d] = "push" => ctmr'[d] # listMemory[i].hndl
       \/ /\ arm'[listMemory[i].hndl] = "deleted"
          /\ \E d \in Client : cpc'[d] \in Leaving
             /\ ctmr'[d] = listMemory[i].hndl
  BY <1>1 DEF List, Leaving
<1>. QED
  BY <1>2, <1>3, <1>4, <1>5, <1>6 DEF List, Listed

(* The same for the signals, and for what a signal on its way stands for.    *)
LEMMA SignalsKept ==
  ASSUME Signals, listMemory' = listMemory,
         timer_signal_set' = timer_signal_set, overlapped' = overlapped,
         \A d \in Client : /\ cpc'[d] = "add" <=> cpc[d] = "add"
                           /\ cpc'[d] = "push" <=> cpc[d] = "push"
                           /\ cpc'[d] = "erase" <=> cpc[d] = "erase"
                           /\ cpc'[d] \in {"add", "push"} => csig'[d] = csig[d]
                           /\ cpc'[d] = "erase" => ctmr'[d] = ctmr[d]
  PROVE  Signals'
<1>1. \A h : Erasing(h)' <=> Erasing(h)
  BY DEF Erasing
<1>2. Place' = Place /\ Choosing' = Choosing /\ UnusedSignal' = UnusedSignal
  BY DEF Place, Choosing, UnusedSignal
<1>. QED
  BY <1>1, <1>2 DEF Signals, Choosing

LEMMA NamesKept ==
  ASSUME \A i \in Place : \/ listMemory[i].hndl \in Timer =>
                             arm'[listMemory[i].hndl] = "deleted"
                          \/ \E k \in Place' : listMemory'[k] = listMemory[i],
         \A h \in Timer : arm[h] = "deleted" => arm'[h] = "deleted",
         NEW s, NEW h, Names(s, h)
  PROVE  Names(s, h)'
  BY DEF Names

(* A timer that is deleted stays so: handles are not reused.                *)
LEMMA DeletedStays ==
  TypeOK /\ Calls /\ Handles /\ Ending /\ [Next]_vars
    => \A g \in Timer : arm[g] = "deleted" => arm'[g] = "deleted"
<1> SUFFICES ASSUME TypeOK, Calls, Handles, Ending, [Next]_vars,
                    NEW g \in Timer, arm[g] = "deleted"
             PROVE  arm'[g] = "deleted"
  OBVIOUS
<1>1. ASSUME NEW c \in Client, AddSignal(c)
      PROVE  arm'[g] = "deleted"
  <2>1. Lowest(Uncreated) # g
    BY <1>1, HandleIsLeft DEF AddSignal, At, Choosing
  <2>. QED
    BY <1>1, <2>1 DEF AddSignal, TypeOK
<1>2. ASSUME NEW c \in Client, NEW h \in Timer,
             \/ \E kind \in {"once", "every"} : StartTimer(c, h, kind)
             \/ StopTimer(c, h)
             \/ ResumeTimer(c, h)
      PROVE  arm'[g] = "deleted"
  <2>1. arm[h] \in Arming
    BY <1>2 DEF StartTimer, StopTimer, ResumeTimer, MaySet, Owned
  <2>2. \E kind : arm' = [arm EXCEPT ![h] = kind]
    BY <1>2 DEF StartTimer, StopTimer, ResumeTimer, Begin, SetTimer
  <2>. QED
    BY <2>1, <2>2 DEF TypeOK, Arming
<1>3. ASSUME NEW c \in Client, PauseStop(c)
      PROVE  arm'[g] = "deleted"
  BY <1>3 DEF PauseStop, At, SetTimer, Calls, TypeOK, Arming
<1>4. ASSUME NEW c \in Client, NEW h \in Timer, DeleteTimer(c, h)
      PROVE  arm'[g] = "deleted"
  BY <1>4 DEF DeleteTimer, TypeOK
<1>5. ASSUME NEW h \in Timer, Expire(h)
      PROVE  arm'[g] = "deleted"
  BY <1>5 DEF Expire, TypeOK
<1>6. ASSUME StartKillTimer
      PROVE  arm'[g] = "deleted"
  <2>1. PICK h \in Timer : Newest(h) /\ arm[h] \in Arming
    BY <1>6 DEF StartKillTimer, Closing, Ending
  <2>2. PICK k \in Timer : /\ \A i \in Timer : arm[i] # "none" => i <= k
                           /\ arm[k] # "none" /\ Begin(k, "once")
    BY <1>6 DEF StartKillTimer
  <2>3. k = h
    BY <2>1, <2>2, Constants DEF Newest
  <2>. QED
    BY <2>1, <2>2, <2>3 DEF Begin, SetTimer, TypeOK, Arming
<1>7. CASE UNCHANGED arm
  BY <1>7
<1>8. ASSUME NEW c \in Client, ClientCall(c) \/ ClientStep(c)
      PROVE  arm'[g] = "deleted"
  <2>1. ASSUME NEW h \in Timer, PauseTimer(c, h)
        PROVE  UNCHANGED arm
    BY <2>1 DEF PauseTimer
  <2>2. CASE \/ FindSignal(c) \/ PushTimer(c) \/ SpawnTask(c)
             \/ FreeTimer(c) \/ EraseTimer(c)
    BY <1>7, <2>2
       DEF FindSignal, PushTimer, SpawnTask, FreeTimer, EraseTimer, posixVars
  <2>. QED
    BY <1>1, <1>2, <1>3, <1>4, <1>7, <1>8, <2>1, <2>2 DEF ClientCall, ClientStep
<1>9. ASSUME NEW t \in Task, TaskStep(t)
      PROVE  UNCHANGED arm
  BY <1>9 DEF TaskStep, WaitSignal, Lookup, Callback, posixVars
<1>10. ASSUME StopTask \/ JoinTimerTask \/ UNCHANGED vars
       PROVE  UNCHANGED arm
  BY <1>10 DEF StopTask, JoinTimerTask, posixVars, vars
<1>. QED
  BY <1>5, <1>6, <1>7, <1>8, <1>9, <1>10 DEF Next

-----------------------------------------------------------------------------
(* Every step keeps each part of the invariant. *)

(* Types: a timer in hand is a timer, the lowest free signal is a signal.   *)
LEMMA TypeStep ==
  TypeOK /\ Calls /\ Handles /\ List /\ [Next]_vars
    => TypeOK'
<1> SUFFICES ASSUME TypeOK, Calls, Handles, List, [Next]_vars
             PROVE  TypeOK'
  OBVIOUS
<1>1. ASSUME NEW c \in Client, FindSignal(c)
      PROVE  TypeOK'
  <2>1. FreeSignals # {} => Lowest(FreeSignals) \in Signal
    BY Constants, LowestIsLeast DEF FreeSignals
  <2>2. csig' \in [Client -> Signal] /\ crashed' \in BOOLEAN
        /\ overlapped' \in BOOLEAN
    <3>1. CASE FreeSignals = {}
      BY <1>1, <3>1
         DEF FindSignal, MayCreate, clientVars, TypeOK, CallStage, TaskStage
    <3>2. CASE FreeSignals # {}
      BY <1>1, <2>1, <3>2 DEF FindSignal, TypeOK, CallStage, TaskStage
    <3>. QED
      BY <3>1, <3>2
  <2>3. /\ cpc' \in [Client -> CallStage]
        /\ ctmr' = ctmr
        /\ closing' \in {"no", "create", "creating", "start", "join", "done"}
        /\ timers_mutex' = timers_mutex
        /\ \A d \in Client : cpc'[d] = "erase" <=> timers_mutex' = d
    BY <1>1
       DEF FindSignal, MayCreate, At, clientVars, listVars, TypeOK, CallStage,
           TaskStage
  <2>4. UNCHANGED <<listVars, threadVars, posixVars, taskVars, shots, quiet,
                    pausedLate>>
    BY <1>1 DEF FindSignal
  <2>. QED
    BY <2>2, <2>3, <2>4
    DEF TypeOK, CallStage, TaskStage, listVars, threadVars, posixVars, taskVars
<1>2. ASSUME NEW c \in Client, AddSignal(c)
      PROVE  TypeOK'
  <2>1. Lowest(Uncreated) \in Timer
    BY <1>2, HandleIsLeft DEF AddSignal, At, Choosing
  <2>2. timer_signal_set' \subseteq Signal
    BY <1>2 DEF AddSignal, TypeOK, CallStage, TaskStage
  <2>3. /\ arm' \in [Timer -> Arming \cup {"none", "deleted"}]
        /\ owner' \in [Timer -> Client \cup {NoClient}]
        /\ ctmr' \in [Client -> Timer \cup {NoTimer}]
    BY <1>2, <2>1 DEF AddSignal, TypeOK, CallStage, TaskStage, Arming
  <2>4. /\ cpc' \in [Client -> CallStage]
        /\ \A d \in Client : cpc'[d] = "erase" <=> timers_mutex' = d
    BY <1>2 DEF AddSignal, At, TypeOK, CallStage, TaskStage
  <2>. QED
    BY <1>2, <2>2, <2>3, <2>4
    DEF AddSignal, threadVars, taskVars, historyVars, TypeOK, CallStage,
       TaskStage, Arming
<1>3. ASSUME NEW c \in Client, PushTimer(c)
      PROVE  TypeOK'
  <2>1. listMemory' \in Seq([hndl : Timer, signo : Signal])
    BY <1>3, Pushed DEF Entry
  <2>2. /\ csig' \in [Client -> Signal]
        /\ ctmr' \in [Client -> Timer \cup {NoTimer}]
        /\ cpc' \in [Client -> CallStage]
        /\ \A d \in Client : cpc'[d] = "erase" <=> timers_mutex' = d
    <3>1. CASE timer_task_handle # NoTask
      BY <1>3, <3>1, Constants, Returned
         DEF PushTimer, At, TypeOK, CallStage, TaskStage
    <3>2. CASE timer_task_handle = NoTask
      BY <1>3, <3>2, Constants DEF PushTimer, At, TypeOK, CallStage, TaskStage
    <3>. QED
      BY <3>1, <3>2
  <2>3. closing' \in {"no", "create", "creating", "start", "join", "done"}
    BY <1>3 DEF PushTimer, TypeOK, CallStage, TaskStage
  <2>. QED
    BY <1>3, <2>1, <2>2, <2>3
    DEF PushTimer, threadVars, posixVars, taskVars, historyVars, TypeOK,
       CallStage, TaskStage
<1>4. ASSUME NEW c \in Client, SpawnTask(c)
      PROVE  TypeOK'
  <2>1. /\ csig' \in [Client -> Signal]
        /\ ctmr' \in [Client -> Timer \cup {NoTimer}]
        /\ cpc' \in [Client -> CallStage]
        /\ \A d \in Client : cpc'[d] = "erase" <=> timers_mutex' = d
    BY <1>4, Constants
       DEF SpawnTask, Return, At, listVars, TypeOK, CallStage, TaskStage
  <2>2. /\ tpc' \in [Task -> TaskStage]
        /\ timer_task_handle' \in Task \cup {NoTask} /\ crashed' \in BOOLEAN
    BY <1>4 DEF SpawnTask, TypeOK, CallStage, TaskStage
  <2>. QED
    BY <1>4, <2>1, <2>2
    DEF SpawnTask, listVars, posixVars, historyVars, TypeOK, CallStage,
       TaskStage
<1>5. ASSUME NEW c \in Client, NEW h \in Timer, NEW kind \in {"once", "every"},
   StartTimer(c, h, kind)
      PROVE  TypeOK'
  BY <1>5, Constants
     DEF StartTimer, Begin, MaySet, SetTimer, At, Owned, clientVars, taskVars,
         threadVars, listVars, TypeOK, Signal, Arming, Leaving
<1>6. ASSUME NEW c \in Client, NEW h \in Timer, StopTimer(c, h)
      PROVE  TypeOK'
  BY <1>6, Constants
     DEF StopTimer, Begin, MaySet, SetTimer, At, Owned, clientVars, taskVars,
         threadVars, listVars, TypeOK, Signal, Arming, Leaving
<1>7. ASSUME NEW c \in Client, NEW h \in Timer, PauseTimer(c, h)
      PROVE  TypeOK'
  BY <1>7, Constants
     DEF PauseTimer, MaySet, At, Owned, taskVars, threadVars, listVars,
         historyVars, TypeOK, Signal, Arming, Leaving
<1>8. ASSUME NEW c \in Client, PauseStop(c)
      PROVE  TypeOK'
  <2>1. ctmr[c] \in Timer
    BY <1>8 DEF PauseStop, At, Calls
  <2>2. /\ csig' \in [Client -> Signal]
        /\ ctmr' \in [Client -> Timer \cup {NoTimer}]
        /\ cpc' \in [Client -> CallStage]
        /\ \A d \in Client : cpc'[d] = "erase" <=> timers_mutex' = d
    BY <1>8, Constants
       DEF PauseStop, SetTimer, Return, At, listVars, TypeOK, CallStage,
           TaskStage
  <2>3. pausedLate' \subseteq Timer
    BY <1>8, <2>1 DEF PauseStop, TypeOK, CallStage, TaskStage
  <2>. QED
    BY <1>8, <2>1, <2>2, <2>3
    DEF PauseStop, SetTimer, listVars, threadVars, taskVars, TypeOK, CallStage,
       TaskStage, Arming
<1>9. ASSUME NEW c \in Client, NEW h \in Timer, ResumeTimer(c, h)
      PROVE  TypeOK'
  BY <1>9, Constants
     DEF ResumeTimer, SetTimer, MaySet, At, Owned, clientVars, taskVars,
         threadVars, listVars, TypeOK, Signal, Arming, Leaving
<1>10. ASSUME NEW c \in Client, NEW h \in Timer, DeleteTimer(c, h)
      PROVE  TypeOK'
  BY <1>10, Constants
     DEF DeleteTimer, MaySet, At, Owned, taskVars, threadVars, listVars, TypeOK,
         Signal, Arming, Leaving
<1>11. ASSUME NEW c \in Client, FreeTimer(c)
      PROVE  TypeOK'
  <2>1. ctmr[c] \in Timer
    BY <1>11 DEF FreeTimer, At, Calls, Leaving
  <2>2. /\ cpc' \in [Client -> CallStage]
        /\ timers_mutex' \in Client \cup {NoClient}
        /\ \A d \in Client : cpc'[d] = "erase" <=> timers_mutex' = d
    BY <1>11, Constants DEF FreeTimer, At, TypeOK, CallStage, TaskStage
  <2>. QED
    BY <1>11, <2>1, <2>2
    DEF FreeTimer, threadVars, posixVars, taskVars, historyVars, TypeOK,
       CallStage, TaskStage
<1>12. ASSUME NEW c \in Client, EraseTimer(c)
      PROVE  TypeOK'
  <2>1. listMemory' \in Seq([hndl : Timer, signo : Signal])
    BY <1>12, Erased DEF Entry
  <2>2. /\ csig' \in [Client -> Signal]
        /\ ctmr' \in [Client -> Timer \cup {NoTimer}]
        /\ cpc' \in [Client -> CallStage]
        /\ timers_mutex' = NoClient
        /\ \A d \in Client : cpc'[d] = "erase" <=> timers_mutex' = d
    BY <1>12, Constants DEF EraseTimer, Return, At, TypeOK, CallStage, TaskStage
  <2>. QED
    BY <1>12, <2>1, <2>2
    DEF EraseTimer, threadVars, posixVars, taskVars, historyVars, TypeOK,
       CallStage, TaskStage
<1>13. ASSUME NEW h \in Timer, Expire(h)
      PROVE  TypeOK'
  <2>1. \A s \in SignalsOf(h) : s \in Signal
    BY EntryType DEF SignalsOf, Place
  <2>2. pending' \subseteq [sig : Signal, by : Timer]
    BY <1>13, <2>1 DEF Expire, TypeOK, CallStage, TaskStage
  <2>3. shots' \in [Timer -> {-1, 0, 1}]
    <3>1. shots[h] \in {-1, 0, 1} /\ (~(shots[h] < 0) => shots[h] - 1 \in {-1,
       0, 1})
      BY DEF TypeOK, CallStage, TaskStage
    <3>. QED
      BY <1>13, <3>1 DEF Expire, TypeOK, CallStage, TaskStage
  <2>4. arm' \in [Timer -> Arming \cup {"none", "deleted"}]
    BY <1>13 DEF Expire, TypeOK, CallStage, TaskStage, Arming
  <2>. QED
    BY <1>13, <2>2, <2>3, <2>4
    DEF Expire, listVars, threadVars, clientVars, taskVars, TypeOK, CallStage,
       TaskStage
<1>14. ASSUME NEW t \in Task, WaitSignal(t)
      PROVE  TypeOK'
  BY <1>14, Constants
     DEF WaitSignal, TaskAt, clientVars, threadVars, listVars, historyVars,
         TypeOK, Signal, Arming, Leaving
<1>15. ASSUME NEW t \in Task, Lookup(t)
      PROVE  TypeOK'
  <2> DEFINE M == {i \in 1..Len(listMemory) : listMemory[i].signo = tsig[t]}
  <2>1. /\ tpc' \in [Task -> TaskStage]
        /\ tsig' \in [Task -> Signal] /\ tby' \in [Task -> Timer \cup {NoTimer}]
        /\ ta' \in [Task -> Timer \cup {NoTimer}]
    <3>1. CASE M = {}
      BY <1>15, <3>1, Looped DEF Lookup, FindIn
    <3>2. CASE M # {}
      <4>1. Lowest(M) \in Place
        <5>1. M \in SUBSET Nat
          OBVIOUS
        <5>. QED
          BY <3>2, <5>1, LowestIsLeast DEF Place
      <4>2. listMemory[Lowest(M)].hndl \in Timer
        BY <4>1, EntryType
      <4>. QED
        BY <1>15, <3>2, <4>2 DEF Lookup, FindIn, TypeOK, CallStage, TaskStage
    <3>. QED
      BY <3>1, <3>2
  <2>. QED
    BY <1>15, <2>1
    DEF Lookup, listVars, threadVars, posixVars, clientVars, historyVars,
       TypeOK, CallStage, TaskStage
<1>16. ASSUME NEW t \in Task, Callback(t)
      PROVE  TypeOK'
  <2>1. /\ tpc' \in [Task -> TaskStage]
        /\ tsig' \in [Task -> Signal] /\ tby' \in [Task -> Timer \cup {NoTimer}]
        /\ ta' \in [Task -> Timer \cup {NoTimer}]
    BY <1>16, Looped DEF Callback
  <2>2. crashed' \in BOOLEAN
    <3>1. {FALSE, ta[t] \in freed} \subseteq BOOLEAN
      OBVIOUS
    <3>2. crashed' \in {FALSE, ta[t] \in freed}
      BY <1>16 DEF Callback
    <3>. QED
      BY <3>1, <3>2, Zenon
  <2>. QED
    BY <1>16, <2>1, <2>2
    DEF Callback, listVars, threadVars, posixVars, clientVars, historyVars,
       TypeOK, CallStage, TaskStage
<1>17. CASE StopTask
  BY <1>17, Constants
     DEF StopTask, Closing, clientVars, taskVars, listVars, posixVars,
         historyVars, TypeOK, Signal, Arming, Leaving
<1>18. CASE StartKillTimer
  BY <1>18, Constants
     DEF StartKillTimer, Begin, Closing, SetTimer, clientVars, taskVars,
         threadVars, listVars, TypeOK, Signal, Arming, Leaving
<1>19. CASE JoinTimerTask
  BY <1>19, Constants
     DEF JoinTimerTask, Closing, clientVars, taskVars, threadVars, listVars,
         posixVars, historyVars, TypeOK, Signal, Arming, Leaving
<1>20. CASE UNCHANGED <<timer_signal_set, listMemory, timers_mutex,
                        timer_task_handle, timer_task_run, arm, owner, pending,
                        freed, cpc, csig, ctmr, saved, tpc, tsig, tby, ta,
                        closing, crashed, shots, overlapped, quiet,
                        pausedLate>>
  BY <1>20 DEF TypeOK, Signal, Arming, Leaving
<1>. QED
  BY <1>1, <1>2, <1>3, <1>4, <1>5, <1>6, <1>7, <1>8, <1>9, <1>10, <1>11, <1>12,
     <1>13, <1>14, <1>15, <1>16, <1>17, <1>18, <1>19, <1>20
     DEF Next, ClientCall, ClientStep, TaskStep, vars, clientVars, taskVars,
         threadVars, listVars, posixVars, historyVars

(* Calls: a timer in hand belongs to the call that has it.                  *)
LEMMA CallsStep ==
  TypeOK /\ Calls /\ Handles /\ Ending /\ [Next]_vars
    => Calls'
<1> SUFFICES ASSUME TypeOK, Calls, Handles, Ending, [Next]_vars
             PROVE  Calls'
  OBVIOUS
<1>1. ASSUME NEW c \in Client, FindSignal(c)
      PROVE  Calls'
  BY <1>1
     DEF FindSignal, MayCreate, At, clientVars, posixVars, Calls, TypeOK,
         Leaving, Arming
<1>2. ASSUME NEW c \in Client, AddSignal(c)
      PROVE  Calls'
  BY <1>2, HandleIsLeft
     DEF AddSignal, At, Calls, TypeOK, Leaving, Arming, Choosing
<1>3. ASSUME NEW c \in Client, PushTimer(c)
      PROVE  Calls'
  <2>1. \A d \in Client : cpc'[d] \in {"push", "spawn", "pause", "free",
     "erase"} =>
          /\ d # c => cpc'[d] = cpc[d]
          /\ d = c => cpc'[d] = "spawn"
          /\ ctmr'[d] = ctmr[d]
    BY <1>3 DEF PushTimer, Return, At, TypeOK
  <2>2. UNCHANGED <<arm, owner, saved>> /\ cpc[c] = "push"
    BY <1>3 DEF PushTimer, At, posixVars
  <2>. QED
    BY <2>1, <2>2 DEF Calls, Leaving
<1>4. ASSUME NEW c \in Client, SpawnTask(c)
      PROVE  Calls'
  BY <1>4 DEF SpawnTask, Return, At, posixVars, Calls, TypeOK, Leaving, Arming
<1>5. ASSUME NEW c \in Client, NEW h \in Timer, NEW kind \in {"once", "every"},
   StartTimer(c, h, kind)
      PROVE  Calls'
  BY <1>5
     DEF StartTimer, Begin, MaySet, SetTimer, At, Owned, clientVars, Calls,
         TypeOK, Leaving, Arming
<1>6. ASSUME NEW c \in Client, NEW h \in Timer, StopTimer(c, h)
      PROVE  Calls'
  BY <1>6
     DEF StopTimer, Begin, MaySet, SetTimer, At, Owned, clientVars, Calls,
         TypeOK, Leaving, Arming
<1>7. ASSUME NEW c \in Client, NEW h \in Timer, PauseTimer(c, h)
      PROVE  Calls'
  BY <1>7 DEF PauseTimer, MaySet, At, Owned, Calls, TypeOK, Leaving, Arming
<1>8. ASSUME NEW c \in Client, PauseStop(c)
      PROVE  Calls'
  BY <1>8 DEF PauseStop, Return, SetTimer, At, Calls, TypeOK, Leaving, Arming
<1>9. ASSUME NEW c \in Client, NEW h \in Timer, ResumeTimer(c, h)
      PROVE  Calls'
  BY <1>9
     DEF ResumeTimer, SetTimer, MaySet, At, Owned, clientVars, Calls, TypeOK,
         Leaving, Arming
<1>10. ASSUME NEW c \in Client, NEW h \in Timer, DeleteTimer(c, h)
      PROVE  Calls'
  BY <1>10 DEF DeleteTimer, MaySet, At, Owned, Calls, TypeOK, Leaving, Arming
<1>11. ASSUME NEW c \in Client, FreeTimer(c)
      PROVE  Calls'
  BY <1>11 DEF FreeTimer, At, posixVars, Calls, TypeOK, Leaving, Arming
<1>12. ASSUME NEW c \in Client, EraseTimer(c)
      PROVE  Calls'
  BY <1>12 DEF EraseTimer, Return, At, posixVars, Calls, TypeOK, Leaving, Arming
<1>13. ASSUME NEW h \in Timer, Expire(h)
      PROVE  Calls'
  <2>1. \A k \in Timer : arm'[k] = arm[k] \/ {arm[k], arm'[k]} \subseteq Arming
    BY <1>13 DEF Expire, TypeOK, Arming
  <2>2. UNCHANGED <<cpc, ctmr, owner, saved>>
    BY <1>13 DEF Expire, clientVars
  <2>. QED
    BY <2>1, <2>2 DEF Calls, TypeOK, Leaving, Arming
<1>14. CASE StartKillTimer
  <2>1. PICK h \in Timer : arm[h] # "none" /\ Begin(h, "once")
    BY <1>14 DEF StartKillTimer
  <2>2. UNCHANGED <<cpc, ctmr, owner>> /\ closing = "start"
    BY <1>14, <2>1 DEF StartKillTimer, Closing, Begin, SetTimer, clientVars
  <2>3. \A c \in Client : cpc[c] \in {"idle", "spawn"}
    BY <2>2 DEF Ending
  <2>4. arm' = [arm EXCEPT ![h] = "once"]
        /\ saved' = [saved EXCEPT ![h] = "off"]
    BY <2>1 DEF Begin, SetTimer
  <2>. QED
    BY <2>1, <2>2, <2>3, <2>4 DEF Calls, TypeOK, Leaving, Arming
<1>15. CASE UNCHANGED <<cpc, ctmr, arm, owner, saved>>
  BY <1>15 DEF Calls, TypeOK, Leaving, Arming
<1>. QED
  BY <1>1, <1>2, <1>3, <1>4, <1>5, <1>6, <1>7, <1>8, <1>9, <1>10, <1>11, <1>12,
     <1>13, <1>14, <1>15
     DEF Next, ClientCall, ClientStep, TaskStep, vars, clientVars, posixVars,
         WaitSignal, Lookup, FindIn, LoopAgain, Callback, StopTask,
         JoinTimerTask

(* Handles: only FindSignal and AddSignal count.                            *)
LEMMA HandlesStep ==
  TypeOK /\ Calls /\ Handles /\ Ending /\ [Next]_vars
    => Handles'
<1> SUFFICES ASSUME TypeOK, Calls, Handles, Ending, [Next]_vars
             PROVE  Handles'
  OBVIOUS
<1>1. ASSUME NEW c \in Client, FindSignal(c)
      PROVE  Handles'
  <2>1. CASE FreeSignals = {}
    <3>1. UNCHANGED <<cpc, arm, closing>>
      BY <1>1, <2>1 DEF FindSignal, clientVars, posixVars
    <3>. QED
      BY <3>1 DEF Handles, Choosing, Uncreated, Spare
  <2>2. CASE FreeSignals # {}
    <3>1. Choosing' = Choosing \cup {c} /\ c \notin Choosing
      BY <1>1, <2>2 DEF FindSignal, MayCreate, At, Choosing, TypeOK
    <3>2. UNCHANGED arm /\ Uncreated' = Uncreated
      BY <1>1 DEF FindSignal, posixVars, Uncreated
    <3>3. IsFiniteSet(Choosing')
          /\ Cardinality(Choosing') = Cardinality(Choosing) + 1
      BY <3>1, FS_AddElement DEF Handles
    <3>4. Cardinality(Uncreated) \in Nat /\ Cardinality(Choosing) \in Nat
      <4>1. IsFiniteSet(Uncreated)
        BY Constants, FS_Subset DEF Uncreated
      <4>. QED
        BY <4>1, FS_CardinalityType DEF Handles
    <3>5. Cardinality(Uncreated) >= Cardinality(Choosing) + 1 + Spare'
      BY <1>1, <2>2, <3>4 DEF FindSignal, MayCreate, Handles, Spare
    <3>. QED
      BY <3>2, <3>3, <3>5 DEF Handles
  <2>. QED
    BY <2>1, <2>2
<1>2. ASSUME NEW c \in Client, AddSignal(c)
      PROVE  Handles'
  <2> DEFINE h == Lowest(Uncreated)
  <2>1. /\ h \in Timer /\ arm[h] = "none"
        /\ \A k \in Timer : arm[k] = "none" => h <= k
    BY <1>2, HandleIsLeft DEF AddSignal, At, Choosing
  <2>2. arm' = [arm EXCEPT ![h] = "off"] /\ closing' = closing
    BY <1>2 DEF AddSignal
  <2> HIDE DEF h
  <2>3. Choosing' = Choosing \ {c} /\ c \in Choosing
    BY <1>2 DEF AddSignal, At, Choosing, TypeOK
  <2>4. Uncreated' = Uncreated \ {h} /\ h \in Uncreated
    BY <2>1, <2>2 DEF Uncreated, TypeOK
  <2>5. IsFiniteSet(Uncreated)
    BY Constants, FS_Subset DEF Uncreated
  <2>6. /\ Cardinality(Uncreated) \in Nat /\ Cardinality(Choosing) \in Nat
        /\ IsFiniteSet(Choosing')
        /\ Cardinality(Uncreated') = Cardinality(Uncreated) - 1
        /\ Cardinality(Choosing') = Cardinality(Choosing) - 1
    BY <2>3, <2>4, <2>5, FS_RemoveElement, FS_CardinalityType DEF Handles
  <2>7. Cardinality(Uncreated') >= Cardinality(Choosing') + Spare'
    BY <2>2, <2>6 DEF Handles, Spare
  <2>8. \A k, l \in Timer : arm'[k] # "none" /\ l <= k => arm'[l] # "none"
    BY <2>1, <2>2, Constants DEF Handles, TypeOK
  <2>. QED
    BY <2>6, <2>7, <2>8 DEF Handles
<1>3. ASSUME NEW c \in Client, PushTimer(c)
      PROVE  Handles'
  BY <1>3, HandlesKept
     DEF PushTimer, Return, At, posixVars, TypeOK, Spare, Choosing, Arming
<1>4. ASSUME NEW c \in Client, SpawnTask(c)
      PROVE  Handles'
  BY <1>4, HandlesKept
     DEF SpawnTask, Return, At, posixVars, TypeOK, Spare, Choosing, Arming
<1>5. ASSUME NEW c \in Client, NEW h \in Timer, NEW kind \in {"once", "every"},
   StartTimer(c, h, kind)
      PROVE  Handles'
  BY <1>5, HandlesKept
     DEF StartTimer, Begin, MaySet, SetTimer, At, Owned, clientVars, TypeOK,
         Spare, Choosing, Arming
<1>6. ASSUME NEW c \in Client, NEW h \in Timer, StopTimer(c, h)
      PROVE  Handles'
  BY <1>6, HandlesKept
     DEF StopTimer, Begin, MaySet, SetTimer, At, Owned, clientVars, TypeOK,
         Spare, Choosing, Arming
<1>7. ASSUME NEW c \in Client, NEW h \in Timer, PauseTimer(c, h)
      PROVE  Handles'
  BY <1>7, HandlesKept
     DEF PauseTimer, MaySet, At, Owned, TypeOK, Spare, Choosing, Arming
<1>8. ASSUME NEW c \in Client, PauseStop(c)
      PROVE  Handles'
  <2>1. \A d \in Client : cpc'[d] = "add" <=> cpc[d] = "add"
    BY <1>8 DEF PauseStop, Return, SetTimer, At, TypeOK
  <2>2. \A k \in Timer : arm'[k] = "none" <=> arm[k] = "none"
    BY <1>8 DEF PauseStop, Return, SetTimer, At, Calls, TypeOK, Arming
  <2>3. Spare' <= Spare
    BY <1>8 DEF PauseStop, Return, SetTimer, At, Spare
  <2>. QED
    BY <2>1, <2>2, <2>3, HandlesKept DEF Choosing
<1>9. ASSUME NEW c \in Client, NEW h \in Timer, ResumeTimer(c, h)
      PROVE  Handles'
  BY <1>9, HandlesKept
     DEF ResumeTimer, SetTimer, MaySet, At, Owned, clientVars, TypeOK, Spare,
         Choosing, Arming
<1>10. ASSUME NEW c \in Client, NEW h \in Timer, DeleteTimer(c, h)
      PROVE  Handles'
  BY <1>10, HandlesKept
     DEF DeleteTimer, MaySet, At, Owned, TypeOK, Spare, Choosing, Arming
<1>11. ASSUME NEW c \in Client, FreeTimer(c)
      PROVE  Handles'
  BY <1>11, HandlesKept
     DEF FreeTimer, At, posixVars, TypeOK, Spare, Choosing, Arming
<1>12. ASSUME NEW c \in Client, EraseTimer(c)
      PROVE  Handles'
  BY <1>12, HandlesKept
     DEF EraseTimer, Return, At, posixVars, TypeOK, Spare, Choosing, Arming
<1>13. ASSUME NEW h \in Timer, Expire(h)
      PROVE  Handles'
  BY <1>13, HandlesKept DEF Expire, clientVars, TypeOK, Spare, Choosing, Arming
<1>14. CASE StopTask
  BY <1>14, HandlesKept
     DEF StopTask, Closing, clientVars, posixVars, TypeOK, Spare, Choosing,
         Arming
<1>15. CASE StartKillTimer
  <2>1. /\ UNCHANGED cpc /\ Spare' = Spare
        /\ \E h \in Timer : arm[h] # "none" /\ arm' = [arm EXCEPT ![h] = "once"]
    BY <1>15 DEF StartKillTimer, Begin, Closing, SetTimer, clientVars, Spare
  <2>2. \A k \in Timer : arm'[k] = "none" <=> arm[k] = "none"
    BY <2>1 DEF TypeOK
  <2>3. Spare' <= Spare
    BY <2>1 DEF Spare
  <2>. QED
    BY <2>1, <2>2, <2>3, HandlesKept DEF Choosing
<1>16. CASE JoinTimerTask
  BY <1>16, HandlesKept
     DEF JoinTimerTask, Closing, clientVars, posixVars, TypeOK, Spare, Choosing,
         Arming
<1>17. CASE UNCHANGED <<arm, cpc, closing>>
  BY <1>17 DEF Handles, Spare, Choosing, Uncreated
<1>. QED
  BY <1>1, <1>2, <1>3, <1>4, <1>5, <1>6, <1>7, <1>8, <1>9, <1>10, <1>11, <1>12,
     <1>13, <1>14, <1>15, <1>16, <1>17
     DEF Next, ClientCall, ClientStep, TaskStep, vars, clientVars, posixVars,
         WaitSignal, Lookup, FindIn, LoopAgain, Callback

(* Ending: with the destructor under way, no call but its own is made.      *)
LEMMA EndingStep ==
  TypeOK /\ Calls /\ Handles /\ Ending /\ List /\ [Next]_vars
    => Ending'
<1> SUFFICES ASSUME TypeOK, Calls, Handles, Ending, List, [Next]_vars
             PROVE  Ending'
  OBVIOUS
<1>1. ASSUME NEW c \in Client, FindSignal(c)
      PROVE  Ending'
  BY <1>1
     DEF FindSignal, MayCreate, At, clientVars, listVars, posixVars, Ending,
         TypeOK, Newest, Listed, Arming, Leaving, Place
<1>2. ASSUME NEW c \in Client, AddSignal(c)
      PROVE  Ending'
  <2> DEFINE h == Lowest(Uncreated)
  <2>1. /\ h \in Timer /\ arm[h] = "none"
        /\ \A k \in Timer : arm[k] = "none" => h <= k
    BY <1>2, HandleIsLeft DEF AddSignal, At, Choosing
  <2>2. /\ arm' = [arm EXCEPT ![h] = "off"] /\ ctmr' = [ctmr EXCEPT ![c] = h]
        /\ cpc[c] = "add" /\ cpc' = [cpc EXCEPT ![c] = "push"]
        /\ UNCHANGED <<closing, listMemory>>
    BY <1>2 DEF AddSignal, At
  <2> HIDE DEF h
  <2>3. arm'[h] # "none" /\ \A k \in Timer : arm'[k] # "none" => k <= h
    <3>1. \A k \in Timer : arm[k] # "none" => k <= h
      <4> SUFFICES ASSUME NEW k \in Timer, arm[k] # "none" PROVE k <= h
        OBVIOUS
      <4>1. ~(h <= k)
        BY <2>1 DEF Handles
      <4>. QED
        BY <2>1, <4>1, Constants
    <3>. QED
      BY <2>1, <2>2, <3>1, Constants DEF TypeOK
  <2>4. ctmr'[c] = h /\ cpc'[c] = "push"
        /\ \A d \in Client \ {c} : cpc'[d] = cpc[d]
    BY <2>2 DEF TypeOK
  <2>5. closing \notin {"create", "start", "join", "done"}
    BY <2>2 DEF Ending
  <2>6. closing = "creating" => \A d \in Client \ {c} : cpc[d] = "idle"
    BY <2>2 DEF Ending
  <2>. QED
    BY <2>1, <2>2, <2>3, <2>4, <2>5, <2>6 DEF Ending, Newest
<1>3. ASSUME NEW c \in Client, PushTimer(c)
      PROVE  Ending'
  <2>1. /\ cpc[c] = "push" /\ UNCHANGED arm
        /\ closing' = IF closing = "creating" THEN "start" ELSE closing
    BY <1>3 DEF PushTimer, At, posixVars
  <2>2. closing \notin {"create", "start", "join", "done"}
    BY <2>1 DEF Ending
  <2>3. CASE closing = "creating"
    <3>1. \A d \in Client \ {c} : cpc[d] = "idle"
      BY <2>1, <2>3 DEF Ending
    <3>2. Newest(ctmr[c])
      BY <2>1, <2>3, <3>1 DEF Ending
    <3>3. arm[ctmr[c]] \in Arming
      BY <2>1 DEF Calls
    <3>4. \E i \in Place' : listMemory'[i].hndl = ctmr[c]
      <4> DEFINE n == Len(listMemory) + 1
      <4>1. n \in Place' /\ n \notin Place
        BY <1>3, PushedEntries
      <4>2. listMemory'[n] = [hndl |-> ctmr[c], signo |-> csig[c]]
        BY <1>3, <4>1, PushedEntries
      <4>. QED
        BY <4>1, <4>2
    <3>5. \A h : Newest(h)' <=> Newest(h)
      BY <2>1 DEF Newest
    <3>6. \A d \in Client : cpc'[d] \in {"idle", "spawn"}
      BY <1>3, <3>1 DEF PushTimer, Return, TypeOK
    <3>. QED
      BY <2>1, <2>3, <3>2, <3>3, <3>4, <3>5, <3>6 DEF Ending, Newest, Listed
  <2>4. CASE closing = "no"
    BY <2>1, <2>4 DEF Ending
  <2>. QED
    BY <2>2, <2>3, <2>4 DEF TypeOK
<1>4. ASSUME NEW c \in Client, SpawnTask(c)
      PROVE  Ending'
  BY <1>4
     DEF SpawnTask, Return, At, listVars, posixVars, Ending, TypeOK, Newest,
         Listed, Arming, Leaving, Place
<1>5. ASSUME NEW c \in Client, NEW h \in Timer, NEW kind \in {"once", "every"},
   StartTimer(c, h, kind)
      PROVE  Ending'
  BY <1>5
     DEF StartTimer, Begin, MaySet, SetTimer, At, Owned, clientVars, listVars,
         Ending, TypeOK, Newest, Listed, Arming, Leaving, Place
<1>6. ASSUME NEW c \in Client, NEW h \in Timer, StopTimer(c, h)
      PROVE  Ending'
  BY <1>6
     DEF StopTimer, Begin, MaySet, SetTimer, At, Owned, clientVars, listVars,
         Ending, TypeOK, Newest, Listed, Arming, Leaving, Place
<1>7. ASSUME NEW c \in Client, NEW h \in Timer, PauseTimer(c, h)
      PROVE  Ending'
  BY <1>7
     DEF PauseTimer, MaySet, At, Owned, listVars, Ending, TypeOK, Newest,
         Listed, Arming, Leaving, Place
<1>8. ASSUME NEW c \in Client, PauseStop(c)
      PROVE  Ending'
  BY <1>8
     DEF PauseStop, Return, SetTimer, At, listVars, Ending, TypeOK, Newest,
         Listed, Arming, Leaving, Place
<1>9. ASSUME NEW c \in Client, NEW h \in Timer, ResumeTimer(c, h)
      PROVE  Ending'
  BY <1>9
     DEF ResumeTimer, SetTimer, MaySet, At, Owned, clientVars, listVars, Ending,
         TypeOK, Newest, Listed, Arming, Leaving, Place
<1>10. ASSUME NEW c \in Client, NEW h \in Timer, DeleteTimer(c, h)
      PROVE  Ending'
  BY <1>10
     DEF DeleteTimer, MaySet, At, Owned, listVars, Ending, TypeOK, Newest,
         Listed, Arming, Leaving, Place
<1>11. ASSUME NEW c \in Client, FreeTimer(c)
      PROVE  Ending'
  BY <1>11
     DEF FreeTimer, At, posixVars, Ending, TypeOK, Newest, Listed, Arming,
         Leaving, Place
<1>12. ASSUME NEW c \in Client, EraseTimer(c)
      PROVE  Ending'
  BY <1>12
     DEF EraseTimer, Return, At, posixVars, Ending, TypeOK, Newest, Listed,
         Arming, Leaving, Place
<1>13. ASSUME NEW h \in Timer, Expire(h)
      PROVE  Ending'
  <2>1. \A k \in Timer : arm'[k] = arm[k] \/ {arm[k], arm'[k]} \subseteq Arming
    BY <1>13 DEF Expire, TypeOK, Arming
  <2>2. UNCHANGED <<cpc, ctmr, closing, listMemory>>
    BY <1>13 DEF Expire, clientVars, listVars
  <2>3. \A k : Newest(k)' <=> Newest(k)
    BY <2>1 DEF Newest, Arming
  <2>4. \A c \in Client : cpc[c] = "push" => ctmr[c] \in Timer
    BY DEF Calls
  <2>. QED
    <3>1. closing = "creating" => \A d \in Client : cpc'[d] = "push" =>
            (Newest(ctmr[d]) => /\ ctmr'[d] \in Timer /\ arm'[ctmr'[d]] # "none"
                                /\ \A k \in Timer : arm'[k] # "none" =>
                                   k <= ctmr'[d])
      BY <2>1, <2>2 DEF Newest, Arming
    <3>2. closing = "start" =>
            \E k \in Timer : Newest(k)' /\ arm'[k] \in Arming /\ Listed(k)'
      BY <2>1, <2>2, <2>3 DEF Ending, Listed, Place, Arming
    <3>. QED
      BY <2>2, <3>1, <3>2 DEF Ending, Newest
<1>14. CASE StopTask
  BY <1>14
     DEF StopTask, Closing, clientVars, listVars, posixVars, Ending, TypeOK,
         Newest, Listed, Arming, Leaving, Place
<1>15. CASE StartKillTimer
  BY <1>15
     DEF StartKillTimer, Begin, Closing, SetTimer, clientVars, listVars, Ending,
         TypeOK, Newest, Listed, Arming, Leaving, Place
<1>16. CASE JoinTimerTask
  BY <1>16
     DEF JoinTimerTask, Closing, clientVars, listVars, posixVars, Ending,
         TypeOK, Newest, Listed, Arming, Leaving, Place
<1>17. CASE UNCHANGED <<closing, cpc, ctmr, arm, listMemory>>
  BY <1>17 DEF Ending, TypeOK, Newest, Listed, Arming, Leaving, Place
<1>. QED
  BY <1>1, <1>2, <1>3, <1>4, <1>5, <1>6, <1>7, <1>8, <1>9, <1>10, <1>11, <1>12,
     <1>13, <1>14, <1>15, <1>16, <1>17
     DEF Next, ClientCall, ClientStep, TaskStep, vars, clientVars, listVars,
         posixVars, WaitSignal, Lookup, FindIn, LoopAgain, Callback

(* List: the entries follow the timers.                                     *)
LEMMA ListStep ==
  TypeOK /\ Calls /\ Handles /\ Ending /\ List /\ [Next]_vars
    => List'
<1> SUFFICES ASSUME TypeOK, Calls, Handles, Ending, List, [Next]_vars
             PROVE  List'
  OBVIOUS
<1>1. ASSUME NEW c \in Client, FindSignal(c)
      PROVE  List'
  BY <1>1, ListKept
     DEF FindSignal, MayCreate, At, clientVars, listVars, posixVars, TypeOK,
         Arming, Leaving, Calls
<1>2. ASSUME NEW c \in Client, AddSignal(c)
      PROVE  List'
  <2> DEFINE h == Lowest(Uncreated)
  <2>1. h \in Timer /\ arm[h] = "none"
    BY <1>2, HandleIsLeft DEF AddSignal, At, Choosing
  <2>2. /\ arm' = [arm EXCEPT ![h] = "off"] /\ ctmr' = [ctmr EXCEPT ![c] = h]
        /\ cpc[c] = "add" /\ cpc' = [cpc EXCEPT ![c] = "push"]
        /\ UNCHANGED <<listMemory, freed>>
    BY <1>2 DEF AddSignal, At
  <2> HIDE DEF h
  <2>3. /\ ctmr'[c] = h /\ cpc'[c] = "push"
        /\ \A d \in Client : d # c => cpc'[d] = cpc[d] /\ ctmr'[d] = ctmr[d]
    BY <2>2 DEF TypeOK
  <2>4. arm'[h] = "off" /\ \A k \in Timer \ {h} : arm'[k] = arm[k]
    BY <2>1, <2>2 DEF TypeOK
  <2>5. \A i \in Place : listMemory[i].hndl \in Timer \ {h}
    <3>1. \A i \in Place : listMemory[i].hndl \in Timer
      BY EntryType
    <3>. QED
      BY <2>1, <3>1 DEF List, Arming
  <2>6. \A i \in Place :
         \/ /\ arm'[listMemory[i].hndl] \in Arming
            /\ \A d \in Client : cpc'[d] = "push" =>
               ctmr'[d] # listMemory[i].hndl
         \/ /\ arm'[listMemory[i].hndl] = "deleted"
            /\ \E d \in Client : cpc'[d] \in Leaving
               /\ ctmr'[d] = listMemory[i].hndl
    <3> SUFFICES ASSUME NEW i \in Place
        PROVE \/ /\ arm'[listMemory[i].hndl] \in Arming
                 /\ \A d \in Client : cpc'[d] = "push" =>
                    ctmr'[d] # listMemory[i].hndl
              \/ /\ arm'[listMemory[i].hndl] = "deleted"
                 /\ \E d \in Client : cpc'[d] \in Leaving
                    /\ ctmr'[d] = listMemory[i].hndl
      OBVIOUS
    <3>1. arm'[listMemory[i].hndl] = arm[listMemory[i].hndl]
          /\ listMemory[i].hndl # h
      BY <2>4, <2>5
    <3>2. CASE arm[listMemory[i].hndl] \in Arming
      BY <2>3, <3>1, <3>2 DEF List, Arming
    <3>3. CASE arm[listMemory[i].hndl] = "deleted"
      BY <2>2, <2>3, <3>1, <3>3 DEF List, Leaving, Arming
    <3>. QED
      BY <3>2, <3>3 DEF List
  <2>7. \A k \in Timer : arm'[k] \in Arming =>
         \/ \E i \in Place : listMemory[i].hndl = k
         \/ \E d \in Client : cpc'[d] = "push" /\ ctmr'[d] = k
    <3> SUFFICES ASSUME NEW k \in Timer, arm'[k] \in Arming
        PROVE  \/ \E i \in Place : listMemory[i].hndl = k
               \/ \E d \in Client : cpc'[d] = "push" /\ ctmr'[d] = k
      OBVIOUS
    <3>1. CASE k = h
      BY <2>3, <3>1
    <3>2. CASE k # h
      BY <2>2, <2>3, <2>4, <3>2 DEF List, Listed
    <3>. QED
      BY <3>1, <3>2
  <2>8. \A d \in Client : cpc'[d] \in Leaving =>
         \E i \in Place : listMemory[i].hndl = ctmr'[d]
    BY <2>3 DEF List, Listed, Leaving
  <2>9. \A k \in freed' : arm'[k] = "deleted"
    BY <2>1, <2>2, <2>4 DEF List, TypeOK
  <2>. QED
    <3>1. \A i, j \in Place : listMemory[i].hndl = listMemory[j].hndl => i = j
      BY DEF List
    <3>2. Place' = Place
      BY <2>2 DEF Place
    <3>. QED
      BY <2>2, <2>6, <2>7, <2>8, <2>9, <3>1, <3>2 DEF List, Listed
<1>3. ASSUME NEW c \in Client, PushTimer(c)
      PROVE  List'
  <2>1. /\ cpc[c] = "push" /\ UNCHANGED <<arm, freed>>
        /\ \A d \in Client : cpc'[d] \in {"push", "free", "erase"} =>
             d # c /\ cpc'[d] = cpc[d] /\ ctmr'[d] = ctmr[d]
        /\ \A d \in Client : d # c => cpc'[d] = cpc[d] /\ ctmr'[d] = ctmr[d]
    BY <1>3 DEF PushTimer, Return, At, posixVars, listVars, TypeOK
  <2>2. /\ ctmr[c] \in Timer /\ arm[ctmr[c]] \in Arming
        /\ \A d \in Client : cpc[d] = "push" /\ ctmr[d] = ctmr[c] => d = c
    BY <2>1 DEF Calls
  <2>3. \A i \in Place : listMemory[i].hndl # ctmr[c]
    BY <2>1, <2>2 DEF List, Arming
  <2> DEFINE n == Len(listMemory) + 1
  <2>4. /\ \A i \in Place' : i \in Place \/ i = n
        /\ \A i \in Place : i \in Place' /\ listMemory'[i] = listMemory[i]
        /\ n \in Place' /\ listMemory'[n].hndl = ctmr[c]
    <3>1. /\ \A i \in Place : i \in Place' /\ listMemory'[i] = listMemory[i]
          /\ n \in Place' /\ n \notin Place
          /\ \A i \in Place' : i \notin Place =>
               i = n /\ listMemory'[i] = [hndl |-> ctmr[c], signo |-> csig[c]]
      BY <1>3, PushedEntries
    <3> HIDE DEF n
    <3>2. listMemory'[n] = [hndl |-> ctmr[c], signo |-> csig[c]]
      BY <3>1
    <3>. QED
      BY <3>1, <3>2
  <2> HIDE DEF n
  <2>5. \A i, j \in Place' : listMemory'[i].hndl = listMemory'[j].hndl => i = j
    BY <2>3, <2>4 DEF List
  <2>6. \A i \in Place' :
         \/ /\ arm'[listMemory'[i].hndl] \in Arming
            /\ \A d \in Client : cpc'[d] = "push" =>
               ctmr'[d] # listMemory'[i].hndl
         \/ /\ arm'[listMemory'[i].hndl] = "deleted"
            /\ \E d \in Client : cpc'[d] \in Leaving
               /\ ctmr'[d] = listMemory'[i].hndl
    <3>1. CASE TRUE
      <4> SUFFICES ASSUME NEW i \in Place'
                   PROVE  \/ /\ arm'[listMemory'[i].hndl] \in Arming
                             /\ \A d \in Client : cpc'[d] = "push" =>
                                ctmr'[d] # listMemory'[i].hndl
                          \/ /\ arm'[listMemory'[i].hndl] = "deleted"
                             /\ \E d \in Client : cpc'[d] \in Leaving
                                /\ ctmr'[d] = listMemory'[i].hndl
        OBVIOUS
      <4>1. CASE i = n
        BY <2>1, <2>2, <2>4, <4>1
      <4>2. CASE i \in Place
        BY <2>1, <2>4, <4>2 DEF List, Leaving
      <4>. QED
        BY <2>4, <4>1, <4>2
    <3>. QED
      BY <3>1
  <2>7. \A h \in Timer : arm'[h] \in Arming =>
         Listed(h)' \/ \E d \in Client : cpc'[d] = "push" /\ ctmr'[d] = h
    <3> SUFFICES ASSUME NEW h \in Timer, arm[h] \in Arming
                 PROVE  Listed(h)' \/ \E d \in Client : cpc'[d] = "push"
                   /\ ctmr'[d] = h
      BY <2>1
    <3>1. CASE h = ctmr[c]
      BY <2>4, <3>1 DEF Listed
    <3>2. CASE h # ctmr[c]
      BY <2>1, <2>4, <3>2 DEF List, Listed
    <3>. QED
      BY <3>1, <3>2
  <2>8. \A d \in Client : cpc'[d] \in Leaving =>
         \E i \in Place' : listMemory'[i].hndl = ctmr'[d]
    BY <2>1, <2>4 DEF List, Listed, Leaving
  <2>. QED
    BY <2>1, <2>5, <2>6, <2>7, <2>8 DEF List, Listed
<1>4. ASSUME NEW c \in Client, SpawnTask(c)
      PROVE  List'
  BY <1>4, ListKept
     DEF SpawnTask, Return, At, listVars, posixVars, TypeOK, Arming, Leaving,
         Calls
<1>5. ASSUME NEW c \in Client, NEW h \in Timer, NEW kind \in {"once", "every"},
   StartTimer(c, h, kind)
      PROVE  List'
  BY <1>5, ListKept
     DEF StartTimer, Begin, MaySet, SetTimer, At, Owned, clientVars, listVars,
         TypeOK, Arming, Leaving, Calls
<1>6. ASSUME NEW c \in Client, NEW h \in Timer, StopTimer(c, h)
      PROVE  List'
  BY <1>6, ListKept
     DEF StopTimer, Begin, MaySet, SetTimer, At, Owned, clientVars, listVars,
         TypeOK, Arming, Leaving, Calls
<1>7. ASSUME NEW c \in Client, NEW h \in Timer, PauseTimer(c, h)
      PROVE  List'
  BY <1>7, ListKept
     DEF PauseTimer, MaySet, At, Owned, listVars, TypeOK, Arming, Leaving, Calls
<1>8. ASSUME NEW c \in Client, PauseStop(c)
      PROVE  List'
  BY <1>8, ListKept
     DEF PauseStop, Return, SetTimer, At, listVars, TypeOK, Arming, Leaving,
         Calls
<1>9. ASSUME NEW c \in Client, NEW h \in Timer, ResumeTimer(c, h)
      PROVE  List'
  BY <1>9, ListKept
     DEF ResumeTimer, SetTimer, MaySet, At, Owned, clientVars, listVars, TypeOK,
         Arming, Leaving, Calls
<1>10. ASSUME NEW c \in Client, NEW h \in Timer, DeleteTimer(c, h)
      PROVE  List'
  <2>1. /\ arm' = [arm EXCEPT ![h] = "deleted"] /\ arm[h] \in Arming
           /\ owner[h] = c
        /\ cpc[c] = "idle" /\ cpc' = [cpc EXCEPT ![c] = "free"]
        /\ ctmr' = [ctmr EXCEPT ![c] = h] /\ UNCHANGED <<listMemory, freed>>
    BY <1>10 DEF DeleteTimer, MaySet, At, Owned, listVars
  <2>2. \A d \in Client : d # c => cpc'[d] = cpc[d] /\ ctmr'[d] = ctmr[d]
    BY <2>1 DEF TypeOK
  <2>3. cpc'[c] = "free" /\ ctmr'[c] = h
    BY <2>1 DEF TypeOK
  <2>4. arm'[h] = "deleted" /\ \A k \in Timer \ {h} : arm'[k] = arm[k]
    BY <2>1 DEF TypeOK
  <2>5. Listed(h)
    BY <2>1 DEF List, Calls
  <2>6. Listed(h)' /\ \A k \in Timer : Listed(k)' <=> Listed(k)
    BY <2>1, <2>5 DEF Listed, Place
  <2>7. \A i \in Place : listMemory[i].hndl \in Timer
    BY EntryType
  <2>8. \A i \in Place :
         \/ /\ arm'[listMemory[i].hndl] \in Arming
            /\ \A d \in Client : cpc'[d] = "push" =>
               ctmr'[d] # listMemory[i].hndl
         \/ /\ arm'[listMemory[i].hndl] = "deleted"
            /\ \E d \in Client : cpc'[d] \in Leaving
               /\ ctmr'[d] = listMemory[i].hndl
    <3> SUFFICES ASSUME NEW i \in Place
        PROVE \/ /\ arm'[listMemory[i].hndl] \in Arming
                 /\ \A d \in Client : cpc'[d] = "push" =>
                    ctmr'[d] # listMemory[i].hndl
              \/ /\ arm'[listMemory[i].hndl] = "deleted"
                 /\ \E d \in Client : cpc'[d] \in Leaving
                    /\ ctmr'[d] = listMemory[i].hndl
      OBVIOUS
    <3>1. CASE listMemory[i].hndl = h
      BY <2>3, <2>4, <3>1 DEF Leaving
    <3>2. CASE listMemory[i].hndl # h
      <4>1. arm'[listMemory[i].hndl] = arm[listMemory[i].hndl]
        BY <2>4, <2>7, <3>2
      <4>. QED
        BY <2>1, <2>2, <2>3, <4>1 DEF List, Leaving
    <3>. QED
      BY <3>1, <3>2
  <2>9. \A k \in Timer : arm'[k] \in Arming =>
         Listed(k)' \/ \E d \in Client : cpc'[d] = "push" /\ ctmr'[d] = k
    BY <2>1, <2>2, <2>4, <2>6 DEF List, Arming
  <2>10. \A d \in Client : cpc'[d] \in Leaving =>
          \E i \in Place' : listMemory'[i].hndl = ctmr'[d]
    <3> SUFFICES ASSUME NEW d \in Client, cpc'[d] \in Leaving
        PROVE \E i \in Place : listMemory[i].hndl = ctmr'[d]
      BY <2>1 DEF Place
    <3>1. CASE d = c
      BY <2>3, <2>5, <3>1 DEF Listed
    <3>2. CASE d # c
      BY <2>2, <3>2 DEF List, Listed
    <3>. QED
      BY <3>1, <3>2
  <2>11. \A k \in freed' : arm'[k] = "deleted"
    BY <2>1, <2>4 DEF List, TypeOK
  <2>. QED
    <3>1. \A i, j \in Place : listMemory[i].hndl = listMemory[j].hndl => i = j
      BY DEF List
    <3>2. Place' = Place
      BY <2>1 DEF Place
    <3>. QED
      BY <2>1, <2>8, <2>9, <2>10, <2>11, <3>1, <3>2 DEF List, Listed
<1>11. ASSUME NEW c \in Client, FreeTimer(c)
      PROVE  List'
  BY <1>11, ListKept
     DEF FreeTimer, At, posixVars, TypeOK, Arming, Leaving, Calls
<1>12. ASSUME NEW c \in Client, EraseTimer(c)
      PROVE  List'
  <2>1. /\ cpc[c] = "erase" /\ UNCHANGED <<arm, freed>>
        /\ \A d \in Client : cpc'[d] \in {"push", "free", "erase"} =>
             d # c /\ cpc'[d] = cpc[d] /\ ctmr'[d] = ctmr[d]
        /\ \A d \in Client : d # c => cpc'[d] = cpc[d] /\ ctmr'[d] = ctmr[d]
    BY <1>12, Returned DEF EraseTimer, At, posixVars
  <2>2. /\ ctmr[c] \in Timer /\ arm[ctmr[c]] = "deleted"
        /\ \A d \in Client : cpc[d] \in Leaving /\ ctmr[d] = ctmr[c] => d = c
    BY <2>1 DEF Calls, Leaving
  <2>3. /\ \A i \in Place' : \E j \in Place :
             listMemory'[i] = listMemory[j] /\ listMemory[j].hndl # ctmr[c]
        /\ \A j \in Place : listMemory[j].hndl # ctmr[c] =>
             \E i \in Place' : listMemory'[i] = listMemory[j]
        /\ \A i,
           k \in Place' : listMemory'[i].hndl = listMemory'[k].hndl => i = k
    BY <1>12, EntriesLeft
  <2>4. \A i \in Place' :
         \/ /\ arm'[listMemory'[i].hndl] \in Arming
            /\ \A d \in Client : cpc'[d] = "push" =>
               ctmr'[d] # listMemory'[i].hndl
         \/ /\ arm'[listMemory'[i].hndl] = "deleted"
            /\ \E d \in Client : cpc'[d] \in Leaving
               /\ ctmr'[d] = listMemory'[i].hndl
    <3> SUFFICES ASSUME NEW j \in Place, listMemory[j].hndl # ctmr[c]
        PROVE \/ /\ arm'[listMemory[j].hndl] \in Arming
                 /\ \A d \in Client : cpc'[d] = "push" =>
                    ctmr'[d] # listMemory[j].hndl
              \/ /\ arm'[listMemory[j].hndl] = "deleted"
                 /\ \E d \in Client : cpc'[d] \in Leaving
                    /\ ctmr'[d] = listMemory[j].hndl
      BY <2>3
    <3>. QED
      BY <2>1 DEF List, Leaving
  <2>5. \A h \in Timer : arm'[h] \in Arming =>
         Listed(h)' \/ \E d \in Client : cpc'[d] = "push" /\ ctmr'[d] = h
    <3> SUFFICES ASSUME NEW h \in Timer, arm[h] \in Arming
        PROVE Listed(h)' \/ \E d \in Client : cpc'[d] = "push" /\ ctmr'[d] = h
      BY <2>1
    <3>1. CASE Listed(h)
      <4>1. h # ctmr[c]
        BY <2>2 DEF Arming
      <4>. QED
        BY <2>3, <3>1, <4>1 DEF Listed
    <3>2. CASE \E d \in Client : cpc[d] = "push" /\ ctmr[d] = h
      BY <2>1, <3>2
    <3>. QED
      BY <3>1, <3>2 DEF List
  <2>6. \A d \in Client : cpc'[d] \in Leaving =>
         \E i \in Place' : listMemory'[i].hndl = ctmr'[d]
    <3> SUFFICES ASSUME NEW d \in Client, cpc'[d] \in Leaving
                 PROVE  \E i \in Place' : listMemory'[i].hndl = ctmr'[d]
      OBVIOUS
    <3>1. cpc[d] \in Leaving /\ ctmr'[d] = ctmr[d] /\ ctmr[d] # ctmr[c]
      BY <2>1, <2>2 DEF Leaving
    <3>2. Listed(ctmr[d])
      BY <3>1 DEF List
    <3>. QED
      BY <2>3, <3>1, <3>2 DEF Listed
  <2>. QED
    BY <2>1, <2>3, <2>4, <2>5, <2>6 DEF List, Listed
<1>13. ASSUME NEW h \in Timer, Expire(h)
      PROVE  List'
  BY <1>13, ListKept
     DEF Expire, clientVars, listVars, TypeOK, Arming, Leaving, Calls
<1>14. CASE StartKillTimer
  <2>1. PICK h \in Timer : Newest(h) /\ arm[h] \in Arming
    BY <1>14 DEF StartKillTimer, Closing, Ending
  <2>2. PICK g \in Timer : /\ \A k \in Timer : arm[k] # "none" => k <= g
                           /\ arm[g] # "none" /\ Begin(g, "once")
    BY <1>14 DEF StartKillTimer
  <2>3. g = h
    BY <2>1, <2>2, Constants DEF Newest
  <2>4. arm' = [arm EXCEPT ![h] = "once"] /\ UNCHANGED <<listMemory, cpc, ctmr,
                                                         freed>>
    BY <1>14, <2>2, <2>3
       DEF StartKillTimer, Begin, Closing, SetTimer, clientVars, listVars
  <2>5. \A k \in Timer : /\ arm'[k] \in Arming <=> arm[k] \in Arming
                         /\ arm'[k] = "deleted" <=> arm[k] = "deleted"
    BY <2>1, <2>4 DEF TypeOK, Arming
  <2>. QED
    BY <2>4, <2>5, ListKept
<1>15. CASE UNCHANGED <<listMemory, arm, cpc, ctmr, freed>>
  BY <1>15 DEF List, Listed, Place, Leaving
<1>. QED
  BY <1>1, <1>2, <1>3, <1>4, <1>5, <1>6, <1>7, <1>8, <1>9, <1>10, <1>11, <1>12,
     <1>13, <1>14, <1>15
     DEF Next, ClientCall, ClientStep, TaskStep, vars, clientVars, listVars,
         posixVars, WaitSignal, Lookup, FindIn, LoopAgain, Callback, StopTask,
         JoinTimerTask

(* Signals: FindSignal chooses a signal that nobody has, AddSignal marks    *)
(* it, PushTimer finds nobody erasing, FreeTimer gives it back.             *)
LEMMA SignalsStep ==
  TypeOK /\ Calls /\ List /\ Signals /\ [Next]_vars
    => Signals'
<1> SUFFICES ASSUME TypeOK, Calls, List, Signals, [Next]_vars
             PROVE  Signals'
  OBVIOUS
<1>1. ASSUME NEW c \in Client, FindSignal(c)
      PROVE  Signals'
  <2>1. CASE FreeSignals = {}
    <3>1. UNCHANGED <<listMemory, timer_signal_set, overlapped, cpc, csig,
                      ctmr>>
      BY <1>1, <2>1 DEF FindSignal, clientVars, listVars
    <3>. QED
      BY <3>1, SignalsKept
  <2>2. CASE FreeSignals # {}
    <3> SUFFICES ASSUME ~overlapped' PROVE Signals'
      BY DEF Signals
    <3>1. /\ csig' = [csig EXCEPT ![c] = Lowest(FreeSignals)]
          /\ cpc[c] = "idle" /\ cpc' = [cpc EXCEPT ![c] = "add"]
          /\ UNCHANGED <<ctmr, listMemory, timer_signal_set>>
          /\ ~overlapped /\ Choosing = {}
      BY <1>1, <2>2 DEF FindSignal, MayCreate, At, listVars, TypeOK
    <3>2. Lowest(FreeSignals) \notin timer_signal_set
      BY <2>2, Constants, LowestIsLeast DEF FreeSignals
    <3>3. Choosing' = {c} /\ csig'[c] = Lowest(FreeSignals)
      BY <3>1 DEF Choosing, TypeOK
    <3>4. \A d \in Client : /\ cpc'[d] = "push" <=> cpc[d] = "push"
                            /\ cpc'[d] = "erase" <=> cpc[d] = "erase"
                            /\ cpc'[d] = "push" => csig'[d] = csig[d]
      BY <3>1 DEF TypeOK
    <3>5. \A h : Erasing(h)' <=> Erasing(h)
      BY <3>1, <3>4 DEF Erasing
    <3>6. Place' = Place /\ UnusedSignal'
      BY <3>1 DEF Place, Signals, UnusedSignal
    <3>. QED
      BY <3>1, <3>2, <3>3, <3>4, <3>5, <3>6 DEF Signals
  <2>. QED
    BY <2>1, <2>2
<1>2. ASSUME NEW c \in Client, AddSignal(c)
      PROVE  Signals'
  <2> SUFFICES ASSUME ~overlapped' PROVE Signals'
    BY DEF Signals
  <2>1. /\ cpc[c] = "add" /\ cpc' = [cpc EXCEPT ![c] = "push"]
        /\ timer_signal_set' = timer_signal_set \cup {csig[c]}
        /\ UNCHANGED <<csig, listMemory, overlapped>> /\ ~overlapped
        /\ \A d \in Client \ {c} : ctmr'[d] = ctmr[d]
    BY <1>2 DEF AddSignal, At, historyVars, TypeOK
  <2>2. Choosing = {c} /\ Choosing' = {} /\ csig[c] \notin timer_signal_set
    BY <2>1 DEF Choosing, Signals, TypeOK
  <2>3. \A d \in Client \ {c} : cpc'[d] = cpc[d]
    BY <2>1 DEF TypeOK
  <2>4. cpc'[c] = "push"
    BY <2>1 DEF TypeOK
  <2>5. \A h : Erasing(h)' <=> Erasing(h)
    BY <2>1, <2>3, <2>4 DEF Erasing
  <2>6. Place' = Place /\ UnusedSignal'
    BY <2>1 DEF Place, Signals, UnusedSignal
  <2>. QED
    BY <2>1, <2>2, <2>3, <2>4, <2>5, <2>6 DEF Signals
<1>3. ASSUME NEW c \in Client, PushTimer(c)
      PROVE  Signals'
  <2> SUFFICES ASSUME ~overlapped' PROVE Signals'
    BY DEF Signals
  <2>1. /\ cpc[c] = "push" /\ timers_mutex = NoClient
        /\ UNCHANGED <<timer_signal_set, overlapped>> /\ ~overlapped
    BY <1>3 DEF PushTimer, At, historyVars
  <2>2. \A d \in Client : cpc'[d] \in {"add", "push", "erase"} =>
          d # c /\ cpc'[d] = cpc[d] /\ csig'[d] = csig[d]
    BY <1>3 DEF PushTimer, Return, At, TypeOK
  <2>3. \A d \in Client : d # c => cpc'[d] = cpc[d]
    BY <1>3 DEF PushTimer, Return, TypeOK
  <2>4. \A d \in Client : cpc[d] # "erase"
    BY <2>1, Constants DEF TypeOK
  <2>5. \A h : ~Erasing(h) /\ ~Erasing(h)'
    BY <2>2, <2>4 DEF Erasing
  <2>6. \A i \in Place : listMemory[i].signo \in timer_signal_set
        /\ listMemory[i].signo # csig[c]
    BY <2>1, <2>5 DEF Signals
  <2> DEFINE n == Len(listMemory) + 1
  <2>7. /\ \A i \in Place' : i \in Place \/ i = n
        /\ \A i \in Place : i \in Place' /\ listMemory'[i] = listMemory[i]
        /\ listMemory'[n].signo = csig[c] /\ n \notin Place
    <3>1. /\ \A i \in Place : i \in Place' /\ listMemory'[i] = listMemory[i]
          /\ n \in Place' /\ n \notin Place
          /\ \A i \in Place' : i \notin Place =>
               i = n /\ listMemory'[i] = [hndl |-> ctmr[c], signo |-> csig[c]]
      BY <1>3, PushedEntries
    <3> HIDE DEF n
    <3>2. listMemory'[n] = [hndl |-> ctmr[c], signo |-> csig[c]]
      BY <3>1
    <3>. QED
      BY <3>1, <3>2
  <2> HIDE DEF n
  <2>8. UnusedSignal'
    <3>1. \A i, j \in Place : listMemory[i].signo = listMemory[j].signo => i = j
      BY <2>1 DEF Signals, UnusedSignal, Place
    <3>2. \A i,
       j \in Place' : listMemory'[i].signo = listMemory'[j].signo => i = j
      BY <2>6, <2>7, <3>1
    <3>. QED
      BY <3>2 DEF UnusedSignal, Place
  <2>9. Choosing' = Choosing /\ \A d \in Choosing : csig'[d] = csig[d]
    BY <2>1, <2>2, <2>3 DEF Choosing
  <2>10. \A i \in Place' :
          /\ listMemory'[i].signo \in timer_signal_set
          /\ \A d \in Client : cpc'[d] = "push" =>
             csig'[d] # listMemory'[i].signo
    BY <2>1, <2>2, <2>5, <2>6, <2>7 DEF Signals
  <2>. QED
    BY <2>1, <2>2, <2>8, <2>9, <2>10 DEF Signals
<1>4. ASSUME NEW c \in Client, SpawnTask(c)
      PROVE  Signals'
  BY <1>4, SignalsKept DEF SpawnTask, Return, At, listVars, historyVars, TypeOK
<1>5. ASSUME NEW c \in Client, NEW h \in Timer, PauseTimer(c, h)
      PROVE  Signals'
  BY <1>5, SignalsKept
     DEF PauseTimer, MaySet, At, Owned, listVars, historyVars, TypeOK
<1>6. ASSUME NEW c \in Client, PauseStop(c)
      PROVE  Signals'
  BY <1>6, SignalsKept DEF PauseStop, Return, SetTimer, At, listVars, TypeOK
<1>7. ASSUME NEW c \in Client, NEW h \in Timer, DeleteTimer(c, h)
      PROVE  Signals'
  BY <1>7, SignalsKept DEF DeleteTimer, MaySet, At, Owned, listVars, TypeOK
<1>8. ASSUME NEW c \in Client, FreeTimer(c)
      PROVE  Signals'
  <2> SUFFICES ASSUME ~overlapped' PROVE Signals'
    BY DEF Signals
  <2>1. /\ cpc[c] = "free" /\ cpc' = [cpc EXCEPT ![c] = "erase"]
        /\ timers_mutex = NoClient
        /\ timer_signal_set' = timer_signal_set \ {SignalOf(ctmr[c])}
        /\ UNCHANGED <<csig, ctmr, listMemory, overlapped>> /\ ~overlapped
    BY <1>8 DEF FreeTimer, At, historyVars
  <2> DEFINE p == PlaceOf(ctmr[c])
  <2>2. p \in Place /\ listMemory[p].hndl = ctmr[c]
        /\ SignalOf(ctmr[c]) = listMemory[p].signo
    BY <2>1, PlaceOfListed DEF List, Leaving, SignalOf
  <2> HIDE DEF p
  <2>3. \A d \in Client : cpc[d] # "erase"
    BY <2>1, Constants DEF TypeOK
  <2>4. \A h : ~Erasing(h) /\ (Erasing(h)' <=> h = ctmr[c])
    BY <2>1, <2>3 DEF Erasing, TypeOK
  <2>5. Place' = Place /\ UnusedSignal'
    BY <2>1 DEF Place, Signals, UnusedSignal
  <2>6. \A i \in Place : listMemory[i].hndl # ctmr[c] =>
        listMemory[i].signo # listMemory[p].signo
    BY <2>1, <2>2 DEF Signals, UnusedSignal, Place
  <2>7. \A d \in Client : /\ cpc'[d] = "push" <=> cpc[d] = "push"
                          /\ cpc'[d] = "push" => csig[d] # listMemory[p].signo
    BY <2>1, <2>2, <2>4 DEF Signals, TypeOK
  <2>8. Choosing' = Choosing
    BY <2>1 DEF Choosing, TypeOK
  <2>. QED
    BY <2>1, <2>2, <2>4, <2>5, <2>6, <2>7, <2>8 DEF Signals
<1>9. ASSUME NEW c \in Client, EraseTimer(c)
      PROVE  Signals'
  <2> SUFFICES ASSUME ~overlapped' PROVE Signals'
    BY DEF Signals
  <2>1. /\ cpc[c] = "erase" /\ UNCHANGED <<timer_signal_set,
                                           overlapped>> /\ ~overlapped
    BY <1>9 DEF EraseTimer, At, historyVars
  <2>2. \A d \in Client : /\ d # c => cpc'[d] = cpc[d] /\ csig'[d] = csig[d]
                          /\ cpc'[c] = "idle"
    BY <1>9, Returned DEF EraseTimer
  <2>3. \A d \in Client : cpc[d] = "erase" => d = c
    BY <2>1 DEF TypeOK
  <2>4. \A h : /\ ~Erasing(h)'
               /\ h # ctmr[c] => ~Erasing(h)
    BY <2>2, <2>3 DEF Erasing
  <2>5. /\ \A i \in Place' : \E j \in Place :
             listMemory'[i] = listMemory[j] /\ listMemory[j].hndl # ctmr[c]
        /\ \A i,
           k \in Place' : listMemory'[i].hndl = listMemory'[k].hndl => i = k
    BY <1>9, EntriesLeft
  <2>6. UnusedSignal'
    <3>1. \A i, j \in Place : listMemory[i].signo = listMemory[j].signo => i = j
      BY <2>1 DEF Signals, UnusedSignal, Place
    <3>2. \A i,
       j \in Place' : listMemory'[i].signo = listMemory'[j].signo => i = j
      BY <2>5, <3>1
    <3>. QED
      BY <3>2 DEF UnusedSignal, Place
  <2>7. Choosing' = Choosing /\ \A d \in Choosing : csig'[d] = csig[d]
    BY <2>1, <2>2 DEF Choosing
  <2>8. \A d \in Client : cpc'[d] = "push" => cpc[d] = "push"
        /\ csig'[d] = csig[d]
    BY <2>2
  <2>9. \A j \in Place : listMemory[j].hndl # ctmr[c] =>
          /\ listMemory[j].signo \in timer_signal_set
          /\ \A d \in Client : cpc'[d] = "push" =>
             csig'[d] # listMemory[j].signo
    BY <2>1, <2>4, <2>8 DEF Signals
  <2>10. \A i \in Place' :
          /\ listMemory'[i].signo \in timer_signal_set
          /\ \A d \in Client : cpc'[d] = "push" =>
             csig'[d] # listMemory'[i].signo
    BY <2>5, <2>9
  <2>. QED
    BY <2>1, <2>6, <2>7, <2>8, <2>10 DEF Signals
<1>10. CASE UNCHANGED <<overlapped, listMemory, cpc, csig, ctmr,
                        timer_signal_set>>
  BY <1>10 DEF Signals, Erasing, Choosing, UnusedSignal, Place
<1>. QED
  BY <1>1, <1>2, <1>3, <1>4, <1>5, <1>6, <1>7, <1>8, <1>9, <1>10
     DEF Next, ClientCall, ClientStep, TaskStep, vars, clientVars, listVars,
         historyVars, StartTimer, Begin, SetTimer, StopTimer, ResumeTimer,
         Expire, WaitSignal, Lookup, FindIn, LoopAgain, Callback, StopTask,
         StartKillTimer, JoinTimerTask

(* Routed: a notification names an entry of its timer until it is deleted.  *)
LEMMA RoutedStep ==
  TypeOK /\ Calls /\ Handles /\ Ending /\ List /\ Routed /\ [Next]_vars
    => Routed'
<1> SUFFICES ASSUME TypeOK, Calls, Handles, Ending, List, Routed, [Next]_vars
             PROVE  Routed'
  OBVIOUS
<1>1. ASSUME NEW c \in Client, AddSignal(c)
      PROVE  Routed'
  BY <1>1, DeletedStays, NamesKept
     DEF AddSignal, At, taskVars, Routed, Place, TypeOK
<1>2. ASSUME NEW c \in Client, PushTimer(c)
      PROVE  Routed'
  <2>1. \A i \in Place : \E k \in Place' : listMemory'[k] = listMemory[i]
    BY <1>2, PushedEntries
  <2>2. \A s, h : Names(s, h) => Names(s, h)'
    BY <2>1, DeletedStays, NamesKept
  <2>3. UNCHANGED <<pending, tpc, tsig, tby, ta>>
    BY <1>2 DEF PushTimer, Return, At, taskVars, posixVars
  <2>. QED
    BY <2>2, <2>3 DEF Routed
<1>3. ASSUME NEW c \in Client, SpawnTask(c)
      PROVE  Routed'
  BY <1>3, DeletedStays, NamesKept
     DEF SpawnTask, Return, At, listVars, posixVars, Routed, Place, TypeOK
<1>4. ASSUME NEW c \in Client, NEW h \in Timer, NEW kind \in {"once", "every"},
   StartTimer(c, h, kind)
      PROVE  Routed'
  BY <1>4, DeletedStays, NamesKept
     DEF StartTimer, Begin, MaySet, SetTimer, At, Owned, taskVars, listVars,
         Routed, Place, TypeOK
<1>5. ASSUME NEW c \in Client, NEW h \in Timer, StopTimer(c, h)
      PROVE  Routed'
  BY <1>5, DeletedStays, NamesKept
     DEF StopTimer, Begin, MaySet, SetTimer, At, Owned, taskVars, listVars,
         Routed, Place, TypeOK
<1>6. ASSUME NEW c \in Client, PauseStop(c)
      PROVE  Routed'
  BY <1>6, DeletedStays, NamesKept
     DEF PauseStop, Return, SetTimer, At, taskVars, listVars, Routed, Place,
         TypeOK
<1>7. ASSUME NEW c \in Client, NEW h \in Timer, ResumeTimer(c, h)
      PROVE  Routed'
  BY <1>7, DeletedStays, NamesKept
     DEF ResumeTimer, SetTimer, MaySet, At, Owned, taskVars, listVars, Routed,
         Place, TypeOK
<1>8. ASSUME NEW c \in Client, NEW h \in Timer, DeleteTimer(c, h)
      PROVE  Routed'
  BY <1>8, DeletedStays, NamesKept
     DEF DeleteTimer, MaySet, At, Owned, taskVars, listVars, Routed, Place,
         TypeOK
<1>9. ASSUME NEW c \in Client, EraseTimer(c)
      PROVE  Routed'
  <2>1. \A j \in Place : listMemory[j].hndl # ctmr[c] =>
          \E i \in Place' : listMemory'[i] = listMemory[j]
    BY <1>9, EntriesLeft
  <2>2. arm'[ctmr[c]] = "deleted"
    BY <1>9 DEF EraseTimer, At, posixVars, Calls, Leaving
  <2>3. \A i \in Place : \/ arm'[listMemory[i].hndl] = "deleted"
                         \/ \E k \in Place' : listMemory'[k] = listMemory[i]
    BY <2>1, <2>2
  <2>4. \A s, h : Names(s, h) => Names(s, h)'
    BY <2>3, DeletedStays, NamesKept
  <2>5. UNCHANGED <<pending, tpc, tsig, tby, ta>>
    BY <1>9 DEF EraseTimer, Return, At, taskVars, posixVars
  <2>. QED
    BY <2>4, <2>5 DEF Routed
<1>10. ASSUME NEW h \in Timer, Expire(h)
      PROVE  Routed'
  <2>1. Place' = Place /\ listMemory' = listMemory /\ UNCHANGED <<tpc, tsig,
                                                                  tby, ta>>
    BY <1>10 DEF Expire, taskVars, listVars, Place
  <2>2. \A s, k : Names(s, k) => Names(s, k)'
    BY <2>1, DeletedStays, NamesKept
  <2>3. \A s \in SignalsOf(h) : Names(s, h)
    BY DEF SignalsOf, Names, Place
  <2>4. \A n \in pending' : n \in pending \/ (n.sig \in SignalsOf(h)
        /\ n.by = h)
    BY <1>10 DEF Expire
  <2>. QED
    BY <2>1, <2>2, <2>3, <2>4 DEF Routed
<1>11. ASSUME NEW t \in Task, WaitSignal(t)
      PROVE  Routed'
  <2>1. Place' = Place /\ UNCHANGED <<listMemory, arm>>
    BY <1>11 DEF WaitSignal, TaskAt, listVars, Place
  <2>2. \A s, h : Names(s, h) => Names(s, h)'
    BY <2>1, DeletedStays, NamesKept
  <2>3. PICK n \in pending : /\ pending' = pending \ {n}
                             /\ tsig' = [tsig EXCEPT ![t] = n.sig]
                             /\ tby' = [tby EXCEPT ![t] = n.by]
    BY <1>11 DEF WaitSignal
  <2>4. /\ tpc'[t] = "got" /\ tsig'[t] = n.sig /\ tby'[t] = n.by
        /\ \A u \in Task \ {t} : tpc'[u] = tpc[u] /\ tsig'[u] = tsig[u]
           /\ tby'[u] = tby[u]
        /\ ta' = ta
    BY <1>11, <2>3 DEF WaitSignal, TypeOK
  <2>. QED
    BY <2>2, <2>3, <2>4 DEF Routed
<1>12. ASSUME NEW t \in Task, Lookup(t)
      PROVE  Routed'
  <2> DEFINE M == {i \in 1..Len(listMemory) : listMemory[i].signo = tsig[t]}
  <2>1. Place' = Place /\ UNCHANGED <<listMemory, arm, pending>>
    BY <1>12 DEF Lookup, FindIn, TaskAt, LoopAgain, listVars, posixVars, Place
  <2>2. \A s, h : Names(s, h) => Names(s, h)'
    BY <2>1, DeletedStays, NamesKept
  <2>3. CASE M = {}
    <3>1. \A u \in Task : tpc'[u] \in {"got", "found"} =>
            /\ tpc'[u] = tpc[u] /\ tsig'[u] = tsig[u]
            /\ tby'[u] = tby[u] /\ ta'[u] = ta[u]
      BY <1>12, <2>3, Looped DEF Lookup, FindIn
    <3>. QED
      BY <2>1, <2>2, <3>1 DEF Routed
  <2>4. CASE M # {}
    <3>1. Lowest(M) \in M
      <4>1. M \in SUBSET Nat
        OBVIOUS
      <4>. QED
        BY <2>4, <4>1, LowestIsLeast
    <3> DEFINE g == listMemory[Lowest(M)].hndl
    <3>2. Names(tsig[t], g)
      BY <3>1, EntryType DEF Names, Place
    <3>3. /\ ta' = [ta EXCEPT ![t] = g] /\ tpc' = [tpc EXCEPT ![t] = "found"]
          /\ UNCHANGED <<tsig, tby>> /\ tpc[t] = "got"
      BY <1>12, <2>4 DEF Lookup, FindIn, TaskAt
    <3> HIDE DEF g
    <3>4. /\ tpc'[t] = "found" /\ ta'[t] = g
          /\ \A u \in Task \ {t} : tpc'[u] = tpc[u] /\ ta'[u] = ta[u]
      BY <3>3 DEF TypeOK
    <3>. QED
      BY <2>1, <2>2, <3>2, <3>3, <3>4 DEF Routed
  <2>. QED
    BY <2>3, <2>4
<1>13. ASSUME NEW t \in Task, Callback(t)
      PROVE  Routed'
  <2>1. Place' = Place /\ UNCHANGED <<listMemory, arm, pending>>
    BY <1>13 DEF Callback, LoopAgain, TaskAt, listVars, posixVars, Place
  <2>2. \A s, h : Names(s, h) => Names(s, h)'
    BY <2>1, DeletedStays, NamesKept
  <2>3. \A u \in Task : tpc'[u] \in {"got", "found"} =>
          /\ tpc'[u] = tpc[u] /\ tsig'[u] = tsig[u]
          /\ tby'[u] = tby[u] /\ ta'[u] = ta[u]
    BY <1>13, Looped DEF Callback
  <2>. QED
    BY <2>1, <2>2, <2>3 DEF Routed
<1>14. CASE StartKillTimer
  BY <1>14, DeletedStays, NamesKept
     DEF StartKillTimer, Begin, Closing, SetTimer, taskVars, listVars, Routed,
         Place, TypeOK
<1>15. CASE UNCHANGED <<pending, tpc, tsig, tby, ta, arm, listMemory>>
  BY <1>15 DEF Routed, Names, Place
<1>. QED
  BY <1>1, <1>2, <1>3, <1>4, <1>5, <1>6, <1>7, <1>8, <1>9, <1>10, <1>11, <1>12,
     <1>13, <1>14, <1>15
     DEF Next, ClientCall, ClientStep, TaskStep, vars, taskVars, listVars,
         posixVars, FindSignal, PauseTimer, FreeTimer, StopTask, JoinTimerTask

(* OwnExpiry: only Lookup finds a timer, and only one entry has the signal. *)
LEMMA OwnExpiryStep ==
  TypeOK /\ Calls /\ Handles /\ Ending /\ Signals /\ Routed /\ OwnExpiry
    /\ [Next]_vars
    => OwnExpiry'
<1> SUFFICES ASSUME TypeOK, Calls, Handles, Ending, Signals, Routed, OwnExpiry,
   [Next]_vars
             PROVE  OwnExpiry'
  OBVIOUS
<1>1. ASSUME NEW c \in Client, FindSignal(c)
      PROVE  OwnExpiry'
  <2>1. UNCHANGED <<tpc, ta, tby, arm>>
    BY <1>1 DEF FindSignal, taskVars, posixVars
  <2>2. overlapped => overlapped'
    <3>1. CASE FreeSignals = {}
      BY <1>1, <3>1 DEF FindSignal
    <3>2. CASE FreeSignals # {}
      BY <1>1, <3>2 DEF FindSignal
    <3>. QED
      BY <3>1, <3>2
  <2>. QED
    BY <2>1, <2>2 DEF OwnExpiry
<1>2. ASSUME NEW c \in Client, AddSignal(c)
      PROVE  OwnExpiry'
  BY <1>2, DeletedStays
     DEF AddSignal, At, taskVars, historyVars, OwnExpiry, Routed, Names, TypeOK
<1>3. ASSUME NEW c \in Client, SpawnTask(c)
      PROVE  OwnExpiry'
  BY <1>3, DeletedStays
     DEF SpawnTask, Return, At, posixVars, historyVars, OwnExpiry, Routed,
         Names, TypeOK
<1>4. ASSUME NEW c \in Client, NEW h \in Timer, NEW kind \in {"once", "every"},
   StartTimer(c, h, kind)
      PROVE  OwnExpiry'
  BY <1>4, DeletedStays
     DEF StartTimer, Begin, MaySet, SetTimer, At, Owned, taskVars, OwnExpiry,
         Routed, Names, TypeOK
<1>5. ASSUME NEW c \in Client, NEW h \in Timer, StopTimer(c, h)
      PROVE  OwnExpiry'
  BY <1>5, DeletedStays
     DEF StopTimer, Begin, MaySet, SetTimer, At, Owned, taskVars, OwnExpiry,
         Routed, Names, TypeOK
<1>6. ASSUME NEW c \in Client, PauseStop(c)
      PROVE  OwnExpiry'
  BY <1>6, DeletedStays
     DEF PauseStop, Return, SetTimer, At, taskVars, OwnExpiry, Routed, Names,
         TypeOK
<1>7. ASSUME NEW c \in Client, NEW h \in Timer, ResumeTimer(c, h)
      PROVE  OwnExpiry'
  BY <1>7, DeletedStays
     DEF ResumeTimer, SetTimer, MaySet, At, Owned, taskVars, OwnExpiry, Routed,
         Names, TypeOK
<1>8. ASSUME NEW c \in Client, NEW h \in Timer, DeleteTimer(c, h)
      PROVE  OwnExpiry'
  BY <1>8, DeletedStays
     DEF DeleteTimer, MaySet, At, Owned, taskVars, OwnExpiry, Routed, Names,
         TypeOK
<1>9. ASSUME NEW h \in Timer, Expire(h)
      PROVE  OwnExpiry'
  BY <1>9, DeletedStays DEF Expire, taskVars, OwnExpiry, Routed, Names, TypeOK
<1>10. ASSUME NEW t \in Task, WaitSignal(t)
      PROVE  OwnExpiry'
  BY <1>10, DeletedStays
     DEF WaitSignal, TaskAt, historyVars, OwnExpiry, Routed, Names, TypeOK
<1>11. ASSUME NEW t \in Task, Lookup(t)
      PROVE  OwnExpiry'
  <2> DEFINE M == {i \in 1..Len(listMemory) : listMemory[i].signo = tsig[t]}
  <2>1. UNCHANGED <<arm, overlapped>> /\ tpc[t] = "got"
    BY <1>11 DEF Lookup, FindIn, TaskAt, LoopAgain, posixVars, historyVars
  <2>2. CASE M = {}
    <3>1. \A u \in Task : tpc'[u] = "found" =>
            tpc[u] = "found" /\ ta'[u] = ta[u] /\ tby'[u] = tby[u]
      BY <1>11, <2>2, Looped DEF Lookup, FindIn
    <3>. QED
      BY <2>1, <3>1 DEF OwnExpiry
  <2>3. CASE M # {}
    <3>1. Lowest(M) \in M
      <4>1. M \in SUBSET Nat
        OBVIOUS
      <4>. QED
        BY <2>3, <4>1, LowestIsLeast
    <3> DEFINE g == listMemory[Lowest(M)].hndl
    <3>2. /\ ta' = [ta EXCEPT ![t] = g] /\ tpc' = [tpc EXCEPT ![t] = "found"]
          /\ UNCHANGED tby
      BY <1>11, <2>3 DEF Lookup, FindIn
    <3>3. overlapped \/ g = tby[t] \/ arm[tby[t]] = "deleted"
      <4>1. Names(tsig[t], tby[t])
        BY <2>1 DEF Routed
      <4>2. ASSUME NEW i \in Place, ~overlapped, listMemory[i].hndl = tby[t],
                   listMemory[i].signo = tsig[t]
            PROVE  g = tby[t]
        BY <3>1, <4>2 DEF Signals, UnusedSignal, Place
      <4>. QED
        BY <4>1, <4>2 DEF Names
    <3> HIDE DEF g
    <3>4. /\ ta'[t] = g
          /\ \A u \in Task \ {t} : tpc'[u] = tpc[u] /\ ta'[u] = ta[u]
      BY <3>2 DEF TypeOK
    <3>. QED
      BY <2>1, <3>2, <3>3, <3>4 DEF OwnExpiry
  <2>. QED
    BY <2>2, <2>3
<1>12. ASSUME NEW t \in Task, Callback(t)
      PROVE  OwnExpiry'
  <2>1. \A u \in Task : tpc'[u] = "found" =>
          tpc[u] = "found" /\ ta'[u] = ta[u] /\ tby'[u] = tby[u]
    BY <1>12, Looped DEF Callback
  <2>2. overlapped' = overlapped
    BY <1>12 DEF Callback, LoopAgain, TaskAt, posixVars, historyVars
  <2>. QED
    BY <2>1, <2>2, DeletedStays DEF OwnExpiry, Routed, Names
<1>13. CASE StartKillTimer
  BY <1>13, DeletedStays
     DEF StartKillTimer, Begin, Closing, SetTimer, taskVars, OwnExpiry, Routed,
         Names, TypeOK
<1>14. CASE UNCHANGED <<overlapped, tpc, ta, tby, arm>>
  BY <1>14 DEF OwnExpiry, Routed, Names, TypeOK
<1>. QED
  BY <1>1, <1>2, <1>3, <1>4, <1>5, <1>6, <1>7, <1>8, <1>9, <1>10, <1>11, <1>12,
     <1>13, <1>14
     DEF Next, ClientCall, ClientStep, TaskStep, vars, taskVars, posixVars,
         historyVars, PushTimer, Return, PauseTimer, FreeTimer, EraseTimer,
         StopTask, JoinTimerTask

(* NothingOnTheWay: nothing new comes for a timer that is deleted, for no   *)
(* other entry has its signal.                                              *)
LEMMA NothingStep ==
  TypeOK /\ Calls /\ Handles /\ Ending /\ List /\ Signals /\ Routed
    /\ NothingOnTheWay /\ [Next]_vars
    => NothingOnTheWay'
<1> SUFFICES ASSUME TypeOK, Calls, Handles, Ending, List, Signals, Routed,
   NothingOnTheWay, [Next]_vars
             PROVE  NothingOnTheWay'
  OBVIOUS
<1>1. ASSUME NEW c \in Client, FindSignal(c)
      PROVE  NothingOnTheWay'
  <2> SUFFICES ASSUME ~overlapped' PROVE NothingOnTheWay'
    BY DEF NothingOnTheWay
  <2>1. UNCHANGED <<quiet, listMemory, arm, pending, tpc, tsig,
                    ta>> /\ Place' = Place
    BY <1>1 DEF FindSignal, listVars, posixVars, taskVars, Place
  <2>2. ~overlapped
    <3>1. CASE FreeSignals = {}
      BY <1>1, <3>1 DEF FindSignal
    <3>2. CASE FreeSignals # {}
      BY <1>1, <3>2 DEF FindSignal
    <3>. QED
      BY <3>1, <3>2
  <2>. QED
    BY <2>1, <2>2 DEF NothingOnTheWay
<1>2. ASSUME NEW c \in Client, AddSignal(c)
      PROVE  NothingOnTheWay'
  BY <1>2, DeletedStays
     DEF AddSignal, At, taskVars, historyVars, NothingOnTheWay, TypeOK, Place
<1>3. ASSUME NEW c \in Client, PushTimer(c)
      PROVE  NothingOnTheWay'
  <2> SUFFICES ASSUME ~overlapped' PROVE NothingOnTheWay'
    BY DEF NothingOnTheWay
  <2>1. /\ UNCHANGED <<quiet, arm, pending, tpc, tsig, ta,
                       overlapped>> /\ ~overlapped
        /\ cpc[c] = "push"
    BY <1>3 DEF PushTimer, Return, At, taskVars, posixVars, historyVars
  <2>2. ctmr[c] \notin quiet
    BY <2>1 DEF Calls, NothingOnTheWay, Arming
  <2>3. \A i \in Place' :
          \/ i \in Place /\ listMemory'[i] = listMemory[i]
          \/ listMemory'[i].hndl = ctmr[c]
    <3>1. /\ \A i \in Place : i \in Place' /\ listMemory'[i] = listMemory[i]
          /\ \A i \in Place' : i \notin Place =>
               listMemory'[i] = [hndl |-> ctmr[c], signo |-> csig[c]]
      BY <1>3, PushedEntries
    <3>. QED
      BY <3>1
  <2>. QED
    BY <2>1, <2>2, <2>3 DEF NothingOnTheWay
<1>4. ASSUME NEW c \in Client, SpawnTask(c)
      PROVE  NothingOnTheWay'
  BY <1>4, DeletedStays
     DEF SpawnTask, Return, At, listVars, posixVars, historyVars,
         NothingOnTheWay, TypeOK, Place
<1>5. ASSUME NEW c \in Client, NEW h \in Timer, NEW kind \in {"once", "every"},
   StartTimer(c, h, kind)
      PROVE  NothingOnTheWay'
  BY <1>5, DeletedStays
     DEF StartTimer, Begin, MaySet, SetTimer, At, Owned, taskVars, listVars,
         NothingOnTheWay, TypeOK, Place
<1>6. ASSUME NEW c \in Client, NEW h \in Timer, StopTimer(c, h)
      PROVE  NothingOnTheWay'
  BY <1>6, DeletedStays
     DEF StopTimer, Begin, MaySet, SetTimer, At, Owned, taskVars, listVars,
         NothingOnTheWay, TypeOK, Place
<1>7. ASSUME NEW c \in Client, PauseStop(c)
      PROVE  NothingOnTheWay'
  BY <1>7, DeletedStays
     DEF PauseStop, Return, SetTimer, At, taskVars, listVars, NothingOnTheWay,
         TypeOK, Place
<1>8. ASSUME NEW c \in Client, NEW h \in Timer, ResumeTimer(c, h)
      PROVE  NothingOnTheWay'
  BY <1>8, DeletedStays
     DEF ResumeTimer, SetTimer, MaySet, At, Owned, taskVars, listVars,
         NothingOnTheWay, TypeOK, Place
<1>9. ASSUME NEW c \in Client, NEW h \in Timer, DeleteTimer(c, h)
      PROVE  NothingOnTheWay'
  <2> SUFFICES ASSUME ~overlapped' PROVE NothingOnTheWay'
    BY DEF NothingOnTheWay
  <2>1. /\ UNCHANGED <<listMemory, pending, tpc, tsig, ta,
                       overlapped>> /\ ~overlapped
        /\ Place' = Place /\ arm' = [arm EXCEPT ![h] = "deleted"]
           /\ arm[h] \in Arming
        /\ quiet' = IF Quiet(h) THEN quiet \cup {h} ELSE quiet
    BY <1>9 DEF DeleteTimer, MaySet, At, Owned, taskVars, listVars, Place
  <2>2. \A k \in quiet' : arm'[k] = "deleted"
    BY <2>1 DEF NothingOnTheWay, TypeOK
  <2>3. CASE ~Quiet(h)
    BY <2>1, <2>2, <2>3 DEF NothingOnTheWay
  <2>4. CASE Quiet(h)
    <3>1. \A i \in Place : listMemory[i].hndl = h =>
            /\ \A n \in pending : n.sig # listMemory[i].signo
            /\ \A t \in Task : tpc[t] \in {"got",
               "found"} => tsig[t] # listMemory[i].signo
      BY <2>4 DEF Quiet, Place
    <3>2. \A t \in Task : tpc[t] = "found" => ta[t] # h
      <4> SUFFICES ASSUME NEW t \in Task, tpc[t] = "found", ta[t] = h
                   PROVE  FALSE
        OBVIOUS
      <4>1. Names(tsig[t], h)
        BY DEF Routed
      <4>2. PICK i \in Place : listMemory[i].hndl = h
            /\ listMemory[i].signo = tsig[t]
        BY <2>1, <4>1 DEF Names, Arming
      <4>. QED
        BY <3>1, <4>2
    <3>. QED
      BY <2>1, <2>2, <2>4, <3>1, <3>2 DEF NothingOnTheWay
  <2>. QED
    BY <2>3, <2>4
<1>10. ASSUME NEW c \in Client, EraseTimer(c)
      PROVE  NothingOnTheWay'
  <2> SUFFICES ASSUME ~overlapped' PROVE NothingOnTheWay'
    BY DEF NothingOnTheWay
  <2>1. UNCHANGED <<quiet, arm, pending, tpc, tsig, ta,
                    overlapped>> /\ ~overlapped
    BY <1>10 DEF EraseTimer, Return, At, taskVars, posixVars, historyVars
  <2>2. \A i \in Place' : \E j \in Place : listMemory'[i] = listMemory[j]
    BY <1>10, EntriesLeft
  <2>. QED
    BY <2>1, <2>2 DEF NothingOnTheWay
<1>11. ASSUME NEW h \in Timer, Expire(h)
      PROVE  NothingOnTheWay'
  <2> SUFFICES ASSUME ~overlapped' PROVE NothingOnTheWay'
    BY DEF NothingOnTheWay
  <2>1. /\ UNCHANGED <<quiet, listMemory, tpc, tsig, ta,
                       overlapped>> /\ ~overlapped
        /\ Place' = Place /\ arm[h] # "deleted"
        /\ pending' = pending \cup {[sig |-> s, by |-> h] : s \in SignalsOf(h)}
    BY <1>11 DEF Expire, taskVars, listVars, Place
  <2>2. h \notin quiet
    BY <2>1 DEF NothingOnTheWay
  <2>3. \A i \in Place : listMemory[i].hndl \in quiet =>
        listMemory[i].signo \notin SignalsOf(h)
    BY <2>1, <2>2 DEF Signals, UnusedSignal, SignalsOf, Place
  <2>4. \A n \in pending' : n \in pending \/ n.sig \in SignalsOf(h)
    BY <2>1
  <2>5. \A k \in quiet' : arm'[k] = "deleted"
    BY <2>1, DeletedStays DEF NothingOnTheWay, TypeOK
  <2>. QED
    BY <2>1, <2>3, <2>4, <2>5 DEF NothingOnTheWay
<1>12. ASSUME NEW t \in Task, WaitSignal(t)
      PROVE  NothingOnTheWay'
  <2> SUFFICES ASSUME ~overlapped' PROVE NothingOnTheWay'
    BY DEF NothingOnTheWay
  <2>1. /\ UNCHANGED <<quiet, listMemory, arm, ta, overlapped>> /\ ~overlapped
        /\ Place' = Place
    BY <1>12 DEF WaitSignal, TaskAt, listVars, historyVars, Place
  <2>2. PICK n \in pending : /\ pending' = pending \ {n}
                             /\ tsig' = [tsig EXCEPT ![t] = n.sig]
    BY <1>12 DEF WaitSignal
  <2>3. /\ tpc'[t] = "got" /\ tsig'[t] = n.sig
        /\ \A u \in Task \ {t} : tpc'[u] = tpc[u] /\ tsig'[u] = tsig[u]
    BY <1>12, <2>2 DEF WaitSignal, TypeOK
  <2>. QED
    BY <2>1, <2>2, <2>3 DEF NothingOnTheWay
<1>13. ASSUME NEW t \in Task, Lookup(t)
      PROVE  NothingOnTheWay'
  <2> SUFFICES ASSUME ~overlapped' PROVE NothingOnTheWay'
    BY DEF NothingOnTheWay
  <2> DEFINE M == {i \in 1..Len(listMemory) : listMemory[i].signo = tsig[t]}
  <2>1. /\ UNCHANGED <<quiet, listMemory, arm, pending,
                       overlapped>> /\ ~overlapped
        /\ Place' = Place /\ tpc[t] = "got"
    BY <1>13
       DEF Lookup, FindIn, TaskAt, LoopAgain, listVars, posixVars, historyVars,
           Place
  <2>2. CASE M = {}
    <3>1. \A u \in Task : tpc'[u] \in {"got", "found"} =>
            tpc'[u] = tpc[u] /\ tsig'[u] = tsig[u] /\ ta'[u] = ta[u]
      BY <1>13, <2>2, Looped DEF Lookup, FindIn
    <3>. QED
      BY <2>1, <3>1 DEF NothingOnTheWay
  <2>3. CASE M # {}
    <3>1. Lowest(M) \in M
      <4>1. M \in SUBSET Nat
        OBVIOUS
      <4>. QED
        BY <2>3, <4>1, LowestIsLeast
    <3> DEFINE g == listMemory[Lowest(M)].hndl
    <3>2. /\ ta' = [ta EXCEPT ![t] = g] /\ tpc' = [tpc EXCEPT ![t] = "found"]
          /\ UNCHANGED tsig
      BY <1>13, <2>3 DEF Lookup, FindIn
    <3>3. g \notin quiet
      BY <2>1, <3>1 DEF NothingOnTheWay, Place
    <3> HIDE DEF g
    <3>4. /\ ta'[t] = g /\ tpc'[t] = "found"
          /\ \A u \in Task \ {t} : tpc'[u] = tpc[u] /\ ta'[u] = ta[u]
      BY <3>2 DEF TypeOK
    <3>. QED
      BY <2>1, <3>2, <3>3, <3>4 DEF NothingOnTheWay
  <2>. QED
    BY <2>2, <2>3
<1>14. ASSUME NEW t \in Task, Callback(t)
      PROVE  NothingOnTheWay'
  <2> SUFFICES ASSUME ~overlapped' PROVE NothingOnTheWay'
    BY DEF NothingOnTheWay
  <2>1. /\ UNCHANGED <<quiet, listMemory, arm, pending,
                       overlapped>> /\ ~overlapped
        /\ Place' = Place
    BY <1>14
       DEF Callback, LoopAgain, TaskAt, listVars, posixVars, historyVars, Place
  <2>2. \A u \in Task : tpc'[u] \in {"got", "found"} =>
          tpc'[u] = tpc[u] /\ tsig'[u] = tsig[u] /\ ta'[u] = ta[u]
    BY <1>14, Looped DEF Callback
  <2>. QED
    BY <2>1, <2>2 DEF NothingOnTheWay
<1>15. CASE StartKillTimer
  BY <1>15, DeletedStays
     DEF StartKillTimer, Begin, Closing, SetTimer, taskVars, listVars,
         NothingOnTheWay, TypeOK, Place
<1>16. CASE UNCHANGED <<overlapped, quiet, arm, listMemory, pending, tpc, tsig,
                        ta>>
  BY <1>16 DEF NothingOnTheWay, TypeOK, Place
<1>. QED
  BY <1>1, <1>2, <1>3, <1>4, <1>5, <1>6, <1>7, <1>8, <1>9, <1>10, <1>11, <1>12,
     <1>13, <1>14, <1>15, <1>16
     DEF Next, ClientCall, ClientStep, TaskStep, vars, taskVars, listVars,
         posixVars, historyVars, PauseTimer, FreeTimer, StopTask, JoinTimerTask

(* Shots: what expires was set by StartTimer or saved before it expired.    *)
LEMMA ShotsStep ==
  TypeOK /\ Calls /\ Handles /\ Ending /\ Shots /\ [Next]_vars
    => Shots'
<1> SUFFICES ASSUME TypeOK, Calls, Handles, Ending, Shots, [Next]_vars
             PROVE  Shots'
  OBVIOUS
<1>1. ASSUME NEW c \in Client, FindSignal(c)
      PROVE  Shots'
  BY <1>1
     DEF FindSignal, MayCreate, At, clientVars, posixVars, Shots, TypeOK,
         Pausing, Calls, Arming
<1>2. ASSUME NEW c \in Client, AddSignal(c)
      PROVE  Shots'
  BY <1>2 DEF AddSignal, At, historyVars, Shots, TypeOK, Pausing, Calls, Arming
<1>3. ASSUME NEW c \in Client, PushTimer(c)
      PROVE  Shots'
  BY <1>3
     DEF PushTimer, Return, At, posixVars, historyVars, Shots, TypeOK, Pausing,
         Calls, Arming
<1>4. ASSUME NEW c \in Client, SpawnTask(c)
      PROVE  Shots'
  BY <1>4
     DEF SpawnTask, Return, At, posixVars, historyVars, Shots, TypeOK, Pausing,
         Calls, Arming
<1>5. ASSUME NEW c \in Client, NEW h \in Timer, NEW kind \in {"once", "every"},
   StartTimer(c, h, kind)
      PROVE  Shots'
  BY <1>5
     DEF StartTimer, Begin, MaySet, SetTimer, At, Owned, clientVars, Shots,
         TypeOK, Pausing, Calls, Arming
<1>6. ASSUME NEW c \in Client, NEW h \in Timer, StopTimer(c, h)
      PROVE  Shots'
  BY <1>6
     DEF StopTimer, Begin, MaySet, SetTimer, At, Owned, clientVars, Shots,
         TypeOK, Pausing, Calls, Arming
<1>7. ASSUME NEW c \in Client, NEW h \in Timer, PauseTimer(c, h)
      PROVE  Shots'
  BY <1>7
     DEF PauseTimer, MaySet, At, Owned, historyVars, Shots, TypeOK, Pausing,
         Calls, Arming
<1>8. ASSUME NEW c \in Client, PauseStop(c)
      PROVE  Shots'
  BY <1>8
     DEF PauseStop, Return, SetTimer, At, Shots, TypeOK, Pausing, Calls, Arming
<1>9. ASSUME NEW c \in Client, NEW h \in Timer, ResumeTimer(c, h)
      PROVE  Shots'
  BY <1>9
     DEF ResumeTimer, SetTimer, MaySet, At, Owned, clientVars, Shots, TypeOK,
         Pausing, Calls, Arming
<1>10. ASSUME NEW c \in Client, NEW h \in Timer, DeleteTimer(c, h)
      PROVE  Shots'
  BY <1>10
     DEF DeleteTimer, MaySet, At, Owned, Shots, TypeOK, Pausing, Calls, Arming
<1>11. ASSUME NEW c \in Client, FreeTimer(c)
      PROVE  Shots'
  BY <1>11
     DEF FreeTimer, At, posixVars, historyVars, Shots, TypeOK, Pausing, Calls,
         Arming
<1>12. ASSUME NEW c \in Client, EraseTimer(c)
      PROVE  Shots'
  BY <1>12
     DEF EraseTimer, Return, At, posixVars, historyVars, Shots, TypeOK, Pausing,
         Calls, Arming
<1>13. ASSUME NEW h \in Timer, Expire(h)
      PROVE  Shots'
  BY <1>13 DEF Expire, clientVars, Shots, TypeOK, Pausing, Calls, Arming
<1>14. CASE StartKillTimer
  BY <1>14
     DEF StartKillTimer, Begin, Closing, SetTimer, clientVars, Shots, TypeOK,
         Pausing, Calls, Arming
<1>15. CASE UNCHANGED <<saved, cpc, ctmr, arm, pausedLate, shots>>
  BY <1>15 DEF Shots, TypeOK, Pausing, Calls, Arming
<1>. QED
  BY <1>1, <1>2, <1>3, <1>4, <1>5, <1>6, <1>7, <1>8, <1>9, <1>10, <1>11, <1>12,
     <1>13, <1>14, <1>15
     DEF Next, ClientCall, ClientStep, TaskStep, vars, clientVars, posixVars,
         historyVars, WaitSignal, Lookup, FindIn, LoopAgain, Callback, StopTask,
         JoinTimerTask

-----------------------------------------------------------------------------
(* The theorems *)

LEMMA Inductive == IInv /\ [Next]_vars => IInv'
  BY TypeStep, CallsStep, HandlesStep, EndingStep, ListStep, SignalsStep,
     RoutedStep, OwnExpiryStep, NothingStep, ShotsStep DEF IInv

LEMMA Invariant == Spec => []IInv
<1>1. Init => IInv
  BY InitInv
<1>2. IInv /\ [Next]_vars => IInv'
  BY Inductive
<1>. QED
  BY <1>1, <1>2, PTL DEF Spec

(* The variables keep their types, and timers_mutex is held exactly between *)
(* freeing an entry of listMemory and erasing it.                           *)
THEOREM TimersTypeCorrect == Spec => []TypeOK
<1>1. IInv => TypeOK
  BY DEF IInv
<1>. QED
  BY <1>1, Invariant, PTL

(* Two timers in the list raise the same signal only after two calls of     *)
(* CreateTimer have been choosing a signal at once: DestroyTimer, which     *)
(* gives a signal back while its entry is still in the list, never leads to *)
(* that by itself.                                                          *)
THEOREM SignalsNeedOverlap == Spec => []SharedSignalNeedsOverlap
<1>1. IInv => SharedSignalNeedsOverlap
  BY DEF IInv, Signals, SharedSignalNeedsOverlap
<1>. QED
  BY <1>1, Invariant, PTL

(* Without that overlap, TimerTask calls a callback for an expiry of its    *)
(* own timer or of one that is deleted.                                     *)
THEOREM ExpiriesAreOwn == Spec => []OwnExpiry
<1>1. IInv => OwnExpiry
  BY DEF IInv
<1>. QED
  BY <1>1, Invariant, PTL

(* Without that overlap, a timer destroyed when nothing on its signal was   *)
(* queued or in TimerTask's hands is never found by TimerTask again.        *)
THEOREM QuietDestroysAreSafe == Spec => []QuietDestroyIsSafe
<1>1. IInv => QuietDestroyIsSafe
  BY DEF IInv, NothingOnTheWay, QuietDestroyIsSafe
<1>. QED
  BY <1>1, Invariant, PTL

(* A one-shot expires at most once for each StartTimer, through pauses and  *)
(* resumes, unless it expired between PauseTimer's read and its write.      *)
THEOREM OneShotsFireOnce == Spec => []OneShotFiresOnce
<1>1. IInv => OneShotFiresOnce
  BY DEF IInv, Shots, OneShotFiresOnce
<1>. QED
  BY <1>1, Invariant, PTL

=============================================================================
