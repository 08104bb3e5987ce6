---------------------------- MODULE EventProofs ----------------------------
(***************************************************************************)
(* Proofs about the event manager: EventDispatch, for every number of      *)
(* threads, every queue size and every number of messages; EventListener   *)
(* and EventManager, for any number of listeners, types and array entries. *)
(*                                                                         *)
(* The inductive invariant of EventDispatch is                             *)
(*                                                                         *)
(*    TypeOK /\ LifeCycle /\ Owned /\ OneOwner /\ InOrder                  *)
(*                                                                         *)
(* LifeCycle ties the dispatcher and the polling threads to the stage the  *)
(* constructor or the destructor has reached; Owned says where the copies  *)
(* of messages are; InOrder relates the queue to the two histories.        *)
(*                                                                         *)
(* The inductive invariant of EventListener is                             *)
(*                                                                         *)
(*    ListenerTypeOK /\ LinksChecked /\ DisabledOnce                       *)
(*                                                                         *)
(* LinksChecked: as long as no two calls of SetNextListener have           *)
(* overlapped, the one that has checked may still store its pointer, and   *)
(* no cycle is there.  DisabledOnce: the disabled types of a listener are  *)
(* types it lists, each once.                                              *)
(*                                                                         *)
(* What the manager does to the listeners are steps of EventListener, so   *)
(* the theorems about that module carry over.  The inductive invariant of  *)
(* EventManager is                                                         *)
(*                                                                         *)
(*    ManagerTypeOK /\ Entered /\ VisitsBounded /\ NoDeadEntry             *)
(*                  /\ WalkExact /\ WalkComplete                           *)
(*                                                                         *)
(* WalkExact and WalkComplete say of every entry still ahead of the walk   *)
(* what UndisturbedWalkIsExact and NoListenerMissed say of its end.        *)
(***************************************************************************)
EXTENDS EventDispatch, EventManager, SequenceTheorems, FunctionTheorems, FiniteSetTheorems,
        TLAPS

-----------------------------------------------------------------------------
(* EventDispatch *)

LifeCycle ==
  /\ main = "starting" =>
       /\ threadRun /\ polling = {} /\ posts = 0
       /\ sent = <<>> /\ handled = <<>> /\ cur = NoMsg
       /\ \A t \in Thread : sending[t] = NoMsg
       /\ dpc # "drain" => queue = <<>>
  /\ dpc = "drain" => main = "starting" /\ ~threadRunning
  /\ ~threadRun <=> main \in {"joinDispatcher", "destroyed"}
  /\ ~threadRun => polling = {}
  /\ dpc \in {"closing", "exited"} => ~threadRun
  /\ \A t \in Poll : t \notin polling => sending[t] = NoMsg
  /\ sending[Dispatcher] # NoMsg => dpc = "notify"
  /\ cur # NoMsg <=> dpc \in {"received", "notify"}

Owned ==
  /\ \A m \in heap : m <= StaleCount + posts
  /\ \A t \in Thread : sending[t] # NoMsg => sending[t] \in heap
  /\ cur # NoMsg => cur \in heap
  /\ dpc # "drain" => \A i \in 1..Len(queue) : queue[i] \in heap

InHand == IF dpc = "received" THEN 1 ELSE 0

InOrder ==
  /\ Len(handled) <= Len(sent)
  /\ \A i \in 1..Len(handled) : handled[i] = sent[i]
  /\ \A i \in 1..Len(sent) :
       /\ sent[i] <= StaleCount + posts
       /\ \A t \in Thread : sending[t] # sent[i]
       /\ \A j \in 1..Len(sent) : sent[i] = sent[j] => i = j
  /\ threadRun /\ dpc # "drain" =>
       /\ Len(sent) = Len(handled) + InHand + Len(queue)
       /\ InHand = 1 => sent[Len(handled) + 1] = cur
       /\ \A i \in 1..Len(queue) : queue[i] = sent[Len(handled) + InHand + i]

DispatchInv == TypeOK /\ LifeCycle /\ Owned /\ OneOwner /\ InOrder


-----------------------------------------------------------------------------
(* Type correctness *)

LEMMA ConstantFacts ==
  /\ StaleCount \in Nat /\ QueueMax \in Nat /\ MaxPosts \in Nat
  /\ Stale \subseteq Nat /\ Fresh \subseteq Nat /\ NoMsg \notin Msg
  /\ Stale \cap Fresh = {}
  /\ Dispatcher \notin Poll /\ Poll \subseteq Thread /\ App \subseteq Thread
  BY BoundAssumption, NoMsgAssumption, ThreadAssumption
     DEF Stale, Fresh, Msg, Thread

LEMMA InitType == Init => TypeOK
<1> SUFFICES ASSUME Init PROVE TypeOK
  OBVIOUS
<1>1. queue \in Seq(Msg)
  <2>1. StaleCount \in Nat /\ \A i \in 1..StaleCount : i \in Msg
    BY BoundAssumption DEF Msg, Stale
  <2>2. [i \in 1..StaleCount |-> i] \in Seq(Msg)
    BY <2>1, IsASeq
  <2>. QED
    BY <2>2 DEF Init
<1>2. sending \in [Thread -> Fresh \cup {NoMsg}]
  BY DEF Init
<1>3. <<>> \in Seq(Fresh) /\ <<>> \in Seq(Msg)
  BY EmptySeq
<1>4. posts \in 0..MaxPosts
  BY BoundAssumption DEF Init
<1>. QED
  BY <1>1, <1>2, <1>3, <1>4 DEF Init, TypeOK



(* A polling thread leaves all but its own place alone, and posts nothing    *)
(* before it returns.                                                       *)
LEMMA PollFrame ==
  ASSUME NEW t \in Poll, Polls(t), TypeOK
  PROVE  /\ UNCHANGED <<mainVars, dispVars, queue, postVars, heap>>
         /\ polling' \in {polling, polling \ {t}}
         /\ sending[t] = NoMsg
         /\ ppc' \in [Poll -> {"setup", "test", "events", "recv", "served"}]
<1>1. ASSUME NEW from, NEW to \in {"setup", "test", "events", "recv", "served"},
             PollMoves(t, from, to)
      PROVE  /\ UNCHANGED <<mainVars, dispVars, queue, postVars, heap>>
             /\ polling' = polling /\ sending[t] = NoMsg
             /\ ppc' \in [Poll -> {"setup", "test", "events", "recv", "served"}]
  BY <1>1 DEF PollMoves, TypeOK
<1>2. CASE PollExit(t)
  BY <1>2 DEF PollExit, TypeOK
<1>3. \/ PollMoves(t, {"setup"}, "test") \/ PollMoves(t, {"test"}, "events")
      \/ PollMoves(t, {"events", "served"}, "test") \/ PollMoves(t, {"events"}, "recv")
      \/ PollMoves(t, {"recv"}, "served") \/ PollExit(t)
  BY DEF Polls, PollStep, PollStart, PollEvents, PollAgain, AcceptPeer, PeerCloses
<1>. QED
  BY <1>1, <1>2, <1>3

LEMMA DispatchTypeStep ==
  TypeOK /\ LifeCycle /\ [Next]_vars => TypeOK'
<1> SUFFICES ASSUME TypeOK, LifeCycle, [Next]_vars
             PROVE  TypeOK'
  OBVIOUS
<1>1. ASSUME NEW t \in Thread, PostEvent(t)
      PROVE  TypeOK'
  <2>1. StaleCount + posts + 1 \in Fresh /\ posts + 1 \in 0..MaxPosts
    BY <1>1, BoundAssumption DEF PostEvent, Fresh, TypeOK
  <2>. QED
    BY <1>1, <2>1 DEF PostEvent, TypeOK, mainVars, pollVars, dispVars
<1>2. ASSUME NEW t \in Thread, SendMessage(t)
      PROVE  TypeOK'
  <2>1. sending[t] \in Fresh /\ sending[t] \in Msg
    BY <1>2 DEF SendMessage, TypeOK, Msg
  <2>2. sent' \in Seq(Fresh) /\ queue' \in Seq(Msg)
    BY <1>2, <2>1, AppendProperties DEF SendMessage, TypeOK
  <2>. QED
    BY <1>2, <2>2 DEF SendMessage, TypeOK, mainVars, pollVars, dispVars
<1>3. ASSUME NEW t \in Poll, Polls(t)
      PROVE  TypeOK'
  BY <1>3, PollFrame DEF TypeOK, mainVars, pollVars, dispVars, postVars
<1>4. CASE Drain
  <2>1. queue' \in Seq(Msg)
    BY <1>4, HeadTailProperties DEF Drain, TypeOK
  <2>. QED
    BY <1>4, <2>1 DEF Drain, TypeOK, mainVars, pollVars, dispVars, postVars
<1>5. CASE DrainTimeout
  BY <1>5 DEF DrainTimeout, TypeOK, mainVars, pollVars, dispVars, postVars
<1>6. CASE TestRun
  BY <1>6 DEF TestRun, TypeOK, mainVars, pollVars, dispVars, postVars
<1>7. CASE Receive
  <2>1. queue' \in Seq(Msg) /\ cur' \in Msg
    BY <1>7, HeadTailProperties DEF Receive, TypeOK
  <2>. QED
    BY <1>7, <2>1 DEF Receive, TypeOK, mainVars, pollVars, postVars
<1>8. CASE ReceiveTimeout
  BY <1>8 DEF ReceiveTimeout, TypeOK, mainVars, pollVars, dispVars, postVars
<1>9. CASE Dispatch
  <2>1. cur \in Msg
    BY <1>9 DEF Dispatch, TypeOK, LifeCycle
  <2>2. handled' \in Seq(Msg)
    BY <1>9, <2>1, AppendProperties DEF Dispatch, TypeOK
  <2>. QED
    BY <1>9, <2>2 DEF Dispatch, TypeOK, mainVars, pollVars, postVars
<1>10. CASE Discard
  BY <1>10 DEF Discard, TypeOK, mainVars, pollVars, dispVars, postVars
<1>11. CASE FreeMessage
  BY <1>11 DEF FreeMessage, TypeOK, mainVars, pollVars, dispVars, postVars
<1>12. CASE CloseQueue
  BY <1>12 DEF CloseQueue, TypeOK, mainVars, pollVars, dispVars, postVars
<1>13. CASE FinishStartup
  BY <1>13 DEF FinishStartup, TypeOK, mainVars, pollVars, dispVars, postVars
<1>14. CASE StopPolling
  BY <1>14 DEF StopPolling, TypeOK, mainVars, pollVars, dispVars, postVars
<1>15. CASE StopDispatcher
  BY <1>15 DEF StopDispatcher, TypeOK, mainVars, pollVars, dispVars, postVars
<1>16. CASE JoinDispatcher
  BY <1>16 DEF JoinDispatcher, TypeOK, mainVars, pollVars, dispVars, postVars
<1>17. CASE UNCHANGED vars
  BY <1>17 DEF vars, TypeOK, mainVars, pollVars, dispVars, postVars
<1>. QED
  BY <1>1, <1>2, <1>3, <1>4, <1>5, <1>6, <1>7, <1>8, <1>9, <1>10, <1>11, <1>12, <1>13, <1>14, <1>15, <1>16, <1>17
     DEF Next, DispatcherStep, MainStep

-----------------------------------------------------------------------------
(* The stages of the constructor and the destructor *)

LEMMA InitLifeCycle == Init => LifeCycle
  BY DEF Init, LifeCycle, Thread


LEMMA LifeCycleStep ==
  TypeOK /\ LifeCycle /\ [Next]_vars => LifeCycle'
<1> SUFFICES ASSUME TypeOK, LifeCycle, [Next]_vars
             PROVE  LifeCycle'
  OBVIOUS
<1>1. ASSUME NEW t \in Thread, PostEvent(t)
      PROVE  LifeCycle'
  <2>1. main # "starting" /\ dpc # "drain"
    BY <1>1 DEF PostEvent, MayPost, LifeCycle
  <2>2. \A u \in Thread : u # t => sending'[u] = sending[u]
    BY <1>1 DEF PostEvent, TypeOK
  <2>3. t \in Poll => t \in polling
    BY <1>1, ThreadAssumption DEF PostEvent, MayPost
  <2>4. t = Dispatcher => dpc = "notify"
    BY <1>1, ThreadAssumption DEF PostEvent, MayPost, TypeOK
  <2>5. Dispatcher \in Thread /\ Poll \subseteq Thread
    BY DEF Thread
  <2>. QED
    BY <1>1, <2>1, <2>2, <2>3, <2>4, <2>5 DEF PostEvent, LifeCycle, mainVars, pollVars, dispVars
<1>2. ASSUME NEW t \in Thread, SendMessage(t)
      PROVE  LifeCycle'
  <2>1. main # "starting" /\ dpc # "drain"
    BY <1>2 DEF SendMessage, LifeCycle
  <2>2. \A u \in Thread : sending'[u] = sending[u] \/ sending'[u] = NoMsg
    BY <1>2 DEF SendMessage, TypeOK
  <2>3. Dispatcher \in Thread /\ Poll \subseteq Thread
    BY DEF Thread
  <2>. QED
    BY <1>2, <2>1, <2>2, <2>3 DEF SendMessage, LifeCycle, mainVars, pollVars, dispVars
<1>3. ASSUME NEW t \in Poll, Polls(t)
      PROVE  LifeCycle'
  BY <1>3, PollFrame DEF TypeOK, LifeCycle, mainVars, pollVars, dispVars, postVars
<1>4. CASE Drain
  BY <1>4 DEF Drain, TypeOK, LifeCycle, mainVars, pollVars, dispVars, postVars
<1>5. CASE DrainTimeout
  BY <1>5 DEF DrainTimeout, TypeOK, LifeCycle, mainVars, pollVars, dispVars, postVars
<1>6. CASE TestRun
  BY <1>6 DEF TestRun, TypeOK, LifeCycle, mainVars, pollVars, dispVars, postVars
<1>7. CASE Receive
  <2>1. Head(queue) \in Msg
    BY <1>7, HeadTailProperties DEF Receive, TypeOK
  <2>. QED
    BY <1>7, <2>1, ConstantFacts DEF Receive, TypeOK, LifeCycle, mainVars, pollVars, postVars
<1>8. CASE ReceiveTimeout
  BY <1>8 DEF ReceiveTimeout, TypeOK, LifeCycle, mainVars, pollVars, dispVars, postVars
<1>9. CASE Dispatch
  BY <1>9 DEF Dispatch, TypeOK, LifeCycle, mainVars, pollVars, dispVars, postVars
<1>10. CASE Discard
  BY <1>10 DEF Discard, TypeOK, LifeCycle, mainVars, pollVars, dispVars, postVars
<1>11. CASE FreeMessage
  BY <1>11 DEF FreeMessage, TypeOK, LifeCycle, mainVars, pollVars, dispVars, postVars
<1>12. CASE CloseQueue
  BY <1>12 DEF CloseQueue, TypeOK, LifeCycle, mainVars, pollVars, dispVars, postVars
<1>13. CASE FinishStartup
  BY <1>13 DEF FinishStartup, TypeOK, LifeCycle, mainVars, pollVars, dispVars, postVars
<1>14. CASE StopPolling
  BY <1>14 DEF StopPolling, TypeOK, LifeCycle, mainVars, pollVars, dispVars, postVars
<1>15. CASE StopDispatcher
  BY <1>15 DEF StopDispatcher, TypeOK, LifeCycle, mainVars, pollVars, dispVars, postVars
<1>16. CASE JoinDispatcher
  BY <1>16 DEF JoinDispatcher, TypeOK, LifeCycle, mainVars, pollVars, dispVars, postVars
<1>17. CASE UNCHANGED vars
  BY <1>17 DEF vars, TypeOK, LifeCycle, mainVars, pollVars, dispVars, postVars
<1>. QED
  BY <1>1, <1>2, <1>3, <1>4, <1>5, <1>6, <1>7, <1>8, <1>9, <1>10, <1>11, <1>12, <1>13, <1>14, <1>15, <1>16, <1>17
     DEF Next, DispatcherStep, MainStep

-----------------------------------------------------------------------------
(* Where the copies are *)

LEMMA InitOwned == Init => Owned
  BY DEF Init, Owned, Thread

LEMMA InitOneOwner == Init => OneOwner
<1> SUFFICES ASSUME Init PROVE OneOwner
  OBVIOUS
<1>1. Len(queue) = StaleCount /\ \A i \in 1..StaleCount : queue[i] = i /\ i # NoMsg
  BY BoundAssumption, NoMsgAssumption DEF Init
<1>. QED
  BY <1>1 DEF Init, OneOwner


LEMMA OwnedStep ==
  TypeOK /\ LifeCycle /\ Owned /\ OneOwner /\ [Next]_vars => Owned'
<1> SUFFICES ASSUME TypeOK, LifeCycle, Owned, OneOwner, [Next]_vars
             PROVE  Owned'
  OBVIOUS
<1>1. ASSUME NEW t \in Thread, PostEvent(t)
      PROVE  Owned'
  <2>1. StaleCount + posts + 1 \in Nat /\ posts \in Nat /\ StaleCount \in Nat
    BY BoundAssumption DEF TypeOK
  <2>2. \A m \in heap : m \in Nat
    BY ConstantFacts DEF TypeOK
  <2>3. \A m \in heap' : m <= StaleCount + posts'
    BY <1>1, <2>1, <2>2 DEF PostEvent, Owned
  <2>4. \A u \in Thread : sending'[u] # NoMsg => sending'[u] \in heap'
    BY <1>1 DEF PostEvent, TypeOK, Owned
  <2>. QED
    BY <1>1, <2>3, <2>4 DEF PostEvent, Owned, mainVars, pollVars, dispVars
<1>2. ASSUME NEW t \in Thread, SendMessage(t)
      PROVE  Owned'
  <2>1. sending[t] \in Msg /\ sending[t] \in heap
    BY <1>2 DEF SendMessage, TypeOK, Owned, Msg
  <2>2. dpc # "drain" => \A i \in 1..Len(queue') : queue'[i] \in heap
    BY <1>2, <2>1, AppendProperties DEF SendMessage, TypeOK, Owned
  <2>3. \A u \in Thread : sending'[u] # NoMsg => sending'[u] \in heap
    BY <1>2 DEF SendMessage, TypeOK, Owned
  <2>. QED
    BY <1>2, <2>2, <2>3 DEF SendMessage, Owned, mainVars, pollVars, dispVars
<1>3. ASSUME NEW t \in Poll, Polls(t)
      PROVE  Owned'
  BY <1>3, PollFrame DEF TypeOK, LifeCycle, Owned, mainVars, pollVars, dispVars, postVars
<1>4. CASE Drain
  BY <1>4 DEF Drain, TypeOK, LifeCycle, Owned, mainVars, pollVars, dispVars, postVars
<1>5. CASE DrainTimeout
  BY <1>5 DEF DrainTimeout, TypeOK, LifeCycle, Owned, mainVars, pollVars, dispVars, postVars
<1>6. CASE TestRun
  BY <1>6 DEF TestRun, TypeOK, LifeCycle, Owned, mainVars, pollVars, dispVars, postVars
<1>7. CASE Receive
  <2>1. cur' \in heap
    BY <1>7 DEF Receive, TypeOK, Owned
  <2>2. \A i \in 1..Len(queue') : queue'[i] \in heap
    BY <1>7, HeadTailProperties DEF Receive, TypeOK, Owned
  <2>. QED
    BY <1>7, <2>1, <2>2 DEF Receive, Owned, mainVars, pollVars, postVars
<1>8. CASE ReceiveTimeout
  BY <1>8 DEF ReceiveTimeout, TypeOK, LifeCycle, Owned, mainVars, pollVars, dispVars, postVars
<1>9. CASE Dispatch
  BY <1>9 DEF Dispatch, TypeOK, LifeCycle, Owned, mainVars, pollVars, dispVars, postVars
<1>10. CASE Discard
  BY <1>10 DEF Discard, TypeOK, LifeCycle, Owned, mainVars, pollVars, dispVars, postVars
<1>11. CASE FreeMessage
  <2>1. cur # NoMsg /\ dpc # "drain"
    BY <1>11 DEF FreeMessage, LifeCycle
  <2>2. \A i \in 1..Len(queue) : queue[i] \in heap /\ queue[i] # cur
    BY <1>11, <2>1 DEF FreeMessage, Owned, OneOwner
  <2>3. \A t \in Thread : sending[t] # cur
    BY <2>1 DEF OneOwner
  <2>. QED
    BY <1>11, <2>2, <2>3 DEF FreeMessage, Owned, mainVars, pollVars, postVars
<1>12. CASE CloseQueue
  BY <1>12 DEF CloseQueue, TypeOK, LifeCycle, Owned, mainVars, pollVars, dispVars, postVars
<1>13. CASE FinishStartup
  BY <1>13 DEF FinishStartup, TypeOK, LifeCycle, Owned, mainVars, pollVars, dispVars, postVars
<1>14. CASE StopPolling
  BY <1>14 DEF StopPolling, TypeOK, LifeCycle, Owned, mainVars, pollVars, dispVars, postVars
<1>15. CASE StopDispatcher
  BY <1>15 DEF StopDispatcher, TypeOK, LifeCycle, Owned, mainVars, pollVars, dispVars, postVars
<1>16. CASE JoinDispatcher
  BY <1>16 DEF JoinDispatcher, TypeOK, LifeCycle, Owned, mainVars, pollVars, dispVars, postVars
<1>17. CASE UNCHANGED vars
  BY <1>17 DEF vars, TypeOK, LifeCycle, Owned, mainVars, pollVars, dispVars, postVars
<1>. QED
  BY <1>1, <1>2, <1>3, <1>4, <1>5, <1>6, <1>7, <1>8, <1>9, <1>10, <1>11, <1>12, <1>13, <1>14, <1>15, <1>16, <1>17
     DEF Next, DispatcherStep, MainStep


LEMMA OneOwnerStep ==
  TypeOK /\ LifeCycle /\ Owned /\ OneOwner /\ [Next]_vars => OneOwner'
<1> SUFFICES ASSUME TypeOK, LifeCycle, Owned, OneOwner, [Next]_vars
             PROVE  OneOwner'
  OBVIOUS
<1>1. ASSUME NEW t \in Thread, PostEvent(t)
      PROVE  OneOwner'
  <2>. DEFINE new == StaleCount + posts + 1
  <2>1. new \notin heap /\ new # NoMsg /\ new \in Nat
    <3>1. \A m \in heap : m \in Nat /\ m <= StaleCount + posts
      BY ConstantFacts DEF TypeOK, Owned
    <3>. QED
      BY <3>1, BoundAssumption, NoMsgAssumption DEF TypeOK
  <2>2. dpc # "drain"
    BY <1>1 DEF PostEvent, MayPost, LifeCycle
  <2>3. \A u \in Thread : sending'[u] = IF u = t THEN new ELSE sending[u]
    BY <1>1 DEF PostEvent, TypeOK
  <2>4. \A u \in Thread : sending[u] # new
    BY <2>1 DEF Owned
  <2>5. \A i \in 1..Len(queue) : queue[i] # new
    BY <2>1, <2>2 DEF Owned
  <2>6. cur # new
    BY <2>1 DEF Owned
  <2>. HIDE DEF new
  <2>. QED
    BY <1>1, <2>3, <2>4, <2>5, <2>6 DEF PostEvent, OneOwner, dispVars
<1>2. ASSUME NEW t \in Thread, SendMessage(t)
      PROVE  OneOwner'
  <2>. DEFINE m == sending[t]
  <2>1. m \in Msg /\ m # NoMsg
    BY <1>2 DEF SendMessage, TypeOK, Msg
  <2>2. /\ Len(queue') = Len(queue) + 1
        /\ Len(queue) \in Nat
        /\ \A i \in 1..Len(queue) : queue'[i] = queue[i]
        /\ queue'[Len(queue) + 1] = m
    BY <1>2, <2>1, AppendProperties, LenProperties DEF SendMessage, TypeOK
  <2>3. \A u \in Thread : sending'[u] = IF u = t THEN NoMsg ELSE sending[u]
    BY <1>2 DEF SendMessage, TypeOK
  <2>4. \A u \in Thread : u # t => sending[u] # m
    BY <1>2, <2>1 DEF OneOwner
  <2>5. \A i \in 1..Len(queue) : queue[i] # m /\ queue[i] # NoMsg
    BY <1>2, ConstantFacts DEF OneOwner, TypeOK
  <2>6. cur' = cur /\ cur # m
    BY <1>2, <2>1 DEF SendMessage, OneOwner, dispVars
  <2>7. \A i \in 1..Len(queue') : i \in 1..Len(queue) \/ i = Len(queue) + 1
    BY <2>2
  <2>. HIDE DEF m
  <2>8. \A i, j \in 1..Len(queue') : queue'[i] = queue'[j] => i = j
    BY <2>2, <2>5, <2>7 DEF OneOwner
  <2>9. \A i \in 1..Len(queue') :
          queue'[i] # cur' /\ \A u \in Thread : queue'[i] # sending'[u]
    BY <2>1, <2>2, <2>3, <2>4, <2>5, <2>6, <2>7 DEF OneOwner
  <2>. QED
    BY <2>3, <2>6, <2>8, <2>9 DEF OneOwner
<1>3. ASSUME NEW t \in Poll, Polls(t)
      PROVE  OneOwner'
  BY <1>3, PollFrame DEF TypeOK, LifeCycle, OneOwner, mainVars, pollVars, dispVars, postVars
<1>4. CASE Drain
  <2>1. /\ Len(queue') = Len(queue) - 1
        /\ Len(queue) \in Nat
        /\ \A i \in 1..Len(queue') : queue'[i] = queue[i + 1]
    BY <1>4, HeadTailProperties, LenProperties DEF Drain, TypeOK
  <2>. QED
    BY <1>4, <2>1 DEF Drain, OneOwner, dispVars, postVars
<1>5. CASE DrainTimeout
  BY <1>5 DEF DrainTimeout, TypeOK, LifeCycle, OneOwner, mainVars, pollVars, dispVars, postVars
<1>6. CASE TestRun
  BY <1>6 DEF TestRun, TypeOK, LifeCycle, OneOwner, mainVars, pollVars, dispVars, postVars
<1>7. CASE Receive
  <2>1. /\ Len(queue') = Len(queue) - 1
        /\ Len(queue) \in Nat \ {0}
        /\ \A i \in 1..Len(queue') : queue'[i] = queue[i + 1]
    BY <1>7, HeadTailProperties, LenProperties, EmptySeq DEF Receive, TypeOK
  <2>2. cur' = queue[1]
    BY <1>7 DEF Receive
  <2>. QED
    BY <1>7, <2>1, <2>2 DEF Receive, OneOwner, postVars
<1>8. CASE ReceiveTimeout
  BY <1>8
     DEF ReceiveTimeout, TypeOK, LifeCycle, OneOwner, mainVars, pollVars, dispVars, postVars
<1>9. CASE Dispatch
  BY <1>9 DEF Dispatch, TypeOK, LifeCycle, OneOwner, mainVars, pollVars, dispVars, postVars
<1>10. CASE Discard
  <2>1. \A i \in 1..Len(queue) : queue[i] # NoMsg
    BY ConstantFacts DEF TypeOK
  <2>. QED
    BY <1>10, <2>1 DEF Discard, OneOwner, postVars
<1>11. CASE FreeMessage
  <2>1. \A i \in 1..Len(queue) : queue[i] # NoMsg
    BY ConstantFacts DEF TypeOK
  <2>. QED
    BY <1>11, <2>1 DEF FreeMessage, OneOwner, postVars
<1>12. CASE CloseQueue
  BY <1>12 DEF CloseQueue, TypeOK, LifeCycle, OneOwner, mainVars, pollVars, dispVars, postVars
<1>13. CASE FinishStartup
  BY <1>13
     DEF FinishStartup, TypeOK, LifeCycle, OneOwner, mainVars, pollVars, dispVars, postVars
<1>14. CASE StopPolling
  BY <1>14 DEF StopPolling, TypeOK, LifeCycle, OneOwner, mainVars, pollVars, dispVars, postVars
<1>15. CASE StopDispatcher
  BY <1>15
     DEF StopDispatcher, TypeOK, LifeCycle, OneOwner, mainVars, pollVars, dispVars, postVars
<1>16. CASE JoinDispatcher
  BY <1>16
     DEF JoinDispatcher, TypeOK, LifeCycle, OneOwner, mainVars, pollVars, dispVars, postVars
<1>17. CASE UNCHANGED vars
  BY <1>17 DEF vars, TypeOK, LifeCycle, OneOwner, mainVars, pollVars, dispVars, postVars
<1>. QED
  BY <1>1, <1>2, <1>3, <1>4, <1>5, <1>6, <1>7, <1>8, <1>9, <1>10, <1>11, <1>12, <1>13, <1>14, <1>15, <1>16, <1>17
     DEF Next, DispatcherStep, MainStep

-----------------------------------------------------------------------------
(* The queue between the two histories *)

LEMMA InitInOrder == Init => InOrder
<1> SUFFICES ASSUME Init PROVE InOrder
  OBVIOUS
<1>1. Len(sent) = 0 /\ Len(handled) = 0
  BY EmptySeq DEF Init
<1>. QED
  BY <1>1 DEF Init, InOrder


LEMMA InOrderStep ==
  TypeOK /\ LifeCycle /\ Owned /\ OneOwner /\ InOrder /\ [Next]_vars => InOrder'
<1> SUFFICES ASSUME TypeOK, LifeCycle, Owned, OneOwner, InOrder, [Next]_vars
             PROVE  InOrder'
  OBVIOUS
<1>1. ASSUME NEW t \in Thread, PostEvent(t)
      PROVE  InOrder'
  <2>1. \A i \in 1..Len(sent) : sent[i] \in Nat
    <3>1. \A i \in 1..Len(sent) : sent[i] \in Fresh
      BY ElementOfSeq DEF TypeOK
    <3>. QED
      BY <3>1, ConstantFacts
  <2>2. \A u \in Thread :
          sending'[u] = IF u = t THEN StaleCount + posts + 1 ELSE sending[u]
    BY <1>1 DEF PostEvent, TypeOK
  <2>3. posts \in Nat /\ StaleCount \in Nat /\ posts' = posts + 1
    BY <1>1, BoundAssumption DEF PostEvent, TypeOK
  <2>4. \A i \in 1..Len(sent) :
          /\ sent[i] <= StaleCount + posts'
          /\ \A u \in Thread : sending'[u] # sent[i]
    BY <2>1, <2>2, <2>3 DEF InOrder
  <2>. QED
    BY <1>1, <2>4 DEF PostEvent, InOrder, InHand, mainVars, pollVars, dispVars
<1>2. ASSUME NEW t \in Thread, SendMessage(t)
      PROVE  InOrder'
  <2>. DEFINE m == sending[t]
  <2>1. m \in Fresh /\ m \in Msg /\ m # NoMsg /\ m \in heap /\ dpc # "drain"
    BY <1>2 DEF SendMessage, TypeOK, Owned, LifeCycle, Msg
  <2>2. /\ Len(queue') = Len(queue) + 1
        /\ Len(queue) \in Nat
        /\ \A i \in 1..Len(queue) : queue'[i] = queue[i]
        /\ queue'[Len(queue) + 1] = m
    BY <1>2, <2>1, AppendProperties, LenProperties DEF SendMessage, TypeOK
  <2>3. /\ Len(sent') = Len(sent) + 1
        /\ Len(sent) \in Nat
        /\ Len(handled) \in Nat
        /\ \A i \in 1..Len(sent) : sent'[i] = sent[i]
        /\ sent'[Len(sent) + 1] = m
    BY <1>2, <2>1, AppendProperties, LenProperties DEF SendMessage, TypeOK
  <2>4. \A u \in Thread : sending'[u] = IF u = t THEN NoMsg ELSE sending[u]
    BY <1>2 DEF SendMessage, TypeOK
  <2>5. \A u \in Thread : u # t => sending[u] # m
    BY <1>2, <2>1 DEF OneOwner
  <2>6. \A i \in 1..Len(sent) : sent[i] # m /\ sent[i] # NoMsg
    BY <1>2, ConstantFacts DEF InOrder, TypeOK, Msg
  <2>7. m <= StaleCount + posts
    BY <2>1 DEF Owned
  <2>8. UNCHANGED <<threadRun, dpc, cur, handled, posts>>
    BY <1>2 DEF SendMessage, mainVars, pollVars, dispVars
  <2>. HIDE DEF m
  <2>9. Len(handled') <= Len(sent') /\ \A i \in 1..Len(handled') : handled'[i] = sent'[i]
    BY <2>3, <2>8 DEF InOrder
  <2>10. \A i \in 1..Len(sent') : i \in 1..Len(sent) \/ i = Len(sent) + 1
    BY <2>3
  <2>11. \A i \in 1..Len(sent') :
          /\ sent'[i] <= StaleCount + posts'
          /\ \A u \in Thread : sending'[u] # sent'[i]
          /\ \A j \in 1..Len(sent') : sent'[i] = sent'[j] => i = j
    BY <2>1, <2>3, <2>4, <2>5, <2>6, <2>7, <2>8, <2>10 DEF InOrder
  <2>12. ASSUME threadRun'
         PROVE  /\ Len(sent') = Len(handled') + InHand' + Len(queue')
                /\ InHand' = 1 => sent'[Len(handled') + 1] = cur'
                /\ \A i \in 1..Len(queue') :
                     queue'[i] = sent'[Len(handled') + InHand' + i]
    <3>1. InHand' = InHand /\ InHand \in {0, 1}
      BY <2>8 DEF InHand
    <3>2. /\ Len(sent) = Len(handled) + InHand + Len(queue)
          /\ InHand = 1 => sent[Len(handled) + 1] = cur
          /\ \A i \in 1..Len(queue) : queue[i] = sent[Len(handled) + InHand + i]
      BY <2>1, <2>8, <2>12 DEF InOrder
    <3>3. \A i \in 1..Len(queue') : i \in 1..Len(queue) \/ i = Len(queue) + 1
      BY <2>2
    <3>. HIDE DEF InHand
    <3>4. Len(sent') = Len(handled') + InHand' + Len(queue')
      BY <2>2, <2>3, <2>8, <3>1, <3>2
    <3>5. InHand' = 1 => sent'[Len(handled') + 1] = cur'
      BY <2>2, <2>3, <2>8, <3>1, <3>2
    <3>6. ASSUME NEW i \in 1..Len(queue')
          PROVE  queue'[i] = sent'[Len(handled') + InHand' + i]
      <4>1. CASE i \in 1..Len(queue)
        <5>1. queue'[i] = sent[Len(handled) + InHand + i]
          BY <2>2, <3>2, <4>1
        <5>2. Len(handled) + InHand + i \in 1..Len(sent)
          BY <2>2, <2>3, <3>1, <3>2, <4>1
        <5>3. sent'[Len(handled) + InHand + i] = sent[Len(handled) + InHand + i]
          BY <2>3, <5>2
        <5>. QED
          BY <2>8, <3>1, <5>1, <5>3
      <4>2. CASE i = Len(queue) + 1
        BY <2>2, <2>3, <2>8, <3>1, <3>2, <4>2
      <4>. QED
        BY <3>3, <3>6, <4>1, <4>2
    <3>. QED
      BY <3>4, <3>5, <3>6
  <2>. QED
    BY <2>9, <2>11, <2>12 DEF InOrder
<1>3. ASSUME NEW t \in Poll, Polls(t)
      PROVE  InOrder'
  <2>1. UNCHANGED <<mainVars, dispVars, queue, postVars, heap>>
    BY <1>3, PollFrame
  <2>. QED
    BY <2>1 DEF InOrder, InHand, mainVars, dispVars, postVars
<1>4. CASE Drain
  BY <1>4 DEF Drain, TypeOK, LifeCycle, InOrder, InHand, mainVars, pollVars, dispVars, postVars
<1>5. CASE DrainTimeout
  <2>1. Len(queue) = 0 /\ Len(sent) = 0 /\ Len(handled) = 0
    BY <1>5, EmptySeq DEF DrainTimeout, LifeCycle
  <2>. QED
    BY <1>5, <2>1 DEF DrainTimeout, InOrder, InHand, mainVars, pollVars, postVars
<1>6. CASE TestRun
  BY <1>6
     DEF TestRun, TypeOK, LifeCycle, InOrder, InHand, mainVars, pollVars, dispVars, postVars
<1>7. CASE Receive
  <2>1. /\ Len(queue') = Len(queue) - 1
        /\ Len(queue) \in Nat \ {0}
        /\ Len(handled) \in Nat
        /\ \A i \in 1..Len(queue') : queue'[i] = queue[i + 1]
    BY <1>7, HeadTailProperties, LenProperties, EmptySeq DEF Receive, TypeOK
  <2>2. cur' = queue[1]
    BY <1>7 DEF Receive
  <2>3. UNCHANGED <<threadRun, handled, sent, sending, posts>> /\ InHand = 0 /\ InHand' = 1
    BY <1>7 DEF Receive, InHand, mainVars, pollVars, postVars
  <2>4. ASSUME threadRun
        PROVE  /\ Len(sent') = Len(handled') + InHand' + Len(queue')
               /\ InHand' = 1 => sent'[Len(handled') + 1] = cur'
               /\ \A i \in 1..Len(queue') :
                    queue'[i] = sent'[Len(handled') + InHand' + i]
    <3>1. /\ Len(sent) = Len(handled) + Len(queue)
          /\ \A i \in 1..Len(queue) : queue[i] = sent[Len(handled) + i]
      BY <1>7, <2>1, <2>3, <2>4 DEF InOrder, Receive
    <3>. QED
      BY <2>1, <2>2, <2>3, <3>1
  <2>. QED
    BY <2>3, <2>4 DEF InOrder
<1>8. CASE ReceiveTimeout
  BY <1>8
     DEF ReceiveTimeout, TypeOK, LifeCycle, InOrder, InHand, mainVars, pollVars, dispVars, postVars
<1>9. CASE Dispatch
  <2>1. cur \in Msg
    BY <1>9 DEF Dispatch, TypeOK, LifeCycle
  <2>2. /\ Len(handled') = Len(handled) + 1
        /\ Len(handled) \in Nat
        /\ Len(queue) \in Nat
        /\ \A i \in 1..Len(handled) : handled'[i] = handled[i]
        /\ handled'[Len(handled) + 1] = cur
    BY <1>9, <2>1, AppendProperties, LenProperties DEF Dispatch, TypeOK
  <2>3. /\ Len(sent) = Len(handled) + 1 + Len(queue)
        /\ sent[Len(handled) + 1] = cur
        /\ \A i \in 1..Len(queue) : queue[i] = sent[Len(handled) + 1 + i]
    BY <1>9 DEF Dispatch, InOrder, InHand
  <2>4. UNCHANGED <<threadRun, queue, sent, sending, posts>> /\ dpc' = "notify"
    BY <1>9 DEF Dispatch, mainVars, pollVars, postVars
  <2>5. Len(handled') <= Len(sent') /\ \A i \in 1..Len(handled') : handled'[i] = sent'[i]
    BY <2>2, <2>3, <2>4 DEF InOrder
  <2>6. /\ Len(sent') = Len(handled') + InHand' + Len(queue')
        /\ \A i \in 1..Len(queue') : queue'[i] = sent'[Len(handled') + InHand' + i]
    BY <2>2, <2>3, <2>4 DEF InHand
  <2>. QED
    BY <2>4, <2>5, <2>6 DEF InOrder, InHand
<1>10. CASE Discard
  BY <1>10
     DEF Discard, TypeOK, LifeCycle, InOrder, InHand, mainVars, pollVars, dispVars, postVars
<1>11. CASE FreeMessage
  BY <1>11
     DEF FreeMessage, TypeOK, LifeCycle, InOrder, InHand, mainVars, pollVars, dispVars, postVars
<1>12. CASE CloseQueue
  BY <1>12
     DEF CloseQueue, TypeOK, LifeCycle, InOrder, InHand, mainVars, pollVars, dispVars, postVars
<1>13. CASE FinishStartup
  BY <1>13
     DEF FinishStartup, TypeOK, LifeCycle, InOrder, InHand, mainVars, pollVars, dispVars, postVars
<1>14. CASE StopPolling
  BY <1>14
     DEF StopPolling, TypeOK, LifeCycle, InOrder, InHand, mainVars, pollVars, dispVars, postVars
<1>15. CASE StopDispatcher
  BY <1>15
     DEF StopDispatcher, TypeOK, LifeCycle, InOrder, InHand, mainVars, pollVars, dispVars, postVars
<1>16. CASE JoinDispatcher
  BY <1>16
     DEF JoinDispatcher, TypeOK, LifeCycle, InOrder, InHand, mainVars, pollVars, dispVars, postVars
<1>17. CASE UNCHANGED vars
  BY <1>17 DEF vars, TypeOK, LifeCycle, InOrder, InHand, mainVars, pollVars, dispVars, postVars
<1>. QED
  BY <1>1, <1>2, <1>3, <1>4, <1>5, <1>6, <1>7, <1>8, <1>9, <1>10, <1>11, <1>12, <1>13, <1>14, <1>15, <1>16, <1>17
     DEF Next, DispatcherStep, MainStep

-----------------------------------------------------------------------------
(* The theorems *)

LEMMA DispatchInductiveInvariant == Safe => []DispatchInv
<1>1. Init => DispatchInv
  BY InitType, InitLifeCycle, InitOwned, InitOneOwner, InitInOrder DEF DispatchInv
<1>2. DispatchInv /\ [Next]_vars => DispatchInv'
  BY DispatchTypeStep, LifeCycleStep, OwnedStep, OneOwnerStep, InOrderStep DEF DispatchInv
<1>. QED
  BY <1>1, <1>2, PTL DEF Safe

\* Every variable keeps its type, whatever the threads do.
THEOREM TypeCorrect == Safe => []TypeOK
<1>1. DispatchInv => TypeOK
  BY DEF DispatchInv
<1>. QED
  BY <1>1, DispatchInductiveInvariant, PTL

\* PostEventImpl is called only with live copies, and Free is called once on
\* each: Event.cpp:147-154 against Event.cpp:419-427.
THEOREM NoMessageUsedAfterFree == Safe => [](NoUseAfterFree /\ OneOwner)
<1>1. DispatchInv => NoUseAfterFree /\ OneOwner
  BY DEF DispatchInv, NoUseAfterFree, Owned, LifeCycle
<1>. QED
  BY <1>1, DispatchInductiveInvariant, PTL

\* What a dead process left in the queue is never dispatched.
THEOREM StaleMessagesDropped == Safe => []NoStaleDispatch
<1>1. DispatchInv => NoStaleDispatch
  <2> SUFFICES ASSUME DispatchInv, NEW i \in 1..Len(handled)
               PROVE  handled[i] \notin Stale
    BY DEF NoStaleDispatch
  <2>1. handled[i] = sent[i] /\ i \in 1..Len(sent)
    BY LenProperties DEF DispatchInv, InOrder, TypeOK
  <2>2. sent[i] \in Fresh
    BY <2>1 DEF DispatchInv, TypeOK
  <2>. QED
    BY <2>1, <2>2, ConstantFacts
<1>. QED
  BY <1>1, DispatchInductiveInvariant, PTL

\* The destructor's order of joins: when the dispatcher is gone, no polling
\* thread is left inside SendMessage (Event.cpp:253-271).
THEOREM JoinOrderIsSafe == Safe => []NoOrphanedPoster
<1>1. DispatchInv => NoOrphanedPoster
  BY DEF DispatchInv, LifeCycle, NoOrphanedPoster, Thread
<1>. QED
  BY <1>1, DispatchInductiveInvariant, PTL

\* The dispatching thread and its queue implement the abstract channel: messages
\* are accepted once and handed over in order, at most once, and only while open.
THEOREM DispatchImplementsChannel == Safe => ImplementsChannel
<1>1. Init => Channel!Init
  BY DEF Init, Channel!Init
<1>2. DispatchInv /\ [Next]_vars => [Channel!Next]_Channel!vars
  <2> SUFFICES ASSUME DispatchInv, [Next]_vars
               PROVE  [Channel!Next]_Channel!vars
    OBVIOUS
  <2>1. ASSUME NEW t \in Thread, SendMessage(t)
        PROVE  Channel!Accept(sending[t]) /\ sending[t] \in Fresh
    BY <2>1 DEF SendMessage, Channel!Accept, DispatchInv, InOrder, TypeOK, mainVars, pollVars,
                dispVars
  <2>2. CASE Dispatch
    <3>1. /\ Len(sent) = Len(handled) + 1 + Len(queue)
          /\ sent[Len(handled) + 1] = cur
          /\ Len(handled) \in Nat /\ Len(queue) \in Nat
      BY <2>2, LenProperties DEF Dispatch, DispatchInv, InOrder, InHand, TypeOK
    <3>. QED
      BY <2>2, <3>1 DEF Dispatch, Channel!Next, Channel!Deliver, mainVars, pollVars, postVars
  <2>3. CASE StopDispatcher
    <3>1. threadRun
      BY <2>3 DEF StopDispatcher, DispatchInv, LifeCycle, TypeOK
    <3>. QED
      BY <2>3, <3>1 DEF StopDispatcher, Channel!Next, Channel!Close, dispVars, postVars
  <2>4. ASSUME NEW t \in Thread, PostEvent(t)
        PROVE  UNCHANGED Channel!vars
    BY <2>4 DEF PostEvent, Channel!vars, mainVars, pollVars, dispVars
  <2>5. ASSUME NEW t \in Poll, Polls(t)
        PROVE  UNCHANGED Channel!vars
    BY <2>5, PollFrame DEF DispatchInv, Channel!vars, mainVars, dispVars, postVars
  <2>6. CASE \/ Drain \/ DrainTimeout \/ TestRun \/ Receive \/ ReceiveTimeout
             \/ Discard \/ FreeMessage \/ CloseQueue
    BY <2>6 DEF Drain, DrainTimeout, TestRun, Receive, ReceiveTimeout, Discard,
                FreeMessage, CloseQueue, Channel!vars, mainVars, dispVars, postVars
  <2>7. CASE FinishStartup \/ StopPolling \/ JoinDispatcher
    BY <2>7 DEF FinishStartup, StopPolling, JoinDispatcher, Channel!vars,
                dispVars, postVars
  <2>8. CASE UNCHANGED vars
    BY <2>8 DEF vars, Channel!vars
  <2>. QED
    BY <2>1, <2>2, <2>3, <2>4, <2>5, <2>6, <2>7, <2>8
       DEF Next, DispatcherStep, MainStep, Channel!Next
<1>. QED
  BY <1>1, <1>2, DispatchInductiveInvariant, PTL DEF Safe, ImplementsChannel, Channel!Safe

-----------------------------------------------------------------------------
(* EventListener *)

LinksChecked ==
  overlapped \/ /\ Acyclic
                /\ \A p, q \in linking : p = q
                /\ \A p \in linking : p[1] \notin Chain(p[2])

DisabledOnce ==
  \A l \in Listener : \A i \in 1..Len(disabled[l]) :
    /\ Listed(l, disabled[l][i])
    /\ \A j \in 1..Len(disabled[l]) : disabled[l][i] = disabled[l][j] => i = j

ListenerInv == ListenerTypeOK /\ LinksChecked /\ DisabledOnce

-----------------------------------------------------------------------------
LEMMA ListenerInitInv == ListenerInit => ListenerInv
<1>. SUFFICES ASSUME ListenerInit PROVE ListenerInv
  OBVIOUS
<1>1. ListenerTypeOK
  <2>1. <<>> \in Seq(Event)
    BY EmptySeq
  <2>. QED
    BY <2>1 DEF ListenerInit, ListenerTypeOK
<1>2. Acyclic
  BY ListenerAssumption DEF ListenerInit, Acyclic
<1>3. DisabledOnce
  BY DEF ListenerInit, DisabledOnce
<1>. QED
  BY <1>1, <1>2, <1>3 DEF ListenerInit, ListenerInv, LinksChecked

\* A sequence without the element at place i.
LEMMA Without ==
  ASSUME NEW S, NEW s \in Seq(S), NEW i \in 1..Len(s)
  PROVE  LET r == [j \in 1..(Len(s) - 1) |-> IF j < i THEN s[j] ELSE s[j + 1]]
         IN r \in Seq(S) /\ Len(r) = Len(s) - 1
<1>. DEFINE r == [j \in 1..(Len(s) - 1) |-> IF j < i THEN s[j] ELSE s[j + 1]]
<1>1. Len(s) \in Nat /\ Len(s) - 1 \in Nat
  BY LenProperties
<1>2. \A j \in 1..(Len(s) - 1) : r[j] \in S
  BY <1>1, ElementOfSeq
<1>3. r \in Seq(S)
  BY <1>1, <1>2, IsASeq
<1>4. DOMAIN r = 1..(Len(s) - 1)
  OBVIOUS
<1>5. Len(r) = Len(s) - 1
  BY <1>1, <1>3, <1>4, LenProperties
<1>. QED
  BY <1>3, <1>5

-----------------------------------------------------------------------------
(* Types *)

LEMMA ListenerTypeStep ==
  ListenerTypeOK /\ [ListenerNext]_listenerVars => ListenerTypeOK'
<1>. SUFFICES ASSUME ListenerTypeOK, [ListenerNext]_listenerVars PROVE ListenerTypeOK'
  OBVIOUS
<1>. USE DEF ListenerTypeOK
<1>1. ASSUME NEW l \in Listener, NEW k \in Listener, CheckNextListener(l, k)
      PROVE  ListenerTypeOK'
  BY <1>1 DEF CheckNextListener
<1>2. ASSUME NEW l \in Listener, NEW k \in Listener, StoreNextListener(l, k)
      PROVE  ListenerTypeOK'
  BY <1>2 DEF StoreNextListener
<1>3. ASSUME NEW l \in Listener, NEW e \in Event, DisableNotifyForEventType(l, e)
      PROVE  ListenerTypeOK'
  <2>1. Append(disabled[l], e) \in Seq(Event)
    BY AppendProperties
  <2>. QED
    BY <1>3, <2>1 DEF DisableNotifyForEventType
<1>4. ASSUME NEW l \in Listener, NEW e \in Event, ReenableNotifyForEventType(l, e)
      PROVE  ListenerTypeOK'
  <2>1. disabled[l] \in Seq(Event)
    OBVIOUS
  <2>2. PICK i \in 1..Len(disabled[l]) :
          disabled' = [disabled EXCEPT ![l] =
            [j \in 1..(Len(@) - 1) |-> IF j < i THEN @[j] ELSE @[j + 1]]]
    BY <1>4 DEF ReenableNotifyForEventType
  <2>3. [j \in 1..(Len(disabled[l]) - 1) |->
           IF j < i THEN disabled[l][j] ELSE disabled[l][j + 1]] \in Seq(Event)
    BY <2>1, Without
  <2>4. disabled' \in [Listener -> Seq(Event)]
    BY <2>2, <2>3
  <2>. QED
    BY <1>4, <2>4 DEF ReenableNotifyForEventType
<1>5. CASE UNCHANGED listenerVars
  BY <1>5 DEF listenerVars
<1>. QED
  BY <1>1, <1>2, <1>3, <1>4, <1>5 DEF ListenerNext

-----------------------------------------------------------------------------
(* Chains *)

\* Storing a pointer to k in l closes no cycle when l is not on k's chain.
LEMMA LinkKeepsAcyclic ==
  ASSUME ListenerTypeOK, Acyclic, NEW l \in Listener, NEW k \in Listener,
         l \notin Chain(k), next' = [next EXCEPT ![l] = k]
  PROVE  Acyclic'
<1>1. PICK C \in SUBSET Listener : k \in C /\ Closed(C) /\ l \notin C
  BY DEF Chain
<1>2. ASSUME NEW S \in SUBSET Listener, S # {}
      PROVE  \E m \in S : next'[m] \notin S
  <2>1. CASE l \in S /\ k \in S
    <3>1. PICK m \in S \cap C : next[m] \notin S \cap C
      BY <1>1, <2>1 DEF Acyclic
    <3>2. next[m] \notin S
      BY <1>1, <3>1, ListenerAssumption DEF Closed
    <3>. QED
      BY <1>1, <3>1, <3>2 DEF ListenerTypeOK
  <2>2. CASE l \in S /\ k \notin S
    BY <2>2 DEF ListenerTypeOK
  <2>3. CASE l \notin S
    BY <1>2, <2>3 DEF ListenerTypeOK, Acyclic
  <2>. QED
    BY <2>1, <2>2, <2>3
<1>. QED
  BY <1>2 DEF Acyclic

LEMMA LinksStep ==
  ListenerTypeOK /\ LinksChecked /\ [ListenerNext]_listenerVars => LinksChecked'
<1>. SUFFICES ASSUME ListenerTypeOK, LinksChecked, [ListenerNext]_listenerVars
              PROVE  LinksChecked'
  OBVIOUS
<1>1. ASSUME NEW l \in Listener, NEW k \in Listener, CheckNextListener(l, k)
      PROVE  LinksChecked'
  <2>1. CASE overlapped \/ linking # {}
    BY <1>1, <2>1 DEF CheckNextListener, LinksChecked, ListenerTypeOK
  <2>2. CASE ~overlapped /\ linking = {}
    <3>1. linking' = {<<l, k>>} /\ next' = next
      BY <1>1, <2>2 DEF CheckNextListener
    <3>2. Acyclic'
      BY <2>2, <3>1 DEF LinksChecked, Acyclic
    <3>3. l \notin Chain(k)'
      BY <1>1, <3>1 DEF CheckNextListener, Chain, Closed
    <3>. QED
      BY <3>1, <3>2, <3>3 DEF LinksChecked
  <2>. QED
    BY <2>1, <2>2
<1>2. ASSUME NEW l \in Listener, NEW k \in Listener, StoreNextListener(l, k)
      PROVE  LinksChecked'
  <2>1. CASE overlapped
    BY <1>2, <2>1 DEF StoreNextListener, LinksChecked
  <2>2. CASE ~overlapped
    <3>1. linking' = {}
      BY <1>2, <2>2 DEF StoreNextListener, LinksChecked
    <3>2. l \notin Chain(k) /\ Acyclic
      BY <1>2, <2>2 DEF StoreNextListener, LinksChecked
    <3>3. Acyclic'
      BY <1>2, <3>2, LinkKeepsAcyclic DEF StoreNextListener
    <3>. QED
      BY <3>1, <3>3 DEF LinksChecked
  <2>. QED
    BY <2>1, <2>2
<1>3. ASSUME UNCHANGED <<next, linking, overlapped>>
      PROVE  LinksChecked'
  BY <1>3 DEF LinksChecked, Acyclic, Chain, Closed
<1>. QED
  BY <1>1, <1>2, <1>3 DEF ListenerNext, listenerVars, DisableNotifyForEventType,
     ReenableNotifyForEventType

-----------------------------------------------------------------------------
(* Disabled types *)

LEMMA DisabledStep ==
  ListenerTypeOK /\ DisabledOnce /\ [ListenerNext]_listenerVars => DisabledOnce'
<1>. SUFFICES ASSUME ListenerTypeOK, DisabledOnce, [ListenerNext]_listenerVars
              PROVE  DisabledOnce'
  OBVIOUS
<1>1. ASSUME NEW l \in Listener, NEW e \in Event, DisableNotifyForEventType(l, e)
      PROVE  DisabledOnce'
  <2>. DEFINE s == disabled[l]
  <2>1. s \in Seq(Event) /\ Len(s) \in Nat
    BY LenProperties DEF ListenerTypeOK
  <2>2. Len(Append(s, e)) = Len(s) + 1
    BY <2>1, AppendProperties
  <2>3. \A i \in 1..Len(s) : Append(s, e)[i] = s[i]
    BY <2>1, AppendProperties
  <2>4. Append(s, e)[Len(s) + 1] = e
    BY <2>1, AppendProperties
  <2>5. disabled' = [disabled EXCEPT ![l] = Append(s, e)]
    BY <1>1 DEF DisableNotifyForEventType
  <2>6. \A i \in 1..Len(s) : s[i] # e
    BY <1>1 DEF DisableNotifyForEventType, IsDisabled
  <2>7. \A i \in 1..(Len(s) + 1) : Listed(l, Append(s, e)[i])
    BY <1>1, <2>1, <2>3, <2>4 DEF DisableNotifyForEventType, DisabledOnce
  <2>8. \A i, j \in 1..(Len(s) + 1) : Append(s, e)[i] = Append(s, e)[j] => i = j
    BY <2>1, <2>3, <2>4, <2>6 DEF DisabledOnce
  <2>9. disabled'[l] = Append(s, e) /\ \A m \in Listener \ {l} : disabled'[m] = disabled[m]
    BY <2>5 DEF ListenerTypeOK
  <2>. QED
    <3>1. ASSUME NEW m \in Listener, NEW j \in 1..Len(disabled'[m])
          PROVE  /\ Listed(m, disabled'[m][j])
                 /\ \A k \in 1..Len(disabled'[m]) :
                      disabled'[m][j] = disabled'[m][k] => j = k
      <4>1. CASE m = l
        BY <2>2, <2>7, <2>8, <2>9, <4>1
      <4>2. CASE m # l
        BY <2>9, <4>2 DEF DisabledOnce
      <4>. QED
        BY <4>1, <4>2
    <3>. QED
      BY <3>1 DEF DisabledOnce, Listed
<1>2. ASSUME NEW l \in Listener, NEW e \in Event, ReenableNotifyForEventType(l, e)
      PROVE  DisabledOnce'
  <2>. DEFINE s == disabled[l]
  <2>1. s \in Seq(Event) /\ Len(s) \in Nat
    BY LenProperties DEF ListenerTypeOK
  <2>2. PICK i \in 1..Len(s) :
          disabled' = [disabled EXCEPT ![l] =
            [j \in 1..(Len(@) - 1) |-> IF j < i THEN @[j] ELSE @[j + 1]]]
    BY <1>2 DEF ReenableNotifyForEventType
  <2>. DEFINE r == [j \in 1..(Len(s) - 1) |-> IF j < i THEN s[j] ELSE s[j + 1]]
  <2>3. Len(r) = Len(s) - 1
    BY <2>1, Without
  <2>4. disabled'[l] = r /\ \A m \in Listener \ {l} : disabled'[m] = disabled[m]
    BY <2>2 DEF ListenerTypeOK
  <2>5. \A j \in 1..(Len(s) - 1) : r[j] = IF j < i THEN s[j] ELSE s[j + 1]
    OBVIOUS
  <2>. HIDE DEF r
  <2>6. \A j \in 1..(Len(s) - 1) : Listed(l, r[j])
    BY <2>1, <2>5 DEF DisabledOnce
  <2>7. \A j, k \in 1..(Len(s) - 1) : r[j] = r[k] => j = k
    BY <2>1, <2>5 DEF DisabledOnce
  <2>. QED
    <3>1. ASSUME NEW m \in Listener, NEW j \in 1..Len(disabled'[m])
          PROVE  /\ Listed(m, disabled'[m][j])
                 /\ \A k \in 1..Len(disabled'[m]) :
                      disabled'[m][j] = disabled'[m][k] => j = k
      <4>1. CASE m = l
        BY <2>3, <2>4, <2>6, <2>7, <4>1
      <4>2. CASE m # l
        BY <2>4, <4>2 DEF DisabledOnce
      <4>. QED
        BY <4>1, <4>2
    <3>. QED
      BY <3>1 DEF DisabledOnce, Listed
<1>3. ASSUME UNCHANGED disabled
      PROVE  DisabledOnce'
  BY <1>3 DEF DisabledOnce, Listed
<1>. QED
  BY <1>1, <1>2, <1>3 DEF ListenerNext, listenerVars, CheckNextListener,
     StoreNextListener

\* Without a wildcard each disabled type takes up one entry of the event list,
\* so there are no more of them than entries.
LEMMA OnceFits == ListenerTypeOK /\ DisabledOnce => DisabledFits
<1>. SUFFICES ASSUME ListenerTypeOK, DisabledOnce, NEW l \in Listener,
                     \A i \in 1..Len(EventList[l]) : EventList[l][i] \notin Group
              PROVE  Len(disabled[l]) <= Len(EventList[l])
  BY DEF DisabledFits
<1>. DEFINE m == Len(disabled[l])
            n == Len(EventList[l])
            place == [i \in 1..m |-> CHOOSE k \in 1..n : EventList[l][k] = disabled[l][i]]
<1>1. m \in Nat /\ n \in Nat
  BY EventAssumption, LenProperties DEF ListenerTypeOK
<1>2. \A i \in 1..m : disabled[l][i] \in Event
  BY <1>1, ElementOfSeq DEF ListenerTypeOK
<1>3. ASSUME NEW i \in 1..m
      PROVE  \E k \in 1..n : EventList[l][k] = disabled[l][i]
  <2>. DEFINE e == disabled[l][i]
  <2>1. PICK k \in 1..n : EventList[l][k] \in {e, AllInGroup(e)}
    BY DEF DisabledOnce, Listed
  <2>2. CASE e \in Group
    BY <2>1, <2>2 DEF AllInGroup
  <2>3. CASE e \notin Group
    <3>1. e \in Type
      BY <1>2, <2>3 DEF Event
    <3>2. GroupOf[e] \in Group
      BY <3>1, EventAssumption
    <3>. QED
      BY <2>1, <2>3, <3>2 DEF AllInGroup
  <2>. QED
    BY <2>2, <2>3
<1>4. \A i \in 1..m : place[i] \in 1..n /\ EventList[l][place[i]] = disabled[l][i]
  BY <1>3
<1>. HIDE DEF place
<1>5. \A i, j \in 1..m : place[i] = place[j] => i = j
  BY <1>4 DEF DisabledOnce
<1>6. place \in [1..m -> 1..n]
  BY <1>4 DEF place
<1>7. place \in Injection(1..m, 1..n)
  BY <1>5, <1>6, Fun_IsInj
<1>8. Cardinality(1..m) <= Cardinality(1..n)
  BY <1>1, <1>7, FS_Injection, FS_Interval
<1>9. Cardinality(1..m) = m /\ Cardinality(1..n) = n
  <2>1. \A a, b \in Int : Cardinality(a..b) = IF a > b THEN 0 ELSE b - a + 1
    BY FS_Interval
  <2>2. \A b \in Nat : Cardinality(1..b) = b
    BY <2>1
  <2>. HIDE DEF m, n
  <2>. QED
    BY <1>1, <2>2
<1>10. m <= n
  <2>. HIDE DEF m, n
  <2>. QED
    BY <1>1, <1>8, <1>9
<1>. QED
  BY <1>10

-----------------------------------------------------------------------------
(* The theorems *)

LEMMA ListenerInductiveInvariant == ListenerSpec => []ListenerInv
<1>1. ListenerInv /\ [ListenerNext]_listenerVars => ListenerInv'
  BY ListenerTypeStep, LinksStep, DisabledStep DEF ListenerInv
<1>. QED
  BY <1>1, ListenerInitInv, PTL DEF ListenerSpec

\* However many listeners are chained in whatever order, a cycle needs two calls
\* of SetNextListener that overlap (EventListenerPriv.cpp:55-68).
THEOREM CyclesNeedOverlap == ListenerSpec => []CyclesOnlyFromOverlap
<1>1. ListenerInv => CyclesOnlyFromOverlap
  BY DEF ListenerInv, LinksChecked, CyclesOnlyFromOverlap
<1>. QED
  BY <1>1, ListenerInductiveInvariant, PTL

\* disabledEventList_ is never overrun by a listener that lists no wildcard
\* (EventListenerPriv.cpp:71-96).
THEOREM DisabledListFits == ListenerSpec => []DisabledFits
<1>1. ListenerInv => DisabledFits
  BY OnceFits DEF ListenerInv
<1>. QED
  BY <1>1, ListenerInductiveInvariant, PTL

-----------------------------------------------------------------------------
(* EventManager *)

\* The entries that count are listeners.
Entered == \A i \in 1..numListeners : listeners[i] \in Listener

\* An entry is read once for each step of the walk.
VisitsBounded ==
  walk.active => \A l \in Listener : walk.visits[l] + walk.left <= Slots

\* While nothing disturbs the walk it has read what it owes once, or has the one
\* entry of it still ahead.
WalkExact ==
  (walk.active /\ walk.disturbed = {}) =>
    /\ walk.left <= numListeners
    /\ \A l \in walk.owed :
         \/ walk.visits[l] = 1 /\ \A i \in 1..walk.left : listeners[i] # l
         \/ /\ walk.visits[l] = 0
            /\ \E i \in 1..walk.left :
                 /\ listeners[i] = l
                 /\ \A j \in 1..walk.left : listeners[j] = l => j = i

\* While no more than removals disturb it, what it owes and has not read is ahead.
WalkComplete ==
  (walk.active /\ walk.disturbed \subseteq {"removedAhead"}) =>
    \A l \in walk.owed :
      \/ walk.visits[l] >= 1
      \/ \E i \in 1..walk.left : i <= numListeners /\ listeners[i] = l

ManagerInv ==
  ManagerTypeOK /\ Entered /\ VisitsBounded /\ NoDeadEntry /\ WalkExact /\ WalkComplete

-----------------------------------------------------------------------------
(* Facts about the array                                                    *)

LEMMA SlotFacts == Slots \in Nat \ {0} /\ MaxChanges \in Nat
BY SlotsAssumption

LEMMA WalkFields ==
  ASSUME ManagerTypeOK, walk.active
  PROVE  /\ walk \in Walk
         /\ walk.left \in Nat /\ walk.left <= Slots
         /\ walk.visits \in [Listener -> 0..Slots]
         /\ walk.owed \subseteq Listener
         /\ walk.disturbed \subseteq Disturbance
<1>1. walk \in Walk
  BY DEF ManagerTypeOK, Idle
<1>2. /\ walk.left \in 0..Slots
      /\ walk.visits \in [Listener -> 0..Slots]
      /\ walk.owed \subseteq Listener
      /\ walk.disturbed \subseteq Disturbance
  BY <1>1 DEF Walk
<1>. QED
  BY <1>1, <1>2, SlotFacts

\* A listener that is not counted twice has one entry.
LEMMA CountedOnce ==
  ASSUME ManagerTypeOK, NEW l \in Listener,
         NEW i \in 1..numListeners, listeners[i] = l
  PROVE  Count(l) = 1 <=> \A j \in 1..numListeners : listeners[j] = l => j = i
<1>. DEFINE S == {j \in 1..numListeners : listeners[j] = l}
<1>1. IsFiniteSet(S)
  <2>1. IsFiniteSet(1..numListeners)
    BY FS_Interval, SlotFacts DEF ManagerTypeOK
  <2>. QED
    BY <2>1, FS_Subset
<1>2. Cardinality(S) = 1 <=> \E x : S = {x}
  BY <1>1, FS_Singleton
<1>3. Count(l) = Cardinality(S)
  BY DEF Count
<1>. QED
  BY <1>2, <1>3

LEMMA CountedTwice ==
  ASSUME ManagerTypeOK, NEW l \in Listener, l \in Registered, ~(Count(l) > 1)
  PROVE  Count(l) = 1
<1>. DEFINE S == {j \in 1..numListeners : listeners[j] = l}
<1>1. IsFiniteSet(S)
  <2>1. IsFiniteSet(1..numListeners)
    BY FS_Interval, SlotFacts DEF ManagerTypeOK
  <2>. QED
    BY <2>1, FS_Subset
<1>2. S # {}
  BY DEF Registered
<1>3. Cardinality(S) \in Nat /\ Cardinality(S) # 0
  BY <1>1, <1>2, FS_CardinalityType, FS_EmptySet
<1>. QED
  BY <1>3 DEF Count

-----------------------------------------------------------------------------
(* What AddListener and RemoveAt do to the entries                          *)

LEMMA AddEffect ==
  ASSUME ManagerTypeOK, Entered, NEW l \in Listener, NEW stay \in BOOLEAN,
         AddListener(l, stay)
  PROVE  /\ listeners' \in [1..Slots -> Listener \cup {NoListener}]
         /\ numListeners' = numListeners + 1
         /\ \A i \in 1..(numListeners - 1) : listeners'[i] = listeners[i]
         /\ \/ /\ listeners'[numListeners + 1] = l
               /\ numListeners > 0 => listeners'[numListeners] = listeners[numListeners]
            \/ /\ numListeners > 0
               /\ listeners'[numListeners] = l
               /\ listeners'[numListeners + 1] = listeners[numListeners]
               /\ (walk.active /\ walk.left = numListeners)
                    => "movedBack" \in walk'.disturbed
<1>. DEFINE n == numListeners
            grow == n >= listSize
            last == listeners[n]
            array == IF grow
                     THEN [i \in 1..Slots |-> IF i <= n THEN listeners[i] ELSE NoListener]
                     ELSE listeners
            before == n > 0 /\ stayLast'[last]
            what == (IF grow THEN {"regrown"} ELSE {}) \cup
                    (IF before /\ walk.active /\ walk.left = n THEN {"movedBack"} ELSE {})
<1>1. n \in Nat /\ n < Slots /\ Slots \in Nat
  BY SlotFacts DEF ManagerTypeOK, AddListener
<1>2. array \in [1..Slots -> Listener \cup {NoListener}]
  BY DEF ManagerTypeOK
<1>3. \A i \in 1..n : array[i] = listeners[i]
  BY <1>1
<1>4. /\ listeners' = IF before THEN [array EXCEPT ![n] = l, ![n + 1] = last]
                      ELSE [array EXCEPT ![n + 1] = l]
      /\ walk' = Disturb(what)
      /\ numListeners' = n + 1
  BY DEF AddListener
<1>5. n > 0 => last \in Listener
  BY <1>1 DEF Entered
<1>. HIDE DEF array
<1>6. CASE before
  <2>1. listeners' = [array EXCEPT ![n] = l, ![n + 1] = last]
    BY <1>4, <1>6
  <2>2. listeners'[n] = l /\ listeners'[n + 1] = last
    BY <1>1, <1>2, <1>6, <2>1
  <2>3. \A i \in 1..(n - 1) : listeners'[i] = listeners[i]
    BY <1>1, <1>2, <1>3, <2>1
  <2>4. ASSUME walk.active, walk.left = n
        PROVE  "movedBack" \in walk'.disturbed
    <3>1. "movedBack" \in what
      BY <1>6, <2>4
    <3>2. walk \in Walk
      BY <2>4, WalkFields
    <3>. HIDE DEF what
    <3>3. walk' = [walk EXCEPT !.disturbed = @ \cup what]
      BY <1>4, <2>4 DEF Disturb
    <3>. QED
      BY <3>1, <3>2, <3>3 DEF Walk
  <2>5. listeners' \in [1..Slots -> Listener \cup {NoListener}]
    BY <1>1, <1>2, <1>5, <1>6, <2>1
  <2>. QED
    BY <1>1, <1>4, <1>6, <2>2, <2>3, <2>4, <2>5
<1>7. CASE ~before
  <2>1. listeners' = [array EXCEPT ![n + 1] = l]
    BY <1>4, <1>7
  <2>2. listeners'[n + 1] = l /\ \A i \in 1..n : listeners'[i] = listeners[i]
    BY <1>1, <1>2, <1>3, <2>1
  <2>3. listeners' \in [1..Slots -> Listener \cup {NoListener}]
    BY <1>1, <1>2, <2>1
  <2>. QED
    BY <1>1, <1>4, <2>2, <2>3
<1>. QED
  BY <1>6, <1>7

LEMMA RemoveEffect ==
  ASSUME ManagerTypeOK, Entered, NEW l \in Listener, NEW i \in 1..numListeners,
         RemoveAt(l, i)
  PROVE  /\ listeners' \in [1..Slots -> Listener \cup {NoListener}]
         /\ numListeners' = numListeners - 1
         /\ numListeners' \in 0..Slots
         /\ \A j \in 1..(i - 1) : listeners'[j] = listeners[j]
         /\ \A j \in i..(numListeners - 1) : listeners'[j] = listeners[j + 1]
<1>1. numListeners \in Nat /\ numListeners <= Slots /\ Slots \in Nat
  BY SlotFacts DEF ManagerTypeOK
<1>2. listeners' = [j \in 1..Slots |->
                     IF i <= j /\ j < numListeners THEN listeners[j + 1]
                     ELSE listeners[j]]
  BY DEF RemoveAt
<1>3. \A j \in 1..Slots : j < numListeners => j + 1 \in 1..Slots
  BY <1>1
<1>4. listeners' \in [1..Slots -> Listener \cup {NoListener}]
  BY <1>1, <1>2, <1>3 DEF ManagerTypeOK
<1>. QED
  BY <1>1, <1>2, <1>4 DEF RemoveAt

-----------------------------------------------------------------------------
(* The listeners see steps of EventListener                                 *)

LEMMA ListenerSteps ==
  ManagerTypeOK /\ [ManagerNext]_managerVars => [ListenerNext]_listenerVars
<1>. SUFFICES ASSUME ManagerTypeOK, [ManagerNext]_managerVars PROVE [ListenerNext]_listenerVars
  OBVIOUS
<1>1. alive \subseteq Listener
  BY DEF ManagerTypeOK
<1>2. CASE ChangeListener
  BY <1>1, <1>2 DEF ChangeListener, ListenerNext
<1>3. ASSUME NEW l \in Listener, NEW stay \in BOOLEAN, AddListener(l, stay)
      PROVE  UNCHANGED listenerVars
  BY <1>3 DEF AddListener
<1>4. ASSUME NEW l \in Listener, UnregisterEventListener(l) \/ DestroyListener(l)
      PROVE  UNCHANGED listenerVars
  BY <1>4 DEF UnregisterEventListener, DestroyListener
<1>5. CASE WalkStep
  BY <1>5 DEF WalkStep, NextEntry, Notify, Consumed, NextInChain, WalkDone
<1>6. ASSUME NEW e \in Type, PostEventImpl(e)
      PROVE  UNCHANGED listenerVars
  BY <1>6 DEF PostEventImpl
<1>7. CASE UNCHANGED managerVars
  BY <1>7 DEF managerVars
<1>. QED
  BY <1>2, <1>3, <1>4, <1>5, <1>6, <1>7 DEF ManagerNext, ClientStep

-----------------------------------------------------------------------------
(* Types                                                                    *)

LEMMA DisturbType ==
  ASSUME ManagerTypeOK, NEW W \in SUBSET Disturbance, walk' = Disturb(W)
  PROVE  /\ walk' = Idle \/ walk' \in Walk
         /\ walk'.active = walk.active
         /\ walk.active =>
              /\ walk'.left = walk.left /\ walk'.owed = walk.owed
              /\ walk'.visits = walk.visits /\ walk'.at = walk.at
              /\ walk.disturbed \subseteq walk'.disturbed
<1>1. CASE walk.active
  <2>1. walk \in Walk
    BY <1>1, WalkFields
  <2>2. walk' = [walk EXCEPT !.disturbed = @ \cup W]
    BY <1>1 DEF Disturb
  <2>. QED
    BY <1>1, <2>1, <2>2 DEF Walk
<1>2. CASE ~walk.active
  BY <1>2 DEF Disturb, ManagerTypeOK, Walk
<1>. QED
  BY <1>1, <1>2

LEMMA AddWalk ==
  ASSUME ManagerTypeOK, NEW l \in Listener, NEW stay \in BOOLEAN, AddListener(l, stay)
  PROVE  /\ walk' = Idle \/ walk' \in Walk
         /\ walk'.active = walk.active
         /\ walk.active =>
              /\ walk'.left = walk.left /\ walk'.owed = walk.owed
              /\ walk'.visits = walk.visits /\ walk'.at = walk.at
              /\ walk.disturbed \subseteq walk'.disturbed
<1>1. PICK W \in SUBSET Disturbance : walk' = Disturb(W)
  BY DEF AddListener, Disturbance
<1>. QED
  BY <1>1, DisturbType

LEMMA RemoveWalk ==
  ASSUME ManagerTypeOK, NEW l \in Listener, NEW i \in 1..numListeners, RemoveAt(l, i)
  PROVE  /\ walk' = Idle \/ walk' \in Walk
         /\ walk'.active = walk.active
         /\ walk.active =>
              /\ walk'.left = walk.left
              /\ walk'.owed = (IF Count(l) = 1 THEN walk.owed \ {l} ELSE walk.owed)
              /\ walk'.visits = walk.visits /\ walk'.at = walk.at
              /\ walk.disturbed \subseteq walk'.disturbed
              /\ i <= walk.left => "removedAhead" \in walk'.disturbed
<1>1. CASE walk.active
  <2>1. walk \in Walk
    BY <1>1, WalkFields
  <2>2. walk' = [walk EXCEPT
           !.owed = IF Count(l) = 1 THEN @ \ {l} ELSE @,
           !.disturbed = IF i <= walk.left THEN @ \cup {"removedAhead"} ELSE @]
    BY <1>1 DEF RemoveAt
  <2>. HIDE DEF Count
  <2>. QED
    BY <1>1, <2>1, <2>2 DEF Walk, Disturbance
<1>2. CASE ~walk.active
  BY <1>2 DEF RemoveAt, ManagerTypeOK, Walk
<1>. QED
  BY <1>1, <1>2

-----------------------------------------------------------------------------
(* What the steps of the walk do to it                                      *)

LEMMA NextEntryEffect ==
  ASSUME ManagerTypeOK, VisitsBounded, NextEntry
  PROVE  /\ walk.active /\ walk.left \in 1..Slots
         /\ \/ /\ walk' = Idle
               /\ fault' = TRUE
               /\ "regrown" \in walk.disturbed \/ listeners[walk.left] \notin alive
            \/ /\ walk' \in Walk /\ fault' = fault
               /\ listeners[walk.left] \in Listener
               /\ walk'.left = walk.left - 1
               /\ walk'.owed = walk.owed /\ walk'.disturbed = walk.disturbed
               /\ walk'.visits = [walk.visits EXCEPT ![listeners[walk.left]] = @ + 1]
<1>. DEFINE l == listeners[walk.left]
<1>1. walk.active /\ walk.left > 0 /\ walk \in Walk /\ walk.left \in 1..Slots
  BY WalkFields, SlotFacts DEF NextEntry
<1>2. CASE "regrown" \in walk.disturbed \/ l \notin alive
  BY <1>1, <1>2 DEF NextEntry
<1>3. CASE ~("regrown" \in walk.disturbed \/ l \notin alive)
  <2>1. l \in Listener
    BY <1>3 DEF ManagerTypeOK
  <2>2. walk.visits[l] \in Nat /\ walk.visits[l] + 1 \in 0..Slots /\ walk.left - 1 \in 0..Slots
    <3>1. walk.visits[l] \in 0..Slots /\ walk.visits[l] + walk.left <= Slots
      BY <1>1, <2>1, WalkFields DEF VisitsBounded
    <3>. QED
      BY <1>1, <3>1, SlotFacts
  <2>3. /\ walk' = [walk EXCEPT !.left = @ - 1, !.at = l, !.visits[l] = @ + 1]
        /\ fault' = fault
    BY <1>3 DEF NextEntry
  <2>4. [walk.visits EXCEPT ![l] = @ + 1] \in [Listener -> 0..Slots]
    BY <1>1, <2>1, <2>2, WalkFields
  <2>. HIDE DEF l
  <2>5. /\ walk'.left = walk.left - 1
        /\ walk'.owed = walk.owed /\ walk'.disturbed = walk.disturbed
        /\ walk'.visits = [walk.visits EXCEPT ![l] = @ + 1]
    BY <1>1, <2>3 DEF Walk
  <2>6. walk' \in Walk
    BY <1>1, <2>1, <2>2, <2>3, <2>4 DEF Walk
  <2>. QED
    BY <1>1, <2>1, <2>3, <2>5, <2>6 DEF l
<1>. QED
  BY <1>2, <1>3

LEMMA ChainStepEffect ==
  ASSUME ManagerTypeOK, Notify \/ Consumed \/ NextInChain \/ WalkDone
  PROVE  /\ walk.active /\ fault' = fault
         /\ \/ walk' = Idle
            \/ /\ walk' \in Walk
               /\ walk'.left = walk.left /\ walk'.visits = walk.visits
               /\ walk'.owed = walk.owed /\ walk'.disturbed = walk.disturbed
<1>1. walk.active /\ walk \in Walk
  BY WalkFields DEF Notify, Consumed, NextInChain, WalkDone
<1>2. CASE Notify
  BY <1>1, <1>2 DEF Notify, Walk
<1>3. CASE Consumed
  BY <1>1, <1>3 DEF Consumed, Walk
<1>4. CASE NextInChain
  <2>1. walk.at \in Listener
    BY <1>1, <1>4 DEF NextInChain, Walk
  <2>2. next[walk.at] \in Listener \cup {NoListener}
    BY <2>1 DEF ManagerTypeOK, ListenerTypeOK
  <2>. QED
    BY <1>1, <1>4, <2>2 DEF NextInChain, Walk
<1>5. CASE WalkDone
  BY <1>1, <1>5 DEF WalkDone
<1>. QED
  BY <1>2, <1>3, <1>4, <1>5

LEMMA PostEffect ==
  ASSUME ManagerTypeOK, Entered, NEW e \in Type, PostEventImpl(e)
  PROVE  /\ walk' \in Walk /\ walk'.active
         /\ walk'.left = numListeners
         /\ walk'.owed = {l \in Registered : Count(l) = 1}
         /\ walk'.visits = [l \in Listener |-> 0]
         /\ walk'.disturbed = {}
<1>1. {l \in Registered : Count(l) = 1} \subseteq Listener
  BY DEF Registered, Entered
<1>2. numListeners \in 0..Slots /\ 0 \in 0..Slots
  BY SlotFacts DEF ManagerTypeOK
<1>3. [l \in Listener |-> 0] \in [Listener -> 0..Slots]
  BY <1>2
<1>. HIDE DEF Count, Registered
<1>. QED
  BY <1>1, <1>2, <1>3 DEF PostEventImpl, Walk

-----------------------------------------------------------------------------
(* Types and entries                                                        *)

LEMMA ManagerTypeStep ==
  ManagerTypeOK /\ Entered /\ VisitsBounded /\ [ManagerNext]_managerVars => ManagerTypeOK'
<1>. SUFFICES ASSUME ManagerTypeOK, Entered, VisitsBounded, [ManagerNext]_managerVars PROVE ManagerTypeOK'
  OBVIOUS
<1>1. ListenerTypeOK'
  BY ListenerSteps, ListenerTypeStep DEF ManagerTypeOK
<1>2. ASSUME NEW l \in Listener, NEW stay \in BOOLEAN, AddListener(l, stay)
      PROVE  ManagerTypeOK'
  <2>1. /\ listeners' \in [1..Slots -> Listener \cup {NoListener}]
        /\ numListeners' = numListeners + 1
    BY <1>2, AddEffect
  <2>2. walk' = Idle \/ walk' \in Walk
    BY <1>2, AddWalk
  <2>3. numListeners < Slots /\ stayLast' = [stayLast EXCEPT ![l] = stay]
    BY <1>2 DEF AddListener
  <2>4. listSize' = IF numListeners >= listSize THEN listSize + GrowBySize ELSE listSize
    BY <1>2 DEF AddListener
  <2>5. fault' \in BOOLEAN /\ changes' \in 0..MaxChanges /\ UNCHANGED lifeVars
    BY <1>2, SlotFacts DEF AddListener, Change, ManagerTypeOK
  <2>6. numListeners' \in 0..Slots /\ listSize' \in Nat /\ numListeners' <= listSize'
    BY <2>1, <2>3, <2>4, SlotFacts DEF ManagerTypeOK, GrowBySize
  <2>. QED
    BY <1>1, <2>1, <2>2, <2>3, <2>5, <2>6 DEF ManagerTypeOK, lifeVars
<1>3. ASSUME NEW l \in Listener, NEW i \in 1..numListeners, RemoveAt(l, i),
             alive' \subseteq Listener, orphaned' \subseteq Listener,
             changes' \in 0..MaxChanges, UNCHANGED fault
      PROVE  ManagerTypeOK'
  <2>1. /\ listeners' \in [1..Slots -> Listener \cup {NoListener}]
        /\ numListeners' = numListeners - 1 /\ numListeners' \in 0..Slots
    BY <1>3, RemoveEffect
  <2>2. walk' = Idle \/ walk' \in Walk
    BY <1>3, RemoveWalk
  <2>3. UNCHANGED <<listSize, stayLast>>
    BY <1>3 DEF RemoveAt
  <2>4. numListeners' <= listSize'
    BY <2>1, <2>3, SlotFacts DEF ManagerTypeOK
  <2>. QED
    BY <1>1, <1>3, <2>1, <2>2, <2>3, <2>4 DEF ManagerTypeOK
<1>4. ASSUME NEW l \in Listener, UnregisterEventListener(l)
      PROVE  ManagerTypeOK'
  <2>1. changes' \in 0..MaxChanges
    BY <1>4, SlotFacts DEF UnregisterEventListener, Change, ManagerTypeOK
  <2>. QED
    BY <1>3, <1>4, <2>1 DEF UnregisterEventListener, RemoveListener, ManagerTypeOK, lifeVars
<1>5. ASSUME NEW l \in Listener, DestroyListener(l)
      PROVE  ManagerTypeOK'
  <2>1. changes' \in 0..MaxChanges /\ alive' \subseteq Listener /\ orphaned' \subseteq Listener
    BY <1>5, SlotFacts DEF DestroyListener, Change, ManagerTypeOK
  <2>2. CASE l \in Registered
    BY <1>3, <1>5, <2>1, <2>2 DEF DestroyListener, RemoveListener
  <2>3. CASE l \notin Registered
    BY <1>1, <1>5, <2>1, <2>3 DEF DestroyListener, ManagerTypeOK, arrayVars
  <2>. QED
    BY <2>2, <2>3
<1>6. CASE ChangeListener
  BY <1>1, <1>6, SlotFacts DEF ChangeListener, Change, ManagerTypeOK, arrayVars, lifeVars
<1>7. CASE NextEntry
  BY <1>1, <1>7, NextEntryEffect DEF NextEntry, ManagerTypeOK, arrayVars, lifeVars
<1>8. CASE Notify \/ Consumed \/ NextInChain \/ WalkDone
  <2>1. UNCHANGED <<listenerVars, arrayVars, lifeVars, fault, changes>>
    BY <1>8 DEF Notify, Consumed, NextInChain, WalkDone
  <2>. QED
    BY <1>1, <1>8, <2>1, ChainStepEffect DEF ManagerTypeOK, arrayVars, lifeVars
<1>9. ASSUME NEW e \in Type, PostEventImpl(e)
      PROVE  ManagerTypeOK'
  BY <1>1, <1>9, PostEffect DEF PostEventImpl, ManagerTypeOK, arrayVars, lifeVars
<1>10. CASE UNCHANGED managerVars
  BY <1>1, <1>10 DEF managerVars, ManagerTypeOK, arrayVars, lifeVars
<1>. QED
  BY <1>2, <1>4, <1>5, <1>6, <1>7, <1>8, <1>9, <1>10 DEF ManagerNext, ClientStep, WalkStep

-----------------------------------------------------------------------------
(* The kinds of steps, as the invariants below tell them apart              *)

Removing(l, i) ==
  /\ RemoveAt(l, i)
  /\ UNCHANGED fault
  /\ \/ UNCHANGED lifeVars
     \/ /\ alive' = alive \ {l}
        /\ orphaned' = IF Count(l) > 1 THEN orphaned \cup {l} ELSE orphaned

DestroyingAlone(l) ==
  /\ l \notin Registered
  /\ alive' = alive \ {l}
  /\ orphaned \subseteq orphaned'
  /\ UNCHANGED <<arrayVars, walk, fault>>

LEMMA StepKinds ==
  ASSUME ManagerTypeOK, [ManagerNext]_managerVars
  PROVE  \/ \E l \in Listener, stay \in BOOLEAN : AddListener(l, stay)
         \/ \E l \in Listener, i \in 1..numListeners : Removing(l, i)
         \/ \E l \in Listener : DestroyingAlone(l)
         \/ UNCHANGED <<arrayVars, lifeVars, walk, fault>>
         \/ NextEntry /\ UNCHANGED <<arrayVars, lifeVars>>
         \/ /\ Notify \/ Consumed \/ NextInChain \/ WalkDone
            /\ UNCHANGED <<arrayVars, lifeVars>>
         \/ \E e \in Type : PostEventImpl(e) /\ UNCHANGED <<arrayVars, lifeVars, fault>>
<1>1. ASSUME NEW l \in Listener, UnregisterEventListener(l)
      PROVE  \E i \in 1..numListeners : Removing(l, i)
  BY <1>1 DEF UnregisterEventListener, RemoveListener, Removing
<1>2. ASSUME NEW l \in Listener, DestroyListener(l)
      PROVE  DestroyingAlone(l) \/ \E i \in 1..numListeners : Removing(l, i)
  <2>1. CASE l \in Registered
    BY <1>2, <2>1 DEF DestroyListener, RemoveListener, Removing
  <2>2. CASE l \notin Registered
    BY <1>2, <2>2 DEF DestroyListener, DestroyingAlone
  <2>. QED
    BY <2>1, <2>2
<1>3. CASE ChangeListener
  BY <1>3 DEF ChangeListener
<1>4. CASE WalkStep
  BY <1>4 DEF WalkStep, NextEntry, Notify, Consumed, NextInChain, WalkDone
<1>5. ASSUME NEW e \in Type, PostEventImpl(e)
      PROVE  UNCHANGED <<arrayVars, lifeVars, fault>>
  BY <1>5 DEF PostEventImpl
<1>6. CASE UNCHANGED managerVars
  BY <1>6 DEF managerVars
<1>. QED
  BY <1>1, <1>2, <1>3, <1>4, <1>5, <1>6 DEF ManagerNext, ClientStep

LEMMA EnteredStep ==
  ManagerTypeOK /\ Entered /\ [ManagerNext]_managerVars => Entered'
<1>. SUFFICES ASSUME ManagerTypeOK, Entered, [ManagerNext]_managerVars PROVE Entered'
  OBVIOUS
<1>0. numListeners \in Nat
  BY SlotFacts DEF ManagerTypeOK
<1>1. ASSUME NEW l \in Listener, NEW stay \in BOOLEAN, AddListener(l, stay)
      PROVE  Entered'
  <2>1. ASSUME NEW i \in 1..(numListeners + 1)
        PROVE  listeners'[i] \in Listener
    BY <1>0, <1>1, <2>1, AddEffect DEF Entered
  <2>. QED
    BY <1>1, <2>1, AddEffect DEF Entered
<1>2. ASSUME NEW l \in Listener, NEW i \in 1..numListeners, Removing(l, i)
      PROVE  Entered'
  <2>1. /\ numListeners' = numListeners - 1
        /\ \A j \in 1..(i - 1) : listeners'[j] = listeners[j]
        /\ \A j \in i..(numListeners - 1) : listeners'[j] = listeners[j + 1]
    BY <1>2, RemoveEffect DEF Removing
  <2>. QED
    BY <1>0, <2>1 DEF Entered
<1>3. CASE UNCHANGED arrayVars
  BY <1>3 DEF arrayVars, Entered
<1>. QED
  BY <1>1, <1>2, <1>3, StepKinds DEF DestroyingAlone

LEMMA VisitsStep ==
  ManagerTypeOK /\ Entered /\ VisitsBounded /\ [ManagerNext]_managerVars => VisitsBounded'
<1>. SUFFICES ASSUME ManagerTypeOK, Entered, VisitsBounded, [ManagerNext]_managerVars PROVE VisitsBounded'
  OBVIOUS
<1>1. ASSUME NEW l \in Listener, NEW stay \in BOOLEAN, AddListener(l, stay)
      PROVE  VisitsBounded'
  BY <1>1, AddWalk DEF VisitsBounded
<1>2. ASSUME NEW l \in Listener, NEW i \in 1..numListeners, Removing(l, i)
      PROVE  VisitsBounded'
  <2>. HIDE DEF Count
  <2>. QED
    BY <1>2, RemoveWalk DEF Removing, VisitsBounded
<1>3. CASE UNCHANGED walk
  BY <1>3 DEF VisitsBounded
<1>4. CASE NextEntry
  <2>1. CASE walk' = Idle
    BY <2>1 DEF VisitsBounded, Idle
  <2>2. CASE walk' # Idle
    <3>. DEFINE l == listeners[walk.left]
    <3>1. /\ walk.active /\ walk.left \in 1..Slots /\ l \in Listener
          /\ walk'.left = walk.left - 1
          /\ walk'.visits = [walk.visits EXCEPT ![l] = @ + 1]
      BY <1>4, <2>2, NextEntryEffect
    <3>2. walk.visits \in [Listener -> 0..Slots]
      BY <3>1, WalkFields
    <3>. HIDE DEF l
    <3>3. ASSUME NEW k \in Listener
          PROVE  walk'.visits[k] + walk'.left <= Slots
      <4>1. walk.visits[k] \in 0..Slots /\ walk.visits[k] + walk.left <= Slots
        BY <3>1, <3>2 DEF VisitsBounded
      <4>2. walk'.visits[k] = IF k = l THEN walk.visits[k] + 1 ELSE walk.visits[k]
        BY <3>1, <3>2
      <4>. QED
        BY <3>1, <4>1, <4>2, SlotFacts
    <3>. QED
      BY <3>3 DEF VisitsBounded
  <2>. QED
    BY <2>1, <2>2
<1>5. CASE Notify \/ Consumed \/ NextInChain \/ WalkDone
  BY <1>5, ChainStepEffect DEF VisitsBounded, Idle
<1>6. ASSUME NEW e \in Type, PostEventImpl(e)
      PROVE  VisitsBounded'
  BY <1>6, PostEffect, SlotFacts DEF VisitsBounded, ManagerTypeOK
<1>. QED
  BY <1>1, <1>2, <1>3, <1>4, <1>5, <1>6, StepKinds DEF DestroyingAlone

-----------------------------------------------------------------------------
(* No entry of a destroyed listener                                         *)

LEMMA NoDeadStep ==
  ManagerTypeOK /\ Entered /\ NoDeadEntry /\ [ManagerNext]_managerVars => NoDeadEntry'
<1>. SUFFICES ASSUME ManagerTypeOK, Entered, NoDeadEntry, [ManagerNext]_managerVars PROVE NoDeadEntry'
  OBVIOUS
<1>0. numListeners \in Nat
  BY SlotFacts DEF ManagerTypeOK
<1>1. \A i \in 1..numListeners : listeners[i] \in alive \/ listeners[i] \in orphaned
  BY DEF NoDeadEntry, Registered, Entered
<1>2. SUFFICES \A i \in 1..numListeners' :
                 listeners'[i] \in alive' \/ listeners'[i] \in orphaned'
  BY DEF NoDeadEntry, Registered
<1>3. ASSUME NEW l \in Listener, NEW stay \in BOOLEAN, AddListener(l, stay),
             NEW i \in 1..numListeners'
      PROVE  listeners'[i] \in alive' \/ listeners'[i] \in orphaned'
  <2>1. l \in alive /\ alive' = alive /\ orphaned' = orphaned
    BY <1>3 DEF AddListener, lifeVars
  <2>2. listeners'[i] = l \/ \E j \in 1..numListeners : listeners'[i] = listeners[j]
    BY <1>0, <1>3, AddEffect
  <2>. QED
    BY <1>1, <2>1, <2>2
<1>4. ASSUME NEW l \in Listener, NEW i \in 1..numListeners, Removing(l, i),
             NEW j \in 1..numListeners'
      PROVE  listeners'[j] \in alive' \/ listeners'[j] \in orphaned'
  <2>1. PICK k \in 1..numListeners : k # i /\ listeners'[j] = listeners[k]
    <3>1. /\ numListeners' = numListeners - 1
          /\ \A m \in 1..(i - 1) : listeners'[m] = listeners[m]
          /\ \A m \in i..(numListeners - 1) : listeners'[m] = listeners[m + 1]
      BY <1>4, RemoveEffect DEF Removing
    <3>2. CASE j < i
      BY <1>0, <1>4, <3>1, <3>2
    <3>3. CASE j >= i
      <4>1. j + 1 \in 1..numListeners /\ j + 1 # i /\ listeners'[j] = listeners[j + 1]
        BY <1>0, <1>4, <3>1, <3>3
      <4>. QED
        BY <4>1
    <3>. QED
      BY <1>0, <1>4, <3>1, <3>2, <3>3
  <2>2. CASE UNCHANGED lifeVars
    BY <1>1, <2>1, <2>2 DEF lifeVars
  <2>3. CASE /\ alive' = alive \ {l}
             /\ orphaned' = IF Count(l) > 1 THEN orphaned \cup {l} ELSE orphaned
    <3>1. listeners[i] = l /\ l \in Registered
      BY <1>4 DEF Removing, RemoveAt, Registered
    <3>2. CASE Count(l) > 1
      BY <1>1, <2>1, <2>3, <3>2
    <3>3. CASE ~(Count(l) > 1)
      <4>1. Count(l) = 1
        BY <3>1, <3>3, CountedTwice
      <4>2. listeners[k] # l
        BY <2>1, <3>1, <4>1, CountedOnce
      <4>. HIDE DEF Count
      <4>. QED
        BY <1>1, <2>1, <2>3, <3>3, <4>2
    <3>. QED
      BY <3>2, <3>3
  <2>. QED
    BY <1>4, <2>2, <2>3 DEF Removing
<1>5. ASSUME NEW l \in Listener, DestroyingAlone(l)
      PROVE  \A i \in 1..numListeners' :
               listeners'[i] \in alive' \/ listeners'[i] \in orphaned'
  BY <1>1, <1>5 DEF DestroyingAlone, arrayVars, Registered
<1>6. CASE UNCHANGED <<arrayVars, lifeVars>>
  BY <1>1, <1>6 DEF arrayVars, lifeVars
<1>. QED
  BY <1>3, <1>4, <1>5, <1>6, StepKinds

-----------------------------------------------------------------------------
(* An undisturbed walk is exact                                             *)

LEMMA ExactStep ==
  ManagerTypeOK /\ Entered /\ VisitsBounded /\ WalkExact /\ [ManagerNext]_managerVars => WalkExact'
<1>. SUFFICES ASSUME ManagerTypeOK, Entered, VisitsBounded, WalkExact, [ManagerNext]_managerVars,
                     walk'.active, walk'.disturbed = {}
              PROVE  /\ walk'.left <= numListeners'
                     /\ \A l \in walk'.owed :
                          \/ /\ walk'.visits[l] = 1
                             /\ \A i \in 1..walk'.left : listeners'[i] # l
                          \/ /\ walk'.visits[l] = 0
                             /\ \E i \in 1..walk'.left :
                                  /\ listeners'[i] = l
                                  /\ \A j \in 1..walk'.left : listeners'[j] = l => j = i
  BY DEF WalkExact
<1>0. numListeners \in Nat
  BY SlotFacts DEF ManagerTypeOK
\* The entries ahead of the walk are what they were.
<1>1. ASSUME walk.active, walk.disturbed = {}, walk'.left = walk.left,
             walk'.visits = walk.visits, walk'.owed \subseteq walk.owed,
             \A i \in 1..walk.left : listeners'[i] = listeners[i],
             walk.left <= numListeners'
      PROVE  /\ walk'.left <= numListeners'
             /\ \A l \in walk'.owed :
                  \/ /\ walk'.visits[l] = 1
                     /\ \A i \in 1..walk'.left : listeners'[i] # l
                  \/ /\ walk'.visits[l] = 0
                     /\ \E i \in 1..walk'.left :
                          /\ listeners'[i] = l
                          /\ \A j \in 1..walk'.left : listeners'[j] = l => j = i
  <2>1. ASSUME NEW l \in walk'.owed
        PROVE  \/ walk.visits[l] = 1 /\ \A i \in 1..walk.left : listeners[i] # l
               \/ /\ walk.visits[l] = 0
                  /\ \E i \in 1..walk.left :
                       /\ listeners[i] = l
                       /\ \A j \in 1..walk.left : listeners[j] = l => j = i
    BY <1>1 DEF WalkExact
  <2>. QED
    BY <1>1, <2>1
<1>2. ASSUME NEW l \in Listener, NEW stay \in BOOLEAN, AddListener(l, stay)
      PROVE  /\ walk.active /\ walk.disturbed = {} /\ walk'.left = walk.left
             /\ walk'.visits = walk.visits /\ walk'.owed \subseteq walk.owed
             /\ \A i \in 1..walk.left : listeners'[i] = listeners[i]
             /\ walk.left <= numListeners'
  <2>1. /\ walk.active /\ walk.disturbed = {} /\ walk'.left = walk.left
        /\ walk'.visits = walk.visits /\ walk'.owed = walk.owed
    BY <1>2, AddWalk
  <2>2. walk.left \in Nat /\ walk.left <= numListeners
    BY <2>1, WalkFields DEF WalkExact
  <2>3. \A i \in 1..walk.left : listeners'[i] = listeners[i]
    BY <1>0, <1>2, <2>1, <2>2, AddEffect
  <2>4. numListeners' = numListeners + 1
    BY <1>2, AddEffect
  <2>. QED
    BY <1>0, <2>1, <2>2, <2>3, <2>4
<1>3. ASSUME NEW l \in Listener, NEW i \in 1..numListeners, Removing(l, i)
      PROVE  /\ walk.active /\ walk.disturbed = {} /\ walk'.left = walk.left
             /\ walk'.visits = walk.visits /\ walk'.owed \subseteq walk.owed
             /\ \A j \in 1..walk.left : listeners'[j] = listeners[j]
             /\ walk.left <= numListeners'
  <2>. HIDE DEF Count
  <2>1. /\ walk.active /\ walk.disturbed = {} /\ walk'.left = walk.left
        /\ walk'.visits = walk.visits /\ walk'.owed \subseteq walk.owed
        /\ ~(i <= walk.left)
    BY <1>3, RemoveWalk DEF Removing
  <2>2. walk.left \in Nat
    BY <2>1, WalkFields
  <2>3. /\ numListeners' = numListeners - 1
        /\ \A j \in 1..(i - 1) : listeners'[j] = listeners[j]
    BY <1>3, RemoveEffect DEF Removing
  <2>. QED
    BY <1>0, <2>1, <2>2, <2>3
<1>4. CASE UNCHANGED <<arrayVars, walk>>
  BY <1>1, <1>4 DEF arrayVars, WalkExact
<1>5. CASE NextEntry /\ UNCHANGED arrayVars
  <2>. DEFINE m == listeners[walk.left]
  <2>1. /\ walk.active /\ walk.left \in 1..Slots /\ m \in Listener
        /\ walk'.left = walk.left - 1
        /\ walk'.owed = walk.owed /\ walk.disturbed = {}
        /\ walk'.visits = [walk.visits EXCEPT ![m] = @ + 1]
    <3>1. walk' # Idle
      BY DEF Idle
    <3>2. /\ walk.active /\ walk.left \in 1..Slots /\ m \in Listener
          /\ walk'.left = walk.left - 1
          /\ walk'.owed = walk.owed /\ walk'.disturbed = walk.disturbed
          /\ walk'.visits = [walk.visits EXCEPT ![m] = @ + 1]
      BY <1>5, <3>1, NextEntryEffect
    <3>. QED
      BY <3>2
  <2>2. walk.visits \in [Listener -> 0..Slots] /\ walk.owed \subseteq Listener
    BY <2>1, WalkFields
  <2>3. walk.left <= numListeners /\ listeners' = listeners /\ numListeners' = numListeners
    BY <1>5, <2>1 DEF WalkExact, arrayVars
  <2>4. ASSUME NEW l \in walk.owed
        PROVE  \/ /\ walk'.visits[l] = 1
                  /\ \A i \in 1..walk'.left : listeners'[i] # l
               \/ /\ walk'.visits[l] = 0
                  /\ \E i \in 1..walk'.left :
                       /\ listeners'[i] = l
                       /\ \A j \in 1..walk'.left : listeners'[j] = l => j = i
    <3>1. \/ walk.visits[l] = 1 /\ \A i \in 1..walk.left : listeners[i] # l
          \/ /\ walk.visits[l] = 0
             /\ \E i \in 1..walk.left :
                  /\ listeners[i] = l
                  /\ \A j \in 1..walk.left : listeners[j] = l => j = i
      BY <2>1, <2>4 DEF WalkExact
    <3>2. walk'.visits[l] = IF l = m THEN walk.visits[l] + 1 ELSE walk.visits[l]
      BY <2>1, <2>2
    <3>3. walk.left \in 1..walk.left /\ 1..walk'.left = (1..walk.left) \ {walk.left}
      BY <2>1, SlotFacts
    <3>4. CASE l = m
      <4>1. /\ walk.visits[l] = 0
            /\ \A j \in 1..walk.left : listeners[j] = l => j = walk.left
        BY <3>1, <3>3, <3>4
      <4>. QED
        BY <2>3, <3>2, <3>3, <3>4, <4>1
    <3>5. CASE l # m
      BY <2>3, <3>1, <3>2, <3>3, <3>5
    <3>. QED
      BY <3>4, <3>5
  <2>. QED
    BY <2>1, <2>3, <2>4, <1>0, SlotFacts
<1>6. CASE (Notify \/ Consumed \/ NextInChain \/ WalkDone) /\ UNCHANGED arrayVars
  <2>1. /\ walk.active /\ walk.disturbed = {} /\ walk'.left = walk.left
        /\ walk'.visits = walk.visits /\ walk'.owed = walk.owed
    BY <1>6, ChainStepEffect DEF Idle
  <2>. QED
    BY <1>1, <1>6, <2>1 DEF arrayVars, WalkExact
<1>7. ASSUME NEW e \in Type, PostEventImpl(e), UNCHANGED arrayVars
      PROVE  /\ walk'.left <= numListeners'
             /\ \A l \in walk'.owed :
                  /\ walk'.visits[l] = 0
                  /\ \E i \in 1..walk'.left :
                       /\ listeners'[i] = l
                       /\ \A j \in 1..walk'.left : listeners'[j] = l => j = i
  <2>1. /\ walk'.left = numListeners
        /\ walk'.owed = {l \in Registered : Count(l) = 1}
        /\ walk'.visits = [l \in Listener |-> 0]
    BY <1>7, PostEffect
  <2>2. listeners' = listeners /\ numListeners' = numListeners
    BY <1>7 DEF arrayVars
  <2>3. ASSUME NEW l \in Registered, Count(l) = 1
        PROVE  /\ l \in Listener
               /\ \E i \in 1..numListeners :
                    /\ listeners[i] = l
                    /\ \A j \in 1..numListeners : listeners[j] = l => j = i
    <3>1. PICK i \in 1..numListeners : listeners[i] = l
      BY DEF Registered
    <3>2. l \in Listener
      BY <3>1 DEF Entered
    <3>3. \A j \in 1..numListeners : listeners[j] = l => j = i
      BY <2>3, <3>1, <3>2, CountedOnce
    <3>. QED
      BY <3>1, <3>2, <3>3
  <2>. HIDE DEF Count, Registered
  <2>. QED
    BY <1>0, <2>1, <2>2, <2>3
<1>. QED
  BY <1>1, <1>2, <1>3, <1>4, <1>5, <1>6, <1>7, StepKinds DEF DestroyingAlone

-----------------------------------------------------------------------------
(* A walk disturbed by removals alone misses nothing                        *)

LEMMA CompleteStep ==
  ManagerTypeOK /\ Entered /\ VisitsBounded /\ WalkComplete /\ [ManagerNext]_managerVars => WalkComplete'
<1>. SUFFICES ASSUME ManagerTypeOK, Entered, VisitsBounded, WalkComplete, [ManagerNext]_managerVars,
                     walk'.active, walk'.disturbed \subseteq {"removedAhead"},
                     NEW l \in walk'.owed
              PROVE  \/ walk'.visits[l] >= 1
                     \/ \E i \in 1..walk'.left : i <= numListeners' /\ listeners'[i] = l
  BY DEF WalkComplete
<1>0. numListeners \in Nat
  BY SlotFacts DEF ManagerTypeOK
\* What WalkComplete says, when the step is not the first of the walk.
<1>1. ASSUME walk.active, walk.disturbed \subseteq walk'.disturbed, l \in walk.owed
      PROVE  \/ walk.visits[l] >= 1
             \/ \E i \in 1..walk.left : i <= numListeners /\ listeners[i] = l
  BY <1>1 DEF WalkComplete
<1>2. ASSUME NEW k \in Listener, NEW stay \in BOOLEAN, AddListener(k, stay)
      PROVE  \/ walk'.visits[l] >= 1
             \/ \E i \in 1..walk'.left : i <= numListeners' /\ listeners'[i] = l
  <2>1. /\ walk.active /\ walk.disturbed \subseteq walk'.disturbed
        /\ walk'.left = walk.left /\ walk'.visits = walk.visits /\ l \in walk.owed
    BY <1>2, AddWalk
  <2>2. CASE walk.visits[l] >= 1
    BY <2>1, <2>2
  <2>3. ASSUME NEW i \in 1..walk.left, i <= numListeners, listeners[i] = l
        PROVE  \E j \in 1..walk'.left : j <= numListeners' /\ listeners'[j] = l
    <3>1. walk.left \in Nat
      BY <2>1, WalkFields
    <3>2. numListeners' = numListeners + 1
      BY <1>2, AddEffect
    <3>3. CASE i < numListeners
      <4>1. listeners'[i] = l
        BY <1>0, <1>2, <2>3, <3>3, AddEffect
      <4>. QED
        BY <1>0, <2>1, <2>3, <3>2, <4>1
    <3>4. CASE i = numListeners
      <4>1. \/ listeners'[i] = l
            \/ listeners'[i + 1] = l /\ walk.left # numListeners
        BY <1>0, <1>2, <2>1, <2>3, <3>4, AddEffect
      <4>2. CASE listeners'[i] = l
        BY <1>0, <2>1, <2>3, <3>2, <4>2
      <4>3. CASE listeners'[i + 1] = l /\ walk.left # numListeners
        <5>1. i + 1 \in 1..walk.left /\ i + 1 <= numListeners'
          BY <1>0, <2>3, <3>1, <3>2, <3>4, <4>3
        <5>. QED
          BY <2>1, <4>3, <5>1
      <4>. QED
        BY <4>1, <4>2, <4>3
    <3>. QED
      BY <1>0, <2>3, <3>1, <3>3, <3>4
  <2>. QED
    BY <1>1, <2>1, <2>2, <2>3
<1>3. ASSUME NEW k \in Listener, NEW i \in 1..numListeners, Removing(k, i)
      PROVE  \/ walk'.visits[l] >= 1
             \/ \E j \in 1..walk'.left : j <= numListeners' /\ listeners'[j] = l
  <2>1. /\ walk.active /\ walk.disturbed \subseteq walk'.disturbed
        /\ walk'.left = walk.left /\ walk'.visits = walk.visits
        /\ walk'.owed = IF Count(k) = 1 THEN walk.owed \ {k} ELSE walk.owed
    <3>. HIDE DEF Count
    <3>. QED
      BY <1>3, RemoveWalk DEF Removing
  <2>2. l \in walk.owed /\ (l = k => Count(k) # 1)
    <3>. HIDE DEF Count
    <3>. QED
      BY <2>1
  <2>3. CASE walk.visits[l] >= 1
    BY <2>1, <2>3
  <2>4. ASSUME NEW j \in 1..walk.left, j <= numListeners, listeners[j] = l
        PROVE  \E m \in 1..walk'.left : m <= numListeners' /\ listeners'[m] = l
    <3>1. walk.left \in Nat
      BY <2>1, WalkFields
    <3>2. /\ numListeners' = numListeners - 1
          /\ \A m \in 1..(i - 1) : listeners'[m] = listeners[m]
          /\ \A m \in i..(numListeners - 1) : listeners'[m] = listeners[m + 1]
          /\ listeners[i] = k
          /\ \A m \in (i + 1)..numListeners : listeners[m] # k
      BY <1>3, RemoveEffect DEF Removing, RemoveAt
    \* There is an entry of l other than the one that goes.
    <3>3. PICK m \in 1..walk.left : m <= numListeners /\ listeners[m] = l /\ m # i
      <4>1. CASE j # i
        BY <2>4, <4>1
      <4>2. CASE j = i
        <5>1. l = k /\ Count(k) # 1
          BY <2>2, <2>4, <3>2, <4>2
        <5>2. PICK m \in 1..numListeners : listeners[m] = k /\ m # i
          BY <1>3, <3>2, <5>1, CountedOnce
        <5>3. m < i
          BY <1>0, <1>3, <3>2, <5>2
        <5>. QED
          BY <1>0, <2>4, <3>1, <4>2, <5>1, <5>2, <5>3
      <4>. QED
        BY <4>1, <4>2
    <3>4. CASE m < i
      BY <1>0, <1>3, <2>1, <3>1, <3>2, <3>3, <3>4
    <3>5. CASE m > i
      <4>1. m - 1 \in i..(numListeners - 1) /\ (m - 1) + 1 = m
        BY <1>0, <1>3, <3>1, <3>3, <3>5
      <4>2. listeners'[m - 1] = l
        BY <3>2, <3>3, <4>1
      <4>3. m - 1 \in 1..walk'.left /\ m - 1 <= numListeners'
        BY <1>0, <1>3, <2>1, <3>1, <3>2, <3>3, <3>5
      <4>. QED
        BY <4>2, <4>3
    <3>. QED
      BY <1>3, <3>1, <3>3, <3>4, <3>5
  <2>. QED
    BY <1>1, <2>1, <2>2, <2>3, <2>4
<1>4. CASE UNCHANGED <<arrayVars, walk>>
  BY <1>1, <1>4 DEF arrayVars
<1>5. CASE NextEntry /\ UNCHANGED arrayVars
  <2>. DEFINE m == listeners[walk.left]
  <2>1. /\ walk.active /\ walk.left \in 1..Slots /\ m \in Listener
        /\ walk'.left = walk.left - 1
        /\ walk'.owed = walk.owed /\ walk'.disturbed = walk.disturbed
        /\ walk'.visits = [walk.visits EXCEPT ![m] = @ + 1]
    <3>1. walk' # Idle
      BY DEF Idle
    <3>. QED
      BY <1>5, <3>1, NextEntryEffect
  <2>2. walk.visits \in [Listener -> 0..Slots] /\ l \in Listener
    BY <2>1, WalkFields
  <2>3. walk.visits[l] \in Nat
    BY <2>2, SlotFacts
  <2>4. walk'.visits[l] = IF l = m THEN walk.visits[l] + 1 ELSE walk.visits[l]
    BY <2>1, <2>2
  <2>5. CASE l = m
    BY <2>3, <2>4, <2>5
  <2>6. CASE l # m
    <3>1. ASSUME NEW i \in 1..walk.left, i <= numListeners, listeners[i] = l
          PROVE  \E j \in 1..walk'.left : j <= numListeners' /\ listeners'[j] = l
      <4>1. i # walk.left
        BY <2>6, <3>1
      <4>2. i \in 1..walk'.left
        BY <2>1, <3>1, <4>1, SlotFacts
      <4>. QED
        BY <1>5, <3>1, <4>2 DEF arrayVars
    <3>. HIDE DEF m
    <3>2. walk'.visits[l] = walk.visits[l]
      BY <2>4, <2>6
    <3>. QED
      BY <1>1, <2>1, <3>1, <3>2
  <2>. QED
    BY <2>5, <2>6
<1>6. CASE (Notify \/ Consumed \/ NextInChain \/ WalkDone) /\ UNCHANGED arrayVars
  <2>1. /\ walk.active /\ walk'.disturbed = walk.disturbed /\ walk'.left = walk.left
        /\ walk'.visits = walk.visits /\ walk'.owed = walk.owed
    BY <1>6, ChainStepEffect DEF Idle
  <2>. QED
    BY <1>1, <1>6, <2>1 DEF arrayVars
<1>7. ASSUME NEW e \in Type, PostEventImpl(e), UNCHANGED arrayVars
      PROVE  \E i \in 1..walk'.left : i <= numListeners' /\ listeners'[i] = l
  <2>1. walk'.left = numListeners /\ l \in Registered
    <3>. HIDE DEF Count, Registered
    <3>. QED
      BY <1>7, PostEffect
  <2>. QED
    BY <1>0, <1>7, <2>1 DEF Registered, arrayVars
<1>. QED
  BY <1>2, <1>3, <1>4, <1>5, <1>6, <1>7, StepKinds DEF DestroyingAlone

-----------------------------------------------------------------------------
(* The theorems                                                             *)

LEMMA ManagerInitInv == ManagerInit => ManagerInv
<1>. SUFFICES ASSUME ManagerInit PROVE ManagerInv
  OBVIOUS
<1>1. ListenerTypeOK
  BY ListenerInitInv DEF ManagerInit, ListenerInv
<1>2. ManagerTypeOK
  <2>1. listeners \in [1..Slots -> Listener \cup {NoListener}] /\ stayLast \in [Listener -> BOOLEAN]
    BY DEF ManagerInit
  <2>2. 0 \in 0..Slots /\ 0 \in 0..MaxChanges
    BY SlotFacts
  <2>3. numListeners \in 0..Slots /\ listSize \in Nat /\ numListeners <= listSize
    BY SlotFacts DEF ManagerInit
  <2>4. /\ alive \subseteq Listener /\ orphaned \subseteq Listener
        /\ fault \in BOOLEAN /\ changes \in 0..MaxChanges
    BY <2>2 DEF ManagerInit
  <2>5. walk = Idle
    BY DEF ManagerInit
  <2>. QED
    BY <1>1, <2>1, <2>3, <2>4, <2>5 DEF ManagerTypeOK
<1>3. ~walk.active /\ numListeners = 0 /\ alive = Listener
  BY DEF ManagerInit, Idle
<1>4. Entered /\ NoDeadEntry
  BY <1>3 DEF Entered, NoDeadEntry, Registered
<1>5. VisitsBounded /\ WalkExact /\ WalkComplete
  BY <1>3 DEF VisitsBounded, WalkExact, WalkComplete
<1>. QED
  BY <1>2, <1>4, <1>5 DEF ManagerInv

LEMMA ManagerStep == ManagerInv /\ [ManagerNext]_managerVars => ManagerInv'
BY ManagerTypeStep, EnteredStep, VisitsStep, NoDeadStep, ExactStep, CompleteStep DEF ManagerInv

LEMMA ManagerInductiveInvariant == ManagerSpec => []ManagerInv
BY ManagerInitInv, ManagerStep, PTL DEF ManagerSpec

\* Every variable of the manager keeps its type, and the array holds no more than
\* was allocated for it (Event.cpp:308-325).
THEOREM ManagerTypeCorrect == ManagerSpec => []ManagerTypeOK
<1>1. ManagerInv => ManagerTypeOK
  BY DEF ManagerInv
<1>. QED
  BY <1>1, ManagerInductiveInvariant, PTL

\* The manager does to a listener only what EventListener allows, so a cycle still
\* needs overlapping calls of SetNextListener (EventListenerPriv.cpp:55-68).
THEOREM ManagerCyclesNeedOverlap == ManagerSpec => []CyclesOnlyFromOverlap
<1>1. ManagerInit => ListenerInit
  BY DEF ManagerInit
<1>2. ManagerInv /\ [ManagerNext]_managerVars => [ListenerNext]_listenerVars
  BY ListenerSteps DEF ManagerInv
<1>3. ManagerSpec => ListenerSpec
  BY <1>1, <1>2, ManagerInductiveInvariant, PTL DEF ManagerSpec, ListenerSpec
<1>. QED
  BY <1>3, CyclesNeedOverlap

\* A destroyed listener has no entry left unless it was registered twice
\* (EventListener.cpp:45-67).
THEOREM DestructorUnregisters == ManagerSpec => []NoDeadEntry
<1>1. ManagerInv => NoDeadEntry
  BY DEF ManagerInv
<1>. QED
  BY <1>1, ManagerInductiveInvariant, PTL

\* A walk that nothing disturbs reads each listener registered once throughout
\* once (Event.cpp:378-404).
THEOREM DeliveryIsExact == ManagerSpec => []UndisturbedWalkIsExact
<1>1. ManagerInv => UndisturbedWalkIsExact
  BY DEF ManagerInv, WalkExact, UndisturbedWalkIsExact
<1>. QED
  BY <1>1, ManagerInductiveInvariant, PTL

\* Removals during a walk never make it miss a listener (Event.cpp:340-353).
THEOREM DeliveryMissesNone == ManagerSpec => []NoListenerMissed
<1>1. ManagerInv => NoListenerMissed
  BY DEF ManagerInv, WalkComplete, NoListenerMissed
<1>. QED
  BY <1>1, ManagerInductiveInvariant, PTL

\* Freed memory is used only after a disturbance of the walk or through an entry
\* that outlived a listener registered twice (Event.cpp:308-325, 398-401).
THEOREM FaultsAreDisturbances == ManagerSpec => FaultNeedsDisturbance
<1>1. ASSUME ManagerInv, [ManagerNext]_managerVars, fault', ~fault
      PROVE  orphaned # {} \/ (walk.active /\ walk.disturbed # {})
  <2>1. ManagerTypeOK /\ VisitsBounded
    BY <1>1 DEF ManagerInv
  <2>2. ASSUME NEW i \in 1..numListeners, listeners[i] \notin alive
        PROVE  orphaned # {}
    BY <1>1, <2>2 DEF ManagerInv, Entered, NoDeadEntry, Registered
  <2>3. numListeners \in Nat
    BY <2>1, SlotFacts DEF ManagerTypeOK
  <2>4. ASSUME NEW l \in Listener, NEW stay \in BOOLEAN, AddListener(l, stay)
        PROVE  orphaned # {}
    <3>1. numListeners > 0 /\ listeners[numListeners] \notin alive
      BY <1>1, <2>4 DEF AddListener
    <3>. QED
      BY <2>2, <2>3, <3>1
  <2>5. CASE NextEntry
    <3>1. /\ walk.active /\ walk.left \in 1..Slots
          /\ "regrown" \in walk.disturbed \/ listeners[walk.left] \notin alive
      BY <1>1, <2>1, <2>5, NextEntryEffect
    <3>2. CASE walk.disturbed = {}
      <4>1. walk.left <= numListeners
        BY <1>1, <3>1, <3>2 DEF ManagerInv, WalkExact
      <4>2. walk.left \in 1..numListeners
        BY <2>3, <3>1, <4>1, SlotFacts
      <4>. QED
        BY <2>2, <3>1, <3>2, <4>2
    <3>3. CASE walk.disturbed # {}
      BY <3>1, <3>3
    <3>. QED
      BY <3>2, <3>3
  <2>6. CASE UNCHANGED fault
    BY <1>1, <2>6
  <2>7. CASE Notify \/ Consumed \/ NextInChain \/ WalkDone
    BY <1>1, <2>1, <2>7, ChainStepEffect
  <2>. QED
    BY <1>1, <2>1, <2>4, <2>5, <2>6, <2>7, StepKinds DEF Removing, DestroyingAlone
<1>2. ManagerInv /\ [ManagerNext]_managerVars =>
        [fault' /\ ~fault => orphaned # {} \/ (walk.active /\ walk.disturbed # {})]_managerVars
  BY <1>1
<1>. QED
  BY <1>2, ManagerInductiveInvariant, PTL DEF ManagerSpec, FaultNeedsDisturbance

=============================================================================
