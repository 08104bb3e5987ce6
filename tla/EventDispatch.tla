---------------------------- MODULE EventDispatch ----------------------------
(***************************************************************************)
(* The event manager's asynchronous path (System/Event/Event.cpp):         *)
(* PostEvent with a priority of 128 or more copies the message to the heap *)
(* and hands a pointer to the dispatching thread through a POSIX message   *)
(* queue of eight slots; the thread notifies the listeners and frees the   *)
(* copy.  The constructor and the destructor of CEventManagerImpl start    *)
(* and stop that thread and the polling threads around it, which are       *)
(* ButtonPowerUSBTask and CartridgeTask: each polls its devices and a      *)
(* socket, and reads from a peer that connects until that one hangs up.    *)
(*                                                                         *)
(* One action is one step of one thread between two points where another   *)
(* thread can be observed: the malloc and the mq_send of PostEvent are two *)
(* steps, and so are mq_timedreceive and the test of g_threadRun_.         *)
(***************************************************************************)
EXTENDS Naturals, Sequences, FiniteSets

CONSTANTS
  App,             \* application threads that post asynchronous events
  Poll,            \* the threads the destructor joins before the dispatcher
  Dispatcher,      \* the thread that runs EventDispatchTask
  NoMsg,           \* a null message pointer
  QueueMax,        \* mq_maxmsg (8 in the code)
  MaxPosts,        \* bound: asynchronous posts in one behaviour
  StaleCount,      \* messages a dead process of the same pid left in the queue
  HandlersPost     \* do listeners post asynchronous events from Notify?

ASSUME ThreadAssumption ==
  /\ Dispatcher \notin App \cup Poll
  /\ App \cap Poll = {}
ASSUME BoundAssumption ==
  /\ QueueMax \in Nat \ {0}
  /\ MaxPosts \in Nat
  /\ StaleCount \in 0..QueueMax
  /\ HandlersPost \in BOOLEAN
ASSUME NoMsgAssumption == NoMsg \notin Nat

Thread == App \cup Poll \cup {Dispatcher}
Stale == 1..StaleCount                          \* pointers into another process
Fresh == (StaleCount + 1)..(StaleCount + MaxPosts)
Msg == Stale \cup Fresh

VARIABLES
  main,            \* where the thread that owns the module is
  threadRun,       \* g_threadRun_
  threadRunning,   \* g_threadRunning_
  pollRun,         \* pEventModule_->bThreadRun_
  polling,         \* the polling threads that have not returned
  ppc,             \* per polling thread: where it is in its loop
  dpc,             \* where EventDispatchTask is
  cur,             \* msg.pMsg in EventDispatchTask
  queue,           \* the message queue
  sending,         \* per thread, the copy it is inside SendMessage with
  posts,           \* number of copies allocated so far
  heap,            \* copies allocated and not freed
  sent,            \* history: messages mq_send accepted
  handled          \* history: messages PostEventImpl was called with

vars == <<main, threadRun, threadRunning, pollRun, polling, ppc, dpc, cur, queue,
          sending, posts, heap, sent, handled>>

mainVars == <<main, threadRun, pollRun>>
pollVars == <<polling, ppc>>
dispVars == <<dpc, cur, threadRunning, handled>>
postVars == <<sending, posts, sent>>

-----------------------------------------------------------------------------
Init ==
  /\ main = "starting"
  /\ threadRun = TRUE
  /\ threadRunning = FALSE
  /\ pollRun = TRUE
  /\ polling = {}
  /\ ppc = [t \in Poll |-> "setup"]
  /\ dpc = "drain"
  /\ cur = NoMsg
  /\ queue = [i \in 1..StaleCount |-> i]
  /\ sending = [t \in Thread |-> NoMsg]
  /\ posts = 0
  /\ heap = {}
  /\ sent = <<>>
  /\ handled = <<>>

-----------------------------------------------------------------------------
(* PostEvent, low priority: Malloc and memcpy, then a blocking mq_send.     *)

MayPost(t) ==
  \/ t \in App /\ main = "running"
  \/ t \in polling /\ ppc[t] \in {"events", "recv", "served"}
  \/ t = Dispatcher /\ dpc = "notify" /\ HandlersPost

PostEvent(t) ==
  /\ MayPost(t)
  /\ sending[t] = NoMsg
  /\ posts < MaxPosts
  /\ posts' = posts + 1
  /\ sending' = [sending EXCEPT ![t] = StaleCount + posts + 1]
  /\ heap' = heap \cup {StaleCount + posts + 1}
  /\ UNCHANGED <<mainVars, pollVars, dispVars, queue, sent>>

\* Faulty: the message is sent ahead of those that wait.
SendAhead(t) ==
  /\ sending[t] # NoMsg
  /\ Len(queue) < QueueMax
  /\ queue' = <<sending[t]>> \o queue
  /\ sent' = Append(sent, sending[t])
  /\ sending' = [sending EXCEPT ![t] = NoMsg]
  /\ UNCHANGED <<mainVars, pollVars, dispVars, posts, heap>>

SendMessage(t) ==
  /\ sending[t] # NoMsg
  /\ Len(queue) < QueueMax
  /\ queue' = Append(queue, sending[t])
  /\ sent' = Append(sent, sending[t])
  /\ sending' = [sending EXCEPT ![t] = NoMsg]
  /\ UNCHANGED <<mainVars, pollVars, dispVars, posts, heap>>

-----------------------------------------------------------------------------
(* ButtonPowerUSBTask and CartridgeTask.                                    *)

PollMoves(t, from, to) ==
  /\ t \in polling
  /\ ppc[t] \in from
  /\ sending[t] = NoMsg
  /\ ppc' = [ppc EXCEPT ![t] = to]
  /\ UNCHANGED <<mainVars, polling, dispVars, queue, postVars, heap>>

\* The devices and the listening socket are opened.
PollStart(t) == PollMoves(t, {"setup"}, "test")

\* while (bThreadRun_) poll(...)
PollEvents(t) == pollRun /\ PollMoves(t, {"test"}, "events")

\* The poll has timed out, or its events have been handled.
PollAgain(t) == PollMoves(t, {"events", "served"}, "test")

\* A peer connects: what it sends is read, and posted, in a loop of its own ...
AcceptPeer(t) == PollMoves(t, {"events"}, "recv")

\* ... that waits in recv, and ends when the peer closes the connection.
PeerCloses(t) == PollMoves(t, {"recv"}, "served")

\* The loop ends at its test of bThreadRun_; CartridgeTask returns without it
\* when it cannot listen.
PollExit(t) ==
  /\ t \in polling
  /\ ppc[t] = "setup" \/ (ppc[t] = "test" /\ ~pollRun)
  /\ sending[t] = NoMsg
  /\ polling' = polling \ {t}
  /\ UNCHANGED <<mainVars, ppc, dispVars, queue, postVars, heap>>

-----------------------------------------------------------------------------
(* EventDispatchTask.                                                       *)

\* The start-up loop throws away what a previous process left behind ...
Drain ==
  /\ dpc = "drain"
  /\ queue # <<>>
  /\ queue' = Tail(queue)
  /\ UNCHANGED <<mainVars, pollVars, dispVars, postVars, heap>>

\* Faulty: the start-up loop stops at its first receive.
DrainOnce ==
  /\ dpc = "drain"
  /\ threadRunning' = TRUE
  /\ dpc' = "loop"
  /\ UNCHANGED <<mainVars, pollVars, cur, queue, postVars, heap, handled>>

\* ... until a receive times out.
DrainTimeout ==
  /\ dpc = "drain"
  /\ queue = <<>>
  /\ threadRunning' = TRUE
  /\ dpc' = "loop"
  /\ UNCHANGED <<mainVars, pollVars, cur, queue, postVars, heap, handled>>

\* while (g_threadRun_)
TestRun ==
  /\ dpc = "loop"
  /\ dpc' = IF threadRun THEN "receive" ELSE "closing"
  /\ UNCHANGED <<mainVars, pollVars, threadRunning, cur, queue, postVars, heap,
                 handled>>

\* Faulty: the message stays in the queue.
Peek ==
  /\ dpc = "receive"
  /\ queue # <<>>
  /\ cur' = Head(queue)
  /\ dpc' = "received"
  /\ UNCHANGED <<mainVars, pollVars, threadRunning, queue, postVars, heap, handled>>

Receive ==
  /\ dpc = "receive"
  /\ queue # <<>>
  /\ cur' = Head(queue)
  /\ queue' = Tail(queue)
  /\ dpc' = "received"
  /\ UNCHANGED <<mainVars, pollVars, threadRunning, postVars, heap, handled>>

ReceiveTimeout ==
  /\ dpc = "receive"
  /\ queue = <<>>
  /\ dpc' = "loop"
  /\ UNCHANGED <<mainVars, pollVars, threadRunning, cur, queue, postVars, heap,
                 handled>>

\* if ( err == kNoErr && g_threadRun_ ) PostEventImpl(...)
Dispatch ==
  /\ dpc = "received"
  /\ threadRun
  /\ dpc' = "notify"
  /\ handled' = Append(handled, cur)
  /\ UNCHANGED <<mainVars, pollVars, threadRunning, cur, queue, postVars, heap>>

\* Faulty: a received message may be dropped while the manager runs.
DiscardAnyTime ==
  /\ dpc = "received"
  /\ dpc' = "loop"
  /\ cur' = NoMsg
  /\ UNCHANGED <<mainVars, pollVars, threadRunning, queue, postVars, heap,
                 handled>>

\* The flag was cleared after the receive: the message is dropped as it is.
Discard ==
  /\ dpc = "received"
  /\ ~threadRun
  /\ dpc' = "loop"
  /\ cur' = NoMsg
  /\ UNCHANGED <<mainVars, pollVars, threadRunning, queue, postVars, heap,
                 handled>>

\* PostEventImpl returns and the copy is freed.
FreeMessage ==
  /\ dpc = "notify"
  /\ sending[Dispatcher] = NoMsg
  /\ heap' = heap \ {cur}
  /\ cur' = NoMsg
  /\ dpc' = "loop"
  /\ UNCHANGED <<mainVars, pollVars, threadRunning, queue, postVars, handled>>

CloseQueue ==
  /\ dpc = "closing"
  /\ threadRunning' = FALSE
  /\ dpc' = "exited"
  /\ UNCHANGED <<mainVars, pollVars, cur, queue, postVars, heap, handled>>

-----------------------------------------------------------------------------
(* The constructor and the destructor of CEventManagerImpl.                 *)

FinishStartup ==
  /\ main = "starting"
  /\ threadRunning
  /\ main' = "running"
  /\ polling' = Poll
  /\ UNCHANGED <<threadRun, pollRun, ppc, dispVars, queue, postVars, heap>>

\* The module is destroyed when its last client disconnects, so no client is
\* inside PostEvent.
StopPolling ==
  /\ main = "running"
  /\ \A t \in App : sending[t] = NoMsg
  /\ pollRun' = FALSE
  /\ main' = "joinPolling"
  /\ UNCHANGED <<threadRun, pollVars, dispVars, queue, postVars, heap>>

\* Faulty: the dispatcher is told to stop before the polling threads are joined.
StopDispatcherFirst ==
  /\ main = "joinPolling"
  /\ threadRun' = FALSE
  /\ main' = "joinDispatcher"
  /\ UNCHANGED <<pollRun, pollVars, dispVars, queue, postVars, heap>>

StopDispatcher ==
  /\ main = "joinPolling"
  /\ polling = {}
  /\ threadRun' = FALSE
  /\ main' = "joinDispatcher"
  /\ UNCHANGED <<pollRun, pollVars, dispVars, queue, postVars, heap>>

JoinDispatcher ==
  /\ main = "joinDispatcher"
  /\ dpc = "exited"
  /\ main' = "destroyed"
  /\ UNCHANGED <<threadRun, pollRun, pollVars, dispVars, queue, postVars, heap>>

-----------------------------------------------------------------------------
DispatcherStep ==
  \/ Drain \/ DrainTimeout \/ TestRun \/ Receive \/ ReceiveTimeout
  \/ Dispatch \/ Discard \/ FreeMessage \/ CloseQueue

PollStep(t) == PollStart(t) \/ PollEvents(t) \/ PollAgain(t) \/ PollExit(t)
Polls(t) == PollStep(t) \/ AcceptPeer(t) \/ PeerCloses(t)

MainStep == FinishStartup \/ StopPolling \/ StopDispatcher \/ JoinDispatcher

Next ==
  \/ \E t \in Thread : PostEvent(t) \/ SendMessage(t)
  \/ \E t \in Poll : Polls(t)
  \/ DispatcherStep
  \/ MainStep

Safe == Init /\ [][Next]_vars

\* The scheduler runs every thread that can run, and a listener returns from
\* Notify.  Nothing makes a thread post, nor the process shut down, nor a peer
\* connect or hang up.
Fairness ==
  /\ WF_vars(DispatcherStep)
  /\ \A t \in Thread : WF_vars(SendMessage(t))
  /\ \A t \in Poll : WF_vars(PollStep(t))
  /\ WF_vars(FinishStartup)
  /\ WF_vars(StopDispatcher)
  /\ WF_vars(JoinDispatcher)

Spec == Safe /\ Fairness

-----------------------------------------------------------------------------
TypeOK ==
  /\ main \in {"starting", "running", "joinPolling", "joinDispatcher",
               "destroyed"}
  /\ threadRun \in BOOLEAN
  /\ threadRunning \in BOOLEAN
  /\ pollRun \in BOOLEAN
  /\ polling \subseteq Poll
  /\ ppc \in [Poll -> {"setup", "test", "events", "recv", "served"}]
  /\ dpc \in {"drain", "loop", "receive", "received", "notify", "closing",
              "exited"}
  /\ cur \in Msg \cup {NoMsg}
  /\ queue \in Seq(Msg)
  /\ sending \in [Thread -> Fresh \cup {NoMsg}]
  /\ posts \in 0..MaxPosts
  /\ heap \subseteq Fresh
  /\ sent \in Seq(Fresh)
  /\ handled \in Seq(Msg)

\* A message a dead process left in the queue is never given to a listener: its
\* pointer means nothing in this process.  The drain loop of EventDispatchTask
\* (Event.cpp:139-141) and the constructor's wait for g_threadRunning_ see to it.
NoStaleDispatch ==
  \A i \in 1..Len(handled) : handled[i] \notin Stale

\* Whatever a listener is being notified of, and whatever is waiting in the queue
\* of a started dispatcher, is a live copy: Free comes after PostEventImpl, once.
NoUseAfterFree ==
  /\ dpc = "notify" => cur \in heap
  /\ dpc # "drain" => \A i \in 1..Len(queue) : queue[i] \in heap

\* A copy has one owner: a thread inside SendMessage, a slot of the queue, or the
\* dispatcher.  Two owners would be a double Free in EventDispatchTask.
OneOwner ==
  /\ \A i, j \in 1..Len(queue) : queue[i] = queue[j] => i = j
  /\ \A t, u \in Thread :
       sending[t] # NoMsg /\ sending[t] = sending[u] => t = u
  /\ \A i \in 1..Len(queue) :
       queue[i] # cur /\ \A t \in Thread : queue[i] # sending[t]
  /\ cur # NoMsg => \A t \in Thread : cur # sending[t]

\* The destructor joins the polling threads while the dispatcher still empties
\* the queue, so the dispatcher never exits with a polling thread inside mq_send.
NoOrphanedPoster ==
  dpc = "exited" => \A t \in Thread \ App : sending[t] = NoMsg

\* The manager implements the channel its clients rely on: accepted once, handed
\* over in order, at most once, and none after g_threadRun_ is cleared.
Channel == INSTANCE AsyncChannel WITH Message <- Fresh, open <- threadRun
ImplementsChannel == Channel!Safe

\* With listeners that post from Notify, one thing alone stops the manager: the
\* dispatching thread inside mq_send on the full queue that only it empties.
SelfBlocked == sending[Dispatcher] # NoMsg /\ Len(queue) = QueueMax

\* No polling thread stays for ever with a peer that keeps its connection open.
PeersHangUp == \A t \in Poll : []<>(ppc[t] # "recv")

\* The destructor, once begun, returns with every thread of the manager ended, none
\* of them left inside mq_send: its joins come in an order in which each can still
\* finish, unless the dispatcher has blocked itself, or a peer keeps a polling
\* thread in recv, which has no timeout and does not look at bThreadRun_.
ShutdownTerminates ==
  PeersHangUp => (main = "joinPolling" ~> \/ main = "destroyed" /\ polling = {}
                                          \/ SelfBlocked)

\* Every accepted message reaches the listeners unless the manager is told to stop
\* or the dispatcher has blocked itself.
EveryMessageHandled ==
  \A m \in Fresh :
    m \in {sent[i] : i \in 1..Len(sent)}
      ~> \/ m \in {handled[i] : i \in 1..Len(handled)}
         \/ ~threadRun
         \/ SelfBlocked

=============================================================================
