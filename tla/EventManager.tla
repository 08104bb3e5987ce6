---------------------------- MODULE EventManager ----------------------------
(***************************************************************************)
(* The event manager's array of listeners and the walk over it that        *)
(* delivers an event (System/Event/Event.cpp): AddListener, RemoveListener,*)
(* PostEventImpl and PostEventToChain, with the destructor of              *)
(* IEventListener.                                                         *)
(*                                                                         *)
(* Nothing locks the array (g_mutexEventList_ is never taken), and the     *)
(* walk keeps a raw pointer into it across every call of Notify.  One      *)
(* event is under way at a time here; listeners are registered,            *)
(* unregistered, chained, disabled and destroyed between any two of its    *)
(* steps, by its own Notify functions or by other threads.                 *)
(***************************************************************************)
EXTENDS EventListener

CONSTANTS
  Slots,          \* bound: entries of the array
  MaxChanges      \* bound: client calls in one behaviour

GrowBySize == 2   \* kGrowBySize

ASSUME SlotsAssumption == Slots \in Nat \ {0} /\ MaxChanges \in Nat

VARIABLES
  listeners,      \* the array ppListeners_; past numListeners, stale or garbage
  numListeners,   \* numListeners_
  listSize,       \* listSize_
  stayLast,       \* eventRegistrationFlags & kEventRegistrationStayLastBitMask
  alive,          \* the listeners whose destructor has not run
  orphaned,       \* history: destroyed while registered more than once
  walk,           \* the event being delivered
  fault,          \* the walk used freed memory
  changes         \* client calls so far

arrayVars == <<listeners, numListeners, listSize, stayLast>>
lifeVars == <<alive, orphaned>>
managerVars == <<listenerVars, arrayVars, lifeVars, walk, fault, changes>>

Registered == {listeners[i] : i \in 1..numListeners}
Count(l) == Cardinality({i \in 1..numListeners : listeners[i] = l})

(* A walk: the event, the entries left to read, the listener of a chain it   *)
(* is at and whether that one's Notify is running.  The rest is history:     *)
(* what was registered once when it began and has stayed so (owed), how      *)
(* often each listener's entry was read, and what disturbed it.              *)
Idle == [active |-> FALSE]
Disturbance == {"regrown", "removedAhead", "movedBack"}
Walk == [active : {TRUE}, event : Type, left : 0..Slots,
         at : Listener \cup {NoListener}, notifying : BOOLEAN,
         owed : SUBSET Listener, visits : [Listener -> 0..Slots],
         disturbed : SUBSET Disturbance]

Disturb(what) ==
  IF walk.active THEN [walk EXCEPT !.disturbed = @ \cup what] ELSE walk

Change == changes < MaxChanges /\ changes' = changes + 1

-----------------------------------------------------------------------------
(* Registration *)

\* Faulty: the new entry goes to the front and the others move up.
AddAtFront(l, stay) ==
  /\ Change
  /\ l \in alive
  /\ numListeners < Slots
  /\ stayLast' = [stayLast EXCEPT ![l] = stay]
  /\ listeners' = [i \in 1..Slots |->
                     IF i = 1 THEN l
                     ELSE IF i <= numListeners + 1 THEN listeners[i - 1]
                     ELSE listeners[i]]
  /\ listSize' = listSize + GrowBySize
  /\ numListeners' = numListeners + 1
  /\ UNCHANGED <<listenerVars, lifeVars, walk, fault>>

\* A full array is copied to one GrowBySize longer and freed.  The new entry goes
\* last, or before the last one when that asked to stay last; the same listener may
\* be entered twice (Event.cpp:281).
AddListener(l, stay) ==
  /\ Change
  /\ l \in alive
  /\ numListeners < Slots
  /\ stayLast' = [stayLast EXCEPT ![l] = stay]
  /\ LET grow == numListeners >= listSize
         last == listeners[numListeners]
         array == IF grow
                  THEN [i \in 1..Slots |->
                          IF i <= numListeners THEN listeners[i] ELSE NoListener]
                  ELSE listeners
         before == numListeners > 0 /\ stayLast'[last]
     IN /\ listeners' = IF before
                        THEN [array EXCEPT ![numListeners] = l,
                                           ![numListeners + 1] = last]
                        ELSE [array EXCEPT ![numListeners + 1] = l]
        /\ listSize' = IF grow THEN listSize + GrowBySize ELSE listSize
        /\ walk' = Disturb(
             (IF grow THEN {"regrown"} ELSE {}) \cup
             (IF before /\ walk.active /\ walk.left = numListeners
              THEN {"movedBack"} ELSE {}))
        /\ fault' = (fault \/ (numListeners > 0 /\ last \notin alive))
  /\ numListeners' = numListeners + 1
  /\ UNCHANGED <<listenerVars, lifeVars>>

\* The latest entry of l is the one that goes.
RemoveAt(l, i) ==
  /\ listeners[i] = l
  /\ \A j \in (i + 1)..numListeners : listeners[j] # l
  /\ listeners' = [j \in 1..Slots |->
                     IF i <= j /\ j < numListeners THEN listeners[j + 1]
                     ELSE listeners[j]]
  /\ numListeners' = numListeners - 1
  /\ walk' =
       IF walk.active
       THEN [walk EXCEPT
               !.owed = IF Count(l) = 1 THEN @ \ {l} ELSE @,
               !.disturbed = IF i <= walk.left THEN @ \cup {"removedAhead"} ELSE @]
       ELSE walk
  /\ UNCHANGED <<listSize, stayLast>>

RemoveListener(l) == \E i \in 1..numListeners : RemoveAt(l, i)

UnregisterEventListener(l) ==
  /\ Change
  /\ l \in alive
  /\ RemoveListener(l)
  /\ UNCHANGED <<listenerVars, lifeVars, fault>>

\* Faulty: the destructor leaves the entry in the array.
DestroyRegistered(l) ==
  /\ Change
  /\ l \in alive
  /\ \A k \in Listener : next[k] # l /\ <<k, l>> \notin linking
  /\ walk.active => walk.at # l
  /\ alive' = alive \ {l}
  /\ UNCHANGED <<listenerVars, arrayVars, walk, orphaned, fault>>

\* ~IEventListener unregisters once.  Its owner does not destroy a listener that
\* another one is chained to or that is being notified.
DestroyListener(l) ==
  /\ Change
  /\ l \in alive
  /\ \A k \in Listener : next[k] # l /\ <<k, l>> \notin linking
  /\ \A k \in Listener : <<l, k>> \notin linking
  /\ walk.active => walk.at # l
  /\ alive' = alive \ {l}
  /\ orphaned' = IF Count(l) > 1 THEN orphaned \cup {l} ELSE orphaned
  /\ IF l \in Registered THEN RemoveListener(l)
     ELSE UNCHANGED <<arrayVars, walk>>
  /\ UNCHANGED <<listenerVars, fault>>

\* The calls of EventListener, on live listeners.
ChangeListener ==
  /\ Change
  /\ \E l \in alive :
       \/ \E k \in alive : CheckNextListener(l, k) \/ StoreNextListener(l, k)
       \/ \E e \in Event : DisableNotifyForEventType(l, e)
                           \/ ReenableNotifyForEventType(l, e)
  /\ UNCHANGED <<arrayVars, lifeVars, walk, fault>>

-----------------------------------------------------------------------------
(* Delivery *)

\* Faulty: the walk starts one entry too early.
PostSkippingNewest(e) ==
  /\ ~walk.active
  /\ numListeners > 0
  /\ walk' = [active |-> TRUE, event |-> e, left |-> numListeners - 1,
              at |-> NoListener, notifying |-> FALSE,
              owed |-> {l \in Registered : Count(l) = 1},
              visits |-> [l \in Listener |-> 0], disturbed |-> {}]
  /\ UNCHANGED <<listenerVars, arrayVars, lifeVars, fault, changes>>

\* PostEventImpl without a response listener: start at the newest entry.
PostEventImpl(e) ==
  /\ ~walk.active
  /\ walk' = [active |-> TRUE, event |-> e, left |-> numListeners,
              at |-> NoListener, notifying |-> FALSE,
              owed |-> {l \in Registered : Count(l) = 1},
              visits |-> [l \in Listener |-> 0], disturbed |-> {}]
  /\ UNCHANGED <<listenerVars, arrayVars, lifeVars, fault, changes>>

\* Read the next entry, one older than the last one read.  After a regrowth the
\* pointer is into the array that was freed; an entry may be of a dead listener.
NextEntry ==
  /\ walk.active
  /\ walk.at = NoListener
  /\ walk.left > 0
  /\ LET l == listeners[walk.left]
     IN IF "regrown" \in walk.disturbed \/ l \notin alive
        THEN walk' = Idle /\ fault' = TRUE
        ELSE /\ walk' = [walk EXCEPT !.left = @ - 1, !.at = l, !.visits[l] = @ + 1]
             /\ UNCHANGED fault
  /\ UNCHANGED <<listenerVars, arrayVars, lifeVars, changes>>

\* PostEventToChain calls Notify of a listener that handles the event ...
Notify ==
  /\ walk.active
  /\ walk.at # NoListener
  /\ ~walk.notifying
  /\ HandlesEvent(walk.at, walk.event)
  /\ walk' = [walk EXCEPT !.notifying = TRUE]
  /\ UNCHANGED <<listenerVars, arrayVars, lifeVars, fault, changes>>

\* ... which may consume it, and then the rest of this chain is skipped ...
Consumed ==
  /\ walk.active
  /\ walk.notifying
  /\ walk' = [walk EXCEPT !.notifying = FALSE, !.at = NoListener]
  /\ UNCHANGED <<listenerVars, arrayVars, lifeVars, fault, changes>>

\* ... and otherwise goes to the next listener of the chain.
NextInChain ==
  /\ walk.active
  /\ walk.at # NoListener
  /\ walk.notifying \/ ~HandlesEvent(walk.at, walk.event)
  /\ walk' = [walk EXCEPT !.notifying = FALSE, !.at = next[walk.at]]
  /\ UNCHANGED <<listenerVars, arrayVars, lifeVars, fault, changes>>

WalkDone ==
  /\ walk.active
  /\ walk.at = NoListener
  /\ walk.left = 0
  /\ walk' = Idle
  /\ UNCHANGED <<listenerVars, arrayVars, lifeVars, fault, changes>>

-----------------------------------------------------------------------------
ManagerInit ==
  /\ ListenerInit
  /\ listeners = [i \in 1..Slots |-> NoListener]
  /\ numListeners = 0
  /\ listSize = 0
  /\ stayLast = [l \in Listener |-> FALSE]
  /\ alive = Listener
  /\ orphaned = {}
  /\ walk = Idle
  /\ fault = FALSE
  /\ changes = 0

WalkStep == NextEntry \/ Notify \/ Consumed \/ NextInChain \/ WalkDone

ClientStep ==
  \/ \E l \in Listener :
       \/ \E stay \in BOOLEAN : AddListener(l, stay)
       \/ UnregisterEventListener(l)
       \/ DestroyListener(l)
  \/ ChangeListener

ManagerNext == ClientStep \/ WalkStep \/ \E e \in Type : PostEventImpl(e)

ManagerSpec == ManagerInit /\ [][ManagerNext]_managerVars

-----------------------------------------------------------------------------
ManagerTypeOK ==
  /\ ListenerTypeOK
  /\ listeners \in [1..Slots -> Listener \cup {NoListener}]
  /\ numListeners \in 0..Slots
  /\ listSize \in Nat /\ numListeners <= listSize
  /\ stayLast \in [Listener -> BOOLEAN]
  /\ alive \subseteq Listener
  /\ orphaned \subseteq Listener
  /\ walk = Idle \/ walk \in Walk
  /\ fault \in BOOLEAN
  /\ changes \in 0..MaxChanges

\* A destroyed listener is out of the array, because its destructor unregisters it
\* (EventListener.cpp:55) -- unless it was registered twice, as Event.cpp:281 wants
\* it to be for KeyboardManager: one entry then outlives the object.
NoDeadEntry == Registered \cap (Listener \ alive) \subseteq orphaned

\* The walk is safe and exact while the array is not regrown and no entry ahead of
\* it is removed: removing the listener being notified, or a newer one, is harmless.
\* Each listener registered once throughout has its entry read once.
UndisturbedWalkIsExact ==
  (walk.active /\ walk.left = 0 /\ walk.disturbed = {})
    => \A l \in walk.owed : walk.visits[l] = 1

\* Removing entries ahead of the walk makes it meet some listener twice (the entry
\* it has just read moves down), but never makes it miss one.
NoListenerMissed ==
  (walk.active /\ walk.left = 0 /\ walk.disturbed \subseteq {"removedAhead"})
    => \A l \in walk.owed : walk.visits[l] >= 1

\* The walk touches freed memory only after a disturbance, or through an entry that
\* outlived a listener registered twice.
FaultNeedsDisturbance ==
  [][fault' /\ ~fault => \/ orphaned # {}
                         \/ walk.active /\ walk.disturbed # {}]_managerVars

=============================================================================
