---------------------------- MODULE EventListener ----------------------------
(***************************************************************************)
(* The private half of a listener, CEventListenerImpl                      *)
(* (System/Event/EventListenerPriv.cpp): the types it handles, the types   *)
(* its client has disabled for the moment, and the pointer that chains it  *)
(* to a next listener.                                                     *)
(*                                                                         *)
(* SetNextListener first walks the argument's chain to see that it would   *)
(* not close a cycle and then stores the pointer.  No lock is held, so the *)
(* two are separate steps and calls of two threads may overlap.            *)
(***************************************************************************)
EXTENDS Naturals, Sequences, FiniteSets

CONSTANTS
  Listener,       \* CEventListenerImpl objects
  NoListener,     \* the null pointer
  Type,           \* plain event types
  Group,          \* wildcards: a group's type with kWildcardNumSpaceTag set
  GroupOf,        \* the wildcard of a plain type
  EventList       \* the list each listener was constructed with

Event == Type \cup Group

ASSUME ListenerAssumption == NoListener \notin Listener
ASSUME EventAssumption ==
  /\ Type \cap Group = {}
  /\ GroupOf \in [Type -> Group]
  /\ EventList \in [Listener -> Seq(Event)]

VARIABLES
  next,           \* pNextListener_
  disabled,       \* disabledEventList_, up to numDisabledEvents_
  linking,        \* calls of SetNextListener that have checked and not stored
  overlapped      \* history: did two such calls ever overlap?

listenerVars == <<next, disabled, linking, overlapped>>

-----------------------------------------------------------------------------
\* type | kWildcardNumSpaceTag
AllInGroup(e) == IF e \in Group THEN e ELSE GroupOf[e]

Listed(l, e) ==
  \E i \in 1..Len(EventList[l]) : EventList[l][i] \in {e, AllInGroup(e)}

IsDisabled(l, e) == \E i \in 1..Len(disabled[l]) : disabled[l][i] = e

HandlesEvent(l, e) == ~IsDisabled(l, e) /\ Listed(l, e)

\* Faulty: a type is appended however often it is disabled.
DisableTwice(l, e) ==
  /\ Listed(l, e)
  /\ Len(disabled[l]) < 4
  /\ disabled' = [disabled EXCEPT ![l] = Append(@, e)]
  /\ UNCHANGED <<next, linking, overlapped>>

\* An already disabled type is left alone, an unlisted one is refused.
DisableNotifyForEventType(l, e) ==
  /\ ~IsDisabled(l, e)
  /\ Listed(l, e)
  /\ disabled' = [disabled EXCEPT ![l] = Append(@, e)]
  /\ UNCHANGED <<next, linking, overlapped>>

\* The last occurrence goes, and what follows it moves down.
ReenableNotifyForEventType(l, e) ==
  /\ \E i \in 1..Len(disabled[l]) :
       /\ disabled[l][i] = e
       /\ \A j \in (i + 1)..Len(disabled[l]) : disabled[l][j] # e
       /\ disabled' = [disabled EXCEPT ![l] =
            [j \in 1..(Len(@) - 1) |-> IF j < i THEN @[j] ELSE @[j + 1]]]
  /\ UNCHANGED <<next, linking, overlapped>>

-----------------------------------------------------------------------------
\* S is closed under next.
Closed(S) == \A l \in S : next[l] = NoListener \/ next[l] \in S

\* What a walk from l along next meets: the least closed set that holds l.
Chain(l) == {x \in Listener : \A S \in SUBSET Listener :
                                l \in S /\ Closed(S) => x \in S}

\* Faulty: only the listener given is compared, not those chained to it.
CheckFirstOnly(l, k) ==
  /\ l # k
  /\ <<l, k>> \notin linking
  /\ linking' = linking \cup {<<l, k>>}
  /\ overlapped' = (overlapped \/ linking # {})
  /\ UNCHANGED <<next, disabled>>

\* SetNextListener's loop: refuse if l is k or follows it (kEventListenerCycleErr).
CheckNextListener(l, k) ==
  /\ l \notin Chain(k)
  /\ <<l, k>> \notin linking
  /\ linking' = linking \cup {<<l, k>>}
  /\ overlapped' = (overlapped \/ linking # {})
  /\ UNCHANGED <<next, disabled>>

StoreNextListener(l, k) ==
  /\ <<l, k>> \in linking
  /\ linking' = linking \ {<<l, k>>}
  /\ next' = [next EXCEPT ![l] = k]
  /\ UNCHANGED <<disabled, overlapped>>

-----------------------------------------------------------------------------
ListenerInit ==
  /\ next = [l \in Listener |-> NoListener]
  /\ disabled = [l \in Listener |-> <<>>]
  /\ linking = {}
  /\ overlapped = FALSE

ListenerNext ==
  \E l \in Listener :
    \/ \E k \in Listener : CheckNextListener(l, k) \/ StoreNextListener(l, k)
    \/ \E e \in Event : DisableNotifyForEventType(l, e)
                        \/ ReenableNotifyForEventType(l, e)

ListenerSpec == ListenerInit /\ [][ListenerNext]_listenerVars

-----------------------------------------------------------------------------
ListenerTypeOK ==
  /\ next \in [Listener -> Listener \cup {NoListener}]
  /\ disabled \in [Listener -> Seq(Event)]
  /\ linking \subseteq Listener \X Listener
  /\ overlapped \in BOOLEAN

\* Every walk along next ends: a non-empty set of listeners has a member whose
\* next is outside the set.
Acyclic ==
  \A S \in SUBSET Listener : S # {} => \E l \in S : next[l] \notin S

\* The test in SetNextListener (EventListenerPriv.cpp:57-65) keeps PostEventToChain
\* from going round for ever, unless two calls overlapped: their checks can each
\* pass before either has stored its pointer.
CyclesOnlyFromOverlap == overlapped \/ Acyclic

\* disabledEventList_ has room for as many types as the constructor was given
\* (EventListenerPriv.cpp:34).  A listener that lists no wildcard stays within it:
\* the early return on a type already disabled keeps the entries distinct.
DisabledFits ==
  \A l \in Listener :
    (\A i \in 1..Len(EventList[l]) : EventList[l][i] \notin Group)
      => Len(disabled[l]) <= Len(EventList[l])

\* TestEvent.h:493-495 disables three types of a listener that lists one wildcard
\* and expects each call to succeed, so the list must hold them.
DisabledAlwaysFits ==
  \A l \in Listener : Len(disabled[l]) <= Len(EventList[l])

=============================================================================
