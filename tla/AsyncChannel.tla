---------------------------- MODULE AsyncChannel ----------------------------
(***************************************************************************)
(* What the event manager promises a client that posts a low-priority      *)
(* event: the event is accepted once, and accepted events are handed to    *)
(* the listeners one at a time, in the order they were accepted, none of   *)
(* them twice, and all of them for as long as the manager is open.  What   *)
(* was accepted and not handed over when the manager closes may be lost.   *)
(***************************************************************************)
EXTENDS Naturals, Sequences

CONSTANT Message            \* the messages clients may post

VARIABLES
  sent,                     \* the messages accepted, in order
  handled,                  \* the messages given to listeners, in order
  open                      \* FALSE once the manager has been told to stop

vars == <<sent, handled, open>>

TypeOK ==
  /\ sent \in Seq(Message)
  /\ handled \in Seq(Message)
  /\ open \in BOOLEAN

Init ==
  /\ sent = <<>>
  /\ handled = <<>>
  /\ open = TRUE

Accept(m) ==
  /\ \A i \in 1..Len(sent) : sent[i] # m
  /\ sent' = Append(sent, m)
  /\ UNCHANGED <<handled, open>>

Deliver ==
  /\ open
  /\ Len(handled) < Len(sent)
  /\ handled' = Append(handled, sent[Len(handled) + 1])
  /\ UNCHANGED <<sent, open>>

Close ==
  /\ open
  /\ open' = FALSE
  /\ UNCHANGED <<sent, handled>>

Next == (\E m \in Message : Accept(m)) \/ Deliver \/ Close

Safe == Init /\ [][Next]_vars

Spec == Safe /\ WF_vars(Deliver)

=============================================================================
