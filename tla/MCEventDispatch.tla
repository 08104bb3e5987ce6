--------------------------- MODULE MCEventDispatch ---------------------------
(* EventDispatch on a queue of two slots, one application thread and one    *)
(* polling thread; the application threads are interchangeable.             *)
EXTENDS EventDispatch, TLC

MCSymmetry == Permutations(App)

==============================================================================
