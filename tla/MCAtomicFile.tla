---------------------------- MODULE MCAtomicFile ----------------------------
(* Two files, one of which goes by two names, and two FILE pointers.         *)
EXTENDS AtomicFile, TLC

CONSTANTS n1, n2, n3, f1, f2

MCFileOf == n1 :> f1 @@ n2 :> f1 @@ n3 :> f2

==============================================================================
