--------------------------- MODULE MCEventManager ---------------------------
(* Two types of one group; one listener lists the wildcard and the others   *)
(* both types, and so are interchangeable.                               *)
EXTENDS EventManager, TLC

CONSTANTS l1, l2, l3, t1, t2, g

MCGroupOf == [e \in Type |-> g]
MCEventList == (l1 :> <<t1, t2>>) @@ (l2 :> <<g>>) @@ (l3 :> <<t1, t2>>)
MCSymmetry == Permutations({l1, l3})

=============================================================================
