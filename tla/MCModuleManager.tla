-------------------------- MODULE MCModuleManager --------------------------
(* Three modules; the constructor of A connects to B.                        *)
EXTENDS ModuleManager, TLC

CONSTANTS A, B, C

MCNeeds == A :> B @@ B :> None @@ C :> None

==============================================================================
