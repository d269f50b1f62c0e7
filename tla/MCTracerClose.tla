----------------------------- MODULE MCTracerClose -----------------------------
(* Credits for one debug trace of one operation and for half of one of the     *)
(* other; two keys, of which the agent allows one or both.                     *)
EXTENDS TracerClose, TLC

CONSTANTS op1, op2, key1, key2

MCOperations == {op1, op2}
MCSupply == (op1 :> 2) @@ (op2 :> 1)
MCKeys == {key1, key2}
MCPolicies == {[k \in {key1} |-> 1], [k \in {key1, key2} |-> 2]}
=============================================================================
