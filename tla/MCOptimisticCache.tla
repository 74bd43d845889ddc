--------------------------- MODULE MCOptimisticCache ---------------------------
(***************************************************************************)
(* Instances of OptimisticCache for TLC: the detail and the list of        *)
(* contacts, a mutation that patches the detail and merges its answer into *)
(* the list, one that adds a row to the list, and somebody else's write.   *)
(***************************************************************************)
EXTENDS OptimisticCache, TLC

CONSTANTS detail, list, update, create, rival, other

Everywhere == [w \in Writes |-> Queries]
EndsEverywhere == [m \in Mutations |-> Queries]
Patched == [m \in Mutations |-> IF m = update THEN {} ELSE Queries]
Merged == [m \in Mutations |-> IF m = rival THEN {} ELSE Queries]

===============================================================================
