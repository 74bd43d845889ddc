---------------------------- MODULE MCModelGateway ----------------------------
(***************************************************************************)
(* Instances of ModelGateway for TLC.  A free call, a call that only costs *)
(* tokens and one that spends more than the budget are among the usages.   *)
(***************************************************************************)
EXTENDS ModelGateway, TLC

CONSTANTS narrow, wide

TwoLanes == (narrow :> 1) @@ (wide :> 2)
Priced == {[cost |-> 1, tokens |-> 1], [cost |-> 2, tokens |-> 0]}
PidSymmetry == Permutations(Pids)

===============================================================================
