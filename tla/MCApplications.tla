----------------------------- MODULE MCApplications -----------------------------
(***************************************************************************)
(* Instances of Applications for TLC.                                      *)
(***************************************************************************)
EXTENDS Applications, TLC

Twice == [e \in Direct \cup Standing |-> 2]
OneTwice == [e \in Direct \cup Standing |-> IF e = CHOOSE d \in Direct : TRUE THEN 2 ELSE 1]

(* The sources change at most in behaviours with one payload and no stop.  *)
PlainChange == \A j \in Jobs : sources[j] > 0 => epoch[j] = 0 /\ Len(payloads[j]) = 1

JobSymmetry == Permutations(Jobs)
DirectSymmetry == Permutations(Direct)

===============================================================================
