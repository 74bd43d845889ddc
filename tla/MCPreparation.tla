----------------------------- MODULE MCPreparation -----------------------------
(* Instances of Preparation: the runs are interchangeable.                 *)
EXTENDS Preparation, TLC

(* Requests that name every job, and requests that name none.              *)
Named == {Jobs}
Unnamed == {{}}

(* One of the runs may need a second attempt.                              *)
OneRestart == Cardinality({r \in Runs : attempts[r] > 1}) <= 1

(* One of the runs may be cancelled.                                       *)
OneCancelled == Cardinality({r \in Runs : revoked[r]}) <= 1

RunSymmetry == Permutations(Runs)
===============================================================================
