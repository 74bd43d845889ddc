------------------------------ MODULE DurableRun ------------------------------
(***************************************************************************)
(* What one durable action run promises to the feature whose handler it    *)
(* executes and to the user who reads its receipt: the receipt closes at   *)
(* most once and then never changes, the handler is never executing twice  *)
(* at the same time, it executes only while the receipt is open, and a     *)
(* revoked run that is not executing never executes again.  Attempts,      *)
(* workflows, file locks, clients and recovery do not appear here.         *)
(***************************************************************************)

VARIABLES
  phase,     \* what the receipt says of the run
  working,   \* the feature handler is executing
  revoked    \* the user asked for the run to be cancelled

vars == <<phase, working, revoked>>

Outcomes == {"succeeded", "failed", "cancelled"}

TypeOK ==
  /\ phase \in {"absent", "open"} \cup Outcomes
  /\ working \in BOOLEAN
  /\ revoked \in BOOLEAN

Init ==
  /\ phase = "absent"
  /\ working = FALSE
  /\ revoked = FALSE

Admit ==
  /\ phase = "absent"
  /\ phase' = "open"
  /\ UNCHANGED <<working, revoked>>

(* A run that is not executing may close at once; one that is executing    *)
(* decides its own outcome.                                                *)
Revoke ==
  /\ phase = "open"
  /\ revoked' = TRUE
  /\ \/ phase' = "open"
     \/ ~working /\ phase' = "cancelled"
  /\ UNCHANGED working

Begin ==
  /\ phase = "open"
  /\ ~working
  /\ ~revoked
  /\ working' = TRUE
  /\ UNCHANGED <<phase, revoked>>

(* The process died or was shut down: the run stays open for a retry.      *)
Abandon ==
  /\ working
  /\ working' = FALSE
  /\ UNCHANGED <<phase, revoked>>

Finish ==
  /\ working
  /\ phase = "open"
  /\ working' = FALSE
  /\ \/ phase' \in {"succeeded", "failed"}
     \/ revoked /\ phase' = "cancelled"
  /\ UNCHANGED revoked

(* Recovery closes a run that nobody will execute again; it can never say  *)
(* that such a run succeeded.                                              *)
Close ==
  /\ phase = "open"
  /\ ~working
  /\ phase' \in {"failed", "cancelled"}
  /\ UNCHANGED <<working, revoked>>

Next == Admit \/ Revoke \/ Begin \/ Abandon \/ Finish \/ Close

Spec == Init /\ [][Next]_vars

===============================================================================
