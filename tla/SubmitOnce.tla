------------------------------ MODULE SubmitOnce ------------------------------
(***************************************************************************)
(* What the owned email path promises about one job: JobCtrl commits to    *)
(* submitting at most once, the provider is handed at most one message and *)
(* only after that commitment, and a confirmation is recorded only for a   *)
(* message that was handed over.                                           *)
(***************************************************************************)
EXTENDS Naturals

CONSTANT Jobs

VARIABLES
  committed,   \* jobs with a durable submit intent
  sent,        \* messages the provider was handed for each job
  confirmed    \* jobs whose submission is recorded as confirmed

vars == <<committed, sent, confirmed>>

Init ==
  /\ committed = {}
  /\ sent = [j \in Jobs |-> 0]
  /\ confirmed = {}

Commit(j) ==
  /\ j \notin committed
  /\ committed' = committed \cup {j}
  /\ UNCHANGED <<sent, confirmed>>

HandOver(j) ==
  /\ j \in committed
  /\ sent[j] = 0
  /\ sent' = [sent EXCEPT ![j] = 1]
  /\ UNCHANGED <<committed, confirmed>>

Confirm(j) ==
  /\ sent[j] = 1
  /\ j \notin confirmed
  /\ confirmed' = confirmed \cup {j}
  /\ UNCHANGED <<committed, sent>>

Next == \E j \in Jobs : Commit(j) \/ HandOver(j) \/ Confirm(j)

Spec == Init /\ [][Next]_vars

===============================================================================
