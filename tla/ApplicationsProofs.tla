--------------------------- MODULE ApplicationsProofs ---------------------------
(***************************************************************************)
(* Theorems about Applications, for every set of jobs and executions and   *)
(* every value of the bounds: the owned email path sends at most one       *)
(* message per job, and implements SubmitOnce; stops and records of        *)
(* submissions stand; a consent serves one run; and what is out of date is *)
(* not sent.                                                               *)
(***************************************************************************)
EXTENDS Applications, WellFoundedInduction, TLAPS

Owns(e, j) == \E i \in intents : i.job = j /\ i.run = e

(* Shapes that the proofs need of the variables on the submission path.    *)
SubmissionType ==
  /\ pc \in [Executions -> [Jobs -> {"idle", "todo"} \cup InFlight]]
  /\ delivered \in [Jobs -> Nat]
  /\ receipts \subseteq Jobs

(* One intent per job: the unique key of applications_submit_intents.      *)
OneIntent == \A i, k \in intents : i.job = k.job => i = k

(* Only the run that owns the intent is ever past admission, and how far   *)
(* it is says what the provider and the receipts table have.               *)
SenderOwns ==
  \A e \in Executions, j \in Jobs :
    /\ pc[e][j] \in InFlight => Owns(e, j)
    /\ pc[e][j] = "admitted" => delivered[j] = 0
    /\ pc[e][j] = "confirmed" => delivered[j] = 1 /\ j \notin receipts

(* Nothing is sent before the intent, and nothing is confirmed unsent.     *)
IntentFirst ==
  \A j \in Jobs :
    /\ delivered[j] <= 1
    /\ ~HasIntent(j) => delivered[j] = 0
    /\ j \in receipts => delivered[j] = 1

SubmissionInv == SubmissionType /\ OneIntent /\ SenderOwns /\ IntentFirst

path == <<pc, intents, delivered, receipts>>

-------------------------------------------------------------------------------
LEMMA InitSubmission == Init => SubmissionInv
  BY DEF Init, SubmissionInv, SubmissionType, OneIntent, SenderOwns, IntentFirst, InFlight,
         HasIntent, Owns

(* Steps that leave the submission path alone.                             *)
LEMMA PathUnchanged ==
  ASSUME SubmissionInv, UNCHANGED path
  PROVE  SubmissionInv'
  BY DEF SubmissionInv, SubmissionType, OneIntent, SenderOwns, IntentFirst, path, HasIntent, Owns

(* Steps that only move the control of one execution, and not past         *)
(* admission.                                                              *)
LEMMA ControlOnly ==
  ASSUME NEW e \in Executions, SubmissionInv,
         UNCHANGED <<intents, delivered, receipts>>,
         pc' \in [Executions -> [Jobs -> {"idle", "todo"} \cup InFlight]],
         \A f \in Executions, j \in Jobs : pc'[f][j] \in InFlight => pc'[f][j] = pc[f][j]
  PROVE  SubmissionInv'
<1>1. SubmissionType' /\ OneIntent' /\ IntentFirst'
  BY DEF SubmissionInv, SubmissionType, OneIntent, IntentFirst, HasIntent
<1>2. SenderOwns'
  BY DEF SubmissionInv, SenderOwns, Owns, InFlight
<1> QED  BY <1>1, <1>2 DEF SubmissionInv

LEMMA AdmitStep ==
  ASSUME NEW e \in Executions, NEW j \in Jobs, SubmissionInv, Admit(e, j)
  PROVE  SubmissionInv'
<1> DEFINE email == payloads[j][item[e][j].payload].mode = "email"
<1>1. ~HasIntent(j) /\ delivered[j] = 0 /\ j \notin receipts
  BY DEF Admit, Admissible, SubmissionInv, IntentFirst
<1>2. UNCHANGED <<delivered, receipts>>
  BY DEF Admit
<1>3. pc' = [pc EXCEPT ![e][j] = IF email THEN "admitted" ELSE "idle"]
  BY DEF Admit
<1>4. CASE email
  <2>1. PICK i : i.job = j /\ i.run = e /\ intents' = intents \cup {i}
    <3>1. intents' = intents \cup {[job |-> j, run |-> e, payload |-> item[e][j].payload,
                                    approval |-> item[e][j].approval]}
      BY <1>4 DEF Admit
    <3> QED  BY <3>1
  <2>2. pc' = [pc EXCEPT ![e][j] = "admitted"]
    BY <1>3, <1>4
  <2>3. SubmissionType'
    BY <1>2, <2>2 DEF SubmissionInv, SubmissionType, InFlight
  <2>4. OneIntent'
    BY <1>1, <2>1 DEF SubmissionInv, OneIntent, HasIntent
  <2>5. SenderOwns'
    BY <1>1, <1>2, <2>1, <2>2 DEF SubmissionInv, SubmissionType, SenderOwns, Owns, InFlight
  <2>6. IntentFirst'
    BY <1>1, <1>2, <2>1 DEF SubmissionInv, IntentFirst, HasIntent
  <2> QED  BY <2>3, <2>4, <2>5, <2>6 DEF SubmissionInv
<1>5. CASE ~email
  <2>1. UNCHANGED intents /\ pc' = [pc EXCEPT ![e][j] = "idle"]
    BY <1>3, <1>5 DEF Admit
  <2> QED  BY <2>1, <1>2, ControlOnly DEF SubmissionInv, SubmissionType, InFlight
<1> QED  BY <1>4, <1>5

LEMMA SendStep ==
  ASSUME NEW e \in Executions, NEW j \in Jobs, SubmissionInv, Send(e, j)
  PROVE  SubmissionInv'
<1>1. Owns(e, j) /\ delivered[j] = 0 /\ UNCHANGED <<intents, receipts>>
  BY DEF Send, SubmissionInv, SenderOwns, InFlight
<1>2. PICK next \in {"confirmed", "unknown"} :
        /\ pc' = [pc EXCEPT ![e][j] = next]
        /\ \/ delivered' = [delivered EXCEPT ![j] = @ + 1]
           \/ next = "unknown" /\ delivered' = delivered
  BY DEF Send
<1>3. SubmissionType' /\ OneIntent'
  BY <1>1, <1>2 DEF SubmissionInv, SubmissionType, OneIntent, InFlight
<1>4. ASSUME NEW f \in Executions, f # e, pc[f][j] \in InFlight  PROVE FALSE
  BY <1>1, <1>4 DEF SubmissionInv, SenderOwns, OneIntent, Owns
<1>5. SenderOwns'
  <2> SUFFICES ASSUME NEW f \in Executions, NEW k \in Jobs
               PROVE  /\ pc'[f][k] \in InFlight => Owns(f, k)
                      /\ pc'[f][k] = "admitted" => delivered'[k] = 0
                      /\ pc'[f][k] = "confirmed" => delivered'[k] = 1 /\ k \notin receipts
    BY <1>1 DEF SenderOwns, Owns
  <2>1. CASE k # j
    <3>1. pc'[f][k] = pc[f][k] /\ delivered'[k] = delivered[k]
      BY <1>2, <2>1 DEF SubmissionInv, SubmissionType
    <3> QED  BY <3>1 DEF SubmissionInv, SenderOwns
  <2>2. CASE k = j /\ f # e
    <3>1. pc'[f][k] = pc[f][k]
      BY <1>2, <2>2 DEF SubmissionInv, SubmissionType
    <3> QED  BY <3>1, <1>4, <2>2 DEF InFlight
  <2>3. CASE k = j /\ f = e
    <3>1. pc'[e][j] = next /\ j \notin receipts
      BY <1>1, <1>2 DEF SubmissionInv, SubmissionType, IntentFirst
    <3>2. next = "confirmed" => delivered'[j] = 1
      BY <1>1, <1>2 DEF SubmissionInv, SubmissionType
    <3> QED  BY <1>1, <1>2, <2>3, <3>1, <3>2
  <2> QED  BY <2>1, <2>2, <2>3
<1>6. IntentFirst'
  <2>1. HasIntent(j)
    BY <1>1 DEF Owns, HasIntent
  <2>2. j \notin receipts
    BY <1>1 DEF SubmissionInv, IntentFirst
  <2> QED  BY <1>1, <1>2, <2>1, <2>2 DEF SubmissionInv, SubmissionType, IntentFirst, HasIntent
<1> QED  BY <1>3, <1>5, <1>6 DEF SubmissionInv

LEMMA SettleStep ==
  ASSUME NEW e \in Executions, NEW j \in Jobs, SubmissionInv, SettleConfirmation(e, j)
  PROVE  SubmissionInv'
<1>1. /\ pc' = [pc EXCEPT ![e][j] = "idle"]
      /\ receipts' = receipts \cup {j}
      /\ UNCHANGED <<intents, delivered>>
      /\ pc[e][j] = "confirmed"
  BY DEF SettleConfirmation
<1>2. Owns(e, j) /\ delivered[j] = 1
  BY <1>1 DEF SubmissionInv, SenderOwns, InFlight
<1>3. SubmissionType' /\ OneIntent' /\ IntentFirst'
  BY <1>1, <1>2 DEF SubmissionInv, SubmissionType, OneIntent, IntentFirst, HasIntent, InFlight
<1>4. ASSUME NEW f \in Executions, f # e, pc[f][j] \in InFlight  PROVE FALSE
  BY <1>2, <1>4 DEF SubmissionInv, SenderOwns, OneIntent, Owns
<1>5. SenderOwns'
  BY <1>1, <1>2, <1>4 DEF SubmissionInv, SubmissionType, SenderOwns, Owns, InFlight
<1> QED  BY <1>3, <1>5 DEF SubmissionInv

LEMMA StepSubmission ==
  ASSUME SubmissionInv, [Next]_vars
  PROVE  SubmissionInv'
<1>1. CASE UNCHANGED vars
  BY <1>1, PathUnchanged DEF vars, submission, execution, path
<1>2. ASSUME NEW j \in Jobs, Decide(j)  PROVE SubmissionInv'
  <2>1. UNCHANGED path
    BY <1>2 DEF Decide, Prepare, BeginRehearsal, CompleteRehearsal, Review, Reset, MarkFailed,
                Stop, ChangeSources, AssessRepeat, ConsentToRepeat, path, submission, execution
  <2> QED  BY <2>1, PathUnchanged
<1>3. ASSUME NEW j \in Jobs \cup OtherJobs, RecordOutcome(j)  PROVE SubmissionInv'
  BY <1>3, PathUnchanged DEF RecordOutcome, path, submission, execution
<1>4. ASSUME NEW e \in Direct, NEW js \in SUBSET Jobs, QueueDirect(e, js)  PROVE SubmissionInv'
  BY <1>4, PathUnchanged DEF QueueDirect, path, submission
<1>5. ASSUME NEW e \in Standing, QueueStanding(e)  PROVE SubmissionInv'
  BY <1>5, PathUnchanged DEF QueueStanding, path, submission
<1>6. ASSUME NEW e \in Executions, Step(e)  PROVE SubmissionInv'
  <2>1. ASSUME NEW js \in SUBSET Jobs, StartWith(e, js), UNCHANGED submission
        PROVE  SubmissionInv'
    <3>1. pc' = [pc EXCEPT ![e] = [j \in Jobs |-> IF j \in js THEN "todo" ELSE "idle"]]
      BY <2>1 DEF StartWith
    <3>2. pc' \in [Executions -> [Jobs -> {"idle", "todo"} \cup InFlight]]
      BY <3>1 DEF SubmissionInv, SubmissionType
    <3>3. \A f \in Executions, j \in Jobs : pc'[f][j] \in InFlight => pc'[f][j] = pc[f][j]
      BY <3>1 DEF SubmissionInv, SubmissionType, InFlight
    <3> QED  BY <2>1, <3>2, <3>3, ControlOnly DEF submission
  <2>2. ASSUME NEW j \in Jobs, pc' = [pc EXCEPT ![e][j] = "idle"],
               UNCHANGED <<intents, delivered, receipts>>
        PROVE  SubmissionInv'
    BY <2>2, ControlOnly DEF SubmissionInv, SubmissionType, InFlight
  <2>3. CASE StartDirect(e)
    BY <2>1, <2>3 DEF StartDirect
  <2>4. ASSUME NEW js \in SUBSET Jobs, StartStanding(e, js)  PROVE SubmissionInv'
    BY <2>1, <2>4 DEF StartStanding
  <2>5. ASSUME NEW j \in Jobs, Admit(e, j)  PROVE SubmissionInv'
    BY <2>5, AdmitStep
  <2>6. ASSUME NEW j \in Jobs, Refuse(e, j)  PROVE SubmissionInv'
    BY <2>2, <2>6 DEF Refuse, submission
  <2>7. ASSUME NEW j \in Jobs, Reconcile(e, j)  PROVE SubmissionInv'
    BY <2>2, <2>7 DEF Reconcile
  <2>8. ASSUME NEW j \in Jobs, Send(e, j)  PROVE SubmissionInv'
    BY <2>8, SendStep
  <2>9. ASSUME NEW j \in Jobs, SettleConfirmation(e, j)  PROVE SubmissionInv'
    BY <2>9, SettleStep
  <2>10. ASSUME NEW j \in Jobs, RetainUncertain(e, j)  PROVE SubmissionInv'
    BY <2>2, <2>10 DEF RetainUncertain
  <2>11. CASE Finish(e)
    BY <2>11, PathUnchanged DEF Finish, path, submission
  <2> QED  BY <1>6, <2>3, <2>4, <2>5, <2>6, <2>7, <2>8, <2>9, <2>10, <2>11 DEF Step
<1>7. ASSUME NEW e \in Executions, Crash(e)  PROVE SubmissionInv'
  <2>1. pc' = [pc EXCEPT ![e] = [j \in Jobs |-> "idle"]] /\ UNCHANGED submission
    BY <1>7 DEF Crash
  <2>2. pc' \in [Executions -> [Jobs -> {"idle", "todo"} \cup InFlight]]
    BY <2>1 DEF SubmissionInv, SubmissionType
  <2>3. \A f \in Executions, j \in Jobs : pc'[f][j] \in InFlight => pc'[f][j] = pc[f][j]
    BY <2>1 DEF SubmissionInv, SubmissionType, InFlight
  <2> QED  BY <2>1, <2>2, <2>3, ControlOnly DEF submission
<1>8. ASSUME NEW e \in Executions, Cancel(e)  PROVE SubmissionInv'
  BY <1>8, PathUnchanged DEF Cancel, path, submission
<1> QED  BY <1>1, <1>2, <1>3, <1>4, <1>5, <1>6, <1>7, <1>8 DEF Next

(* Every reachable state of the submission path satisfies its invariant.   *)
THEOREM SubmissionInvariant == Spec => []SubmissionInv
<1>1. Init => SubmissionInv
  BY InitSubmission
<1>2. SubmissionInv /\ [Next]_vars => SubmissionInv'
  BY StepSubmission
<1> QED  BY <1>1, <1>2, PTL DEF Spec

(* At most one message per job reaches the mail provider, for every set of *)
(* jobs, executions, retries, crashes, stops and resets (admit_execution,  *)
(* the one POST of MailAdapter.send).                                      *)
THEOREM AtMostOnce == Spec => []AtMostOneMessage
<1>1. SubmissionInv => AtMostOneMessage
  BY DEF SubmissionInv, IntentFirst, AtMostOneMessage
<1> QED  BY <1>1, SubmissionInvariant, PTL

-------------------------------------------------------------------------------
LEMMA StepOnce ==
  ASSUME SubmissionInv, [Next]_vars
  PROVE  [Once!Next]_(Once!vars)
<1>1. ASSUME UNCHANGED <<intents, delivered, receipts>>  PROVE UNCHANGED Once!vars
  BY <1>1 DEF Once!vars
<1>2. CASE UNCHANGED vars
  BY <1>1, <1>2 DEF vars, submission
<1>3. ASSUME NEW j \in Jobs, Decide(j)  PROVE UNCHANGED Once!vars
  BY <1>1, <1>3 DEF Decide, Prepare, BeginRehearsal, CompleteRehearsal, Review, Reset, MarkFailed,
              Stop, ChangeSources, AssessRepeat, ConsentToRepeat, submission
<1>4. ASSUME NEW e \in Executions, NEW j \in Jobs, Admit(e, j)  PROVE [Once!Next]_(Once!vars)
  <2>1. ~HasIntent(j) /\ UNCHANGED <<delivered, receipts>>
    BY <1>4 DEF Admit, Admissible
  <2>2. PICK i : i.job = j /\ intents' \in {intents, intents \cup {i}}
    <3>1. intents' \in {intents, intents \cup {[job |-> j, run |-> e,
                          payload |-> item[e][j].payload, approval |-> item[e][j].approval]}}
      BY <1>4 DEF Admit
    <3> QED  BY <3>1
  <2>3. CASE intents' = intents
    BY <1>1, <2>1, <2>3
  <2>4. CASE intents' = intents \cup {i}
    <3>1. j \notin {k.job : k \in intents}
      BY <2>1 DEF HasIntent
    <3>2. {k.job : k \in intents}' = {k.job : k \in intents} \cup {j}
      BY <2>2, <2>4
    <3>3. Once!Commit(j)
      BY <2>1, <3>1, <3>2 DEF Once!Commit
    <3> QED  BY <3>3 DEF Once!Next
  <2> QED  BY <2>2, <2>3, <2>4
<1>5. ASSUME NEW e \in Executions, NEW j \in Jobs, Send(e, j)  PROVE [Once!Next]_(Once!vars)
  <2>1. Owns(e, j) /\ delivered[j] = 0 /\ UNCHANGED <<intents, receipts>>
    BY <1>5 DEF Send, SubmissionInv, SenderOwns, InFlight
  <2>2. CASE delivered' = delivered
    BY <1>1, <2>1, <2>2
  <2>3. CASE delivered' = [delivered EXCEPT ![j] = @ + 1]
    <3>1. delivered' = [delivered EXCEPT ![j] = 1]
      BY <2>1, <2>3 DEF SubmissionInv, SubmissionType
    <3>2. Once!HandOver(j)
      BY <2>1, <3>1 DEF Once!HandOver, Owns
    <3> QED  BY <3>2 DEF Once!Next
  <2> QED  BY <1>5, <2>2, <2>3 DEF Send
<1>6. ASSUME NEW e \in Executions, NEW j \in Jobs, SettleConfirmation(e, j)
      PROVE  [Once!Next]_(Once!vars)
  <2>1. delivered[j] = 1 /\ j \notin receipts
    BY <1>6 DEF SettleConfirmation, SubmissionInv, SenderOwns
  <2>2. receipts' = receipts \cup {j} /\ UNCHANGED <<intents, delivered>>
    BY <1>6 DEF SettleConfirmation
  <2>3. Once!Confirm(j)
    BY <2>1, <2>2 DEF Once!Confirm
  <2> QED  BY <2>3 DEF Once!Next
<1>7. ASSUME NEW e \in Executions, Step(e)  PROVE [Once!Next]_(Once!vars)
  <2>1. ASSUME NEW j \in Jobs, Refuse(e, j) \/ Reconcile(e, j) \/ RetainUncertain(e, j)
        PROVE  UNCHANGED Once!vars
    BY <1>1, <2>1 DEF Refuse, Reconcile, RetainUncertain, submission
  <2>2. CASE StartDirect(e) \/ Finish(e) \/ \E js \in SUBSET Jobs : StartStanding(e, js)
    BY <1>1, <2>2 DEF StartDirect, Finish, StartStanding, submission
  <2> QED  BY <1>4, <1>5, <1>6, <1>7, <2>1, <2>2 DEF Step
<1>8. CASE \/ \E j \in Jobs \cup OtherJobs : RecordOutcome(j)
           \/ \E e \in Direct, js \in SUBSET Jobs : QueueDirect(e, js)
           \/ \E e \in Standing : QueueStanding(e)
           \/ \E e \in Executions : Crash(e) \/ Cancel(e)
  BY <1>1, <1>8 DEF RecordOutcome, QueueDirect, QueueStanding, Crash, Cancel, submission
<1> QED  BY <1>2, <1>3, <1>7, <1>8 DEF Next

(* Applications implements SubmitOnce, with the intents as the commitments *)
(* and the receipts as the confirmations.                                  *)
THEOREM ImplementsSubmitOnce == Spec => SubmitsOnce
<1>1. Init => Once!Init
  BY DEF Init, Once!Init
<1>2. SubmissionInv /\ [Next]_vars => [Once!Next]_(Once!vars)
  BY StepOnce
<1> QED  BY <1>1, <1>2, SubmissionInvariant, PTL DEF Spec, SubmitsOnce, Once!Spec

-------------------------------------------------------------------------------
StopInv ==
  /\ status \in [Jobs -> Statuses]
  /\ StopSurvives

(* A step that gives a status only to a job that is not stopped.           *)
LEMMA LeavesStopped ==
  ASSUME NEW j \in Jobs, NEW s \in Statuses, StopInv, j \notin stopped,
         stopped' = stopped, status' \in {status, [status EXCEPT ![j] = s]}
  PROVE  StopInv'
<1>1. status' \in [Jobs -> Statuses]
  BY DEF StopInv
<1>2. \A k \in stopped : status'[k] = status[k]
  <2> SUFFICES ASSUME NEW k \in stopped  PROVE status'[k] = status[k]
    OBVIOUS
  <2>1. CASE status' = status
    BY <2>1
  <2>2. CASE status' = [status EXCEPT ![j] = s]
    BY <2>2 DEF StopInv
  <2> QED  BY <2>1, <2>2
<1> QED  BY <1>1, <1>2 DEF StopInv, StopSurvives

LEMMA KeepsStops ==
  ASSUME StopInv, UNCHANGED <<status, stopped>>
  PROVE  StopInv'
  BY DEF StopInv, StopSurvives

LEMMA StepStops ==
  ASSUME StopInv, [Next]_vars
  PROVE  StopInv'
<1>1. CASE UNCHANGED vars
  BY <1>1, KeepsStops DEF vars, decided
<1>2. ASSUME NEW j \in Jobs, Decide(j)  PROVE StopInv'
  <2>1. ASSUME NEW mode \in Modes, Prepare(j, mode)  PROVE StopInv'
    BY <2>1, LeavesStopped DEF Prepare, Statuses
  <2>2. CASE BeginRehearsal(j) \/ ChangeSources(j) \/ ConsentToRepeat(j)
             \/ \E verdict \in {"clear", "same_employer_equivalent_role", "uncertain"} :
                  AssessRepeat(j, verdict)
    BY <2>2, KeepsStops DEF BeginRehearsal, ChangeSources, ConsentToRepeat, AssessRepeat, decided
  <2>3. CASE CompleteRehearsal(j)
    <3>1. CASE j \notin stopped /\ status' = [status EXCEPT ![j] = "awaiting_approval"]
      BY <2>3, <3>1, LeavesStopped DEF CompleteRehearsal, Statuses
    <3>2. CASE UNCHANGED status
      BY <2>3, <3>2, KeepsStops DEF CompleteRehearsal
    <3> QED  BY <2>3, <3>1, <3>2 DEF CompleteRehearsal
  <2>4. ASSUME NEW verdict \in Reviews, Review(j, verdict)  PROVE StopInv'
    <3>1. CASE HasIntent(j) \/ j \in stopped
      BY <2>4, <3>1, KeepsStops DEF Review
    <3>2. CASE ~(HasIntent(j) \/ j \in stopped)
      <4>1. Decided(verdict) \in Statuses
        BY DEF Decided, Statuses
      <4>2. status' = [status EXCEPT ![j] = Decided(verdict)] /\ stopped' = stopped
        BY <2>4, <3>2 DEF Review
      <4> QED  BY <3>2, <4>1, <4>2, LeavesStopped
    <3> QED  BY <3>1, <3>2
  <2>5. CASE Reset(j)
    <3>1. PICK s \in Statuses : status' = [status EXCEPT ![j] = s]
      BY <2>5 DEF Reset, Statuses
    <3>2. stopped' = stopped \ {j}
      BY <2>5 DEF Reset
    <3> QED  BY <3>1, <3>2 DEF StopInv, StopSurvives
  <2>6. CASE MarkFailed(j)
    BY <2>6, LeavesStopped DEF MarkFailed, Statuses
  <2>7. ASSUME NEW how \in Stops, Stop(j, how)  PROVE StopInv'
    <3>1. how \in {"skipped", "cancelled"}
      BY ApplicationsAssumption
    <3> QED  BY <2>7, <3>1 DEF Stop, StopInv, StopSurvives, Statuses
  <2> QED  BY <1>2, <2>1, <2>2, <2>3, <2>4, <2>5, <2>6, <2>7 DEF Decide
<1>3. ASSUME NEW e \in Executions, Step(e)  PROVE StopInv'
  <2>1. ASSUME NEW j \in Jobs, Admit(e, j)  PROVE StopInv'
    <3>1. PICK s \in {"sending", "manual_required"} : status' = [status EXCEPT ![j] = s]
      BY <2>1 DEF Admit
    <3>2. j \notin stopped /\ stopped' = stopped /\ s \in Statuses
      BY <2>1 DEF Admit, Admissible, Statuses
    <3> QED  BY <3>1, <3>2, LeavesStopped
  <2>2. ASSUME NEW f, NEW j \in Jobs, Park(f, j), stopped' = stopped  PROVE StopInv'
    <3>1. CASE runOf[j] = {f} /\ j \notin stopped
      BY <2>2, <3>1, LeavesStopped DEF Park, Statuses
    <3>2. CASE ~(runOf[j] = {f} /\ j \notin stopped)
      BY <2>2, <3>2, KeepsStops DEF Park
    <3> QED  BY <3>1, <3>2
  <2>3. ASSUME NEW j \in Jobs, SettleConfirmation(e, j)  PROVE StopInv'
    <3>1. CASE runOf[j] = {e} /\ j \notin stopped
      BY <2>3, <3>1, LeavesStopped DEF SettleConfirmation, Statuses
    <3>2. CASE ~(runOf[j] = {e} /\ j \notin stopped)
      BY <2>3, <3>2, KeepsStops DEF SettleConfirmation
    <3> QED  BY <3>1, <3>2
  <2>4. ASSUME NEW j \in Jobs, Reconcile(e, j) \/ RetainUncertain(e, j)  PROVE StopInv'
    BY <2>2, <2>4, KeepsStops DEF Reconcile, RetainUncertain
  <2>5. CASE \/ StartDirect(e) \/ Finish(e)
             \/ \E js \in SUBSET Jobs : StartStanding(e, js)
             \/ \E j \in Jobs : Refuse(e, j) \/ Send(e, j)
    BY <2>5, KeepsStops DEF StartDirect, Finish, StartStanding, Refuse, Send, decided
  <2> QED  BY <1>3, <2>1, <2>3, <2>4, <2>5 DEF Step
<1>4. CASE \/ \E j \in Jobs \cup OtherJobs : RecordOutcome(j)
           \/ \E e \in Direct, js \in SUBSET Jobs : QueueDirect(e, js)
           \/ \E e \in Standing : QueueStanding(e)
           \/ \E e \in Executions : Crash(e) \/ Cancel(e)
  BY <1>4, KeepsStops DEF RecordOutcome, QueueDirect, QueueStanding, Crash, Cancel, decided
<1> QED  BY <1>1, <1>2, <1>3, <1>4 DEF Next

(* A local stop survives a late confirmation, a late rehearsal and a       *)
(* reconciliation by another run; only a reset lifts it.                   *)
THEOREM StopIsKept == Spec => []StopSurvives
<1>1. Init => StopInv
  BY DEF Init, StopInv, StopSurvives, Statuses
<1>2. StopInv /\ [Next]_vars => StopInv'
  BY StepStops
<1>3. StopInv => StopSurvives
  BY DEF StopInv
<1> QED  BY <1>1, <1>2, <1>3, PTL DEF Spec

-------------------------------------------------------------------------------
(* Types.  TypeOK follows table by table, with what the durable action run *)
(* grants: an execution that is queued has an attempt left.                *)

PreparedType ==
  /\ payloads \in [Jobs -> Seq(Payload)]
  /\ payload \in [Jobs -> Nat]
  /\ rehearsed \in [Jobs -> SUBSET Nat]
  /\ rehearsing \in [Jobs -> Nat]

DecidedType ==
  /\ decisions \in [Jobs -> Seq(Decision)]
  /\ status \in [Jobs -> Statuses]
  /\ stopped \in SUBSET Jobs
  /\ epoch \in [Jobs -> Nat]
  /\ attempts \in [Jobs -> Nat]
  /\ runOf \in [Jobs -> SUBSET Executions]

SubmittedType ==
  /\ runs \in [Executions -> [Jobs -> Run]]
  /\ intents \in SUBSET Intent
  /\ receipts \in SUBSET Jobs
  /\ delivered \in [Jobs -> Nat]

ExecutionType ==
  /\ stage \in [Executions -> {"new", "queued", "executing", "cancelled", "done", "ended"}]
  /\ tries \in [Executions -> Nat]
  /\ item \in [Executions -> [Jobs -> [payload : Nat, approval : Nat]]]
  /\ pc \in [Executions -> [Jobs -> {"idle", "todo"} \cup InFlight]]

WorldType ==
  /\ outcomes \in SUBSET (Jobs \cup OtherJobs)
  /\ sources \in [Jobs -> Nat]
  /\ checks \in [Jobs -> Seq(Check)]

Types == PreparedType /\ DecidedType /\ SubmittedType /\ ExecutionType /\ WorldType

TriesLeft ==
  \A e \in Executions :
    /\ tries[e] <= MaxTries[e]
    /\ stage[e] = "new" => tries[e] = 0
    /\ stage[e] = "queued" => tries[e] < MaxTries[e]

LEMMA GroupsStay ==
  /\ PreparedType /\ UNCHANGED prepared => PreparedType'
  /\ DecidedType /\ UNCHANGED decided => DecidedType'
  /\ SubmittedType /\ UNCHANGED submission => SubmittedType'
  /\ ExecutionType /\ UNCHANGED execution => ExecutionType'
  /\ WorldType /\ UNCHANGED world => WorldType'
  BY DEF PreparedType, DecidedType, SubmittedType, ExecutionType, WorldType,
         prepared, decided, submission, execution, world

(* A set of numbers up to n that is not empty has a greatest one.          *)
LEMMA GreatestIn ==
  ASSUME NEW n \in Nat, NEW S \in SUBSET (1..n), S # {}
  PROVE  \E k \in S : \A m \in S : m <= k
<1> DEFINE T == {n - k : k \in S}
<1>1. T \subseteq Nat /\ T # {}
  <2>1. \A k \in S : k \in 1..n /\ n - k \in Nat
    OBVIOUS
  <2>2. PICK k \in S : n - k \in T
    OBVIOUS
  <2> QED  BY <2>1, <2>2
<1> DEFINE Below == {p \in Nat \X Nat : p[1] < p[2]}
<1>2. IsWellFoundedOn(Below, Nat)
  BY NatLessThanWellFounded DEF OpToRel
<1> HIDE DEF Below
<1>3. PICK x \in T : \A y \in T : ~(<<y, x>> \in Below)
  BY <1>1, <1>2, WFMin
<1>4. \A y \in T : ~(y < x)
  BY <1>1, <1>3 DEF Below
<1>5. PICK k \in S : x = n - k
  OBVIOUS
<1>6. \A m \in S : n - m \in T /\ m \in Nat
  OBVIOUS
<1> HIDE DEF T
<1> QED  BY <1>4, <1>5, <1>6

(* The latest assessment of the current evidence is one of the job's.      *)
LEMMA AssessedType ==
  ASSUME NEW j \in Jobs, WorldType
  PROVE  Assessed(j) \in 0..Len(checks[j])
<1>1. Len(checks[j]) \in Nat /\ Assessments(j) \in SUBSET (1..Len(checks[j]))
  <2>1. checks[j] \in Seq(Check)
    BY DEF WorldType
  <2> QED  BY <2>1 DEF Assessments
<1>2. CASE Assessments(j) = {}
  BY <1>1, <1>2 DEF Assessed
<1>3. CASE Assessments(j) # {}
  <2>1. \E n \in Assessments(j) : \A m \in Assessments(j) : m <= n
    BY <1>1, <1>3, GreatestIn
  <2>2. Assessed(j) \in Assessments(j)
    BY <1>3, <2>1 DEF Assessed
  <2> QED  BY <1>1, <2>2
<1> QED  BY <1>2, <1>3

LEMMA TypesDecide ==
  ASSUME Types, NEW j \in Jobs, Decide(j)
  PROVE  Types'
<1> USE DEF Types
<1>1. ASSUME NEW mode \in Modes, Prepare(j, mode)  PROVE Types'
  <2>1. [mode |-> mode, epoch |-> epoch[j], sources |-> sources[j]] \in Payload
    BY ApplicationsAssumption DEF Payload, DecidedType, WorldType
  <2>2. PreparedType'
    <3>1. payloads[j] \in Seq(Payload)
      BY DEF PreparedType
    <3> QED  BY <1>1, <2>1, <3>1 DEF Prepare, PreparedType
  <2>3. DecidedType'
    BY <1>1 DEF Prepare, DecidedType, Statuses
  <2> QED  BY <1>1, <2>2, <2>3, GroupsStay DEF Prepare
<1>2. CASE BeginRehearsal(j)
  <2>1. PreparedType'
    BY <1>2 DEF BeginRehearsal, PreparedType
  <2> QED  BY <1>2, <2>1, GroupsStay DEF BeginRehearsal
<1>3. CASE CompleteRehearsal(j)
  <2>1. PreparedType'
    BY <1>3 DEF CompleteRehearsal, PreparedType
  <2>2. DecidedType'
    BY <1>3 DEF CompleteRehearsal, DecidedType, Statuses
  <2> QED  BY <1>3, <2>1, <2>2, GroupsStay DEF CompleteRehearsal
<1>4. ASSUME NEW verdict \in Reviews, Review(j, verdict)  PROVE Types'
  <2>1. [verdict |-> verdict, payload |-> payload[j]] \in Decision
    BY ApplicationsAssumption DEF Decision, PreparedType
  <2>2. Decided(verdict) \in Statuses
    BY DEF Decided, Statuses
  <2>3. status' \in [Jobs -> Statuses]
    BY <1>4, <2>2 DEF Review, DecidedType
  <2>4. decisions' \in [Jobs -> Seq(Decision)]
    <3>1. decisions[j] \in Seq(Decision)
      BY DEF DecidedType
    <3> QED  BY <1>4, <2>1, <3>1 DEF Review, DecidedType
  <2>5. DecidedType'
    BY <1>4, <2>3, <2>4 DEF Review, DecidedType
  <2> QED  BY <1>4, <2>5, GroupsStay DEF Review
<1>5. CASE Reset(j)
  <2>1. [verdict |-> "reset", payload |-> payload[j]] \in Decision
    BY DEF Decision, Verdicts, PreparedType
  <2>2. decisions' \in [Jobs -> Seq(Decision)]
    <3>1. decisions[j] \in Seq(Decision)
      BY DEF DecidedType
    <3> QED  BY <1>5, <2>1, <3>1 DEF Reset, DecidedType
  <2>3. status' \in [Jobs -> Statuses] /\ attempts' \in [Jobs -> Nat]
    BY <1>5 DEF Reset, DecidedType, Statuses
  <2>4. DecidedType'
    BY <1>5, <2>2, <2>3 DEF Reset, DecidedType
  <2> QED  BY <1>5, <2>4, GroupsStay DEF Reset
<1>6. CASE MarkFailed(j)
  <2>1. DecidedType'
    BY <1>6 DEF MarkFailed, DecidedType, Statuses
  <2> QED  BY <1>6, <2>1, GroupsStay DEF MarkFailed
<1>7. ASSUME NEW how \in Stops, Stop(j, how)  PROVE Types'
  <2>1. how \in Statuses
    BY ApplicationsAssumption DEF Statuses
  <2>2. DecidedType'
    BY <1>7, <2>1 DEF Stop, DecidedType
  <2> QED  BY <1>7, <2>2, GroupsStay DEF Stop
<1>8. CASE ChangeSources(j)
  <2>1. WorldType'
    BY <1>8 DEF ChangeSources, WorldType
  <2> QED  BY <1>8, <2>1, GroupsStay DEF ChangeSources
<1>9. ASSUME NEW verdict \in {"clear", "same_employer_equivalent_role", "uncertain"},
             AssessRepeat(j, verdict)
      PROVE  Types'
  <2>1. [evidence |-> Evidence(j), verdict |-> verdict, granted |-> FALSE, usedBy |-> {}] \in Check
    <3>1. Evidence(j) \in Nat \X SUBSET (Jobs \cup OtherJobs)
      BY DEF Evidence, WorldType
    <3> QED  BY <3>1 DEF Check
  <2>2. checks[j] \in Seq(Check)
    BY DEF WorldType
  <2>3. WorldType'
    BY <1>9, <2>1, <2>2 DEF AssessRepeat, WorldType
  <2> QED  BY <1>9, <2>3, GroupsStay DEF AssessRepeat
<1>10. CASE ConsentToRepeat(j)
  <2>1. Assessed(j) \in 1..Len(checks[j]) /\ checks[j] \in Seq(Check)
    <3>1. checks[j] \in Seq(Check) /\ Assessed(j) \in 0..Len(checks[j])
      BY AssessedType DEF WorldType
    <3>2. Assessed(j) # 0
      BY <1>10 DEF ConsentToRepeat
    <3> QED  BY <3>1, <3>2
  <2>2. PICK c : /\ c = [checks[j][Assessed(j)] EXCEPT !.granted = TRUE]
                 /\ checks' = [checks EXCEPT ![j] = [checks[j] EXCEPT ![Assessed(j)] = c]]
    BY <1>10 DEF ConsentToRepeat
  <2>3. c \in Check
    <3>1. checks[j][Assessed(j)] \in Check
      BY <2>1
    <3> QED  BY <2>2, <3>1 DEF Check
  <2>4. checks' \in [Jobs -> Seq(Check)]
    BY <2>1, <2>2, <2>3 DEF WorldType
  <2>5. WorldType'
    BY <1>10, <2>4 DEF ConsentToRepeat, WorldType
  <2> QED  BY <1>10, <2>5, GroupsStay DEF ConsentToRepeat
<1> QED  BY <1>1, <1>2, <1>3, <1>4, <1>5, <1>6, <1>7, <1>8, <1>9, <1>10 DEF Decide

(* A run that is parked keeps its shape.                                   *)
LEMMA ParkedType ==
  ASSUME Types, NEW f \in Executions, NEW j \in Jobs, Park(f, j)
  PROVE  /\ runs' \in [Executions -> [Jobs -> Run]]
         /\ status' \in [Jobs -> Statuses]
<1>1. runs[f][j] \in Run
  BY DEF Types, SubmittedType
<1>2. PICK r : /\ r = [runs[f][j] EXCEPT !.status = "needs_verification"]
               /\ runs' = [runs EXCEPT ![f] = [runs[f] EXCEPT ![j] = r]]
  BY DEF Park
<1>3. r \in Run
  BY <1>1, <1>2 DEF Run, RunStatuses
<1>4. runs' \in [Executions -> [Jobs -> Run]]
  BY <1>2, <1>3 DEF Types, SubmittedType
<1>5. status' \in [Jobs -> Statuses]
  BY DEF Park, Types, DecidedType, Statuses
<1> QED  BY <1>4, <1>5

LEMMA TypesAdmit ==
  ASSUME Types, NEW e \in Executions, NEW j \in Jobs, Admit(e, j)
  PROVE  Types'
<1> DEFINE p    == item[e][j].payload
           now  == IF payloads[j][p].mode = "email" THEN "sending" ELSE "manual_required"
           used == IF RepeatClear(j) THEN 0 ELSE Assessed(j)
<1>1. item[e][j] \in [payload : Nat, approval : Nat]
  BY DEF Types, ExecutionType
<1>2. checks[j] \in Seq(Check) /\ used \in 0..Len(checks[j])
  <2>1. checks[j] \in Seq(Check) /\ Assessed(j) \in 0..Len(checks[j])
    BY AssessedType DEF Types, WorldType
  <2> QED  BY <2>1
<1>3. now \in RunStatuses /\ now \in Statuses
  BY DEF RunStatuses, Statuses
<1>4. SubmittedType'
  <2>1. PICK r : /\ r = [status |-> now, payload |-> p, approval |-> item[e][j].approval,
                         consent |-> used]
                 /\ runs' = [runs EXCEPT ![e] = [runs[e] EXCEPT ![j] = r]]
    BY DEF Admit
  <2>2. used \in Nat
    BY <1>2
  <2>3. r \in Run
    BY <1>1, <1>3, <2>1, <2>2 DEF Run
  <2>4. runs' \in [Executions -> [Jobs -> Run]]
    BY <2>1, <2>3 DEF Types, SubmittedType
  <2>5. [job |-> j, run |-> e, payload |-> p, approval |-> item[e][j].approval] \in Intent
    BY <1>1 DEF Intent
  <2>6. intents' \in SUBSET Intent
    BY <2>5 DEF Admit, Types, SubmittedType
  <2> QED  BY <2>4, <2>6 DEF Admit, Types, SubmittedType
<1>5. DecidedType'
  <2>1. status' = [status EXCEPT ![j] = now]
    BY DEF Admit
  <2> QED  BY <1>3, <2>1 DEF Admit, Types, DecidedType
<1>6. ExecutionType'
  <2>1. PICK next \in {"admitted", "idle"} : pc' = [pc EXCEPT ![e][j] = next]
    BY DEF Admit
  <2> QED  BY <2>1 DEF Admit, Types, ExecutionType, InFlight
<1>7. WorldType'
  <2>1. CASE used = 0
    BY <2>1 DEF Admit, Types, WorldType
  <2>2. CASE used # 0
    <3>1. PICK c : /\ c = [checks[j][used] EXCEPT !.usedBy = {e}]
                   /\ checks' = [checks EXCEPT ![j] = [checks[j] EXCEPT ![used] = c]]
      BY <2>2 DEF Admit
    <3>2. used \in 1..Len(checks[j]) /\ checks[j][used] \in Check
      BY <1>2, <2>2
    <3>3. c \in Check
      BY <3>1, <3>2 DEF Check
    <3>4. checks' \in [Jobs -> Seq(Check)]
      BY <1>2, <3>1, <3>2, <3>3 DEF Types, WorldType
    <3> QED  BY <3>4 DEF Admit, Types, WorldType
  <2> QED  BY <2>1, <2>2
<1>8. PreparedType'
  BY GroupsStay DEF Admit, Types
<1> QED  BY <1>4, <1>5, <1>6, <1>7, <1>8 DEF Types

LEMMA TypesStep ==
  ASSUME Types, NEW e \in Executions, Step(e) \/ Crash(e) \/ Cancel(e)
  PROVE  Types'
<1> USE DEF Types
<1>1. ASSUME NEW js \in SUBSET Jobs, StartWith(e, js),
             item' \in [Executions -> [Jobs -> [payload : Nat, approval : Nat]]]
      PROVE  ExecutionType'
  BY <1>1 DEF StartWith, ExecutionType
<1>2. CASE StartDirect(e)
  BY <1>1, <1>2, GroupsStay DEF StartDirect, ExecutionType
<1>3. ASSUME NEW js \in SUBSET Jobs, StartStanding(e, js)  PROVE Types'
  <2>1. \A j \in Jobs : Len(decisions[j]) \in Nat /\ payload[j] \in Nat
    BY DEF DecidedType, PreparedType
  <2>2. item' \in [Executions -> [Jobs -> [payload : Nat, approval : Nat]]]
    BY <1>3, <2>1 DEF StartStanding, ExecutionType, Nothing
  <2>3. ExecutionType'
    BY <1>1, <1>3, <2>2 DEF StartStanding
  <2> QED  BY <1>3, <2>3, GroupsStay DEF StartStanding
<1>4. ASSUME NEW j \in Jobs, pc' = [pc EXCEPT ![e][j] = "idle"], UNCHANGED <<stage, tries, item>>
      PROVE  ExecutionType'
  BY <1>4 DEF ExecutionType
<1>5. ASSUME NEW j \in Jobs, Refuse(e, j)  PROVE Types'
  BY <1>4, <1>5, GroupsStay DEF Refuse
<1>6. ASSUME NEW j \in Jobs, Reconcile(e, j)  PROVE Types'
  <2>1. PICK i \in intents : /\ i.job = j
                             /\ UNCHANGED <<runs, status>> \/ Park(i.run, j)
    BY <1>6 DEF Reconcile
  <2>2. i.run \in Executions
    BY <2>1 DEF SubmittedType, Intent
  <2>3. runs' \in [Executions -> [Jobs -> Run]] /\ status' \in [Jobs -> Statuses]
    BY <2>1, <2>2, ParkedType DEF SubmittedType, DecidedType
  <2>4. SubmittedType' /\ DecidedType'
    BY <1>6, <2>3 DEF Reconcile, SubmittedType, DecidedType
  <2> QED  BY <1>4, <1>6, <2>4, GroupsStay DEF Reconcile
<1>7. ASSUME NEW j \in Jobs, Send(e, j)  PROVE Types'
  <2>1. SubmittedType'
    BY <1>7 DEF Send, SubmittedType
  <2>2. PICK next \in {"confirmed", "unknown"} : pc' = [pc EXCEPT ![e][j] = next]
    BY <1>7 DEF Send
  <2>3. ExecutionType'
    BY <1>7, <2>2 DEF Send, ExecutionType, InFlight
  <2> QED  BY <1>7, <2>1, <2>3, GroupsStay DEF Send
<1>8. ASSUME NEW j \in Jobs, SettleConfirmation(e, j)  PROVE Types'
  <2>1. PICK r : /\ r = [runs[e][j] EXCEPT !.status = "applied"]
                 /\ runs' = [runs EXCEPT ![e] = [runs[e] EXCEPT ![j] = r]]
    BY <1>8 DEF SettleConfirmation
  <2>2. r \in Run
    <3>1. runs[e][j] \in Run
      BY DEF SubmittedType
    <3> QED  BY <2>1, <3>1 DEF Run, RunStatuses
  <2>3. runs' \in [Executions -> [Jobs -> Run]]
    BY <2>1, <2>2 DEF SubmittedType
  <2>4. SubmittedType' /\ WorldType'
    BY <1>8, <2>3 DEF SettleConfirmation, SubmittedType, WorldType
  <2>5. DecidedType'
    BY <1>8 DEF SettleConfirmation, DecidedType, Statuses
  <2> QED  BY <1>4, <1>8, <2>4, <2>5, GroupsStay DEF SettleConfirmation
<1>9. ASSUME NEW j \in Jobs, RetainUncertain(e, j)  PROVE Types'
  <2>1. runs' \in [Executions -> [Jobs -> Run]] /\ status' \in [Jobs -> Statuses]
    BY <1>9, ParkedType DEF RetainUncertain, SubmittedType, DecidedType
  <2>2. SubmittedType' /\ DecidedType'
    BY <1>9, <2>1 DEF RetainUncertain, SubmittedType, DecidedType
  <2> QED  BY <1>4, <1>9, <2>2, GroupsStay DEF RetainUncertain
<1>10. CASE Finish(e) \/ Crash(e) \/ Cancel(e)
  <2>1. PICK next \in {"done", "ended", "cancelled", "queued"} : stage' = [stage EXCEPT ![e] = next]
    BY <1>10 DEF Finish, Crash, Cancel
  <2>2. pc' = pc \/ pc' = [pc EXCEPT ![e] = [j \in Jobs |-> "idle"]]
    BY <1>10 DEF Finish, Crash, Cancel
  <2>3. UNCHANGED <<tries, item>>
    BY <1>10 DEF Finish, Crash, Cancel
  <2>4. ExecutionType'
    <3>1. stage' \in [Executions -> {"new", "queued", "executing", "cancelled", "done", "ended"}]
      BY <2>1 DEF ExecutionType
    <3>2. pc' \in [Executions -> [Jobs -> {"idle", "todo"} \cup InFlight]]
      BY <2>2 DEF ExecutionType
    <3> QED  BY <2>3, <3>1, <3>2 DEF ExecutionType
  <2> QED  BY <1>10, <2>4, GroupsStay DEF Finish, Crash, Cancel
<1> QED  BY <1>2, <1>3, <1>5, <1>6, <1>7, <1>8, <1>9, <1>10, TypesAdmit DEF Step

LEMMA StepTypes ==
  ASSUME Types, [Next]_vars
  PROVE  Types'
<1> USE DEF Types
<1>1. CASE UNCHANGED vars
  BY <1>1, GroupsStay DEF vars
<1>2. ASSUME NEW j \in Jobs \cup OtherJobs, RecordOutcome(j)  PROVE Types'
  <2>1. WorldType'
    BY <1>2 DEF RecordOutcome, WorldType
  <2> QED  BY <1>2, <2>1, GroupsStay DEF RecordOutcome
<1>3. ASSUME NEW e \in Direct, NEW js \in SUBSET Jobs, QueueDirect(e, js)  PROVE Types'
  <2>1. \A j \in Jobs : Len(decisions[j]) \in Nat /\ payload[j] \in Nat
    BY DEF DecidedType, PreparedType
  <2>2. ExecutionType'
    BY <1>3, <2>1 DEF QueueDirect, ExecutionType, Nothing
  <2> QED  BY <1>3, <2>2, GroupsStay DEF QueueDirect
<1>4. ASSUME NEW e \in Standing, QueueStanding(e)  PROVE Types'
  <2>1. ExecutionType'
    BY <1>4 DEF QueueStanding, ExecutionType
  <2> QED  BY <1>4, <2>1, GroupsStay DEF QueueStanding
<1> QED  BY <1>1, <1>2, <1>3, <1>4, TypesDecide, TypesStep DEF Next

LEMMA StepTries ==
  ASSUME Types, TriesLeft, [Next]_vars
  PROVE  TriesLeft'
<1>1. CASE UNCHANGED <<stage, tries>>
  BY <1>1 DEF TriesLeft
<1>2. ASSUME NEW e \in Executions, StartDirect(e) \/ \E js \in SUBSET Jobs : StartStanding(e, js)
      PROVE  TriesLeft'
  <2>1. /\ stage[e] = "queued"
        /\ stage' = [stage EXCEPT ![e] = "executing"]
        /\ tries' = [tries EXCEPT ![e] = @ + 1]
    BY <1>2 DEF StartDirect, StartStanding, StartWith
  <2> QED  BY <2>1, ApplicationsAssumption DEF TriesLeft, Types, ExecutionType, Executions
<1>3. ASSUME NEW e \in Executions, tries' = tries,
             \/ stage[e] = "new" /\ stage' = [stage EXCEPT ![e] = "queued"]
             \/ \E next \in {"done", "ended", "cancelled"} : stage' = [stage EXCEPT ![e] = next]
             \/ tries[e] < MaxTries[e] /\ stage' = [stage EXCEPT ![e] = "queued"]
      PROVE  TriesLeft'
  BY <1>3, ApplicationsAssumption DEF TriesLeft, Types, ExecutionType, Executions
<1>4. ASSUME NEW e \in Executions, Finish(e) \/ Crash(e) \/ Cancel(e)  PROVE TriesLeft'
  BY <1>3, <1>4 DEF Finish, Crash, Cancel
<1>5. ASSUME NEW e \in Direct, NEW js \in SUBSET Jobs, QueueDirect(e, js)  PROVE TriesLeft'
  BY <1>3, <1>5 DEF QueueDirect, Executions
<1>6. ASSUME NEW e \in Standing, QueueStanding(e)  PROVE TriesLeft'
  BY <1>3, <1>6 DEF QueueStanding, Executions
<1>7. ASSUME NEW e \in Executions, Step(e)  PROVE TriesLeft'
  BY <1>1, <1>2, <1>4, <1>7 DEF Step, Admit, Refuse, Reconcile, Send, SettleConfirmation,
     RetainUncertain
<1>8. ASSUME NEW j \in Jobs, Decide(j)  PROVE UNCHANGED <<stage, tries>>
  BY <1>8 DEF Decide, Prepare, BeginRehearsal, CompleteRehearsal, Review, Reset, MarkFailed,
     Stop, ChangeSources, AssessRepeat, ConsentToRepeat, execution
<1> QED  BY <1>1, <1>4, <1>5, <1>6, <1>7, <1>8 DEF Next, RecordOutcome, vars, execution

(* The tables and the executions keep their types; no execution starts     *)
(* more often than its action run grants.                                  *)
THEOREM TypeCorrect == Spec => []TypeOK
<1>1. Init => Types /\ TriesLeft
  BY ApplicationsAssumption DEF Init, Types, PreparedType, DecidedType, SubmittedType,
     ExecutionType, WorldType, TriesLeft, Statuses, NoRun, Nothing, Run, RunStatuses, Executions
<1>2. Types /\ TriesLeft /\ [Next]_vars => Types' /\ TriesLeft'
  BY StepTypes, StepTries
<1>3. Types /\ TriesLeft => TypeOK
  BY DEF Types, PreparedType, DecidedType, SubmittedType, ExecutionType, WorldType, TriesLeft,
     TypeOK
<1> QED  BY <1>1, <1>2, <1>3, PTL DEF Spec

-------------------------------------------------------------------------------
(* The record of a submission.                                             *)

(* What an intent says of its job, intent by intent.                       *)
Stands(i) ==
  /\ i.job \in receipts => /\ delivered[i.job] = 1
                          /\ i.job \in outcomes
                          /\ runs[i.run][i.job].status = "applied"
  /\ payload[i.job] = i.payload
  /\ runOf[i.job] = {i.run}
  /\ runs[i.run][i.job].payload = i.payload
  /\ runs[i.run][i.job].status # "none"

LEMMA StandsAll == RecordStands <=> \A i \in intents : Stands(i)
  BY DEF RecordStands, ConfirmationStands, IntentPinsJob, Stands

LEMMA IntentShape ==
  ASSUME Types, NEW i \in intents
  PROVE  i.job \in Jobs /\ i.run \in Executions /\ i.payload \in Nat
  BY DEF Types, SubmittedType, Intent

(* A step that touches nothing an intent speaks of.                        *)
LEMMA StandsUntouched ==
  ASSUME NEW i, Stands(i), i.job \in receipts' => i.job \in receipts,
         outcomes \subseteq outcomes', delivered'[i.job] = delivered[i.job],
         payload'[i.job] = payload[i.job], runOf'[i.job] = runOf[i.job],
         runs'[i.run][i.job] = runs[i.run][i.job]
  PROVE  Stands(i)'
  BY DEF Stands

LEMMA RecordUntouched ==
  ASSUME RecordStands, UNCHANGED <<intents, receipts, delivered, payload, runOf, runs>>,
         outcomes \subseteq outcomes'
  PROVE  RecordStands'
  BY DEF RecordStands, ConfirmationStands, IntentPinsJob

(* Parking the run of an unconfirmed intent takes nothing back.            *)
LEMMA ParkStands ==
  ASSUME Types, RecordStands, NEW f \in Executions, NEW j \in Jobs, j \notin receipts,
         Park(f, j), UNCHANGED <<intents, receipts, delivered, payload, runOf, outcomes>>
  PROVE  RecordStands'
<1>1. ASSUME NEW i \in intents  PROVE Stands(i)'
  <2>1. Stands(i) /\ i.job \in Jobs /\ i.run \in Executions
    BY StandsAll, IntentShape
  <2>2. CASE i.run = f /\ i.job = j
    <3>1. runs[f][j] \in Run
      BY DEF Types, SubmittedType
    <3>2. runs'[f][j] = [runs[f][j] EXCEPT !.status = "needs_verification"]
      BY DEF Park, Types, SubmittedType
    <3>3. runs'[f][j].payload = runs[f][j].payload /\ runs'[f][j].status = "needs_verification"
      BY <3>1, <3>2 DEF Run
    <3> QED  BY <2>1, <2>2, <3>3 DEF Stands
  <2>3. CASE ~(i.run = f /\ i.job = j)
    <3>1. runs'[i.run][i.job] = runs[i.run][i.job]
      BY <2>1, <2>3 DEF Park, Types, SubmittedType
    <3> QED  BY <2>1, <3>1, StandsUntouched
  <2> QED  BY <2>2, <2>3
<1> QED  BY <1>1, StandsAll DEF RecordStands, ConfirmationStands, IntentPinsJob, Stands

LEMMA AdmitStands ==
  ASSUME Types, SubmissionInv, RecordStands,
         NEW e \in Executions, NEW j \in Jobs, Admit(e, j)
  PROVE  RecordStands'
<1>1. PICK new : /\ new = [job |-> j, run |-> e, payload |-> item[e][j].payload,
                           approval |-> item[e][j].approval]
                 /\ intents' \in {intents, intents \cup {new}}
  BY DEF Admit
<1>2. /\ ~HasIntent(j) /\ payload[j] = item[e][j].payload
      /\ UNCHANGED <<payload, delivered, receipts, outcomes>>
      /\ runOf' = [runOf EXCEPT ![j] = {e}]
  BY DEF Admit, Admissible, prepared
<1>3. new.job = j /\ new.run = e /\ new.payload = payload[j]
  BY <1>1, <1>2
<1>4. j \notin receipts
  BY <1>2 DEF SubmissionInv, IntentFirst
<1>5. PICK r : /\ r.payload = payload[j] /\ r.status # "none"
               /\ runs' = [runs EXCEPT ![e] = [runs[e] EXCEPT ![j] = r]]
  <2>1. PICK now \in {"sending", "manual_required"} : \E used :
          runs' = [runs EXCEPT ![e] = [runs[e] EXCEPT ![j] =
                    [status |-> now, payload |-> item[e][j].payload,
                     approval |-> item[e][j].approval, consent |-> used]]]
    BY DEF Admit
  <2>2. PICK used :
          runs' = [runs EXCEPT ![e] = [runs[e] EXCEPT ![j] =
                    [status |-> now, payload |-> item[e][j].payload,
                     approval |-> item[e][j].approval, consent |-> used]]]
    BY <2>1
  <2> QED  BY <1>2, <2>2
<1>6. ASSUME NEW i \in intents  PROVE Stands(i)'
  <2>1. Stands(i) /\ i.job \in Jobs /\ i.run \in Executions /\ i.job # j
    BY <1>2, StandsAll, IntentShape DEF HasIntent
  <2>2. runs'[i.run][i.job] = runs[i.run][i.job] /\ runOf'[i.job] = runOf[i.job]
    BY <1>2, <1>5, <2>1 DEF Types, SubmittedType, DecidedType
  <2> QED  BY <1>2, <2>1, <2>2, StandsUntouched
<1>7. Stands(new)'
  <2>1. runs'[e][j] = r /\ runOf'[j] = {e}
    BY <1>2, <1>5 DEF Types, SubmittedType, DecidedType
  <2> QED  BY <1>2, <1>4, <1>5, <1>3, <2>1 DEF Stands
<1>8. \A i \in intents' : Stands(i)'
  BY <1>1, <1>6, <1>7
<1> QED  BY <1>8, StandsAll DEF RecordStands, ConfirmationStands, IntentPinsJob, Stands

(* The confirmation that arrives is recorded with the intent's own run.    *)
LEMMA SettleStands ==
  ASSUME Types, SubmissionInv, RecordStands,
         NEW e \in Executions, NEW j \in Jobs, SettleConfirmation(e, j)
  PROVE  RecordStands'
<1>1. /\ receipts' = receipts \cup {j} /\ outcomes' = outcomes \cup {j}
      /\ UNCHANGED <<intents, delivered, payload, runOf>> /\ pc[e][j] = "confirmed"
  BY DEF SettleConfirmation, prepared
<1>2. Owns(e, j) /\ delivered[j] = 1
  BY <1>1 DEF SubmissionInv, SenderOwns, InFlight
<1>3. ASSUME NEW i \in intents  PROVE Stands(i)'
  <2>1. Stands(i) /\ i.job \in Jobs /\ i.run \in Executions
    BY StandsAll, IntentShape
  <2>2. CASE i.job = j
    <3>1. i.run = e
      BY <1>2, <2>2 DEF Owns, SubmissionInv, OneIntent
    <3>2. runs'[e][j] = [runs[e][j] EXCEPT !.status = "applied"] /\ runs[e][j] \in Run
      BY DEF SettleConfirmation, Types, SubmittedType
    <3>3. runs'[e][j].payload = runs[e][j].payload /\ runs'[e][j].status = "applied"
      BY <3>2 DEF Run
    <3> QED  BY <1>1, <1>2, <2>1, <2>2, <3>1, <3>3 DEF Stands
  <2>3. CASE i.job # j
    <3>1. runs'[i.run][i.job] = runs[i.run][i.job]
      BY <2>1, <2>3 DEF SettleConfirmation, Types, SubmittedType
    <3> QED  BY <1>1, <2>1, <2>3, <3>1, StandsUntouched
  <2> QED  BY <2>2, <2>3
<1> QED  BY <1>1, <1>3, StandsAll DEF RecordStands, ConfirmationStands, IntentPinsJob, Stands

LEMMA StepRecords ==
  ASSUME Types, SubmissionInv, RecordStands, [Next]_vars
  PROVE  RecordStands'
<1>1. CASE UNCHANGED vars
  BY <1>1, RecordUntouched DEF vars, submission, prepared, decided, world
<1>2. ASSUME NEW j \in Jobs, NEW mode \in Modes, Prepare(j, mode)  PROVE RecordStands'
  <2>1. /\ ~HasIntent(j) /\ UNCHANGED <<intents, receipts, delivered, runs, outcomes>>
        /\ runOf' = [runOf EXCEPT ![j] = {}]
        /\ payload' = [payload EXCEPT ![j] = Len(payloads[j]) + 1]
    BY <1>2 DEF Prepare, submission, world
  <2>2. ASSUME NEW i \in intents  PROVE Stands(i)'
    <3>1. Stands(i) /\ i.job \in Jobs /\ i.job # j
      BY <2>1, StandsAll, IntentShape DEF HasIntent
    <3>2. payload'[i.job] = payload[i.job] /\ runOf'[i.job] = runOf[i.job]
      BY <2>1, <3>1 DEF Types, PreparedType, DecidedType
    <3> QED  BY <2>1, <3>1, <3>2, StandsUntouched
  <2> QED  BY <2>1, <2>2, StandsAll DEF RecordStands, ConfirmationStands, IntentPinsJob, Stands
<1>3. ASSUME NEW j \in Jobs,
             \/ BeginRehearsal(j) \/ CompleteRehearsal(j) \/ Reset(j) \/ MarkFailed(j)
             \/ ChangeSources(j) \/ ConsentToRepeat(j)
             \/ \E verdict \in Reviews : Review(j, verdict)
             \/ \E how \in Stops : Stop(j, how)
             \/ \E verdict \in {"clear", "same_employer_equivalent_role", "uncertain"} :
                  AssessRepeat(j, verdict)
      PROVE  RecordStands'
  <2>1. UNCHANGED <<intents, receipts, delivered, payload, runOf, runs, outcomes>>
    BY <1>3 DEF BeginRehearsal, CompleteRehearsal, Reset, MarkFailed, ChangeSources,
       ConsentToRepeat, Review, Stop, AssessRepeat, submission, prepared, decided, world
  <2> QED  BY <2>1, RecordUntouched
<1>4. ASSUME NEW e \in Executions, NEW j \in Jobs, Reconcile(e, j)  PROVE RecordStands'
  <2>1. PICK i \in intents : /\ i.job = j
                             /\ IF j \in receipts THEN UNCHANGED <<runs, status>> ELSE Park(i.run, j)
    BY <1>4 DEF Reconcile
  <2>2. i.run \in Executions
    BY <2>1, IntentShape
  <2>3. UNCHANGED <<intents, receipts, delivered, payload, runOf, outcomes>>
    BY <1>4 DEF Reconcile, prepared, world
  <2> QED  BY <2>1, <2>2, <2>3, ParkStands, RecordUntouched
<1>5. ASSUME NEW e \in Executions, NEW j \in Jobs, RetainUncertain(e, j)  PROVE RecordStands'
  <2>1. UNCHANGED <<intents, receipts, delivered, payload, runOf, outcomes>>
    BY <1>5 DEF RetainUncertain, prepared, world
  <2>2. IF j \in receipts THEN UNCHANGED <<runs, status>> ELSE Park(e, j)
    BY <1>5 DEF RetainUncertain
  <2> QED  BY <2>1, <2>2, ParkStands, RecordUntouched
<1>6. ASSUME NEW e \in Executions, NEW j \in Jobs, Send(e, j)  PROVE RecordStands'
  <2>1. /\ delivered[j] = 0 /\ delivered' \in {delivered, [delivered EXCEPT ![j] = @ + 1]}
        /\ UNCHANGED <<intents, receipts, payload, runOf, runs, outcomes>>
    BY <1>6 DEF Send, SubmissionInv, SenderOwns, prepared, decided, world
  <2>2. ASSUME NEW i \in intents  PROVE Stands(i)'
    <3>1. Stands(i) /\ i.job \in Jobs
      BY StandsAll, IntentShape
    <3>2. i.job \in receipts => i.job # j
      BY <2>1, <3>1 DEF SubmissionInv, IntentFirst
    <3>3. i.job # j => delivered'[i.job] = delivered[i.job]
      BY <2>1, <3>1 DEF Types, SubmittedType
    <3> QED  BY <2>1, <3>1, <3>2, <3>3 DEF Stands
  <2> QED  BY <2>1, <2>2, StandsAll DEF RecordStands, ConfirmationStands, IntentPinsJob, Stands
<1>7. ASSUME NEW e \in Executions,
             \/ StartDirect(e) \/ Finish(e) \/ Crash(e) \/ Cancel(e)
             \/ \E js \in SUBSET Jobs : StartStanding(e, js)
             \/ \E j \in Jobs : Refuse(e, j)
      PROVE  RecordStands'
  <2>1. UNCHANGED <<intents, receipts, delivered, payload, runOf, runs, outcomes>>
    BY <1>7 DEF StartDirect, Finish, Crash, Cancel, StartStanding, Refuse, submission, prepared,
       decided, world
  <2> QED  BY <2>1, RecordUntouched
<1>8. CASE \/ \E j \in Jobs \cup OtherJobs : RecordOutcome(j)
           \/ \E e \in Direct, js \in SUBSET Jobs : QueueDirect(e, js)
           \/ \E e \in Standing : QueueStanding(e)
  <2>1. /\ UNCHANGED <<intents, receipts, delivered, payload, runOf, runs>>
        /\ outcomes \subseteq outcomes'
    BY <1>8 DEF RecordOutcome, QueueDirect, QueueStanding, submission, prepared, decided, world
  <2> QED  BY <2>1, RecordUntouched
<1> QED  BY <1>1, <1>2, <1>3, <1>4, <1>5, <1>6, <1>7, <1>8, AdmitStands, SettleStands
          DEF Next, Step, Decide

LEMMA InitTypes == Init => Types
  BY ApplicationsAssumption DEF Init, Types, PreparedType, DecidedType, SubmittedType,
     ExecutionType, WorldType, Statuses, NoRun, Nothing, Run, RunStatuses, Executions

(* Once committed, the record of a submission stands: the intent keeps its *)
(* payload and its run, and a confirmation keeps its outcome, whatever is  *)
(* prepared, reset, reconciled or retried afterwards.                      *)
THEOREM RecordsStand == Spec => []RecordStands
<1>1. Init => RecordStands
  BY DEF Init, RecordStands, ConfirmationStands, IntentPinsJob
<1>2. Types /\ SubmissionInv /\ RecordStands /\ [Next]_vars =>
        Types' /\ SubmissionInv' /\ RecordStands'
  BY StepTypes, StepSubmission, StepRecords
<1> QED  BY <1>1, <1>2, InitTypes, InitSubmission, PTL DEF Spec

-------------------------------------------------------------------------------
(* Repeat consent.                                                         *)

(* The assessment whose consent a run used says so, and names no other run.*)
Spent(e, j) ==
  runs[e][j].consent # 0 =>
    /\ runs[e][j].consent \in 1..Len(checks[j])
    /\ checks[j][runs[e][j].consent].usedBy = {e}

ConsentsSpent == \A e \in Executions, j \in Jobs : Spent(e, j)

LEMMA SpentStays ==
  ASSUME Types, NEW e \in Executions, NEW j \in Jobs, Spent(e, j),
         runs'[e][j].consent = runs[e][j].consent,
         Len(checks'[j]) \in Nat, Len(checks'[j]) >= Len(checks[j]),
         \A n \in 1..Len(checks[j]) : checks'[j][n].usedBy = checks[j][n].usedBy
  PROVE  Spent(e, j)'
<1>1. Len(checks[j]) \in Nat
  BY DEF Types, WorldType
<1> QED  BY <1>1 DEF Spent

(* Steps that change no assessment and no use of a consent.                *)
LEMMA ConsentsStay ==
  ASSUME Types, ConsentsSpent, checks' = checks,
         \A e \in Executions, j \in Jobs : runs'[e][j].consent = runs[e][j].consent
  PROVE  ConsentsSpent'
  BY DEF ConsentsSpent, Spent

LEMMA ParkConsent ==
  ASSUME Types, NEW f \in Executions, NEW k \in Jobs, NEW s,
         runs' = [runs EXCEPT ![f][k].status = s],
         NEW e \in Executions, NEW j \in Jobs
  PROVE  runs'[e][j].consent = runs[e][j].consent
<1>1. runs[f][k] \in Run
  BY DEF Types, SubmittedType
<1>2. PICK r : r = [runs[f][k] EXCEPT !.status = s]
               /\ runs' = [runs EXCEPT ![f] = [runs[f] EXCEPT ![k] = r]]
  OBVIOUS
<1>3. r.consent = runs[f][k].consent
  BY <1>1, <1>2 DEF Run
<1> QED  BY <1>2, <1>3 DEF Types, SubmittedType

LEMMA AdmitConsent ==
  ASSUME Types, ConsentsSpent, NEW e \in Executions, NEW j \in Jobs, Admit(e, j)
  PROVE  ConsentsSpent'
<1>1. PICK used : /\ used = IF RepeatClear(j) THEN 0 ELSE Assessed(j)
                  /\ checks' = IF used = 0 THEN checks
                               ELSE [checks EXCEPT ![j][used].usedBy = {e}]
                  /\ runs' = [runs EXCEPT ![e][j] =
                       [status |-> IF payloads[j][item[e][j].payload].mode = "email"
                                   THEN "sending" ELSE "manual_required",
                        payload |-> item[e][j].payload, approval |-> item[e][j].approval,
                        consent |-> used]]
  BY DEF Admit
<1>2. checks[j] \in Seq(Check) /\ used \in 0..Len(checks[j])
  <2>1. checks[j] \in Seq(Check) /\ Assessed(j) \in 0..Len(checks[j])
    BY AssessedType DEF Types, WorldType
  <2> QED  BY <1>1, <2>1
<1>3. /\ runs'[e][j].consent = used
      /\ \A f \in Executions, k \in Jobs : f # e \/ k # j => runs'[f][k] = runs[f][k]
  <2>1. PICK now, p, a, r : /\ r = [status |-> now, payload |-> p, approval |-> a,
                                    consent |-> used]
                            /\ runs' = [runs EXCEPT ![e] = [runs[e] EXCEPT ![j] = r]]
    BY <1>1
  <2>2. r.consent = used
    BY <2>1
  <2> QED  BY <2>1, <2>2 DEF Types, SubmittedType
<1>4. CASE used = 0
  <2>1. Spent(e, j)'
    BY <1>3, <1>4 DEF Spent
  <2>2. ASSUME NEW f \in Executions, NEW k \in Jobs, f # e \/ k # j  PROVE Spent(f, k)'
    BY <1>1, <1>3, <1>4, <2>2 DEF Spent, ConsentsSpent
  <2> QED  BY <2>1, <2>2 DEF ConsentsSpent
<1>5. CASE used # 0
  <2>1. used = Assessed(j) /\ checks[j][used].usedBy \subseteq {e}
    <3>1. RepeatGuard(j, {e}) /\ ~RepeatClear(j)
      BY <1>1, <1>5 DEF Admit, Admissible
    <3> QED  BY <1>1, <1>5, <3>1 DEF RepeatGuard, Consented
  <2>2. used \in 1..Len(checks[j]) /\ checks[j][used] \in Check
    BY <1>2, <1>5
  <2>3. PICK c : /\ c = [checks[j][used] EXCEPT !.usedBy = {e}]
                 /\ checks' = [checks EXCEPT ![j] = [checks[j] EXCEPT ![used] = c]]
    BY <1>1, <1>5
  <2>4. c.usedBy = {e}
    BY <2>2, <2>3 DEF Check
  <2>5. /\ Len(checks'[j]) = Len(checks[j]) /\ checks'[j][used] = c
        /\ \A n \in 1..Len(checks[j]) : n # used => checks'[j][n] = checks[j][n]
        /\ \A k \in Jobs : k # j => checks'[k] = checks[k]
    <3>1. /\ checks'[j] = [checks[j] EXCEPT ![used] = c]
          /\ \A k \in Jobs : k # j => checks'[k] = checks[k]
      BY <2>3 DEF Types, WorldType
    <3> QED  BY <1>2, <2>2, <3>1
  <2>6. Spent(e, j)'
    BY <1>3, <2>2, <2>4, <2>5 DEF Spent
  <2>7. ASSUME NEW f \in Executions, f # e  PROVE Spent(f, j)'
    <3>1. Spent(f, j) /\ runs'[f][j] = runs[f][j]
      BY <1>3, <2>7 DEF ConsentsSpent
    <3>2. runs[f][j].consent # used
      BY <1>5, <2>1, <2>7, <3>1 DEF Spent
    <3> QED  BY <2>5, <3>1, <3>2 DEF Spent
  <2>8. ASSUME NEW f \in Executions, NEW k \in Jobs, k # j  PROVE Spent(f, k)'
    BY <1>3, <2>5, <2>8 DEF Spent, ConsentsSpent
  <2> QED  BY <2>6, <2>7, <2>8 DEF ConsentsSpent
<1> QED  BY <1>4, <1>5

LEMMA StepConsents ==
  ASSUME Types, ConsentsSpent, [Next]_vars
  PROVE  ConsentsSpent'
<1>1. CASE UNCHANGED <<runs, checks>>
  BY <1>1, ConsentsStay
<1>2. ASSUME NEW j \in Jobs, NEW verdict, AssessRepeat(j, verdict)  PROVE ConsentsSpent'
  <2>1. PICK c : checks' = [checks EXCEPT ![j] = Append(@, c)]
    BY <1>2 DEF AssessRepeat
  <2>2. runs' = runs
    BY <1>2 DEF AssessRepeat, submission
  <2>3. ASSUME NEW k \in Jobs
        PROVE  /\ Len(checks'[k]) \in Nat /\ Len(checks'[k]) >= Len(checks[k])
               /\ \A n \in 1..Len(checks[k]) : checks'[k][n] = checks[k][n]
    <3>1. checks[k] \in Seq(Check) /\ checks[j] \in Seq(Check)
      BY DEF Types, WorldType
    <3>2. checks'[k] = checks[k] \/ checks'[k] = Append(checks[k], c)
      BY <2>1 DEF Types, WorldType
    <3> QED  BY <3>1, <3>2
  <2> QED  BY <2>2, <2>3, SpentStays DEF ConsentsSpent
<1>3. ASSUME NEW j \in Jobs, ConsentToRepeat(j)  PROVE ConsentsSpent'
  <2>1. Assessed(j) \in 1..Len(checks[j]) /\ checks[j] \in Seq(Check)
    <3>1. checks[j] \in Seq(Check) /\ Assessed(j) \in 0..Len(checks[j])
      BY AssessedType DEF Types, WorldType
    <3>2. Assessed(j) # 0
      BY <1>3 DEF ConsentToRepeat
    <3> QED  BY <3>1, <3>2
  <2>2. PICK c : /\ c = [checks[j][Assessed(j)] EXCEPT !.granted = TRUE]
                 /\ checks' = [checks EXCEPT ![j] = [checks[j] EXCEPT ![Assessed(j)] = c]]
    BY <1>3 DEF ConsentToRepeat
  <2>3. c.usedBy = checks[j][Assessed(j)].usedBy
    <3>1. checks[j][Assessed(j)] \in Check
      BY <2>1
    <3> QED  BY <2>2, <3>1 DEF Check
  <2>4. ASSUME NEW k \in Jobs
        PROVE  /\ Len(checks'[k]) \in Nat /\ Len(checks'[k]) >= Len(checks[k])
               /\ \A n \in 1..Len(checks[k]) : checks'[k][n].usedBy = checks[k][n].usedBy
    <3>1. checks[k] \in Seq(Check)
      BY DEF Types, WorldType
    <3>2. CASE k # j
      BY <2>2, <3>1, <3>2 DEF Types, WorldType
    <3>3. CASE k = j
      <4>1. checks'[j] = [checks[j] EXCEPT ![Assessed(j)] = c]
        BY <2>2 DEF Types, WorldType
      <4> QED  BY <2>1, <2>3, <3>3, <4>1
    <3> QED  BY <3>2, <3>3
  <2>5. runs' = runs
    BY <1>3 DEF ConsentToRepeat, submission
  <2> QED  BY <2>4, <2>5, SpentStays DEF ConsentsSpent
<1>4. ASSUME NEW f \in Executions, NEW j \in Jobs, Park(f, j), checks' = checks
      PROVE  ConsentsSpent'
  BY <1>4, ParkConsent, ConsentsStay DEF Park
<1>5. ASSUME NEW e \in Executions, NEW j \in Jobs,
             Reconcile(e, j) \/ RetainUncertain(e, j) \/ SettleConfirmation(e, j)
      PROVE  ConsentsSpent'
  <2>1. CASE Reconcile(e, j)
    <3>1. PICK i \in intents : i.job = j /\ (UNCHANGED runs \/ Park(i.run, j))
      BY <2>1 DEF Reconcile
    <3>2. i.run \in Executions
      BY <3>1, IntentShape
    <3> QED  BY <1>1, <1>4, <2>1, <3>1, <3>2 DEF Reconcile, world
  <2>2. CASE RetainUncertain(e, j)
    BY <1>1, <1>4, <2>2 DEF RetainUncertain, world
  <2>3. CASE SettleConfirmation(e, j)
    BY <2>3, ParkConsent, ConsentsStay DEF SettleConfirmation
  <2> QED  BY <1>5, <2>1, <2>2, <2>3
<1>6. ASSUME NEW e \in Executions, Step(e)  PROVE ConsentsSpent'
  <2>1. CASE \/ StartDirect(e) \/ Finish(e)
             \/ \E js \in SUBSET Jobs : StartStanding(e, js)
             \/ \E j \in Jobs : Refuse(e, j) \/ Send(e, j)
    BY <1>1, <2>1 DEF StartDirect, Finish, StartStanding, Refuse, Send, submission, world
  <2> QED  BY <1>5, <1>6, <2>1, AdmitConsent DEF Step
<1>7. ASSUME NEW j \in Jobs, Decide(j)  PROVE ConsentsSpent'
  <2>1. CASE \/ BeginRehearsal(j) \/ CompleteRehearsal(j) \/ Reset(j) \/ MarkFailed(j)
             \/ ChangeSources(j)
             \/ \E mode \in Modes : Prepare(j, mode)
             \/ \E verdict \in Reviews : Review(j, verdict)
             \/ \E how \in Stops : Stop(j, how)
    BY <1>1, <2>1 DEF BeginRehearsal, CompleteRehearsal, Reset, MarkFailed, ChangeSources, Prepare,
       Review, Stop, submission, world
  <2> QED  BY <1>2, <1>3, <1>7, <2>1 DEF Decide
<1>8. CASE \/ UNCHANGED vars
           \/ \E j \in Jobs \cup OtherJobs : RecordOutcome(j)
           \/ \E e \in Direct, js \in SUBSET Jobs : QueueDirect(e, js)
           \/ \E e \in Standing : QueueStanding(e)
           \/ \E e \in Executions : Crash(e) \/ Cancel(e)
  BY <1>1, <1>8 DEF RecordOutcome, QueueDirect, QueueStanding, Crash, Cancel, vars, submission,
     world
<1> QED  BY <1>6, <1>7, <1>8 DEF Next

(* No consent to repeat an application serves two runs (repeat.py).        *)
THEOREM ConsentOnce == Spec => []OneUseConsent
<1>1. Init => ConsentsSpent
  BY DEF Init, ConsentsSpent, Spent, NoRun
<1>2. Types /\ ConsentsSpent /\ [Next]_vars => Types' /\ ConsentsSpent'
  BY StepTypes, StepConsents
<1>3. ConsentsSpent => OneUseConsent
  <2> SUFFICES ASSUME ConsentsSpent, NEW j \in Jobs, NEW e \in Executions, NEW f \in Executions,
                      e # f, runs[e][j].consent # 0, runs[e][j].consent = runs[f][j].consent
               PROVE  FALSE
    BY DEF OneUseConsent
  <2>1. Spent(e, j) /\ Spent(f, j) /\ runs[f][j].consent # 0
    BY DEF ConsentsSpent
  <2>2. {e} = {f}
    BY <2>1 DEF Spent
  <2> QED  BY <2>2
<1> QED  BY <1>1, <1>2, <1>3, InitTypes, PTL DEF Spec

-------------------------------------------------------------------------------
(* Payloads that are out of date.                                          *)

(* No payload was captured from a later stop or source than the current.   *)
PastPayloads ==
  \A j \in Jobs : \A p \in 1..Len(payloads[j]) :
    payloads[j][p].epoch <= epoch[j] /\ payloads[j][p].sources <= sources[j]

(* What a step may do to payloads, stops and sources: only Prepare adds a  *)
(* payload, a current one; stops and changes of sources count upwards.     *)
Forward ==
  \A j \in Jobs :
    /\ epoch'[j] \in Nat /\ epoch'[j] >= epoch[j]
    /\ sources'[j] \in Nat /\ sources'[j] >= sources[j]
    /\ \/ payloads'[j] = payloads[j]
       \/ \E row : /\ payloads'[j] = Append(payloads[j], row)
                   /\ row.epoch = epoch[j] /\ row.sources = sources[j]

LEMMA StepForward ==
  ASSUME Types, [Next]_vars
  PROVE  Forward
<1>1. \A j \in Jobs : epoch[j] \in Nat /\ sources[j] \in Nat
  BY DEF Types, DecidedType, WorldType
<1>2. CASE UNCHANGED <<payloads, epoch, sources>>
  BY <1>1, <1>2 DEF Forward
<1>3. ASSUME NEW j \in Jobs, NEW mode \in Modes, Prepare(j, mode)  PROVE Forward
  <2>1. PICK row : /\ row = [mode |-> mode, epoch |-> epoch[j], sources |-> sources[j]]
                   /\ payloads' = [payloads EXCEPT ![j] = Append(@, row)]
                   /\ UNCHANGED <<epoch, sources>>
    BY <1>3 DEF Prepare, world
  <2>2. row.epoch = epoch[j] /\ row.sources = sources[j]
    BY <2>1
  <2>3. /\ payloads'[j] = Append(payloads[j], row)
        /\ \A k \in Jobs : k # j => payloads'[k] = payloads[k]
    BY <2>1 DEF Types, PreparedType
  <2>4. UNCHANGED <<epoch, sources>>
    BY <2>1
  <2>5. ASSUME NEW k \in Jobs
        PROVE  \/ payloads'[k] = payloads[k]
               \/ /\ payloads'[k] = Append(payloads[k], row)
                  /\ row.epoch = epoch[k] /\ row.sources = sources[k]
    BY <2>2, <2>3
  <2> QED  BY <1>1, <2>4, <2>5 DEF Forward
<1>4. ASSUME NEW j \in Jobs, NEW how \in Stops, Stop(j, how)  PROVE Forward
  <2>1. epoch' = [epoch EXCEPT ![j] = @ + 1] /\ UNCHANGED <<payloads, sources>>
    BY <1>4 DEF Stop, prepared, world
  <2> QED  BY <1>1, <2>1 DEF Forward, Types, DecidedType
<1>5. ASSUME NEW j \in Jobs, ChangeSources(j)  PROVE Forward
  <2>1. sources' = [sources EXCEPT ![j] = @ + 1] /\ UNCHANGED <<payloads, epoch>>
    BY <1>5 DEF ChangeSources, prepared, decided
  <2> QED  BY <1>1, <2>1 DEF Forward, Types, WorldType
<1>6. ASSUME NEW j \in Jobs, Decide(j)  PROVE Forward
  <2>1. CASE \/ BeginRehearsal(j) \/ CompleteRehearsal(j) \/ Reset(j) \/ MarkFailed(j)
             \/ ConsentToRepeat(j)
             \/ \E verdict \in Reviews : Review(j, verdict)
             \/ \E verdict \in {"clear", "same_employer_equivalent_role", "uncertain"} :
                  AssessRepeat(j, verdict)
    BY <1>2, <2>1 DEF BeginRehearsal, CompleteRehearsal, Reset, MarkFailed, ConsentToRepeat, Review,
       AssessRepeat, prepared, decided, world
  <2> QED  BY <1>3, <1>4, <1>5, <1>6, <2>1 DEF Decide
<1>7. ASSUME NEW e \in Executions, Step(e) \/ Crash(e) \/ Cancel(e)  PROVE Forward
  BY <1>2, <1>7 DEF Step, StartDirect, StartStanding, Admit, Refuse, Reconcile, Send,
     SettleConfirmation, RetainUncertain, Finish, Crash, Cancel, prepared, decided, world
<1>8. CASE \/ UNCHANGED vars
           \/ \E j \in Jobs \cup OtherJobs : RecordOutcome(j)
           \/ \E e \in Direct, js \in SUBSET Jobs : QueueDirect(e, js)
           \/ \E e \in Standing : QueueStanding(e)
  BY <1>2, <1>8 DEF RecordOutcome, QueueDirect, QueueStanding, vars, prepared, decided, world
<1> QED  BY <1>6, <1>7, <1>8 DEF Next

(* The rows of payloads stay, and the new one is current.                  *)
LEMMA PayloadRows ==
  ASSUME Types, PastPayloads, Forward, NEW j \in Jobs, NEW p \in 1..Len(payloads[j])
  PROVE  /\ payloads'[j][p] = payloads[j][p]
         /\ payloads[j][p].epoch \in Nat /\ payloads[j][p].sources \in Nat
         /\ payloads[j][p].epoch <= epoch[j] /\ payloads[j][p].sources <= sources[j]
         /\ epoch[j] \in Nat /\ sources[j] \in Nat
<1>1. payloads[j] \in Seq(Payload)
  BY DEF Types, PreparedType
<1>2. payloads[j][p] \in Payload
  BY <1>1
<1>3. payloads'[j][p] = payloads[j][p]
  <2>1. payloads'[j] = payloads[j] \/ \E row : payloads'[j] = Append(payloads[j], row)
    BY DEF Forward
  <2> QED  BY <1>1, <2>1
<1> QED  BY <1>2, <1>3 DEF Payload, PastPayloads, Types, DecidedType, WorldType

LEMMA StepPast ==
  ASSUME Types, PastPayloads, Forward
  PROVE  PastPayloads'
<1> SUFFICES ASSUME NEW j \in Jobs, NEW p \in 1..Len(payloads'[j])
             PROVE  payloads'[j][p].epoch <= epoch'[j] /\ payloads'[j][p].sources <= sources'[j]
  BY DEF PastPayloads
<1>1. /\ epoch'[j] \in Nat /\ epoch'[j] >= epoch[j] /\ epoch[j] \in Nat
      /\ sources'[j] \in Nat /\ sources'[j] >= sources[j] /\ sources[j] \in Nat
      /\ payloads[j] \in Seq(Payload)
  BY DEF Forward, Types, PreparedType, DecidedType, WorldType
<1>2. CASE p \in 1..Len(payloads[j])
  <2>1. /\ payloads'[j][p] = payloads[j][p]
        /\ payloads[j][p].epoch \in Nat /\ payloads[j][p].sources \in Nat
        /\ payloads[j][p].epoch <= epoch[j] /\ payloads[j][p].sources <= sources[j]
    BY <1>2, PayloadRows
  <2> QED  BY <1>1, <2>1
<1>3. CASE p \notin 1..Len(payloads[j])
  <2>1. PICK row : /\ payloads'[j] = Append(payloads[j], row)
                   /\ row.epoch = epoch[j] /\ row.sources = sources[j]
    BY <1>3 DEF Forward
  <2>2. p = Len(payloads[j]) + 1
    BY <1>1, <1>3, <2>1
  <2>3. payloads'[j][p] = row
    BY <1>1, <2>1, <2>2
  <2> QED  BY <1>1, <2>1, <2>3
<1> QED  BY <1>2, <1>3

(* Only an admission commits a payload, and it admits a current one.       *)
LEMMA CommitsCurrent ==
  ASSUME Types, [Next]_vars, NEW j \in Jobs, NEW p,
         ~CommitsPayload(j, p), CommitsPayload(j, p)'
  PROVE  UpToDate(j, p)
<1>1. ASSUME UNCHANGED intents  PROVE FALSE
  BY <1>1 DEF CommitsPayload
<1>2. ASSUME NEW e \in Executions, NEW k \in Jobs, Admit(e, k)  PROVE UpToDate(j, p)
  <2>1. PICK new : /\ new = [job |-> k, run |-> e, payload |-> item[e][k].payload,
                             approval |-> item[e][k].approval]
                   /\ intents' \in {intents, intents \cup {new}}
    BY <1>2 DEF Admit
  <2>2. new.job = j /\ new.payload = p
    BY <2>1 DEF CommitsPayload
  <2>3. k = j /\ item[e][k].payload = p
    BY <2>1, <2>2
  <2>4. SourceFence(j, p)
    BY <1>2, <2>3 DEF Admit, Admissible
  <2> QED  BY <2>4 DEF SourceFence, UpToDate
<1>3. ASSUME NEW e \in Executions, Step(e)  PROVE UpToDate(j, p)
  BY <1>1, <1>2, <1>3 DEF Step, StartDirect, StartStanding, Refuse, Reconcile, Send,
     SettleConfirmation, RetainUncertain, Finish, submission
<1>4. ASSUME NEW k \in Jobs, Decide(k)  PROVE FALSE
  BY <1>1, <1>4 DEF Decide, Prepare, BeginRehearsal, CompleteRehearsal, Review, Reset, MarkFailed,
     Stop, ChangeSources, AssessRepeat, ConsentToRepeat, submission
<1>5. CASE \/ UNCHANGED vars
           \/ \E k \in Jobs \cup OtherJobs : RecordOutcome(k)
           \/ \E e \in Direct, js \in SUBSET Jobs : QueueDirect(e, js)
           \/ \E e \in Standing : QueueStanding(e)
           \/ \E e \in Executions : Crash(e) \/ Cancel(e)
  BY <1>1, <1>5 DEF RecordOutcome, QueueDirect, QueueStanding, Crash, Cancel, vars, submission
<1> QED  BY <1>3, <1>4, <1>5 DEF Next

LEMMA StaysOutOfDate ==
  ASSUME Types, PastPayloads, [Next]_vars, NEW j \in Jobs, NEW p \in DOMAIN payloads[j],
         ~UpToDate(j, p), ~CommitsPayload(j, p)
  PROVE  ~UpToDate(j, p)' /\ ~CommitsPayload(j, p)'
<1>1. Forward
  BY StepForward
<1>2. p \in 1..Len(payloads[j])
  BY DEF Types, PreparedType
<1>3. ~UpToDate(j, p)'
  <2>1. /\ epoch'[j] \in Nat /\ epoch'[j] >= epoch[j]
        /\ sources'[j] \in Nat /\ sources'[j] >= sources[j]
    BY <1>1 DEF Forward
  <2>2. /\ payloads'[j][p] = payloads[j][p]
        /\ payloads[j][p].epoch \in Nat /\ payloads[j][p].sources \in Nat
        /\ payloads[j][p].epoch <= epoch[j] /\ payloads[j][p].sources <= sources[j]
        /\ epoch[j] \in Nat /\ sources[j] \in Nat
    BY <1>1, <1>2, PayloadRows
  <2>3. payloads[j][p].epoch < epoch[j] \/ payloads[j][p].sources < sources[j]
    BY <2>2 DEF UpToDate
  <2>4. payloads[j][p].epoch < epoch'[j] \/ payloads[j][p].sources < sources'[j]
    BY <2>1, <2>2, <2>3
  <2>5. payloads'[j][p].epoch # epoch'[j] \/ payloads'[j][p].sources # sources'[j]
    BY <2>1, <2>2, <2>4
  <2> QED  BY <2>5 DEF UpToDate
<1> QED  BY <1>3, CommitsCurrent

(* "Safe reset never revives a payload prepared before that stop": what is *)
(* older than the last stop or the last change of its sources, and is not  *)
(* committed, never will be, whatever is reset, rehearsed or approved.     *)
THEOREM NeverRevived == Spec => NoRevival
<1>1. Init => PastPayloads
  BY DEF Init, PastPayloads
<1>2. Types /\ PastPayloads /\ [Next]_vars => Types' /\ PastPayloads'
  BY StepTypes, StepForward, StepPast
<1>3. Types /\ PastPayloads /\ [Next]_vars =>
        [\A j \in Jobs : \A p \in DOMAIN payloads[j] :
           ~UpToDate(j, p) /\ ~CommitsPayload(j, p)
             => ~UpToDate(j, p)' /\ ~CommitsPayload(j, p)']_vars
  BY StaysOutOfDate
<1> QED  BY <1>1, <1>2, <1>3, InitTypes, PTL DEF Spec, NoRevival

===============================================================================
