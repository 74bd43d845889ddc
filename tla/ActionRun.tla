------------------------------- MODULE ActionRun -------------------------------
(***************************************************************************)
(* One durable action run of app/actions.py: its receipt in SQLite         *)
(* (app_action_runs), its Temporal workflow and activity attempts          *)
(* (app/worker.py), the per-run file lock that keeps two processes from    *)
(* executing it (app/execution.py), the clients that submit and cancel it, *)
(* and the worker's recovery loop.  Runs share no state but the database   *)
(* file, so one run stands for all of them.                                *)
(*                                                                         *)
(* A definition whose name ends in "Mutant" is not part of the             *)
(* specification: it is the named definition with one plausible bug, kept  *)
(* next to it to show that a property notices.                             *)
(***************************************************************************)
EXTENDS Naturals

CONSTANTS
  Clients,       \* API processes and schedulers that may call submit
  MaxAttempts    \* RetryPolicy(maximum_attempts=3) of the activity

ASSUME ActionRunAssumption == MaxAttempts \in Nat \ {0}

VARIABLES
  status,          \* column status of the receipt ("absent": no row yet)
  cancelRequested, \* column cancellation_requested
  hasError,        \* column error_code is not NULL
  closings,        \* ActionCompleted and ActionFailed events of the run
  custody,         \* who holds the flock on the run's custody file
  pc,              \* where each invocation of Application.execute is
  workflow,        \* what Temporal says of the workflow execution
  workflowCancel,  \* Temporal holds a cancellation request for it
  activity,        \* the workflow's only activity, as Temporal sees it
  attempt,         \* number of the current attempt of that activity
  submitting,      \* where each client is in Application.submit
  cancelling,      \* a committed cancel has not made its Temporal call yet
  recovery         \* where the recovery loop is in settle(row)

receipt  == <<status, cancelRequested, hasError, closings>>
temporal == <<workflow, workflowCancel, activity, attempt>>
vars == <<receipt, custody, pc, temporal, submitting, cancelling, recovery>>

Open      == {"pending", "start_failed", "queued", "running"}
Terminal  == {"succeeded", "failed", "cancelled"}
Closed    == {"completed", "canceled", "failed"}

(* Invocation k > 0 executes attempt k of the activity in a worker;        *)
(* invocation Direct is `jobctrl <action>` without --background.  The      *)
(* recovery loop competes with them for the lock under a number of its own.*)
Direct      == 0
Attempts    == 1..MaxAttempts
Invocations == {Direct} \cup Attempts
Recovery    == MaxAttempts + 1
Holders     == Invocations \cup {Recovery}

Executing == {"handling", "raisedCancelled", "raisedFailed"}
Owning    == {"acquired", "checked"} \cup Executing
Settled   == {"returned", "refused", "interrupted"}
Places    == {"idle", "waiting", "ended"} \cup Owning \cup Settled

TypeOK ==
  /\ status \in {"absent"} \cup Open \cup Terminal
  /\ cancelRequested \in BOOLEAN
  /\ hasError \in BOOLEAN
  /\ closings \in Nat
  /\ custody \in SUBSET Holders
  /\ pc \in [Invocations -> Places]
  /\ workflow \in {"none", "running"} \cup Closed
  /\ workflowCancel \in BOOLEAN
  /\ activity \in {"none", "scheduled", "started", "closed"}
  /\ attempt \in 0..MaxAttempts
  /\ submitting \in [Clients -> {"idle", "starting", "confirmed", "unconfirmed"}]
  /\ cancelling \in BOOLEAN
  /\ recovery \in {"idle", "selected", "holding"} \cup Closed

Init ==
  /\ status = "absent"
  /\ cancelRequested = FALSE
  /\ hasError = FALSE
  /\ closings = 0
  /\ custody = {}
  /\ pc = [k \in Invocations |-> "idle"]
  /\ workflow = "none"
  /\ workflowCancel = FALSE
  /\ activity = "none"
  /\ attempt = 0
  /\ submitting = [c \in Clients |-> "idle"]
  /\ cancelling = FALSE
  /\ recovery = "idle"

-------------------------------------------------------------------------------
(* Application.submit: the receipt is created or found by its idempotency  *)
(* key, the workflow is started under the receipt's own workflow id, and   *)
(* the answer is recorded.  The client can die between any two of these.   *)

(* A receipt that is past start_failed answers without any change.         *)
Submit(c) ==
  /\ submitting[c] = "idle"
  /\ pc[Direct] = "idle"
  /\ status \in {"absent", "pending", "start_failed"}
  /\ status' = IF status = "absent" THEN "pending" ELSE status
  /\ submitting' = [submitting EXCEPT ![c] = "starting"]
  /\ UNCHANGED <<cancelRequested, hasError, closings, custody, pc, temporal,
                 cancelling, recovery>>

(* Temporal refuses a second execution of the same workflow id, also after *)
(* the first one has closed (REJECT_DUPLICATE).                            *)
StartOnServer ==
  IF workflow = "none"
  THEN /\ workflow' = "running"
       /\ activity' = "scheduled"
       /\ attempt' = 1
       /\ UNCHANGED workflowCancel
  ELSE UNCHANGED temporal

StartConfirmed(c) ==
  /\ submitting[c] = "starting"
  /\ StartOnServer
  /\ submitting' = [submitting EXCEPT ![c] = "confirmed"]
  /\ UNCHANGED <<receipt, custody, pc, cancelling, recovery>>

(* The call failed; Temporal may or may not have started the workflow.     *)
StartUnconfirmed(c) ==
  /\ submitting[c] = "starting"
  /\ StartOnServer \/ UNCHANGED temporal
  /\ submitting' = [submitting EXCEPT ![c] = "unconfirmed"]
  /\ UNCHANGED <<receipt, custody, pc, cancelling, recovery>>

(* By now the attempt may have run, and even closed the receipt: the       *)
(* status survives that, the error code does not.                          *)
RecordQueued(c) ==
  /\ submitting[c] = "confirmed"
  /\ status' = IF status \in {"pending", "start_failed"} THEN "queued" ELSE status
  /\ hasError' = FALSE
  /\ submitting' = [submitting EXCEPT ![c] = "idle"]
  /\ UNCHANGED <<cancelRequested, closings, custody, pc, temporal, cancelling,
                 recovery>>

RecordStartFailed(c) ==
  /\ submitting[c] = "unconfirmed"
  /\ status' = IF status = "pending" THEN "start_failed" ELSE status
  /\ hasError' = (hasError \/ status = "pending")
  /\ submitting' = [submitting EXCEPT ![c] = "idle"]
  /\ UNCHANGED <<cancelRequested, closings, custody, pc, temporal, cancelling,
                 recovery>>

ClientCrash(c) ==
  /\ submitting[c] # "idle"
  /\ submitting' = [submitting EXCEPT ![c] = "idle"]
  /\ UNCHANGED <<receipt, custody, pc, temporal, cancelling, recovery>>

-------------------------------------------------------------------------------
(* Application.cancel: one transaction, then a call to Temporal that may   *)
(* be lost (the process dies, Temporal is unreachable, no such workflow).  *)

Cancel ==
  /\ status \in Open
  /\ cancelRequested' = TRUE
  /\ status' = IF status = "running" THEN status ELSE "cancelled"
  /\ cancelling' = TRUE
  /\ UNCHANGED <<hasError, closings, custody, pc, temporal, submitting, recovery>>

CancelWorkflow ==
  /\ cancelling
  /\ cancelling' = FALSE
  /\ \/ /\ workflow = "running"
        /\ workflowCancel' = TRUE
     \/ UNCHANGED workflowCancel
  /\ UNCHANGED <<receipt, custody, pc, workflow, activity, attempt, submitting,
                 recovery>>

-------------------------------------------------------------------------------
(* Temporal's side of ActionWorkflow.run: one activity, retried at most    *)
(* MaxAttempts times after a timeout or an interruption, never after an    *)
(* application error; a requested cancellation is the workflow's outcome.  *)

CloseWorkflow(outcome) ==
  /\ workflow' = outcome
  /\ activity' = "closed"
  /\ UNCHANGED <<workflowCancel, attempt>>

GiveUpOrRetryMutant ==
  IF workflowCancel THEN CloseWorkflow("canceled")
  ELSE /\ activity' = "scheduled"
       /\ attempt' = attempt + 1
       /\ UNCHANGED <<workflow, workflowCancel>>

GiveUpOrRetry ==
  IF workflowCancel THEN CloseWorkflow("canceled")
  ELSE IF attempt = MaxAttempts THEN CloseWorkflow("failed")
  ELSE /\ activity' = "scheduled"
       /\ attempt' = attempt + 1
       /\ UNCHANGED <<workflow, workflowCancel>>

(* Heartbeats stopped arriving: the process is dead, or only stalled.      *)
HeartbeatTimeout ==
  /\ activity = "started"
  /\ GiveUpOrRetry
  /\ UNCHANGED <<receipt, custody, pc, submitting, cancelling, recovery>>

(* An attempt that no worker has taken is cancelled by the server.         *)
CancelScheduled ==
  /\ activity = "scheduled"
  /\ workflowCancel
  /\ CloseWorkflow("canceled")
  /\ UNCHANGED <<receipt, custody, pc, submitting, cancelling, recovery>>

-------------------------------------------------------------------------------
(* Application.execute.                                                    *)

Goto(k, place) == pc' = [pc EXCEPT ![k] = place]
Release(k)     == custody' = custody \ {k}

Poll(k) ==
  /\ activity = "scheduled"
  /\ k = attempt
  /\ pc[k] = "idle"
  /\ activity' = "started"
  /\ Goto(k, "waiting")
  /\ UNCHANGED <<receipt, custody, workflow, workflowCancel, attempt, submitting,
                 cancelling, recovery>>

(* The CLI creates a receipt under a fresh run id, without a workflow.     *)
ExecuteDirect ==
  /\ status = "absent"
  /\ status' = "pending"
  /\ Goto(Direct, "waiting")
  /\ UNCHANGED <<cancelRequested, hasError, closings, custody, temporal, submitting,
                 cancelling, recovery>>

Acquire(k) ==
  /\ pc[k] = "waiting"
  /\ custody = {}
  /\ custody' = {k}
  /\ Goto(k, "acquired")
  /\ UNCHANGED <<receipt, temporal, submitting, cancelling, recovery>>

(* The wait for the lock ends when the run is cancelled or the worker      *)
(* shuts down.                                                             *)
StopWaiting(k) ==
  /\ pc[k] = "waiting"
  /\ custody # {}
  /\ Goto(k, "interrupted")
  /\ UNCHANGED <<receipt, custody, temporal, submitting, cancelling, recovery>>

(* The custody file is not private, or was replaced: an application error, *)
(* which nothing retries.  A lock taken an instant before is closed again. *)
RefuseCustody(k) ==
  /\ pc[k] = "waiting"
  /\ Goto(k, "refused")
  /\ UNCHANGED <<receipt, custody, temporal, submitting, cancelling, recovery>>

(* _execute_owned reads the receipt again under the lock: an earlier       *)
(* invocation may have closed it.                                          *)
Recheck(k) ==
  /\ pc[k] = "acquired"
  /\ \/ /\ status \in Open
        /\ Goto(k, "checked")
        /\ UNCHANGED custody
     \/ /\ status \in Terminal
        /\ Goto(k, IF status = "succeeded" THEN "returned" ELSE "refused")
        /\ Release(k)
  /\ UNCHANGED <<receipt, temporal, submitting, cancelling, recovery>>

(* One transaction marks the receipt running or turns a cancelled run      *)
(* away; a cancellation may have come in since Recheck.                    *)
Begin(k) ==
  /\ pc[k] = "checked"
  /\ \/ /\ cancelRequested \/ status = "cancelled"
        /\ status' = "cancelled"
        /\ hasError' = TRUE
        /\ Goto(k, "refused")
        /\ Release(k)
     \/ /\ ~cancelRequested /\ status # "cancelled"
        /\ status' = "running"
        /\ Goto(k, "handling")
        /\ UNCHANGED <<hasError, custody>>
  /\ UNCHANGED <<cancelRequested, closings, temporal, submitting, cancelling, recovery>>

(* The settling update names status='running'; the event is appended       *)
(* whether or not that update found its row.                               *)
Settle(k, outcome, error, place) ==
  /\ status' = IF status = "running" THEN outcome ELSE status
  /\ hasError' = IF status = "running" THEN error ELSE hasError
  /\ closings' = closings + 1
  /\ Goto(k, place)
  /\ Release(k)
  /\ UNCHANGED <<cancelRequested, temporal, submitting, cancelling, recovery>>

Complete(k) ==
  /\ pc[k] = "handling"
  /\ Settle(k, "succeeded", FALSE, "returned")

(* `cancelled` is computed when the handler raises: a CancelledError of a  *)
(* shutdown or of Temporal, or context.cancelled(), which reads the        *)
(* receipt.                                                                *)
Raise(k) ==
  /\ pc[k] = "handling"
  /\ \/ Goto(k, "raisedCancelled")
     \/ ~cancelRequested /\ Goto(k, "raisedFailed")
  /\ UNCHANGED <<receipt, custody, temporal, submitting, cancelling, recovery>>

SettleRaisedMutant(k) ==
  \/ /\ pc[k] = "raisedCancelled"
     /\ \E place \in {"refused", "interrupted"} : Settle(k, "cancelled", TRUE, place)
  \/ /\ pc[k] = "raisedFailed"
     /\ Settle(k, "failed", TRUE, "refused")

(* An interruption that the user did not ask for leaves the receipt        *)
(* running, for the next attempt.                                          *)
SettleRaised(k) ==
  \/ /\ pc[k] = "raisedCancelled"
     /\ ~cancelRequested
     /\ Goto(k, "interrupted")
     /\ Release(k)
     /\ UNCHANGED <<receipt, temporal, submitting, cancelling, recovery>>
  \/ /\ pc[k] = "raisedCancelled"
     /\ cancelRequested
     /\ \E place \in {"refused", "interrupted"} : Settle(k, "cancelled", TRUE, place)
  \/ /\ pc[k] = "raisedFailed"
     /\ Settle(k, "failed", TRUE, "refused")

(* The activity's answer reaches Temporal, which drops the answer of an    *)
(* attempt it has given up.  An AppError is never retried.                 *)
Report(k) ==
  /\ pc[k] \in Settled
  /\ Goto(k, "ended")
  /\ IF k = attempt /\ activity = "started"
     THEN CASE pc[k] = "returned" -> CloseWorkflow("completed")
            [] pc[k] = "refused" ->
                 CloseWorkflow(IF workflowCancel THEN "canceled" ELSE "failed")
            [] OTHER -> GiveUpOrRetry
     ELSE UNCHANGED temporal
  /\ UNCHANGED <<receipt, custody, submitting, cancelling, recovery>>

(* The process dies; the operating system drops its lock.                  *)
Crash(k) ==
  /\ pc[k] \notin {"idle", "ended"}
  /\ Goto(k, "ended")
  /\ Release(k)
  /\ UNCHANGED <<receipt, temporal, submitting, cancelling, recovery>>

-------------------------------------------------------------------------------
(* reconcile_runs: the worker's loop closes receipts that no attempt will  *)
(* close any more, from what Temporal says of the exact execution.         *)

RecoverySelect ==
  /\ recovery = "idle"
  /\ status \in Open
  /\ recovery' = "selected"
  /\ UNCHANGED <<receipt, custody, pc, temporal, submitting, cancelling>>

RecoveryAcquireMutant ==
  /\ recovery = "selected"
  /\ recovery' = "holding"
  /\ custody' = custody \cup {Recovery}
  /\ UNCHANGED <<receipt, pc, temporal, submitting, cancelling>>

RecoveryAcquire ==
  /\ recovery = "selected"
  /\ custody = {}
  /\ recovery' = "holding"
  /\ custody' = {Recovery}
  /\ UNCHANGED <<receipt, pc, temporal, submitting, cancelling>>

RecoveryDescribeMutant ==
  /\ recovery = "holding"
  /\ workflow \in Closed \ {"canceled"}
  /\ recovery' = workflow
  /\ UNCHANGED <<receipt, custody, pc, temporal, submitting, cancelling>>

RecoveryDescribe ==
  /\ recovery = "holding"
  /\ workflow \in Closed
  /\ recovery' = workflow
  /\ UNCHANGED <<receipt, custody, pc, temporal, submitting, cancelling>>

RecoverySettle ==
  /\ recovery \in Closed
  /\ IF status \in Open
     THEN /\ status' = CASE recovery = "completed" -> "succeeded"
                         [] recovery = "canceled" -> "cancelled"
                         [] OTHER -> "failed"
          /\ hasError' = (recovery # "completed")
          /\ closings' = closings + 1
     ELSE UNCHANGED <<status, hasError, closings>>
  /\ recovery' = "idle"
  /\ Release(Recovery)
  /\ UNCHANGED <<cancelRequested, pc, temporal, submitting, cancelling>>

(* The lock is busy, the workflow is not closed, its history is missing or *)
(* unreachable, or the worker died.                                        *)
RecoveryAbandon ==
  /\ recovery # "idle"
  /\ recovery' = "idle"
  /\ Release(Recovery)
  /\ UNCHANGED <<receipt, pc, temporal, submitting, cancelling>>

-------------------------------------------------------------------------------
ClientStep(c) ==
  \/ Submit(c) \/ StartConfirmed(c) \/ StartUnconfirmed(c)
  \/ RecordQueued(c) \/ RecordStartFailed(c) \/ ClientCrash(c)

InvocationStep(k) ==
  \/ Acquire(k) \/ StopWaiting(k) \/ RefuseCustody(k)
  \/ Recheck(k) \/ Begin(k) \/ Complete(k)
  \/ Raise(k) \/ SettleRaised(k) \/ Report(k) \/ Crash(k)

RecoveryStep ==
  \/ RecoverySelect \/ RecoveryAcquire \/ RecoveryDescribe \/ RecoverySettle
  \/ RecoveryAbandon

Next ==
  \/ \E c \in Clients : ClientStep(c)
  \/ Cancel \/ CancelWorkflow
  \/ HeartbeatTimeout \/ CancelScheduled
  \/ \E k \in Attempts : Poll(k)
  \/ ExecuteDirect
  \/ \E k \in Invocations : InvocationStep(k)
  \/ RecoveryStep

Spec == Init /\ [][Next]_vars

(***************************************************************************)
(* Fairness.  The supervisor restarts a dead worker, so a scheduled        *)
(* attempt is polled, an invocation that is not killed advances (handlers  *)
(* end: every external call they make has a timeout), and Temporal times   *)
(* out the heartbeats of an attempt whose process is gone.  The lock is    *)
(* polled ten times a second against a recovery loop that holds it for one *)
(* short call every three seconds, and neither the worker nor Temporal     *)
(* fails at exactly the same step for ever: strong fairness.  Clients owe  *)
(* nothing: a user may never retry.                                        *)
(***************************************************************************)
TimeoutOfDeadAttempt ==
  /\ attempt \in Attempts
  /\ pc[attempt] = "ended"
  /\ HeartbeatTimeout

Fairness ==
  /\ \A k \in Attempts :
       /\ WF_vars(Poll(k))
       /\ SF_vars(Acquire(k))
       /\ WF_vars(Recheck(k) \/ Begin(k) \/ Complete(k) \/ Raise(k) \/ SettleRaised(k))
       /\ WF_vars(Report(k))
  /\ WF_vars(TimeoutOfDeadAttempt)
  /\ WF_vars(CancelScheduled)
  /\ WF_vars(RecoveryStep)
  /\ SF_vars(RecoveryAcquire)
  /\ SF_vars(RecoveryDescribe)
  /\ SF_vars(RecoverySettle)

FairSpec == Spec /\ Fairness

-------------------------------------------------------------------------------
(* At most one invocation is inside the feature handler, or between it and *)
(* the settling transaction: a heartbeat timeout does not start a second   *)
(* one while the first process lives (docs/architecture/runtime.md).       *)
OneExecution ==
  \A j, k \in Invocations :
    pc[j] \in Executing /\ pc[k] \in Executing => j = k

(* While a handler executes, its receipt says running, whatever clients,   *)
(* cancellation, Temporal and recovery do meanwhile: the settling update   *)
(* always finds its row and the closing event tells the truth.             *)
ExecutionOwnsReceipt ==
  (\E k \in Invocations : pc[k] \in Executing) => status = "running"

(* A receipt is closed by at most one event, and a receipt that succeeded  *)
(* or failed has that event.                                               *)
ClosedOnce ==
  /\ closings <= 1
  /\ status \in {"succeeded", "failed"} => closings = 1
  /\ closings = 1 => status \in Terminal

(* When Temporal reports the workflow completed, the local receipt has the *)
(* result: recovery never has to take a result from Temporal.              *)
CompletedHasResult == workflow = "completed" => status = "succeeded"

(* The receipt tells the truth about the one invocation that may execute.  *)
Custody == OneExecution /\ ExecutionOwnsReceipt /\ ClosedOnce /\ CompletedHasResult

(* A terminal receipt is final, against late submit answers, retries,      *)
(* recovery and cancellation.                                              *)
TerminalIsFinal == [][(status \in Terminal) => (status' = status)]_vars

(* A run that the user cancelled while nobody was executing it is never    *)
(* executed afterwards, even when its receipt still says running because   *)
(* the process that executed it died.                                      *)
CancelledNeverExecutes ==
  [][ cancelRequested /\ (\A k \in Invocations : pc[k] \notin Executing)
      => (\A k \in Invocations : pc'[k] \notin Executing) ]_vars

(* Every run whose workflow was started gets a terminal receipt, though    *)
(* workers die, attempts are exhausted, cancellations are lost and clients *)
(* disappear.                                                              *)
StartedSettles == workflow # "none" ~> status \in Terminal

(* A failed receipt says why: it keeps the error code that readers of the  *)
(* run are promised ("safe failure code").                                 *)
FailedHasCode == status = "failed" => hasError

(* The promise to the feature and the user.                                *)
Promise == INSTANCE DurableRun WITH
  phase   <- IF status \in Open THEN "open" ELSE status,
  working <- (\E k \in Invocations : pc[k] \in Executing),
  revoked <- cancelRequested

PromiseKept == Promise!Spec
===============================================================================
