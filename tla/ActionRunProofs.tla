--------------------------- MODULE ActionRunProofs ---------------------------
(***************************************************************************)
(* For every number of attempts and every set of clients: the inductive    *)
(* invariant behind the safety properties of ActionRun, and the proof that *)
(* ActionRun implements DurableRun.                                        *)
(***************************************************************************)
EXTENDS ActionRun, TLAPS

(* The type invariant in two parts: the Boolean columns and requests, which *)
(* nothing else below depends on, and the rest.                            *)
FlagType ==
  /\ cancelRequested \in BOOLEAN
  /\ hasError \in BOOLEAN
  /\ workflowCancel \in BOOLEAN
  /\ cancelling \in BOOLEAN

PlaceType ==
  /\ status \in {"absent"} \cup Open \cup Terminal
  /\ custody \in SUBSET Holders
  /\ pc \in [Invocations -> Places]
  /\ workflow \in {"none", "running"} \cup Closed
  /\ activity \in {"none", "scheduled", "started", "closed"}
  /\ attempt \in 0..MaxAttempts
  /\ submitting \in [Clients -> {"idle", "starting", "confirmed", "unconfirmed"}]
  /\ recovery \in {"idle", "selected", "holding"} \cup Closed

(* The lock has one holder, and it is whoever is at a place that owns it.  *)
CustodyInv ==
  /\ \A i, j \in custody : i = j
  /\ \A k \in Invocations : pc[k] \in Owning <=> k \in custody
  /\ recovery \in {"holding"} \cup Closed <=> Recovery \in custody

(* What the holder has read of the receipt is still so: a receipt that was *)
(* open under the lock can only have been cancelled since.                 *)
ReceiptInv ==
  /\ \A k \in Invocations : pc[k] \in Executing => status = "running"
  /\ \A k \in Invocations : pc[k] = "checked" => status \in Open \cup {"cancelled"}

(* Nothing happens to a run that has no receipt.                           *)
AbsentInv ==
  status = "absent" =>
    /\ \A k \in Invocations : pc[k] = "idle"
    /\ \A c \in Clients : submitting[c] = "idle"
    /\ workflow = "none"
    /\ activity = "none"
    /\ closings = 0
    /\ recovery = "idle"

(* Whoever says that the run succeeded says it after the receipt did.      *)
SuccessInv ==
  /\ \A k \in Invocations : pc[k] = "returned" => status = "succeeded"
  /\ workflow = "completed" => status = "succeeded"
  /\ recovery = "completed" => status = "succeeded"

ClosingInv ==
  /\ closings \in {0, 1}
  /\ status \in Open => closings = 0
  /\ status \in {"succeeded", "failed"} => closings = 1

IInv ==
  /\ PlaceType
  /\ CustodyInv
  /\ ReceiptInv
  /\ AbsentInv
  /\ SuccessInv
  /\ ClosingInv

-------------------------------------------------------------------------------
LEMMA InitInv == Init => IInv
  BY ActionRunAssumption
  DEF Init, IInv, PlaceType, CustodyInv, ReceiptInv, AbsentInv, SuccessInv, ClosingInv,
      Open, Terminal, Closed, Direct, Attempts, Invocations, Recovery, Holders,
      Executing, Owning, Settled, Places

(* Every step keeps the invariant: one step of the proof per action.       *)
LEMMA StepInv == IInv /\ [Next]_vars => IInv'
<1> SUFFICES ASSUME IInv, [Next]_vars PROVE IInv'
    OBVIOUS
<1> USE ActionRunAssumption
    DEF IInv, PlaceType, CustodyInv, ReceiptInv, AbsentInv, SuccessInv, ClosingInv,
        receipt, temporal, Open, Terminal, Closed, Direct, Attempts, Invocations,
        Recovery, Holders, Executing, Owning, Settled, Places, Goto, Release
<1>1. ASSUME NEW c \in Clients, Submit(c) PROVE IInv'
      BY <1>1 DEF Submit
<1>2. ASSUME NEW c \in Clients, StartConfirmed(c) PROVE IInv'
      BY <1>2 DEF StartConfirmed, StartOnServer
<1>3. ASSUME NEW c \in Clients, StartUnconfirmed(c) PROVE IInv'
      BY <1>3 DEF StartUnconfirmed, StartOnServer
<1>4. ASSUME NEW c \in Clients, RecordQueued(c) PROVE IInv'
      BY <1>4 DEF RecordQueued
<1>5. ASSUME NEW c \in Clients, RecordStartFailed(c) PROVE IInv'
      BY <1>5 DEF RecordStartFailed
<1>6. ASSUME NEW c \in Clients, ClientCrash(c) PROVE IInv'
      BY <1>6 DEF ClientCrash
<1>7. CASE Cancel
      BY <1>7 DEF Cancel
<1>8. CASE CancelWorkflow
      BY <1>8 DEF CancelWorkflow
<1>9. CASE HeartbeatTimeout
      BY <1>9 DEF HeartbeatTimeout, GiveUpOrRetry, CloseWorkflow
<1>10. CASE CancelScheduled
      BY <1>10 DEF CancelScheduled, CloseWorkflow
<1>11. ASSUME NEW k \in Attempts, Poll(k) PROVE IInv'
      BY <1>11 DEF Poll
<1>12. CASE ExecuteDirect
      BY <1>12 DEF ExecuteDirect
<1>13. ASSUME NEW k \in Invocations, Acquire(k) PROVE IInv'
      BY <1>13 DEF Acquire
<1>14. ASSUME NEW k \in Invocations, StopWaiting(k) PROVE IInv'
      BY <1>14 DEF StopWaiting
<1>15. ASSUME NEW k \in Invocations, RefuseCustody(k) PROVE IInv'
      BY <1>15 DEF RefuseCustody
<1>16. ASSUME NEW k \in Invocations, Recheck(k) PROVE IInv'
  <2>1. /\ pc[k] = "acquired"
        /\ UNCHANGED <<receipt, temporal, submitting, recovery>>
        BY <1>16 DEF Recheck
  <2>2. CASE status \in Open /\ Goto(k, "checked") /\ UNCHANGED custody
        BY <2>1, <2>2
  <2>3. CASE status = "succeeded" /\ Goto(k, "returned") /\ Release(k)
        BY <2>1, <2>3
  <2>4. CASE status # "succeeded" /\ Goto(k, "refused") /\ Release(k)
        BY <2>1, <2>4
  <2>5. QED
        BY <1>16, <2>2, <2>3, <2>4 DEF Recheck
<1>17. ASSUME NEW k \in Invocations, Begin(k) PROVE IInv'
  <2>1. /\ pc[k] = "checked"
        /\ UNCHANGED <<closings, temporal, submitting, recovery>>
        BY <1>17 DEF Begin
  <2>2. CASE status' = "cancelled" /\ Goto(k, "refused") /\ Release(k)
        BY <2>1, <2>2
  <2>3. CASE /\ status # "cancelled" /\ status' = "running"
             /\ Goto(k, "handling") /\ UNCHANGED custody
        BY <2>1, <2>3
  <2>4. QED
        BY <1>17, <2>2, <2>3 DEF Begin
<1>18. ASSUME NEW k \in Invocations, Complete(k) PROVE IInv'
      BY <1>18 DEF Complete, Settle
<1>19. ASSUME NEW k \in Invocations, Raise(k) PROVE IInv'
      BY <1>19 DEF Raise
<1>20. ASSUME NEW k \in Invocations, SettleRaised(k) PROVE IInv'
  <2>1. ASSUME NEW outcome \in {"cancelled", "failed"},
               NEW place \in {"refused", "interrupted"},
               pc[k] \in Executing, Settle(k, outcome, TRUE, place)
        PROVE  IInv'
        BY <2>1 DEF Settle
  <2>2. CASE /\ pc[k] \in Executing /\ Goto(k, "interrupted") /\ Release(k)
             /\ UNCHANGED <<receipt, temporal, submitting, cancelling, recovery>>
        BY <2>2
  <2>3. QED
        BY <1>20, <2>1, <2>2 DEF SettleRaised
<1>21. ASSUME NEW k \in Invocations, Report(k) PROVE IInv'
      BY <1>21 DEF Report, GiveUpOrRetry, CloseWorkflow
<1>22. ASSUME NEW k \in Invocations, Crash(k) PROVE IInv'
      BY <1>22 DEF Crash
<1>23. CASE RecoverySelect
      BY <1>23 DEF RecoverySelect
<1>24. CASE RecoveryAcquire
      BY <1>24 DEF RecoveryAcquire
<1>25. CASE RecoveryDescribe
      BY <1>25 DEF RecoveryDescribe
<1>26. CASE RecoverySettle
      BY <1>26 DEF RecoverySettle
<1>27. CASE RecoveryAbandon
      BY <1>27 DEF RecoveryAbandon
<1>28. CASE UNCHANGED vars
      BY <1>28 DEF vars
<1>29. QED
      BY <1>1, <1>2, <1>3, <1>4, <1>5, <1>6, <1>7, <1>8, <1>9,
         <1>10, <1>11, <1>12, <1>13, <1>14, <1>15, <1>16, <1>17, <1>18,
         <1>19, <1>20, <1>21, <1>22, <1>23, <1>24, <1>25, <1>26, <1>27,
         <1>28
      DEF Next, ClientStep, InvocationStep, RecoveryStep

LEMMA InitFlags == Init => FlagType
  BY DEF Init, FlagType

LEMMA StepFlags == FlagType /\ [Next]_vars => FlagType'
<1> SUFFICES ASSUME FlagType, [Next]_vars PROVE FlagType'
    OBVIOUS
<1> USE DEF FlagType, receipt, temporal
<1>1. ASSUME NEW c \in Clients, ClientStep(c) PROVE FlagType'
      BY <1>1, Zenon DEF ClientStep, Submit, StartConfirmed, StartUnconfirmed, StartOnServer,
         RecordQueued, RecordStartFailed, ClientCrash
<1>2. CASE Cancel \/ CancelWorkflow \/ CancelScheduled
      BY <1>2, Zenon DEF Cancel, CancelWorkflow, CancelScheduled, CloseWorkflow
<1>3. CASE HeartbeatTimeout
      BY <1>3, Zenon DEF HeartbeatTimeout, GiveUpOrRetry, CloseWorkflow
<1>4. CASE ExecuteDirect \/ \E k \in Attempts : Poll(k)
      BY <1>4, Zenon DEF ExecuteDirect, Poll
<1>5. ASSUME NEW k \in Invocations, InvocationStep(k) PROVE FlagType'
      BY <1>5, Zenon DEF InvocationStep, Acquire, StopWaiting, RefuseCustody, Recheck,
         Begin, Complete, Raise, SettleRaised, Settle, Report, GiveUpOrRetry, CloseWorkflow, Crash
<1>6. CASE RecoveryStep
      BY <1>6, Zenon DEF RecoveryStep, RecoverySelect, RecoveryAcquire, RecoveryDescribe,
         RecoverySettle, RecoveryAbandon
<1>7. CASE UNCHANGED vars
      BY <1>7, Zenon DEF vars
<1>8. QED
      BY <1>1, <1>2, <1>3, <1>4, <1>5, <1>6, <1>7 DEF Next

-------------------------------------------------------------------------------
(* What the rows, the locks and the workflows of a run have to do with     *)
(* each other after every step.                                            *)
THEOREM Invariant == Spec => []IInv
<1>1. QED
      BY InitInv, StepInv, PTL DEF Spec

(* Every value of every variable is one the code can store.                *)
THEOREM TypeCorrect == Spec => []TypeOK
<1>1. IInv /\ FlagType => TypeOK
      BY DEF IInv, PlaceType, FlagType, TypeOK, ClosingInv
<1>2. QED
      BY <1>1, InitInv, StepInv, InitFlags, StepFlags, PTL DEF Spec

(* Two invocations of one run are never inside the handler together.       *)
THEOREM MutualExclusion == Spec => []OneExecution
<1>1. IInv => OneExecution
      BY DEF IInv, CustodyInv, OneExecution, Owning
<1>2. QED
      BY <1>1, Invariant, PTL

(* A handler executes only under a receipt that says running.              *)
THEOREM ReceiptOwned == Spec => []ExecutionOwnsReceipt
<1>1. IInv => ExecutionOwnsReceipt
      BY DEF IInv, ReceiptInv, ExecutionOwnsReceipt
<1>2. QED
      BY <1>1, Invariant, PTL

(* At most one closing event, and one for every success and failure.       *)
THEOREM OneClosing == Spec => []ClosedOnce
<1>1. IInv => ClosedOnce
      BY DEF IInv, PlaceType, ClosingInv, AbsentInv, ClosedOnce, Terminal
<1>2. QED
      BY <1>1, Invariant, PTL

(* A completed workflow leaves a receipt that has the result.              *)
THEOREM CompletionRecorded == Spec => []CompletedHasResult
<1>1. IInv => CompletedHasResult
      BY DEF IInv, SuccessInv, CompletedHasResult
<1>2. QED
      BY <1>1, Invariant, PTL

(* The receipt tells the truth about the one invocation that may execute.  *)
THEOREM KeepsCustody == Spec => []Custody
<1>1. QED
      BY MutualExclusion, ReceiptOwned, OneClosing, CompletionRecorded, PTL DEF Custody

-------------------------------------------------------------------------------
(* What one step can do to the three things the abstract run shows: the    *)
(* status, whether a handler executes, and the cancellation request.       *)
Handled == \E k \in Invocations : pc[k] \in Executing

Still == Handled' <=> Handled

LEMMA StepStatus ==
  ASSUME IInv, [Next]_vars
  PROVE  \/ /\ UNCHANGED cancelRequested /\ Still
            /\ status' = status \/ (status \in Open /\ status' \in Open)
         \/ /\ UNCHANGED cancelRequested /\ Still
            /\ status = "absent" /\ status' = "pending"
         \/ /\ cancelRequested' = TRUE /\ Still
            /\ status \in Open
            /\ status' = status \/ (~Handled /\ status' = "cancelled")
         \/ /\ UNCHANGED cancelRequested /\ ~cancelRequested
            /\ status \in Open /\ status' = "running" /\ ~Handled /\ Handled'
         \/ /\ UNCHANGED cancelRequested
            /\ status' = status /\ Handled /\ ~Handled'
         \/ /\ UNCHANGED cancelRequested
            /\ status = "running" /\ Handled /\ ~Handled'
            /\ status' \in {"succeeded", "failed"} \/ (cancelRequested /\ status' = "cancelled")
         \/ /\ UNCHANGED cancelRequested
            /\ status \in Open /\ status' \in {"failed", "cancelled"}
            /\ ~Handled /\ ~Handled'
<1> USE ActionRunAssumption
    DEF IInv, PlaceType, CustodyInv, ReceiptInv, AbsentInv, SuccessInv,
        receipt, temporal, Open, Terminal, Closed, Direct, Attempts, Invocations,
        Recovery, Holders, Executing, Owning, Settled, Places, Goto, Release,
        Handled, Still
<1>1. ASSUME NEW c \in Clients, ClientStep(c)
      PROVE  /\ UNCHANGED <<pc, cancelRequested>>
             /\ \/ status' = status
                \/ status = "absent" /\ status' = "pending"
                \/ status \in Open /\ status' \in Open
      BY <1>1 DEF ClientStep, Submit, StartConfirmed, StartUnconfirmed,
         RecordQueued, RecordStartFailed, ClientCrash
<1>2. CASE Cancel
      BY <1>2 DEF Cancel
<1>3. CASE CancelWorkflow \/ CancelScheduled \/ HeartbeatTimeout
      BY <1>3 DEF CancelWorkflow, CancelScheduled, HeartbeatTimeout
<1>4. CASE ExecuteDirect \/ \E k \in Attempts : Poll(k)
      BY <1>4 DEF ExecuteDirect, Poll
<1>5. ASSUME NEW k \in Invocations,
             Acquire(k) \/ StopWaiting(k) \/ RefuseCustody(k) \/ Recheck(k)
             \/ Raise(k) \/ Report(k)
      PROVE  UNCHANGED <<status, cancelRequested>> /\ Still
      BY <1>5 DEF Acquire, StopWaiting, RefuseCustody, Recheck, Raise, Report
<1>6. ASSUME NEW k \in Invocations, Crash(k)
      PROVE  UNCHANGED <<status, cancelRequested>> /\ (Handled' => Handled)
      BY <1>6 DEF Crash
<1>7. ASSUME NEW k \in Invocations, Begin(k)
      PROVE  /\ status \in Open \cup {"cancelled"}
             /\ ~Handled
             /\ UNCHANGED cancelRequested
             /\ \/ status' = "cancelled" /\ ~Handled'
                \/ status \in Open /\ status' = "running" /\ Handled' /\ ~cancelRequested
      BY <1>7 DEF Begin
<1>8. ASSUME NEW k \in Invocations, Complete(k) \/ SettleRaised(k)
      PROVE  /\ status = "running" /\ Handled /\ ~Handled'
             /\ UNCHANGED cancelRequested
             /\ \/ status' \in {status, "succeeded", "failed"}
                \/ cancelRequested /\ status' = "cancelled"
  <2>1. pc[k] \in Executing
        BY <1>8 DEF Complete, SettleRaised
  <2>2. status = "running" /\ Handled
        BY <2>1
  <2>3. PICK place \in Settled : Goto(k, place)
        BY <1>8 DEF Complete, SettleRaised, Settle
  <2>4. \A j \in Invocations : pc[j] \in Executing => j = k
        BY <2>1
  <2>5. ~Handled'
        BY <2>3, <2>4
  <2>6. /\ UNCHANGED cancelRequested
        /\ \/ status' \in {status, "succeeded", "failed"}
           \/ cancelRequested /\ status' = "cancelled"
        BY <1>8 DEF Complete, SettleRaised, Settle
  <2>7. QED
        BY <2>2, <2>5, <2>6
<1>9. CASE RecoverySettle
  <2>1. ~Handled
        BY <1>9 DEF RecoverySettle
  <2>2. UNCHANGED <<pc, cancelRequested>>
        BY <1>9 DEF RecoverySettle
  <2>3. \/ status' = status
        \/ status \in Open /\ status' \in {"failed", "cancelled"}
        BY <1>9 DEF RecoverySettle
  <2>4. QED
        BY <2>1, <2>2, <2>3
<1>10. CASE RecoverySelect \/ RecoveryAcquire \/ RecoveryDescribe \/ RecoveryAbandon
      BY <1>10 DEF RecoverySelect, RecoveryAcquire, RecoveryDescribe, RecoveryAbandon
<1>11. CASE UNCHANGED vars
      BY <1>11 DEF vars
<1>12. QED
      BY <1>1, <1>2, <1>3, <1>4, <1>5, <1>6, <1>7, <1>8, <1>9, <1>10, <1>11
      DEF Next, InvocationStep, RecoveryStep

(* A terminal receipt is final.                                            *)
THEOREM TerminalFinal == Spec => TerminalIsFinal
<1>1. IInv /\ [Next]_vars => [(status \in Terminal) => (status' = status)]_vars
      BY StepStatus DEF Open, Terminal
<1>2. QED
      BY <1>1, Invariant, PTL DEF Spec, TerminalIsFinal

(* A run that was cancelled while nobody executed it stays unexecuted.     *)
THEOREM CancelledUnexecuted == Spec => CancelledNeverExecutes
<1>1. IInv /\ [Next]_vars =>
        [ cancelRequested /\ (\A k \in Invocations : pc[k] \notin Executing)
          => (\A k \in Invocations : pc'[k] \notin Executing) ]_vars
      BY StepStatus DEF Handled, Still
<1>2. QED
      BY <1>1, Invariant, PTL DEF Spec, CancelledNeverExecutes

(* ActionRun implements DurableRun: every step is a step of the abstract   *)
(* run or leaves it as it was.                                             *)
THEOREM KeepsPromise == Spec => PromiseKept
<1>1. Init => Promise!Init
      BY DEF Init, Promise!Init, Open, Executing
<1>2. ASSUME IInv, [Next]_vars PROVE [Promise!Next]_(Promise!vars)
  <2>1. CASE /\ UNCHANGED cancelRequested /\ Still
             /\ status' = status \/ (status \in Open /\ status' \in Open)
        BY <2>1 DEF Promise!vars, Still, Handled
  <2>2. CASE /\ UNCHANGED cancelRequested /\ Still
             /\ status = "absent" /\ status' = "pending"
        BY <2>2 DEF Promise!Next, Promise!Admit, Still, Handled, Open
  <2>3. CASE /\ cancelRequested' = TRUE /\ Still
             /\ status \in Open
             /\ status' = status \/ (~Handled /\ status' = "cancelled")
        BY <2>3 DEF Promise!Next, Promise!Revoke, Still, Handled, Open
  <2>4. CASE /\ UNCHANGED cancelRequested /\ ~cancelRequested
             /\ status \in Open /\ status' = "running" /\ ~Handled /\ Handled'
        BY <2>4 DEF Promise!Next, Promise!Begin, Handled, Open
  <2>5. CASE /\ UNCHANGED cancelRequested
             /\ status' = status /\ Handled /\ ~Handled'
        BY <2>5 DEF Promise!Next, Promise!Abandon, Handled
  <2>6. CASE /\ UNCHANGED cancelRequested
             /\ status = "running" /\ Handled /\ ~Handled'
             /\ status' \in {"succeeded", "failed"} \/ (cancelRequested /\ status' = "cancelled")
        BY <2>6 DEF Promise!Next, Promise!Finish, Handled, Open
  <2>7. CASE /\ UNCHANGED cancelRequested
             /\ status \in Open /\ status' \in {"failed", "cancelled"}
             /\ ~Handled /\ ~Handled'
        BY <2>7 DEF Promise!Next, Promise!Close, Handled, Open
  <2>8. QED
        BY <1>2, StepStatus, <2>1, <2>2, <2>3, <2>4, <2>5, <2>6, <2>7
<1>3. QED
      BY <1>1, <1>2, Invariant, PTL DEF Spec, PromiseKept, Promise!Spec
===============================================================================
