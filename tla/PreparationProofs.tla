--------------------------- MODULE PreparationProofs ---------------------------
(***************************************************************************)
(* One writer per job, the permanence of a cancellation, the use of the    *)
(* durable runs and the truth of the saved stages, proved for any runs,    *)
(* jobs, stages and attempts.  PreparationInv links three parts: a handler *)
(* is somewhere exactly while its run is working, a working run is open,   *)
(* and a handler at a stage holds the claim of its job; hence a claim is   *)
(* only taken from a run whose handler is nowhere.  EvidenceInv says what  *)
(* a handler has finished at each of its places.                           *)
(***************************************************************************)
EXTENDS Preparation, TLAPS

Handled ==
  \A r \in Runs :
    /\ working[r] <=> handler[r].at # "idle"
    /\ working[r] => phase[r] = "open"

ClaimHeld ==
  \A r \in Runs, j \in Jobs :
    handler[r].at \in Places /\ handler[r].job = {j} => claim[j] = r

CancelledRests ==
  \A r \in Runs : prep[r] = "cancelled" => revoked[r] /\ handler[r].at \in {"idle", "interrupted"}

StepsCancelledByUser ==
  \A r \in Runs, j \in Jobs, s \in Stages : steps[r][j][s].status = "cancelled" => revoked[r]

PreparationInv == TypeOK /\ Handled /\ ClaimHeld /\ CancelledRests /\ StepsCancelledByUser

(* The invariant rules out two handlers at stages of one job.              *)
LEMMA OneWriterFollows == PreparationInv => OneWriter
<1> SUFFICES ASSUME ClaimHeld PROVE OneWriter
  BY DEF PreparationInv
<1> SUFFICES ASSUME NEW q \in Runs, NEW r \in Runs, NEW j \in Jobs,
                    handler[q].at \in Places, handler[q].job = {j},
                    handler[r].at \in Places, handler[r].job = {j}
             PROVE  q = r
  BY DEF OneWriter
<1>1. claim[j] = q /\ claim[j] = r
  BY DEF ClaimHeld
<1> QED
  BY <1>1

LEMMA CancelledFollows == PreparationInv => CancelledByUser
BY DEF PreparationInv, CancelledRests, StepsCancelledByUser, CancelledByUser

LEMMA InitPreparation == Init => PreparationInv
<1> SUFFICES ASSUME Init PROVE PreparationInv
  OBVIOUS
<1> USE PreparationAssumption
<1>1. Idle \in Handler
  BY DEF Idle, Handler
<1>2. [status |-> "absent", op |-> NoRun] \in Step
  BY DEF Step, Pending
<1>3. TypeOK
  BY <1>1, <1>2 DEF Init, TypeOK
<1>4. Handled /\ ClaimHeld /\ CancelledRests /\ StepsCancelledByUser
  BY DEF Init, Handled, ClaimHeld, CancelledRests, StepsCancelledByUser, Places, Idle
<1> QED
  BY <1>3, <1>4 DEF PreparationInv

-------------------------------------------------------------------------------
(* Types.  A new value at one place of handler, or of the step that a      *)
(* handler is at, has its type.                                            *)
LEMMA StepTyped ==
  ASSUME TypeOK, NEW r \in Runs, NEW j \in Jobs, handler[r].stage \in Stages
  PROVE  StepOf(r, j) \in Step
BY DEF TypeOK, StepOf

LEMMA SetStepTyped ==
  ASSUME TypeOK, NEW r \in Runs, NEW j \in Jobs, NEW value \in Step, SetStep(r, j, value)
  PROVE  steps' \in [Runs -> [Jobs -> [Stages -> Step]]]
BY DEF TypeOK, SetStep

LEMMA GoOnTyped ==
  ASSUME TypeOK, NEW r \in Runs, NEW isBlocked \in BOOLEAN,
         handler[r].stage \in Stages, GoOn(r, isBlocked)
  PROVE  handler' \in [Runs -> Handler]
<1>1. handler[r].stage + 1 \in 1..(NumStages + 1)
  BY PreparationAssumption DEF Stages
<1>2. handler[r] \in Handler
  BY DEF TypeOK
<1> DEFINE moved == [handler[r] EXCEPT !.at = "stages", !.stage = @ + 1, !.blocked = isBlocked]
<1>3. moved \in Handler
  BY <1>1, <1>2 DEF Handler
<1>4. handler' = [handler EXCEPT ![r] = moved]
  BY <1>2 DEF GoOn, Handler, TypeOK
<1> HIDE DEF moved
<1> QED
  BY <1>3, <1>4 DEF TypeOK

LEMMA MoveTyped ==
  ASSUME TypeOK, NEW r \in Runs,
         NEW place \in {"idle", "entered", "opened", "selecting", "jobs", "stages", "working",
                        "accepted", "stopping", "leaving", "closing", "returned", "raised",
                        "interrupted"},
         handler' = [handler EXCEPT ![r].at = place]
  PROVE  handler' \in [Runs -> Handler]
<1>1. handler[r] \in Handler
  BY DEF TypeOK
<1> DEFINE moved == [handler[r] EXCEPT !.at = place]
<1>2. moved \in Handler
  BY <1>1 DEF Handler
<1>3. handler' = [handler EXCEPT ![r] = moved]
  OBVIOUS
<1> HIDE DEF moved
<1> QED
  BY <1>2, <1>3 DEF TypeOK

(* A step of a stage: the checkpoint, the handler, or both.                *)
LEMMA StageType ==
  ASSUME TypeOK, NEW r \in Runs, NEW j \in Jobs,
         \/ PassStage(r, j)
         \/ BlockStage(r, j)
         \/ SkipStage(r, j)
         \/ StartStage(r, j)
         \/ Accept(r, j)
         \/ FinishStage(r, j)
         \/ FailStage(r, j)
         \/ Interrupt(r, j)
         \/ MarkInterrupted(r, j)
  PROVE  TypeOK'
<1> USE DEF durable, request, checkpoints
<1>0. handler[r] \in Handler
  BY DEF TypeOK
<1>a. \A status \in Pending \cup Done :
        handler[r].stage \in Stages => [StepOf(r, j) EXCEPT !.status = status] \in Step
  BY StepTyped DEF Step
<1>1. CASE PassStage(r, j)
  <2>1. handler[r].stage \in Stages /\ handler[r].blocked \in BOOLEAN
    BY <1>0, <1>1 DEF PassStage, At, Handler
  <2>2. handler' \in [Runs -> Handler]
    BY <1>1, <2>1, GoOnTyped DEF PassStage
  <2> QED
    BY <1>1, <2>2 DEF PassStage, TypeOK
<1>2. CASE BlockStage(r, j)
  <2>1. handler[r].stage \in Stages
    BY <1>2 DEF BlockStage, At
  <2>2. handler' \in [Runs -> Handler]
    BY <1>2, <2>1, GoOnTyped DEF BlockStage
  <2>3. steps' \in [Runs -> [Jobs -> [Stages -> Step]]]
    BY <1>2, <2>1, <1>a, SetStepTyped DEF BlockStage, Pending
  <2> QED
    BY <1>2, <2>2, <2>3 DEF BlockStage, TypeOK
<1>3. CASE SkipStage(r, j)
  <2>1. handler[r].stage \in Stages
    BY <1>3 DEF SkipStage, At
  <2>2. handler' \in [Runs -> Handler]
    BY <1>3, <2>1, GoOnTyped DEF SkipStage
  <2>3. steps' \in [Runs -> [Jobs -> [Stages -> Step]]]
    BY <1>3, <2>1, <1>a, SetStepTyped DEF SkipStage, Done
  <2> QED
    BY <1>3, <2>2, <2>3 DEF SkipStage, TypeOK
<1>4. CASE StartStage(r, j)
  <2>1. handler[r].stage \in Stages
    BY <1>4 DEF StartStage, At
  <2>2. handler' \in [Runs -> Handler]
    BY <1>4, MoveTyped DEF StartStage
  <2>3. [status |-> "running", op |-> FrozenOperation(r, j)] \in Step
    BY <2>1, StepTyped DEF FrozenOperation, Step, Pending
  <2>4. steps' \in [Runs -> [Jobs -> [Stages -> Step]]]
    BY <1>4, <2>3, SetStepTyped DEF StartStage
  <2> QED
    BY <1>4, <2>2, <2>4 DEF StartStage, TypeOK
<1>5. CASE Accept(r, j)
  <2>1. handler[r].stage \in Stages
    BY <1>5 DEF Accept, At
  <2>2. handler' \in [Runs -> Handler]
    BY <1>5, MoveTyped DEF Accept
  <2>3. <<StepOf(r, j).op, j, handler[r].stage>> \in Operation
    BY <2>1, StepTyped DEF Step, Operation
  <2>4. committed' \in SUBSET Operation
    BY <1>5, <2>3 DEF Accept, TypeOK
  <2> QED
    BY <1>5, <2>2, <2>4 DEF Accept, TypeOK
<1>6. CASE FinishStage(r, j)
  <2>1. handler[r].stage \in Stages
    BY <1>6 DEF FinishStage, At
  <2>2. handler' \in [Runs -> Handler]
    BY <1>6, <2>1, GoOnTyped DEF FinishStage
  <2>3. steps' \in [Runs -> [Jobs -> [Stages -> Step]]]
    BY <1>6, <2>1, <1>a, SetStepTyped DEF FinishStage, Done
  <2> QED
    BY <1>6, <2>2, <2>3 DEF FinishStage, TypeOK
<1>7. CASE FailStage(r, j)
  <2>1. handler[r].stage \in Stages
    BY <1>7 DEF FailStage, At
  <2>2. handler' \in [Runs -> Handler]
    BY <1>7, <2>1, GoOnTyped, MoveTyped DEF FailStage
  <2>3. steps' \in [Runs -> [Jobs -> [Stages -> Step]]]
    BY <1>7, <2>1, <1>a, SetStepTyped DEF FailStage, Pending
  <2> QED
    BY <1>7, <2>2, <2>3 DEF FailStage, TypeOK
<1>8. CASE Interrupt(r, j)
  <2>1. \E place \in {"leaving", "stopping"} : handler' = [handler EXCEPT ![r].at = place]
    BY <1>8 DEF Interrupt
  <2>2. handler' \in [Runs -> Handler]
    BY <2>1, MoveTyped
  <2> QED
    BY <1>8, <2>2 DEF Interrupt, TypeOK
<1>9. CASE MarkInterrupted(r, j)
  <2>1. handler[r].stage \in Stages
    BY <1>9 DEF MarkInterrupted, At
  <2>2. handler' \in [Runs -> Handler]
    BY <1>9, MoveTyped DEF MarkInterrupted
  <2>3. steps' \in [Runs -> [Jobs -> [Stages -> Step]]]
    <3>1. CASE revoked[r]
      BY <1>9, <2>1, <3>1, <1>a, SetStepTyped DEF MarkInterrupted, Pending
    <3>2. CASE ~revoked[r]
      BY <1>9, <3>2 DEF MarkInterrupted, TypeOK
    <3> QED
      BY <3>1, <3>2
  <2> QED
    BY <1>9, <2>2, <2>3 DEF MarkInterrupted, TypeOK
<1> QED
  BY <1>1, <1>2, <1>3, <1>4, <1>5, <1>6, <1>7, <1>8, <1>9

(* A step of a handler between its stages.                                 *)
LEMMA HandlerType ==
  ASSUME TypeOK, NEW r \in Runs,
         \/ Open(r)
         \/ Refuse(r)
         \/ Inherit(r)
         \/ SelectTargets(r)
         \/ FailSelection(r)
         \/ \E j \in Jobs :
              ClaimJob(r, j) \/ BusyJob(r, j) \/ ReleaseInterrupted(r, j) \/ FinishJob(r, j)
         \/ CloseInterrupted(r)
         \/ Conclude(r)
         \/ Settle(r)
  PROVE  TypeOK'
<1> USE DEF durable, request, checkpoints
<1>0. handler[r] \in Handler
  BY DEF TypeOK
<1>a. Idle \in Handler
  BY PreparationAssumption DEF Idle, Handler
<1>b. ASSUME NEW h \in Handler, handler' = [handler EXCEPT ![r] = h]
      PROVE  handler' \in [Runs -> Handler]
  BY <1>b DEF TypeOK
<1>1. CASE Open(r)
  <2>1. Requested(r) \in SUBSET Jobs
    BY DEF Requested, UnfinishedJobs, TypeOK
  <2>2. handler' \in [Runs -> Handler]
    BY <1>1, MoveTyped DEF Open
  <2> QED
    BY <1>1, <2>1, <2>2 DEF Open, TypeOK
<1>2. CASE Refuse(r)
  <2>1. handler' \in [Runs -> Handler]
    BY <1>2, MoveTyped DEF Refuse
  <2> QED
    BY <1>2, <2>1 DEF Refuse, TypeOK
<1>3. CASE Inherit(r)
  <2>1. handler' \in [Runs -> Handler]
    BY <1>3, MoveTyped DEF Inherit
  <2>2. ASSUME parent[r] # NoRun, NEW j \in Jobs, NEW s \in Stages
        PROVE  InheritedStep(r, j, s) \in Step
    <3>1. parent[r] \in Runs
      BY <2>2 DEF TypeOK
    <3>2. steps[r][j][s] \in Step /\ steps[parent[r]][j][s] \in Step
      BY <3>1 DEF TypeOK
    <3>3. [steps[parent[r]][j][s] EXCEPT !.status = "pending"] \in Step
      BY <3>2 DEF Step, Pending
    <3> QED
      BY <3>2, <3>3 DEF InheritedStep
  <2>3. steps' \in [Runs -> [Jobs -> [Stages -> Step]]]
    BY <1>3, <2>2 DEF Inherit, TypeOK
  <2> QED
    BY <1>3, <2>1, <2>3 DEF Inherit, TypeOK
<1>4. CASE SelectTargets(r)
  <2>1. targets' \in [Runs -> SUBSET Jobs]
    BY <1>4 DEF SelectTargets, TypeOK
  <2>2. [handler[r] EXCEPT !.at = "jobs", !.left = targets'[r]] \in Handler
    BY <1>0, <2>1 DEF Handler
  <2>3. handler' = [handler EXCEPT ![r] = [handler[r] EXCEPT !.at = "jobs", !.left = targets'[r]]]
    BY <1>4, <1>0 DEF SelectTargets, TypeOK
  <2>4. handler' \in [Runs -> Handler]
    BY <1>b, <2>2, <2>3
  <2>5. cohort' \in SUBSET Runs
    BY <1>4 DEF SelectTargets, TypeOK
  <2> QED
    BY <1>4, <2>1, <2>4, <2>5 DEF SelectTargets, TypeOK
<1>5. CASE FailSelection(r)
  <2>1. handler' \in [Runs -> Handler]
    BY <1>5, MoveTyped DEF FailSelection
  <2>2. prep' \in [Runs -> {"none", "running", "succeeded", "partial", "failed", "cancelled"}]
    BY <1>5 DEF FailSelection, TypeOK
  <2> QED
    BY <1>5, <2>1, <2>2 DEF FailSelection, TypeOK
<1>6. CASE \E j \in Jobs : ClaimJob(r, j)
  <2>1. PICK j \in Jobs : ClaimJob(r, j)
    BY <1>6
  <2> DEFINE claimed == [handler[r] EXCEPT !.at = "stages", !.job = {j}, !.stage = 1,
                                           !.blocked = FALSE, !.left = @ \ {j}]
  <2>a. 1 \in 1..(NumStages + 1)
    BY PreparationAssumption
  <2>2. claimed \in Handler
    BY <1>0, <2>a DEF Handler
  <2>b. handler' = [handler EXCEPT ![r] = claimed]
    BY <2>1 DEF ClaimJob
  <2> HIDE DEF claimed
  <2>3. handler' \in [Runs -> Handler]
    BY <2>b, <2>2, <1>b
  <2>4. claim' \in [Jobs -> Runs \cup {NoRun}]
    BY <2>1 DEF ClaimJob, TypeOK
  <2> QED
    BY <2>1, <2>3, <2>4 DEF ClaimJob, TypeOK
<1>7. CASE \E j \in Jobs : BusyJob(r, j)
  <2>1. PICK j \in Jobs : BusyJob(r, j)
    BY <1>7
  <2>2. [handler[r] EXCEPT !.left = @ \ {j}, !.failed = TRUE] \in Handler
    BY <1>0 DEF Handler
  <2>3. handler' = [handler EXCEPT ![r] = [handler[r] EXCEPT !.left = @ \ {j}, !.failed = TRUE]]
    BY <2>1, <1>0 DEF BusyJob, TypeOK
  <2>4. handler' \in [Runs -> Handler]
    BY <1>b, <2>2, <2>3
  <2> DEFINE refused(s) == IF s \notin Unfinished(r, j) THEN steps[r][j][s]
                           ELSE [steps[r][j][s] EXCEPT !.status =
                             IF \A t \in Unfinished(r, j) : s <= t THEN "failed" ELSE "blocked"]
  <2>5. \A s \in Stages : refused(s) \in Step
    <3> SUFFICES ASSUME NEW s \in Stages PROVE refused(s) \in Step
      OBVIOUS
    <3>1. steps[r][j][s] \in Step
      BY DEF TypeOK
    <3>2. /\ [steps[r][j][s] EXCEPT !.status = "failed"] \in Step
          /\ [steps[r][j][s] EXCEPT !.status = "blocked"] \in Step
      BY <3>1 DEF Step, Pending
    <3> QED
      BY <3>1, <3>2
  <2>c. steps' = [steps EXCEPT ![r][j] = [s \in Stages |-> refused(s)]]
    BY <2>1 DEF BusyJob
  <2> HIDE DEF refused
  <2>d. [s \in Stages |-> refused(s)] \in [Stages -> Step]
    BY <2>5
  <2>6. steps' \in [Runs -> [Jobs -> [Stages -> Step]]]
    BY <2>c, <2>d DEF TypeOK
  <2> QED
    BY <2>1, <2>4, <2>6 DEF BusyJob, TypeOK
<1>8. CASE \E j \in Jobs : ReleaseInterrupted(r, j)
  <2>1. PICK j \in Jobs : ReleaseInterrupted(r, j)
    BY <1>8
  <2>2. [handler[r] EXCEPT !.at = "closing", !.job = {}] \in Handler
    BY <1>0 DEF Handler
  <2>3. handler' = [handler EXCEPT ![r] = [handler[r] EXCEPT !.at = "closing", !.job = {}]]
    BY <2>1, <1>0 DEF ReleaseInterrupted, TypeOK
  <2>4. handler' \in [Runs -> Handler]
    BY <1>b, <2>2, <2>3
  <2>5. claim' \in [Jobs -> Runs \cup {NoRun}]
    BY <2>1 DEF ReleaseInterrupted, TypeOK
  <2> QED
    BY <2>1, <2>4, <2>5 DEF ReleaseInterrupted, TypeOK
<1>9. CASE \E j \in Jobs : FinishJob(r, j)
  <2>1. PICK j \in Jobs : FinishJob(r, j)
    BY <1>9
  <2>2. (handler[r].failed \/ handler[r].blocked) \in BOOLEAN
    OBVIOUS
  <2> DEFINE finished == [handler[r] EXCEPT !.at = "jobs", !.job = {},
                                            !.failed = @ \/ handler[r].blocked]
  <2>3. finished \in Handler
    BY <1>0, <2>2 DEF Handler
  <2>a. handler' = [handler EXCEPT ![r] = finished]
    BY <2>1 DEF FinishJob
  <2> HIDE DEF finished
  <2>4. handler' \in [Runs -> Handler]
    BY <2>3, <2>a, <1>b
  <2>5. claim' \in [Jobs -> Runs \cup {NoRun}]
    BY <2>1 DEF FinishJob, TypeOK
  <2> QED
    BY <2>1, <2>4, <2>5 DEF FinishJob, TypeOK
<1>10. CASE CloseInterrupted(r)
  <2>1. handler' \in [Runs -> Handler]
    BY <1>10, MoveTyped DEF CloseInterrupted
  <2>2. prep' \in [Runs -> {"none", "running", "succeeded", "partial", "failed", "cancelled"}]
    BY <1>10 DEF CloseInterrupted, TypeOK
  <2> QED
    BY <1>10, <2>1, <2>2 DEF CloseInterrupted, TypeOK
<1>11. CASE Conclude(r)
  <2>1. \E place \in {"raised", "returned"} : handler' = [handler EXCEPT ![r].at = place]
    BY <1>11 DEF Conclude
  <2>2. handler' \in [Runs -> Handler]
    BY <2>1, MoveTyped
  <2>3. prep' \in [Runs -> {"none", "running", "succeeded", "partial", "failed", "cancelled"}]
    BY <1>11 DEF Conclude, TypeOK
  <2> QED
    BY <1>11, <2>2, <2>3 DEF Conclude, TypeOK
<1>12. CASE Settle(r)
  <2>1. handler' \in [Runs -> Handler]
    BY <1>12, <1>a, <1>b DEF Settle
  <2>2. phase' \in [Runs -> {"absent", "open"} \cup Outcomes]
    BY <1>12 DEF Settle, TypeOK, Outcomes
  <2>3. working' \in [Runs -> BOOLEAN]
    BY <1>12 DEF Settle, TypeOK
  <2> QED
    BY <1>12, <2>1, <2>2, <2>3 DEF Settle, TypeOK
<1> QED
  BY <1>1, <1>2, <1>3, <1>4, <1>5, <1>6, <1>7, <1>8, <1>9, <1>10, <1>11, <1>12

(* A step of the durable run around the handler.                           *)
LEMMA EnvironmentType ==
  ASSUME TypeOK, NEW r \in Runs, Environment(r)
  PROVE  TypeOK'
<1> USE DEF durable, request, checkpoints
<1>1. CASE \E p \in Runs \cup {NoRun}, js \in Requests : Submit(r, p, js)
  BY <1>1, PreparationAssumption DEF Submit, TypeOK
<1>2. CASE Cancel(r)
  BY <1>2 DEF Cancel, TypeOK, Outcomes
<1>3. CASE Begin(r)
  <2>1. handler' \in [Runs -> Handler]
    BY <1>3, MoveTyped DEF Begin
  <2>2. attempts' \in [Runs -> 0..MaxAttempts]
    BY <1>3, PreparationAssumption DEF Begin, TypeOK
  <2> QED
    BY <1>3, <2>1, <2>2 DEF Begin, TypeOK
<1>4. CASE Crash(r)
  <2>1. Idle \in Handler
    BY PreparationAssumption DEF Idle, Handler
  <2> QED
    BY <1>4, <2>1 DEF Crash, TypeOK
<1>5. CASE CloseUnexecuted(r)
  BY <1>5 DEF CloseUnexecuted, TypeOK, Outcomes
<1> QED
  BY <1>1, <1>2, <1>3, <1>4, <1>5 DEF Environment

LEMMA StepType == TypeOK /\ [Next]_vars => TypeOK'
<1>1. ASSUME TypeOK, UNCHANGED vars PROVE TypeOK'
  BY <1>1 DEF TypeOK, vars, durable, request, checkpoints
<1>2. ASSUME TypeOK, NEW r \in Runs, RunStep(r) PROVE TypeOK'
  BY <1>2, StageType, HandlerType DEF RunStep, JobStep
<1> QED
  BY <1>1, <1>2, EnvironmentType DEF Next

-------------------------------------------------------------------------------
(* The links.  Most steps of a handler leave the durable run alone and     *)
(* move between places that are not "idle".                                *)
Links == Handled /\ ClaimHeld /\ CancelledRests /\ StepsCancelledByUser

(* What the steps inside of one job's stages do to everything the links    *)
(* speak of.                                                               *)
LEMMA StageMoves ==
  ASSUME TypeOK, NEW r \in Runs, NEW j \in Jobs,
         \/ PassStage(r, j)
         \/ BlockStage(r, j)
         \/ SkipStage(r, j)
         \/ StartStage(r, j)
         \/ Accept(r, j)
         \/ FinishStage(r, j)
         \/ FailStage(r, j)
         \/ Interrupt(r, j)
         \/ MarkInterrupted(r, j)
  PROVE  /\ UNCHANGED <<durable, prep, claim, targets>>
         /\ handler[r].at \in Places
         /\ handler[r].job = {j}
         /\ handler'[r].at \in Places \cup {"leaving"}
         /\ handler'[r].job = {j}
         /\ \A q \in Runs : q # r => handler'[q] = handler[q] /\ steps'[q] = steps[q]
         /\ \A i \in Jobs, s \in Stages :
              steps'[r][i][s].status = "cancelled" => steps[r][i][s].status = "cancelled" \/ revoked[r]
<1> USE DEF durable, request, checkpoints, Places
<1>0. handler \in [Runs -> Handler] /\ handler[r] \in Handler
  BY DEF TypeOK
<1>1. handler[r].at \in Places /\ handler[r].job = {j} /\ handler[r].stage \in Stages
  BY DEF PassStage, BlockStage, SkipStage, StartStage, Accept, FinishStage, FailStage,
     Interrupt, MarkInterrupted, At
<1>2. UNCHANGED <<durable, prep, claim, targets>>
  BY DEF PassStage, BlockStage, SkipStage, StartStage, Accept, FinishStage, FailStage,
     Interrupt, MarkInterrupted
<1>3. \/ \E b \in BOOLEAN : GoOn(r, b)
      \/ \E place \in {"working", "accepted", "stopping", "leaving"} :
           handler' = [handler EXCEPT ![r].at = place]
  <2>1. handler[r].blocked \in BOOLEAN
    BY <1>0 DEF Handler
  <2> QED
    BY <2>1 DEF PassStage, BlockStage, SkipStage, StartStage, Accept, FinishStage, FailStage,
       Interrupt, MarkInterrupted
<1>4. /\ handler'[r].at \in Places \cup {"leaving"}
      /\ handler'[r].job = {j}
      /\ \A q \in Runs : q # r => handler'[q] = handler[q]
  <2>1. CASE \E b \in BOOLEAN : GoOn(r, b)
    BY <2>1, <1>0, <1>1 DEF GoOn, Handler
  <2>2. CASE \E place \in {"working", "accepted", "stopping", "leaving"} :
               handler' = [handler EXCEPT ![r].at = place]
    BY <2>2, <1>0, <1>1 DEF Handler
  <2> QED
    BY <1>3, <2>1, <2>2
<1>5. \/ UNCHANGED steps
      \/ \E value \in Step : SetStep(r, j, value) /\ (value.status = "cancelled" => revoked[r])
  <2>1. StepOf(r, j) \in Step
    BY <1>1, StepTyped
  <2>2. ASSUME NEW status \in Pending \cup Done
        PROVE  /\ [StepOf(r, j) EXCEPT !.status = status] \in Step
               /\ [StepOf(r, j) EXCEPT !.status = status].status = status
    BY <2>1 DEF Step
  <2>3. CASE StartStage(r, j)
    <3>1. [status |-> "running", op |-> FrozenOperation(r, j)] \in Step
      BY <2>1 DEF FrozenOperation, Step, Pending
    <3> QED
      BY <2>3, <3>1 DEF StartStage
  <2>4. CASE BlockStage(r, j)
    BY <2>2, <2>4 DEF BlockStage, Pending
  <2>5. CASE SkipStage(r, j)
    BY <2>2, <2>5 DEF SkipStage, Done
  <2>6. CASE FinishStage(r, j)
    <3>1. /\ [StepOf(r, j) EXCEPT !.status = "succeeded"] \in Step
          /\ [StepOf(r, j) EXCEPT !.status = "succeeded"].status = "succeeded"
      BY <2>2 DEF Done
    <3> QED
      BY <2>6, <3>1 DEF FinishStage
  <2>7. CASE FailStage(r, j)
    BY <2>2, <2>7 DEF FailStage, Pending
  <2>8. CASE MarkInterrupted(r, j)
    BY <2>2, <2>8 DEF MarkInterrupted, Pending
  <2>9. CASE PassStage(r, j) \/ Accept(r, j) \/ Interrupt(r, j)
    BY <2>9 DEF PassStage, Accept, Interrupt
  <2> QED
    BY <2>3, <2>4, <2>5, <2>6, <2>7, <2>8, <2>9
<1>6. \A q \in Runs : q # r => steps'[q] = steps[q]
  BY <1>5 DEF SetStep, TypeOK
<1>7. \A i \in Jobs, s \in Stages :
        steps'[r][i][s].status = "cancelled" => steps[r][i][s].status = "cancelled" \/ revoked[r]
  <2> SUFFICES ASSUME NEW i \in Jobs, NEW s \in Stages, steps'[r][i][s].status = "cancelled",
                      NEW value \in Step, SetStep(r, j, value),
                      value.status = "cancelled" => revoked[r]
               PROVE  steps[r][i][s].status = "cancelled" \/ revoked[r]
    BY <1>5
  <2>1. steps'[r][i][s] = IF i = j /\ s = handler[r].stage THEN value ELSE steps[r][i][s]
    BY <1>1 DEF SetStep, TypeOK
  <2> QED
    BY <2>1
<1> QED
  BY <1>1, <1>2, <1>4, <1>6, <1>7

LEMMA StageLinks ==
  ASSUME PreparationInv, NEW r \in Runs, NEW j \in Jobs,
         \/ PassStage(r, j)
         \/ BlockStage(r, j)
         \/ SkipStage(r, j)
         \/ StartStage(r, j)
         \/ Accept(r, j)
         \/ FinishStage(r, j)
         \/ FailStage(r, j)
         \/ Interrupt(r, j)
         \/ MarkInterrupted(r, j)
  PROVE  Links'
<1>0. /\ UNCHANGED <<phase, working, revoked, prep, claim>>
      /\ handler[r].at \in Places
      /\ handler[r].job = {j}
      /\ handler'[r].at \in Places \cup {"leaving"}
      /\ handler'[r].job = {j}
      /\ \A q \in Runs : q # r => handler'[q] = handler[q] /\ steps'[q] = steps[q]
      /\ \A i \in Jobs, s \in Stages :
           steps'[r][i][s].status = "cancelled" => steps[r][i][s].status = "cancelled" \/ revoked[r]
  BY StageMoves DEF PreparationInv, durable
<1>1. Handled'
  BY <1>0 DEF PreparationInv, Handled, Places
<1>2. ClaimHeld'
  <2>1. claim[j] = r
    BY <1>0 DEF PreparationInv, ClaimHeld
  <2>2. \A i \in Jobs : handler'[r].job = {i} => i = j
    BY <1>0
  <2> QED
    BY <1>0, <2>1, <2>2 DEF PreparationInv, ClaimHeld
<1>3. CancelledRests'
  BY <1>0 DEF PreparationInv, CancelledRests, Places
<1>4. StepsCancelledByUser'
  BY <1>0 DEF PreparationInv, StepsCancelledByUser
<1> QED
  BY <1>1, <1>2, <1>3, <1>4 DEF Links

(* Steps between the stages that take no claim.                            *)
LEMMA HandlerMoves ==
  ASSUME PreparationInv, NEW r \in Runs,
         handler[r].at # "idle",
         UNCHANGED <<phase, working, revoked>>,
         handler'[r].at \notin Places \cup {"idle"},
         \A q \in Runs : q # r => handler'[q] = handler[q],
         \A j \in Jobs : claim'[j] = claim[j] \/ (claim[j] = r /\ handler'[r].job # {j}),
         \A q \in Runs : prep'[q] = "cancelled" =>
           \/ prep[q] = "cancelled" /\ (q # r \/ handler'[r].at = "interrupted")
           \/ q = r /\ revoked[r] /\ handler'[r].at = "interrupted",
         \A q \in Runs, j \in Jobs, s \in Stages :
           steps'[q][j][s].status = "cancelled" => steps[q][j][s].status = "cancelled"
  PROVE  Links'
<1>1. Handled'
  BY DEF PreparationInv, Handled
<1>2. ClaimHeld'
  BY DEF PreparationInv, ClaimHeld, Places
<1>3. CancelledRests'
  BY DEF PreparationInv, CancelledRests
<1>4. StepsCancelledByUser'
  BY DEF PreparationInv, StepsCancelledByUser
<1> QED
  BY <1>1, <1>2, <1>3, <1>4 DEF Links

LEMMA HandlerLinks ==
  ASSUME PreparationInv, NEW r \in Runs,
         \/ Open(r)
         \/ Refuse(r)
         \/ Inherit(r)
         \/ SelectTargets(r)
         \/ FailSelection(r)
         \/ \E j \in Jobs : BusyJob(r, j) \/ ReleaseInterrupted(r, j) \/ FinishJob(r, j)
         \/ CloseInterrupted(r)
         \/ Conclude(r)
  PROVE  Links'
<1> USE DEF durable, request, checkpoints, Places
<1>0. TypeOK /\ handler \in [Runs -> Handler] /\ handler[r] \in Handler
  BY DEF PreparationInv, TypeOK
<1>a. handler[r].at \notin {"idle", "interrupted"} => prep[r] # "cancelled"
  BY DEF PreparationInv, CancelledRests
<1>1. CASE Open(r)
  <2>1. \A q \in Runs : prep'[q] = "cancelled" => prep[q] = "cancelled" /\ q # r
    BY <1>0, <1>1, <1>a DEF Open, TypeOK
  <2> QED
    BY <1>0, <1>1, <2>1, HandlerMoves DEF Open, Handler
<1>2. CASE Refuse(r)
  <2>1. \A q \in Runs : prep'[q] = "cancelled" => prep[q] = "cancelled" /\ q # r
    BY <1>2, <1>a DEF Refuse
  <2> QED
    BY <1>0, <1>2, <2>1, HandlerMoves DEF Refuse, Handler
<1>3. CASE Inherit(r)
  <2>1. \A q \in Runs : prep'[q] = "cancelled" => prep[q] = "cancelled" /\ q # r
    BY <1>3, <1>a DEF Inherit
  <2>2. \A j \in Jobs, s \in Stages : parent[r] # NoRun =>
          (InheritedStep(r, j, s).status = "cancelled" => steps[r][j][s].status = "cancelled")
    <3> SUFFICES ASSUME NEW j \in Jobs, NEW s \in Stages, parent[r] # NoRun,
                        InheritedStep(r, j, s).status = "cancelled"
                 PROVE  steps[r][j][s].status = "cancelled"
      OBVIOUS
    <3>1. parent[r] \in Runs
      BY <1>0 DEF TypeOK
    <3>2. steps[parent[r]][j][s] \in Step
      BY <1>0, <3>1 DEF TypeOK
    <3>3. [steps[parent[r]][j][s] EXCEPT !.status = "pending"].status = "pending"
      BY <3>2 DEF Step
    <3> QED
      BY <3>2, <3>3 DEF InheritedStep, Done
  <2>3. \A q \in Runs, j \in Jobs, s \in Stages :
          steps'[q][j][s].status = "cancelled" => steps[q][j][s].status = "cancelled"
    <3>1. CASE parent[r] = NoRun
      BY <1>3, <3>1 DEF Inherit
    <3>2. CASE parent[r] # NoRun
      <4>1. \A q \in Runs, j \in Jobs, s \in Stages :
              steps'[q][j][s] = IF q = r /\ j \in frozen[r] THEN InheritedStep(r, j, s)
                                ELSE steps[q][j][s]
        BY <1>0, <1>3, <3>2 DEF Inherit, TypeOK
      <4> QED
        BY <4>1, <2>2, <3>2
    <3> QED
      BY <3>1, <3>2
  <2> QED
    BY <1>0, <1>3, <2>1, <2>3, HandlerMoves DEF Inherit, Handler
<1>4. CASE SelectTargets(r)
  <2>1. \A q \in Runs : prep'[q] = "cancelled" => prep[q] = "cancelled" /\ q # r
    BY <1>4, <1>a DEF SelectTargets
  <2> QED
    BY <1>0, <1>4, <2>1, HandlerMoves DEF SelectTargets, Handler
<1>5. CASE FailSelection(r)
  <2>1. \A q \in Runs : prep'[q] = "cancelled" => prep[q] = "cancelled" /\ q # r
    BY <1>0, <1>5, <1>a DEF FailSelection, TypeOK
  <2> QED
    BY <1>0, <1>5, <2>1, HandlerMoves DEF FailSelection, Handler
<1>6. CASE \E j \in Jobs : BusyJob(r, j)
  <2>1. PICK j \in Jobs : BusyJob(r, j)
    BY <1>6
  <2>2. \A q \in Runs : prep'[q] = "cancelled" => prep[q] = "cancelled" /\ q # r
    BY <2>1, <1>a DEF BusyJob
  <2>3. \A s \in Stages :
          steps'[r][j][s].status = "cancelled" => steps[r][j][s].status = "cancelled"
    <3> SUFFICES ASSUME NEW s \in Stages, steps'[r][j][s].status = "cancelled"
                 PROVE  steps[r][j][s].status = "cancelled"
      OBVIOUS
    <3>1. steps[r][j][s] \in Step
      BY <1>0 DEF TypeOK
    <3>2. \/ steps'[r][j][s] = steps[r][j][s]
          \/ \E status \in {"failed", "blocked"} :
               steps'[r][j][s] = [steps[r][j][s] EXCEPT !.status = status]
      BY <1>0, <2>1 DEF BusyJob, TypeOK
    <3> QED
      BY <3>1, <3>2 DEF Step
  <2>4. \A q \in Runs, i \in Jobs : q # r \/ i # j => steps'[q][i] = steps[q][i]
    BY <1>0, <2>1 DEF BusyJob, TypeOK
  <2>5. \A q \in Runs, i \in Jobs, s \in Stages :
          steps'[q][i][s].status = "cancelled" => steps[q][i][s].status = "cancelled"
    BY <2>3, <2>4
  <2>6. handler'[r].at = "jobs" /\ (\A q \in Runs : q # r => handler'[q] = handler[q])
    BY <1>0, <2>1 DEF BusyJob, Handler
  <2>7. handler[r].at # "idle" /\ UNCHANGED <<phase, working, revoked, claim>>
    BY <2>1 DEF BusyJob
  <2> QED
    BY <2>2, <2>5, <2>6, <2>7, HandlerMoves
<1>7. CASE \E j \in Jobs : ReleaseInterrupted(r, j)
  <2>1. PICK j \in Jobs : ReleaseInterrupted(r, j)
    BY <1>7
  <2>2. \A q \in Runs : prep'[q] = "cancelled" => prep[q] = "cancelled" /\ q # r
    BY <2>1, <1>a DEF ReleaseInterrupted
  <2>3. /\ handler'[r].at = "closing"
        /\ handler'[r].job = {}
        /\ \A q \in Runs : q # r => handler'[q] = handler[q]
    BY <1>0, <2>1 DEF ReleaseInterrupted, Handler
  <2>4. \A i \in Jobs : claim'[i] = claim[i] \/ (claim[i] = r /\ handler'[r].job # {i})
    BY <1>0, <2>1, <2>3 DEF ReleaseInterrupted, TypeOK
  <2>5. handler[r].at # "idle" /\ UNCHANGED <<phase, working, revoked, steps>>
    BY <2>1 DEF ReleaseInterrupted
  <2> QED
    BY <2>2, <2>3, <2>4, <2>5, HandlerMoves
<1>8. CASE \E j \in Jobs : FinishJob(r, j)
  <2>1. PICK j \in Jobs : FinishJob(r, j)
    BY <1>8
  <2>2. \A q \in Runs : prep'[q] = "cancelled" => prep[q] = "cancelled" /\ q # r
    BY <2>1, <1>a DEF FinishJob
  <2>3. /\ handler'[r].at = "jobs"
        /\ handler'[r].job = {}
        /\ \A q \in Runs : q # r => handler'[q] = handler[q]
    BY <1>0, <2>1 DEF FinishJob, Handler
  <2>4. \A i \in Jobs : claim'[i] = claim[i] \/ (claim[i] = r /\ handler'[r].job # {i})
    BY <1>0, <2>1, <2>3 DEF FinishJob, TypeOK
  <2>5. handler[r].at # "idle" /\ UNCHANGED <<phase, working, revoked, steps>>
    BY <2>1 DEF FinishJob
  <2> QED
    BY <2>2, <2>3, <2>4, <2>5, HandlerMoves
<1>9. CASE CloseInterrupted(r)
  <2>1. /\ handler'[r].at = "interrupted"
        /\ \A q \in Runs : q # r => handler'[q] = handler[q]
    BY <1>0, <1>9 DEF CloseInterrupted, Handler
  <2>2. \A q \in Runs : prep'[q] = "cancelled" =>
          \/ prep[q] = "cancelled" /\ q # r
          \/ q = r /\ revoked[r]
    <3>1. CASE revoked[r]
      <4>1. prep' = [prep EXCEPT ![r] = "cancelled"]
        BY <1>9, <3>1 DEF CloseInterrupted
      <4>2. \A q \in Runs : q # r => prep'[q] = prep[q]
        BY <4>1, <1>0 DEF TypeOK
      <4> QED
        BY <3>1, <4>2
    <3>2. CASE ~revoked[r]
      BY <1>9, <3>2, <1>a DEF CloseInterrupted
    <3> QED
      BY <3>1, <3>2
  <2> QED
    BY <1>0, <1>9, <2>1, <2>2, HandlerMoves DEF CloseInterrupted
<1>10. CASE Conclude(r)
  <2>1. /\ handler'[r].at \in {"raised", "returned"}
        /\ \A q \in Runs : q # r => handler'[q] = handler[q]
    BY <1>0, <1>10 DEF Conclude, Handler
  <2>2. \A q \in Runs : prep'[q] = "cancelled" => prep[q] = "cancelled" /\ q # r
    <3>1. PICK status \in {"partial", "succeeded"} : prep' = [prep EXCEPT ![r] = status]
      BY <1>10 DEF Conclude
    <3>2. \A q \in Runs : prep'[q] = IF q = r THEN status ELSE prep[q]
      BY <1>0, <3>1 DEF TypeOK
    <3> QED
      BY <3>2
  <2> QED
    BY <1>0, <1>10, <2>1, <2>2, HandlerMoves DEF Conclude
<1> QED
  BY <1>1, <1>2, <1>3, <1>4, <1>5, <1>6, <1>7, <1>8, <1>9, <1>10

(* A claim is only taken from a run that has ended, whose handler is       *)
(* nowhere.                                                                *)
LEMMA ClaimLinks ==
  ASSUME PreparationInv, NEW r \in Runs, NEW j \in Jobs, ClaimJob(r, j)
  PROVE  Links'
<1> USE DEF durable, request
<1>0. TypeOK /\ handler[r].at = "jobs"
  BY DEF PreparationInv, ClaimJob
<1>1. /\ handler'[r].at = "stages"
      /\ handler'[r].job = {j}
      /\ \A q \in Runs : q # r => handler'[q] = handler[q]
  BY <1>0 DEF ClaimJob, TypeOK, Handler
<1>2. ASSUME NEW q \in Runs, q # r, handler[q].at \in Places, handler[q].job = {j}
      PROVE  FALSE
  <2>1. claim[j] = q /\ phase[q] = "open"
    BY <1>2 DEF PreparationInv, ClaimHeld, Handled, Places
  <2>2. Reclaimable(q)
    BY <1>2, <2>1, PreparationAssumption DEF ClaimJob, MayClaim
  <2> QED
    BY <2>1, <2>2 DEF Reclaimable, Outcomes
<1>3. claim'[j] = r /\ \A i \in Jobs : i # j => claim'[i] = claim[i]
  BY <1>0 DEF ClaimJob, TypeOK
<1>4. Handled'
  BY <1>0, <1>1 DEF PreparationInv, Handled, ClaimJob
<1>5. ClaimHeld'
  BY <1>1, <1>2, <1>3 DEF PreparationInv, ClaimHeld
<1>6. CancelledRests'
  BY <1>0, <1>1 DEF PreparationInv, CancelledRests, ClaimJob
<1>7. StepsCancelledByUser'
  BY DEF PreparationInv, StepsCancelledByUser, ClaimJob
<1> QED
  BY <1>4, <1>5, <1>6, <1>7 DEF Links

(* The durable run opens, closes and abandons its handler, and records the *)
(* user's cancellation.                                                    *)
LEMMA DurableLinks ==
  ASSUME PreparationInv, NEW r \in Runs, Environment(r) \/ Settle(r)
  PROVE  Links'
<1> USE DEF durable, request, checkpoints, Places
<1>0. TypeOK /\ handler \in [Runs -> Handler] /\ handler[r] \in Handler
  BY DEF PreparationInv, TypeOK
<1>1. CASE \E p \in Runs \cup {NoRun}, js \in Requests : Submit(r, p, js)
  <2>1. PICK p \in Runs \cup {NoRun}, js \in Requests : Submit(r, p, js)
    BY <1>1
  <2>2. Handled'
    BY <1>0, <2>1 DEF PreparationInv, TypeOK, Handled, Submit
  <2> QED
    BY <2>1, <2>2 DEF Submit, Links, PreparationInv, ClaimHeld, CancelledRests, StepsCancelledByUser
<1>2. CASE Cancel(r)
  <2>1. /\ UNCHANGED <<working, prep, steps, claim, handler>>
        /\ \A q \in Runs : revoked[q] => revoked'[q]
        /\ \A q \in Runs : working[q] => phase'[q] = phase[q]
    BY <1>0, <1>2 DEF Cancel, TypeOK
  <2> QED
    BY <2>1 DEF Links, PreparationInv, Handled, ClaimHeld, CancelledRests, StepsCancelledByUser
<1>3. CASE Begin(r)
  <2>1. /\ UNCHANGED <<phase, revoked, prep, steps, claim>>
        /\ handler'[r].at = "entered"
        /\ working'[r] /\ phase[r] = "open" /\ ~revoked[r]
        /\ \A q \in Runs : q # r => handler'[q] = handler[q] /\ working'[q] = working[q]
    BY <1>0, <1>3 DEF Begin, TypeOK, Handler
  <2>2. Handled'
    BY <2>1 DEF PreparationInv, Handled
  <2>3. ClaimHeld' /\ CancelledRests'
    BY <2>1 DEF PreparationInv, ClaimHeld, CancelledRests
  <2>4. StepsCancelledByUser'
    BY <2>1 DEF PreparationInv, StepsCancelledByUser
  <2> QED
    BY <2>2, <2>3, <2>4 DEF Links
<1>4. CASE Crash(r) \/ Settle(r)
  <2>1. /\ UNCHANGED <<revoked, prep, steps, claim>>
        /\ handler'[r].at = "idle"
        /\ ~working'[r]
        /\ \A q \in Runs : q # r =>
             handler'[q] = handler[q] /\ working'[q] = working[q] /\ phase'[q] = phase[q]
    BY <1>0, <1>4 DEF Crash, Settle, TypeOK, Idle
  <2>2. Handled'
    BY <2>1 DEF PreparationInv, Handled
  <2>3. ClaimHeld' /\ CancelledRests'
    BY <2>1 DEF PreparationInv, ClaimHeld, CancelledRests
  <2>4. StepsCancelledByUser'
    BY <2>1 DEF PreparationInv, StepsCancelledByUser
  <2> QED
    BY <2>2, <2>3, <2>4 DEF Links
<1>5. CASE CloseUnexecuted(r)
  <2>1. /\ UNCHANGED <<working, revoked, prep, steps, claim, handler>>
        /\ \A q \in Runs : working[q] => phase'[q] = phase[q]
    BY <1>0, <1>5 DEF CloseUnexecuted, TypeOK
  <2> QED
    BY <2>1 DEF Links, PreparationInv, Handled, ClaimHeld, CancelledRests, StepsCancelledByUser
<1> QED
  BY <1>1, <1>2, <1>3, <1>4, <1>5 DEF Environment

LEMMA StepPreparation == PreparationInv /\ [Next]_vars => PreparationInv'
<1> SUFFICES ASSUME PreparationInv, [Next]_vars PROVE PreparationInv'
  OBVIOUS
<1>1. TypeOK'
  BY StepType DEF PreparationInv
<1>2. ASSUME NEW r \in Runs, RunStep(r) PROVE Links'
  BY <1>2, StageLinks, HandlerLinks, ClaimLinks, DurableLinks DEF RunStep, JobStep
<1>3. ASSUME UNCHANGED vars PROVE Links'
  BY <1>3 DEF vars, durable, request, checkpoints, Links, PreparationInv, Handled, ClaimHeld,
     CancelledRests, StepsCancelledByUser
<1>4. Links'
  BY <1>2, <1>3, DurableLinks DEF Next
<1> QED
  BY <1>1, <1>4 DEF Links, PreparationInv

-------------------------------------------------------------------------------
(* The inductive invariant of the links.                                   *)
THEOREM PreparationInvariant == Spec => []PreparationInv
BY InitPreparation, StepPreparation, PTL DEF Spec

(* At no time are two preparations at a stage of the same job.             *)
THEOREM OneWriterHolds == Spec => []OneWriter
BY PreparationInvariant, OneWriterFollows, PTL

(* Nothing is recorded as cancelled that the user did not cancel.          *)
THEOREM CancelledByUserHolds == Spec => []CancelledByUser
BY PreparationInvariant, CancelledFollows, PTL

(* A step of a run whose preparation is not cancelled leaves the cancelled *)
(* preparations alone; a cancelled one takes no step that writes.          *)
LEMMA CancelledStepStays ==
  ASSUME PreparationInv, [Next]_vars
  PROVE  \A r \in Runs : prep[r] = "cancelled" => UNCHANGED <<prep[r], steps[r], targets[r]>>
<1> USE DEF durable, request, checkpoints
<1> SUFFICES ASSUME NEW r \in Runs, prep[r] = "cancelled"
             PROVE  UNCHANGED <<prep[r], steps[r], targets[r]>>
  OBVIOUS
<1>0. TypeOK /\ handler[r].at \in {"idle", "interrupted"}
  BY DEF PreparationInv, CancelledRests
<1>1. ASSUME NEW q \in Runs, RunStep(q)
      PROVE  UNCHANGED <<prep[r], steps[r], targets[r]>>
  <2>1. CASE Settle(q) \/ Refuse(q)
    BY <2>1 DEF Settle, Refuse
  <2>2. CASE \/ Open(q) \/ Inherit(q) \/ SelectTargets(q) \/ FailSelection(q)
             \/ CloseInterrupted(q) \/ Conclude(q)
    <3>1. q # r
      BY <1>0, <2>2 DEF Open, Inherit, SelectTargets, FailSelection, CloseInterrupted, Conclude
    <3> QED
      BY <1>0, <2>2, <3>1 DEF Open, Inherit, SelectTargets, FailSelection, CloseInterrupted,
         Conclude, TypeOK
  <2>3. CASE \E j \in Jobs :
               ClaimJob(q, j) \/ BusyJob(q, j) \/ ReleaseInterrupted(q, j) \/ FinishJob(q, j)
    <3>1. q # r
      BY <1>0, <2>3 DEF ClaimJob, BusyJob, ReleaseInterrupted, FinishJob
    <3> QED
      BY <1>0, <2>3, <3>1 DEF ClaimJob, BusyJob, ReleaseInterrupted, FinishJob, TypeOK
  <2>4. CASE \E j \in Jobs : \/ PassStage(q, j) \/ BlockStage(q, j) \/ SkipStage(q, j)
                             \/ StartStage(q, j) \/ Accept(q, j) \/ FinishStage(q, j)
                             \/ FailStage(q, j) \/ Interrupt(q, j) \/ MarkInterrupted(q, j)
    <3>1. /\ UNCHANGED <<prep, targets>>
          /\ handler[q].at \in Places
          /\ q # r => steps'[r] = steps[r]
      BY <1>0, <2>4, StageMoves
    <3>2. q # r
      BY <1>0, <3>1 DEF Places
    <3> QED
      BY <3>1, <3>2
  <2> QED
    BY <1>1, <2>1, <2>2, <2>3, <2>4 DEF RunStep, JobStep
<1>2. ASSUME NEW q \in Runs, Environment(q)
      PROVE  UNCHANGED <<prep[r], steps[r], targets[r]>>
  BY <1>2 DEF Environment, Submit, Cancel, Begin, Crash, CloseUnexecuted
<1>3. CASE UNCHANGED vars
  BY <1>3 DEF vars
<1> QED
  BY <1>1, <1>2, <1>3 DEF Next

(* A cancelled preparation does nothing more.                              *)
THEOREM CancelledStaysHolds == Spec => CancelledStays
<1>1. PreparationInv /\ [Next]_vars =>
        [\A r \in Runs : prep[r] = "cancelled" => UNCHANGED <<prep[r], steps[r], targets[r]>>]_vars
  BY CancelledStepStays
<1> QED
  BY <1>1, PreparationInvariant, PTL DEF Spec, CancelledStays

-------------------------------------------------------------------------------
(* Each step is one step of the durable run of one run and no step of the  *)
(* durable runs of the others.                                             *)
LEMMA DurableStep ==
  ASSUME PreparationInv, [Next]_vars
  PROVE  \A r \in Runs : Durable(r)!Next \/ UNCHANGED Durable(r)!vars
<1> USE DEF durable, request, checkpoints
<1> SUFFICES ASSUME NEW r \in Runs
             PROVE  Durable(r)!Next \/ UNCHANGED <<phase[r], working[r], revoked[r]>>
  BY DEF Durable!vars
<1>0. TypeOK /\ Handled
  BY DEF PreparationInv
<1>1. ASSUME NEW q \in Runs, Environment(q) \/ Settle(q), q # r
      PROVE  UNCHANGED <<phase[r], working[r], revoked[r]>>
  BY <1>0, <1>1 DEF Environment, Submit, Cancel, Begin, Crash, CloseUnexecuted, Settle, TypeOK
<1>2. ASSUME NEW q \in Runs, RunStep(q), ~Settle(q)
      PROVE  UNCHANGED <<phase, working, revoked>>
  BY <1>2 DEF RunStep, JobStep, Open, Refuse, Inherit, SelectTargets, FailSelection,
     CloseInterrupted, Conclude, ClaimJob, BusyJob, PassStage, BlockStage, SkipStage, StartStage,
     Accept, FinishStage, FailStage, Interrupt, MarkInterrupted, ReleaseInterrupted, FinishJob
<1>3. ASSUME \E p \in Runs \cup {NoRun}, js \in Requests : Submit(r, p, js)
      PROVE  Durable(r)!Admit
  BY <1>0, <1>3 DEF Submit, TypeOK, Durable!Admit
<1>4. ASSUME Cancel(r) PROVE Durable(r)!Revoke
  BY <1>0, <1>4 DEF Cancel, TypeOK, Durable!Revoke
<1>5. ASSUME Begin(r) PROVE Durable(r)!Begin
  BY <1>0, <1>5 DEF Begin, TypeOK, Durable!Begin
<1>6. ASSUME Crash(r) PROVE Durable(r)!Abandon
  BY <1>0, <1>6 DEF Crash, TypeOK, Durable!Abandon
<1>7. ASSUME CloseUnexecuted(r) PROVE Durable(r)!Close
  BY <1>0, <1>7 DEF CloseUnexecuted, TypeOK, Durable!Close
<1>8. ASSUME Settle(r) PROVE Durable(r)!Finish \/ Durable(r)!Abandon
  <2>1. working[r] /\ phase[r] = "open"
    BY <1>0, <1>8 DEF Handled, Settle
  <2>2. ~working'[r] /\ revoked' = revoked
    BY <1>0, <1>8 DEF Settle, TypeOK
  <2>3. \/ phase'[r] \in {"succeeded", "failed", "open"}
        \/ phase'[r] = "cancelled" /\ revoked[r]
    BY <1>0, <1>8 DEF Settle, TypeOK, LeavesOpen
  <2> QED
    BY <2>1, <2>2, <2>3, <1>0 DEF TypeOK, Settle, Durable!Finish, Durable!Abandon
<1> QED
  BY <1>1, <1>2, <1>3, <1>4, <1>5, <1>6, <1>7, <1>8 DEF Next, Environment, vars, Durable!Next

(* Around its handler a preparation does what a durable run may do: what   *)
(* is assumed here of the action layer is what ActionRun is shown to       *)
(* implement.                                                              *)
THEOREM RunsAreDurableHolds == Spec => RunsAreDurable
<1>1. Init => \A r \in Runs : Durable(r)!Init
  BY DEF Init, Durable!Init
<1>2. PreparationInv /\ [Next]_vars =>
        [\A r \in Runs : Durable(r)!Next \/ UNCHANGED Durable(r)!vars]_durable
  BY DurableStep
<1> QED
  BY <1>1, <1>2, PreparationInvariant, PTL DEF Spec, RunsAreDurable
-------------------------------------------------------------------------------
(* The saved stages.  A handler that works on a stage is at a running step *)
(* of its job, whose operation the feature has accepted before the handler *)
(* says so;                                                                *)
Busy == {"stages", "working", "accepted"}

AtWork(r) ==
  \A j \in Jobs :
    handler[r].at \in {"working", "accepted", "stopping"} /\ handler[r].job = {j} =>
      /\ handler[r].stage \in Stages
      /\ steps[r][j][handler[r].stage].status = "running"
      /\ handler[r].at = "accepted" =>
           <<steps[r][j][handler[r].stage].op, j, handler[r].stage>> \in committed

(* it has passed only finished stages, unless it is blocked;               *)
Behind(r) ==
  \A j \in Jobs :
    /\ handler[r].at \in Busy /\ handler[r].job = {j}
    /\ handler[r].at = "stages" => ~handler[r].blocked
    => \A t \in Stages : t < handler[r].stage => steps[r][j][t].status \in Done

(* the jobs it is done with are finished, unless it knows of a failure;    *)
Finished(r, j) == \A s \in Stages : steps[r][j][s].status \in Done

Progress(r) ==
  /\ handler[r].at \in Busy \cup {"jobs"} => r \in cohort
  /\ handler[r].at \in Busy \cup {"jobs"} /\ ~handler[r].failed =>
       \A j \in targets[r] \ handler[r].left :
         (handler[r].at # "jobs" => j \notin handler[r].job) => Finished(r, j)

(* what says it succeeded has finished all of them; and a step that was    *)
(* never written has no operation.                                         *)
Concluded(r) ==
  /\ prep[r] = "succeeded" => r \in cohort /\ \A j \in targets[r] : Finished(r, j)
  /\ phase[r] = "succeeded" \/ handler[r].at = "returned" => prep[r] = "succeeded"

Sound(step, j, s, accepted) ==
  /\ step.status = "succeeded" => <<step.op, j, s>> \in accepted
  /\ step.status = "absent" => step.op = NoRun

Checkpointed(r) == \A j \in Jobs, s \in Stages : Sound(steps[r][j][s], j, s, committed)

RunEvidence(r) == AtWork(r) /\ Behind(r) /\ Progress(r) /\ Concluded(r) /\ Checkpointed(r)

EvidenceInv == \A r \in Runs : RunEvidence(r)

(* A checkpoint may be replaced by one that keeps what is finished and the *)
(* identity that was started.                                              *)
Kept(old, new) ==
  /\ old.status \in Done => new = old
  /\ old.op # NoRun => new.op = old.op

StepsKept(r) == \A j \in Jobs, s \in Stages : Kept(steps[r][j][s], steps'[r][j][s])

LEMMA EvidenceFollows == PreparationInv /\ EvidenceInv => Evidence
<1> SUFFICES ASSUME PreparationInv, EvidenceInv PROVE Evidence
  OBVIOUS
<1>1. StagesInOrder
  BY DEF EvidenceInv, RunEvidence, Behind, Busy, StagesInOrder
<1>2. SuccessIsComplete
  BY DEF EvidenceInv, RunEvidence, Concluded, Finished, SuccessIsComplete
<1>3. CheckpointIsAccepted
  BY DEF EvidenceInv, RunEvidence, Checkpointed, Sound, CheckpointIsAccepted
<1> QED
  BY <1>1, <1>2, <1>3, CancelledFollows DEF Evidence

LEMMA InitEvidence == Init => EvidenceInv
BY DEF Init, EvidenceInv, RunEvidence, AtWork, Behind, Progress, Concluded, Checkpointed, Sound,
   Busy, Idle

(* A run that another one's step leaves alone.                             *)
LEMMA SameRun ==
  ASSUME NEW r \in Runs, RunEvidence(r),
         UNCHANGED <<handler[r], steps[r], targets[r], prep[r]>>,
         phase'[r] = "succeeded" => phase[r] = "succeeded",
         cohort \subseteq cohort', committed \subseteq committed'
  PROVE  RunEvidence(r)' /\ StepsKept(r)
BY DEF RunEvidence, AtWork, Behind, Progress, Concluded, Checkpointed, Sound, Finished, StepsKept,
   Kept

(* A handler that is outside of its jobs has no part in the evidence.      *)
LEMMA Away ==
  ASSUME NEW r \in Runs, handler'[r].at \notin Busy \cup {"jobs", "stopping"}
  PROVE  AtWork(r)' /\ Behind(r)' /\ Progress(r)'
BY DEF AtWork, Behind, Progress, Busy

(* Checkpoints that are kept keep a success complete.                      *)
LEMMA ConcludedStays ==
  ASSUME NEW r \in Runs, Concluded(r), StepsKept(r),
         prep'[r] = "succeeded" => prep[r] = "succeeded",
         r \in cohort => targets'[r] = targets[r],
         targets'[r] \subseteq Jobs,
         cohort \subseteq cohort',
         phase'[r] # "succeeded", handler'[r].at # "returned"
  PROVE  Concluded(r)'
BY DEF Concluded, Finished, StepsKept, Kept

(* A step of a handler at stage k of job j, which may write that stage's   *)
(* checkpoint.                                                             *)
LEMMA StageEvidence ==
  ASSUME TypeOK, NEW r \in Runs, RunEvidence(r), NEW j \in Jobs, NEW k \in Stages, NEW v,
         handler[r].stage = k, steps'[r][j][k] = v,
         phase[r] = "open",
         UNCHANGED <<phase, prep, cohort, targets>>, committed \subseteq committed',
         handler[r].at \in Places, handler[r].job = {j},
         \A i \in Jobs, s \in Stages : i # j \/ s # k => steps'[r][i][s] = steps[r][i][s],
         Kept(steps[r][j][k], v), Sound(v, j, k, committed'),
         handler'[r].at \in Places \cup {"leaving"},
         handler'[r].job = {j},
         handler'[r].left = handler[r].left, handler'[r].failed = handler[r].failed,
         handler'[r].at \in Busy => handler[r].at \in Busy,
         handler'[r].at # "stages" => handler'[r].stage = k,
         handler'[r].at \in {"working", "accepted", "stopping"} => v.status = "running",
         handler'[r].at = "accepted" => <<v.op, j, k>> \in committed',
         handler'[r].at \in {"working", "accepted"} /\ handler[r].at = "stages" =>
           ~handler[r].blocked,
         handler'[r].at = "stages" =>
           /\ handler'[r].stage = k + 1
           /\ ~handler'[r].blocked =>
                v.status \in Done /\ (handler[r].at = "stages" => ~handler[r].blocked)
  PROVE  RunEvidence(r)' /\ StepsKept(r)
<1> USE DEF Places
<1>a. k \in Nat /\ Stages \subseteq Nat
  BY PreparationAssumption DEF Stages
<1>1. StepsKept(r)
  BY DEF StepsKept, Kept
<1>2. AtWork(r)'
  BY DEF AtWork
<1>3. Behind(r)'
  <2> SUFFICES ASSUME handler'[r].at \in Busy, handler'[r].at = "stages" => ~handler'[r].blocked,
                      NEW t \in Stages, t < handler'[r].stage
               PROVE  steps'[r][j][t].status \in Done
    BY DEF Behind
  <2>1. handler[r].at \in Busy /\ (handler[r].at = "stages" => ~handler[r].blocked)
    BY DEF Busy
  <2>2. \A u \in Stages : u < k => steps[r][j][u].status \in Done
    BY <2>1 DEF RunEvidence, Behind
  <2>3. CASE t = k
    BY <2>3, <1>a DEF Busy
  <2>4. CASE t # k
    <3>1. t < k
      BY <2>4, <1>a DEF Busy
    <3> QED
      BY <3>1, <2>2, <2>4
  <2> QED
    BY <2>3, <2>4
<1>4. Progress(r)'
  <2>1. handler'[r].at # "jobs"
    OBVIOUS
  <2>2. \A i \in Jobs : Finished(r, i) => Finished(r, i)'
    BY <1>1 DEF StepsKept, Kept, Finished
  <2>3. targets[r] \subseteq Jobs
    BY DEF TypeOK
  <2>4. handler[r].at # "jobs"
    OBVIOUS
  <2> QED
    BY <2>1, <2>2, <2>3, <2>4 DEF RunEvidence, Progress, Busy
<1>5. Concluded(r)'
  BY <1>1, ConcludedStays DEF RunEvidence, TypeOK
<1>6. Checkpointed(r)'
  BY DEF RunEvidence, Checkpointed, Sound
<1> QED
  BY <1>1, <1>2, <1>3, <1>4, <1>5, <1>6 DEF RunEvidence

(* What the two ways to go on and the writing of a checkpoint do to the    *)
(* handler and the steps.                                                  *)
LEMMA SetStepAt ==
  ASSUME TypeOK, NEW r \in Runs, NEW j \in Jobs, NEW value,
         handler[r].stage \in Stages, SetStep(r, j, value)
  PROVE  /\ steps'[r][j][handler[r].stage] = value
         /\ \A i \in Jobs, s \in Stages :
              i # j \/ s # handler[r].stage => steps'[r][i][s] = steps[r][i][s]
BY DEF TypeOK, SetStep

LEMMA GoOnAt ==
  ASSUME TypeOK, NEW r \in Runs, NEW isBlocked, GoOn(r, isBlocked)
  PROVE  /\ handler'[r].at = "stages"
         /\ handler'[r].stage = handler[r].stage + 1
         /\ handler'[r].blocked = isBlocked
         /\ handler'[r].job = handler[r].job
         /\ handler'[r].left = handler[r].left
         /\ handler'[r].failed = handler[r].failed
<1>1. handler \in [Runs -> Handler] /\ handler[r] \in Handler
  BY DEF TypeOK
<1> QED
  BY <1>1 DEF GoOn, Handler

LEMMA MoveAt ==
  ASSUME TypeOK, NEW r \in Runs, NEW place, handler' = [handler EXCEPT ![r].at = place]
  PROVE  /\ handler'[r].at = place
         /\ handler'[r].stage = handler[r].stage
         /\ handler'[r].blocked = handler[r].blocked
         /\ handler'[r].job = handler[r].job
         /\ handler'[r].left = handler[r].left
         /\ handler'[r].failed = handler[r].failed
<1>1. handler \in [Runs -> Handler] /\ handler[r] \in Handler
  BY DEF TypeOK
<1> QED
  BY <1>1 DEF Handler

StageStep(r, j) ==
  \/ PassStage(r, j)
  \/ BlockStage(r, j)
  \/ SkipStage(r, j)
  \/ StartStage(r, j)
  \/ Accept(r, j)
  \/ FinishStage(r, j)
  \/ FailStage(r, j)
  \/ Interrupt(r, j)
  \/ MarkInterrupted(r, j)

LEMMA StageStepEvidence ==
  ASSUME PreparationInv, NEW r \in Runs, RunEvidence(r), NEW j \in Jobs, StageStep(r, j)
  PROVE  RunEvidence(r)' /\ StepsKept(r)
<1> USE DEF durable, request, checkpoints, Places
<1> DEFINE k == handler[r].stage
<1>0. TypeOK /\ phase[r] = "open"
  <2>1. handler[r].at # "idle"
    BY DEF StageStep, PassStage, BlockStage, SkipStage, StartStage, Accept, FinishStage, FailStage,
       Interrupt, MarkInterrupted, At
  <2> QED
    BY <2>1 DEF PreparationInv, Handled
<1>1. /\ k \in Stages
      /\ handler[r].at \in Places /\ handler[r].job = {j}
      /\ UNCHANGED <<phase, prep, cohort, targets>>
  BY DEF StageStep, PassStage, BlockStage, SkipStage, StartStage, Accept, FinishStage, FailStage,
     Interrupt, MarkInterrupted, At
<1>2. StepOf(r, j) \in Step /\ StepOf(r, j) = steps[r][j][k]
  BY <1>0, <1>1, StepTyped DEF StepOf
<1>3. \A status \in Pending \cup Done :
        /\ [StepOf(r, j) EXCEPT !.status = status].status = status
        /\ [StepOf(r, j) EXCEPT !.status = status].op = StepOf(r, j).op
  BY <1>2 DEF Step
<1>4. Sound(StepOf(r, j), j, k, committed)
  BY <1>1, <1>2 DEF RunEvidence, Checkpointed
<1>5. handler[r].at \in {"working", "accepted", "stopping"} =>
        StepOf(r, j).status = "running" /\ StepOf(r, j).status \notin Done
  BY <1>1, <1>2 DEF RunEvidence, AtWork, Done
<1>6. UNCHANGED steps =>
        /\ steps'[r][j][k] = StepOf(r, j)
        /\ \A i \in Jobs, s \in Stages : i # j \/ s # k => steps'[r][i][s] = steps[r][i][s]
  BY <1>2
<1>7. Kept(steps[r][j][k], StepOf(r, j))
  BY <1>2 DEF Kept
<1> HIDE DEF k
<1>8. ASSUME NEW status \in Pending \ {"absent"},
             SetStep(r, j, [StepOf(r, j) EXCEPT !.status = status]),
             StepOf(r, j).status \notin Done, committed' = committed,
             \/ handler[r].at \in Busy /\ GoOn(r, TRUE)
             \/ handler' = [handler EXCEPT ![r].at = "leaving"]
      PROVE  RunEvidence(r)' /\ StepsKept(r)
  <2> DEFINE v == [StepOf(r, j) EXCEPT !.status = status]
  <2>0. committed' = committed
    BY <1>8
  <2>1. v.status = status /\ v.op = StepOf(r, j).op
    BY <1>3
  <2>2. Kept(steps[r][j][k], v) /\ Sound(v, j, k, committed')
    BY <1>2, <1>8, <2>1 DEF Kept, Sound, Pending
  <2>3. /\ steps'[r][j][k] = v
        /\ \A i \in Jobs, s \in Stages : i # j \/ s # k => steps'[r][i][s] = steps[r][i][s]
    BY <1>0, <1>1, <1>8, SetStepAt DEF k
  <2> HIDE DEF v
  <2>4. CASE handler[r].at \in Busy /\ GoOn(r, TRUE)
    <3>1. /\ handler'[r].at = "stages" /\ handler'[r].stage = k + 1 /\ handler'[r].blocked = TRUE
          /\ handler'[r].job = {j} /\ handler'[r].left = handler[r].left
          /\ handler'[r].failed = handler[r].failed
      BY <1>0, <1>1, <2>4, GoOnAt DEF k
    <3> QED
      BY <1>0, <1>1, <2>0, <2>2, <2>3, <2>4, <3>1, StageEvidence DEF k, Busy
  <2>5. CASE handler' = [handler EXCEPT ![r].at = "leaving"]
    <3>1. /\ handler'[r].at = "leaving" /\ handler'[r].stage = k
          /\ handler'[r].job = {j} /\ handler'[r].left = handler[r].left
          /\ handler'[r].failed = handler[r].failed
      BY <1>0, <1>1, <2>5, MoveAt DEF k
    <3> QED
      BY <1>0, <1>1, <1>8, <2>2, <2>3, <3>1, StageEvidence DEF k, Busy
  <2> QED
    BY <1>8, <2>4, <2>5
<1>9. CASE PassStage(r, j)
  <2>1. handler[r].at = "stages" /\ StepOf(r, j).status \in Done /\ GoOn(r, handler[r].blocked)
    BY <1>9 DEF PassStage, At
  <2>2. UNCHANGED <<steps, committed>>
    BY <1>9 DEF PassStage
  <2> QED
    BY <1>0, <1>1, <1>4, <1>6, <1>7, <2>1, <2>2, GoOnAt, StageEvidence DEF k, Busy, Sound
<1>10. CASE BlockStage(r, j)
  <2>1. /\ SetStep(r, j, [StepOf(r, j) EXCEPT !.status = "blocked"])
        /\ StepOf(r, j).status \notin Done /\ GoOn(r, TRUE) /\ committed' = committed
        /\ handler[r].at \in Busy
    BY <1>10 DEF BlockStage, At, Busy
  <2> QED
    BY <2>1, <1>8 DEF Pending
<1>11. CASE SkipStage(r, j) \/ FinishStage(r, j)
  <2> DEFINE status == IF SkipStage(r, j) THEN "skipped" ELSE "succeeded"
             v == [StepOf(r, j) EXCEPT !.status = status]
  <2>1. v.status \in Done /\ v.status = status /\ v.op = StepOf(r, j).op
    BY <1>3 DEF Done
  <2>2. SetStep(r, j, v) /\ GoOn(r, FALSE) /\ committed' = committed
    BY <1>11 DEF SkipStage, FinishStage
  <2>3. StepOf(r, j).status \notin Done
    BY <1>5, <1>11 DEF SkipStage, FinishStage, At
  <2>4. v.status = "succeeded" => <<v.op, j, k>> \in committed
    <3>1. v.status = "succeeded" => FinishStage(r, j)
      BY <1>11, <2>1
    <3>a. FinishStage(r, j) => handler[r].at = "accepted"
      BY DEF FinishStage, At
    <3>2. handler[r].at = "accepted" => <<StepOf(r, j).op, j, k>> \in committed
      BY <1>1, <1>2 DEF RunEvidence, AtWork, k
    <3> QED
      BY <2>1, <3>1, <3>a, <3>2
  <2>5. handler[r].at = "stages" => ~handler[r].blocked
    BY <1>11 DEF SkipStage, FinishStage, At
  <2>6. handler[r].at \in Busy
    BY <1>11 DEF SkipStage, FinishStage, At, Busy
  <2>7. /\ steps'[r][j][k] = v
        /\ \A i \in Jobs, s \in Stages : i # j \/ s # k => steps'[r][i][s] = steps[r][i][s]
    BY <1>0, <1>1, <2>2, SetStepAt DEF k
  <2> HIDE DEF v, status
  <2>8. Kept(steps[r][j][k], v) /\ Sound(v, j, k, committed')
    BY <1>2, <2>1, <2>2, <2>3, <2>4 DEF Kept, Sound, Done
  <2>9. /\ handler'[r].at = "stages" /\ handler'[r].stage = k + 1 /\ handler'[r].blocked = FALSE
        /\ handler'[r].job = {j} /\ handler'[r].left = handler[r].left
        /\ handler'[r].failed = handler[r].failed
    BY <1>0, <1>1, <2>2, GoOnAt DEF k
  <2> QED
    BY <1>0, <1>1, <2>1, <2>2, <2>5, <2>6, <2>7, <2>8, <2>9, StageEvidence DEF k
<1>12. CASE StartStage(r, j)
  <2> DEFINE v == [status |-> "running", op |-> FrozenOperation(r, j)]
  <2>1. /\ SetStep(r, j, v) /\ committed' = committed /\ handler[r].at = "stages"
        /\ handler' = [handler EXCEPT ![r].at = "working"]
        /\ ~handler[r].blocked /\ StepOf(r, j).status \notin Done
    BY <1>12 DEF StartStage, At
  <2>2. v.status = "running" /\ (StepOf(r, j).op # NoRun => v.op = StepOf(r, j).op)
    BY DEF FrozenOperation
  <2>3. /\ steps'[r][j][k] = v
        /\ \A i \in Jobs, s \in Stages : i # j \/ s # k => steps'[r][i][s] = steps[r][i][s]
    BY <1>0, <1>1, <2>1, SetStepAt DEF k
  <2> HIDE DEF v
  <2>4. Kept(steps[r][j][k], v) /\ Sound(v, j, k, committed')
    BY <1>2, <2>1, <2>2 DEF Kept, Sound
  <2>5. /\ handler'[r].at = "working" /\ handler'[r].stage = k
        /\ handler'[r].job = {j} /\ handler'[r].left = handler[r].left
        /\ handler'[r].failed = handler[r].failed
    BY <1>0, <1>1, <2>1, MoveAt DEF k
  <2> QED
    BY <1>0, <1>1, <2>1, <2>2, <2>3, <2>4, <2>5, StageEvidence DEF k, Busy
<1>13. CASE Accept(r, j)
  <2>1. /\ handler[r].at = "working" /\ UNCHANGED steps
        /\ handler' = [handler EXCEPT ![r].at = "accepted"]
        /\ committed \subseteq committed' /\ <<StepOf(r, j).op, j, k>> \in committed'
    BY <1>13 DEF Accept, At, k
  <2>2. Sound(StepOf(r, j), j, k, committed') /\ StepOf(r, j).status = "running"
    BY <1>2, <1>5, <2>1 DEF Sound, StepOf
  <2> QED
    BY <1>0, <1>1, <1>4, <1>5, <1>6, <1>7, <2>1, <2>2, MoveAt, StageEvidence DEF k, Busy, Sound
<1>14. CASE FailStage(r, j)
  <2>1. /\ StepOf(r, j).status \notin Done /\ committed' = committed
        /\ handler[r].at \in Busy
    BY <1>5, <1>14 DEF FailStage, At, Pending, Done, Busy
  <2>2. CASE revoked[r]
    BY <1>8, <1>14, <2>1, <2>2 DEF FailStage, Pending
  <2>3. CASE ~revoked[r]
    BY <1>8, <1>14, <2>1, <2>3 DEF FailStage, Pending
  <2> QED
    BY <2>2, <2>3
<1>15. CASE Interrupt(r, j)
  <2>1. UNCHANGED <<steps, committed>>
    BY <1>15 DEF Interrupt
  <2>2. PICK place \in {"leaving", "stopping"} :
          /\ handler' = [handler EXCEPT ![r].at = place]
          /\ place = "stopping" => handler[r].at \in {"working", "accepted"}
    BY <1>15 DEF Interrupt, At
  <2>3. place = "stopping" => StepOf(r, j).status = "running"
    BY <1>5, <2>2
  <2>4. Sound(StepOf(r, j), j, k, committed')
    BY <1>2, <1>4, <2>1 DEF Sound
  <2>5. /\ handler'[r].at = place /\ handler'[r].stage = k
        /\ handler'[r].job = {j} /\ handler'[r].left = handler[r].left
        /\ handler'[r].failed = handler[r].failed
    BY <1>0, <1>1, <2>2, MoveAt DEF k
  <2> QED
    BY <1>0, <1>1, <1>6, <1>7, <2>1, <2>2, <2>3, <2>4, <2>5, StageEvidence DEF k, Busy
<1>16. CASE MarkInterrupted(r, j)
  <2>1. /\ handler[r].at = "stopping" /\ committed' = committed
        /\ handler' = [handler EXCEPT ![r].at = "leaving"]
    BY <1>16 DEF MarkInterrupted, At
  <2>2. CASE revoked[r]
    BY <1>5, <1>8, <1>16, <2>1, <2>2 DEF MarkInterrupted, Pending
  <2>3. CASE ~revoked[r]
    <3>1. UNCHANGED steps
      BY <1>16, <2>3 DEF MarkInterrupted
    <3>2. /\ handler'[r].at = "leaving" /\ handler'[r].stage = k
          /\ handler'[r].job = {j} /\ handler'[r].left = handler[r].left
          /\ handler'[r].failed = handler[r].failed
      BY <1>0, <1>1, <2>1, MoveAt DEF k
    <3> QED
      BY <1>0, <1>1, <1>4, <1>6, <1>7, <2>1, <3>1, <3>2, StageEvidence DEF k, Busy, Sound
  <2> QED
    BY <2>2, <2>3
<1> QED
  BY <1>9, <1>10, <1>11, <1>12, <1>13, <1>14, <1>15, <1>16 DEF StageStep

(* The steps between the stages write no checkpoint, but for those of      *)
(* Inherit and BusyJob.                                                    *)
LEMMA Unwritten ==
  ASSUME NEW r \in Runs, RunEvidence(r), UNCHANGED <<steps[r], committed>>
  PROVE  StepsKept(r) /\ Checkpointed(r)'
BY DEF RunEvidence, Checkpointed, Sound, StepsKept, Kept

LEMMA OutsideEvidence ==
  ASSUME PreparationInv, NEW r \in Runs, RunEvidence(r),
         \/ Open(r)
         \/ Refuse(r)
         \/ FailSelection(r)
         \/ \E j \in Jobs : ReleaseInterrupted(r, j)
         \/ CloseInterrupted(r)
  PROVE  RunEvidence(r)' /\ StepsKept(r)
<1> USE DEF durable, request, checkpoints
<1>0. handler \in [Runs -> Handler] /\ handler[r] \in Handler /\ targets[r] \subseteq Jobs
  BY DEF PreparationInv, TypeOK
<1>1. handler'[r].at \in {"opened", "raised", "closing", "interrupted"}
  BY <1>0 DEF Open, Refuse, FailSelection, ReleaseInterrupted, CloseInterrupted, Handler
<1>2. /\ handler[r].at # "idle"
      /\ UNCHANGED <<phase, cohort, targets, steps, committed>>
  BY DEF Open, Refuse, FailSelection, ReleaseInterrupted, CloseInterrupted
<1>3. prep'[r] = "succeeded" => prep[r] = "succeeded"
  BY DEF Open, Refuse, FailSelection, ReleaseInterrupted, CloseInterrupted, PreparationInv, TypeOK
<1>4. phase'[r] # "succeeded"
  BY <1>2 DEF PreparationInv, Handled
<1>5. StepsKept(r) /\ Checkpointed(r)'
  BY <1>2, Unwritten
<1>6. Concluded(r)'
  BY <1>0, <1>1, <1>2, <1>3, <1>4, <1>5, ConcludedStays DEF RunEvidence
<1>7. AtWork(r)' /\ Behind(r)' /\ Progress(r)'
  BY <1>1, Away DEF Busy
<1> QED
  BY <1>5, <1>6, <1>7 DEF RunEvidence

(* What a retry takes over is as sound as it was for its parent.           *)
LEMMA InheritEvidence ==
  ASSUME PreparationInv, EvidenceInv, NEW r \in Runs, Inherit(r)
  PROVE  RunEvidence(r)' /\ StepsKept(r)
<1> USE DEF durable, request, checkpoints
<1>0. /\ TypeOK /\ RunEvidence(r)
      /\ handler \in [Runs -> Handler] /\ handler[r] \in Handler /\ targets[r] \subseteq Jobs
  BY DEF PreparationInv, TypeOK, EvidenceInv
<1>1. /\ handler'[r].at = "selecting" /\ handler[r].at # "idle"
      /\ UNCHANGED <<phase, prep, cohort, targets, committed>>
  BY <1>0 DEF Inherit, Handler
<1>2. \A j \in Jobs, s \in Stages :
        /\ Kept(steps[r][j][s], steps'[r][j][s])
        /\ Sound(steps'[r][j][s], j, s, committed)
  <2> SUFFICES ASSUME NEW j \in Jobs, NEW s \in Stages
               PROVE  /\ Kept(steps[r][j][s], steps'[r][j][s])
                      /\ Sound(steps'[r][j][s], j, s, committed)
    OBVIOUS
  <2>1. Sound(steps[r][j][s], j, s, committed)
    BY <1>0 DEF RunEvidence, Checkpointed
  <2>2. CASE steps'[r][j][s] = steps[r][j][s]
    BY <2>1, <2>2 DEF Kept
  <2>3. CASE steps'[r][j][s] # steps[r][j][s]
    <3>1. parent[r] \in Runs /\ steps'[r][j][s] = InheritedStep(r, j, s)
      BY <1>0, <2>3 DEF Inherit, TypeOK
    <3> DEFINE theirs == steps[parent[r]][j][s]
    <3>2. theirs \in Step /\ Sound(theirs, j, s, committed)
      BY <1>0, <3>1 DEF TypeOK, EvidenceInv, RunEvidence, Checkpointed
    <3>3. steps[r][j][s].status = "absent"
      BY <2>3, <3>1 DEF InheritedStep
    <3>4. Kept(steps[r][j][s], steps'[r][j][s])
      BY <2>1, <3>3 DEF Kept, Sound, Done
    <3>5. \/ steps'[r][j][s] = theirs
          \/ steps'[r][j][s] = [theirs EXCEPT !.status = "pending"]
      BY <2>3, <3>1 DEF InheritedStep
    <3>6. Sound([theirs EXCEPT !.status = "pending"], j, s, committed)
      BY <3>2 DEF Sound, Step
    <3> QED
      BY <3>2, <3>4, <3>5, <3>6
  <2> QED
    BY <2>2, <2>3
<1>3. StepsKept(r) /\ Checkpointed(r)'
  BY <1>1, <1>2 DEF StepsKept, Checkpointed, Sound
<1>4. phase'[r] # "succeeded"
  BY <1>1 DEF PreparationInv, Handled
<1>5. Concluded(r)'
  BY <1>0, <1>1, <1>3, <1>4, ConcludedStays DEF RunEvidence
<1>6. AtWork(r)' /\ Behind(r)' /\ Progress(r)'
  BY <1>1, Away DEF Busy
<1> QED
  BY <1>3, <1>5, <1>6 DEF RunEvidence

LEMMA SelectEvidence ==
  ASSUME PreparationInv, NEW r \in Runs, RunEvidence(r), SelectTargets(r)
  PROVE  RunEvidence(r)' /\ StepsKept(r)
<1> USE DEF durable, request, checkpoints
<1>0. TypeOK /\ handler \in [Runs -> Handler] /\ handler[r] \in Handler
  BY DEF PreparationInv, TypeOK
<1>1. /\ handler[r].at = "selecting" /\ cohort' = cohort \cup {r}
      /\ UNCHANGED <<phase, prep, steps, committed>>
  BY DEF SelectTargets
<1>2. handler'[r].at = "jobs" /\ handler'[r].left = targets'[r]
  <2>1. handler'[r] = [handler[r] EXCEPT !.at = "jobs", !.left = targets'[r]]
    BY <1>0 DEF SelectTargets
  <2> QED
    BY <1>0, <2>1 DEF Handler
<1>3. r \in cohort => targets'[r] = targets[r]
  BY DEF SelectTargets
<1>4. targets'[r] \subseteq Jobs
  BY <1>0 DEF SelectTargets, TypeOK
<1>5. StepsKept(r) /\ Checkpointed(r)'
  BY <1>1, Unwritten
<1>6. phase'[r] # "succeeded"
  BY <1>1 DEF PreparationInv, Handled
<1>7. Concluded(r)'
  BY <1>1, <1>2, <1>3, <1>4, <1>5, <1>6, ConcludedStays DEF RunEvidence
<1>8. AtWork(r)' /\ Behind(r)'
  BY <1>2 DEF AtWork, Behind, Busy
<1>9. Progress(r)'
  BY <1>1, <1>2 DEF Progress, Busy
<1> QED
  BY <1>5, <1>7, <1>8, <1>9 DEF RunEvidence

LEMMA ClaimEvidence ==
  ASSUME PreparationInv, NEW r \in Runs, RunEvidence(r), NEW j \in Jobs, ClaimJob(r, j)
  PROVE  RunEvidence(r)' /\ StepsKept(r)
<1> USE DEF durable, request, checkpoints
<1>0. /\ handler \in [Runs -> Handler] /\ handler[r] \in Handler
      /\ targets \in [Runs -> SUBSET Jobs]
  BY DEF PreparationInv, TypeOK
<1>1. /\ handler[r].at = "jobs"
      /\ UNCHANGED <<phase, prep, cohort, targets, steps, committed>>
  BY DEF ClaimJob
<1>2. /\ handler'[r].at = "stages" /\ handler'[r].job = {j} /\ handler'[r].stage = 1
      /\ handler'[r].left = handler[r].left \ {j} /\ handler'[r].failed = handler[r].failed
  BY <1>0 DEF ClaimJob, Handler
<1>3. StepsKept(r) /\ Checkpointed(r)'
  BY <1>1, Unwritten
<1>4. phase'[r] # "succeeded"
  BY <1>1 DEF PreparationInv, Handled
<1>5. Concluded(r)'
  BY <1>0, <1>1, <1>2, <1>3, <1>4, ConcludedStays DEF RunEvidence
<1>6. AtWork(r)'
  BY <1>2 DEF AtWork
<1>7. Behind(r)'
  <2>1. \A t \in Stages : ~(t < 1)
    BY PreparationAssumption DEF Stages
  <2> QED
    BY <1>2, <2>1 DEF Behind
<1>8. Progress(r)'
  BY <1>0, <1>1, <1>2 DEF RunEvidence, Progress, Busy, Finished
<1> QED
  BY <1>3, <1>5, <1>6, <1>7, <1>8 DEF RunEvidence

LEMMA BusyEvidence ==
  ASSUME PreparationInv, NEW r \in Runs, RunEvidence(r), NEW j \in Jobs, BusyJob(r, j)
  PROVE  RunEvidence(r)' /\ StepsKept(r)
<1> USE DEF durable, request, checkpoints
<1>0. /\ TypeOK /\ handler \in [Runs -> Handler] /\ handler[r] \in Handler
      /\ targets \in [Runs -> SUBSET Jobs]
  BY DEF PreparationInv, TypeOK
<1>1. /\ handler[r].at = "jobs"
      /\ UNCHANGED <<phase, prep, cohort, targets, committed>>
  BY DEF BusyJob
<1>2. handler'[r].at = "jobs" /\ handler'[r].failed
  <2>1. handler'[r] = [handler[r] EXCEPT !.left = @ \ {j}, !.failed = TRUE]
    BY <1>0 DEF BusyJob
  <2> QED
    BY <1>0, <1>1, <2>1 DEF Handler
<1>3. \A i \in Jobs, s \in Stages :
        \/ steps'[r][i][s] = steps[r][i][s]
        \/ /\ steps[r][i][s].status \notin Done
           /\ \E status \in {"failed", "blocked"} :
                steps'[r][i][s] = [steps[r][i][s] EXCEPT !.status = status]
  <2> SUFFICES ASSUME NEW i \in Jobs, NEW s \in Stages, steps'[r][i][s] # steps[r][i][s]
               PROVE  /\ steps[r][i][s].status \notin Done
                      /\ \E status \in {"failed", "blocked"} :
                           steps'[r][i][s] = [steps[r][i][s] EXCEPT !.status = status]
    OBVIOUS
  <2>1. i = j
    BY <1>0 DEF BusyJob, TypeOK
  <2>2. steps'[r][j][s] =
          IF s \notin Unfinished(r, j) THEN steps[r][j][s]
          ELSE [steps[r][j][s] EXCEPT !.status =
                  IF \A t \in Unfinished(r, j) : s <= t THEN "failed" ELSE "blocked"]
    BY <1>0 DEF BusyJob, TypeOK
  <2>3. s \in Unfinished(r, j)
    BY <2>1, <2>2
  <2> QED
    BY <2>1, <2>2, <2>3 DEF Unfinished
<1>4. \A i \in Jobs, s \in Stages :
        /\ Kept(steps[r][i][s], steps'[r][i][s])
        /\ Sound(steps'[r][i][s], i, s, committed)
  <2> SUFFICES ASSUME NEW i \in Jobs, NEW s \in Stages
               PROVE  /\ Kept(steps[r][i][s], steps'[r][i][s])
                      /\ Sound(steps'[r][i][s], i, s, committed)
    OBVIOUS
  <2>1. steps[r][i][s] \in Step /\ Sound(steps[r][i][s], i, s, committed)
    BY <1>0 DEF TypeOK, RunEvidence, Checkpointed
  <2>2. \A status \in {"failed", "blocked"} :
          /\ [steps[r][i][s] EXCEPT !.status = status].status = status
          /\ [steps[r][i][s] EXCEPT !.status = status].op = steps[r][i][s].op
    BY <2>1 DEF Step
  <2> QED
    BY <1>3, <2>1, <2>2 DEF Kept, Sound
<1>5. StepsKept(r) /\ Checkpointed(r)'
  BY <1>1, <1>4 DEF StepsKept, Checkpointed, Sound
<1>6. phase'[r] # "succeeded"
  BY <1>1 DEF PreparationInv, Handled
<1>7. Concluded(r)'
  BY <1>0, <1>1, <1>2, <1>5, <1>6, ConcludedStays DEF RunEvidence
<1>8. AtWork(r)' /\ Behind(r)'
  BY <1>2 DEF AtWork, Behind, Busy
<1>9. Progress(r)'
  BY <1>1, <1>2 DEF RunEvidence, Progress, Busy
<1> QED
  BY <1>5, <1>7, <1>8, <1>9 DEF RunEvidence

(* A job that is left without a failure has passed all of its stages.      *)
LEMMA FinishEvidence ==
  ASSUME PreparationInv, NEW r \in Runs, RunEvidence(r), NEW j \in Jobs, FinishJob(r, j)
  PROVE  RunEvidence(r)' /\ StepsKept(r)
<1> USE DEF durable, request, checkpoints
<1>0. /\ handler \in [Runs -> Handler] /\ handler[r] \in Handler
      /\ targets \in [Runs -> SUBSET Jobs]
  BY DEF PreparationInv, TypeOK
<1>1. /\ handler[r].at = "stages" /\ handler[r].job = {j} /\ handler[r].stage > NumStages
      /\ UNCHANGED <<phase, prep, cohort, targets, steps, committed>>
  BY DEF FinishJob
<1>2. /\ handler'[r].at = "jobs" /\ handler'[r].left = handler[r].left
      /\ ~handler'[r].failed => ~handler[r].failed /\ ~handler[r].blocked
  <2>1. handler'[r] = [handler[r] EXCEPT !.at = "jobs", !.job = {},
                                         !.failed = handler[r].failed \/ handler[r].blocked]
    BY <1>0 DEF FinishJob
  <2>2. /\ handler'[r].at = "jobs" /\ handler'[r].left = handler[r].left
        /\ handler'[r].failed = (handler[r].failed \/ handler[r].blocked)
    BY <1>0, <2>1 DEF Handler
  <2> QED
    BY <2>2
<1>3. StepsKept(r) /\ Checkpointed(r)'
  BY <1>1, Unwritten
<1>4. phase'[r] # "succeeded"
  BY <1>1 DEF PreparationInv, Handled
<1>5. Concluded(r)'
  BY <1>0, <1>1, <1>2, <1>3, <1>4, ConcludedStays DEF RunEvidence
<1>6. AtWork(r)' /\ Behind(r)'
  BY <1>2 DEF AtWork, Behind, Busy
<1>7. ~handler[r].blocked => Finished(r, j)
  <2>1. \A t \in Stages : t < handler[r].stage
    BY <1>0, <1>1, PreparationAssumption DEF Stages, Handler
  <2> QED
    BY <1>1, <2>1 DEF RunEvidence, Behind, Busy, Finished
<1>8. Progress(r)'
  <2>1. r \in cohort'
    BY <1>1 DEF RunEvidence, Progress, Busy
  <2>2. ASSUME ~handler'[r].failed, NEW i \in targets[r] \ handler[r].left
        PROVE  Finished(r, i)
    <3>1. CASE i = j
      BY <1>2, <1>7, <2>2, <3>1
    <3>2. CASE i # j
      BY <1>1, <1>2, <2>2, <3>2 DEF RunEvidence, Progress, Busy
    <3> QED
      BY <3>1, <3>2
  <2> QED
    BY <1>1, <1>2, <2>1, <2>2 DEF Progress, Finished
<1> QED
  BY <1>3, <1>5, <1>6, <1>8 DEF RunEvidence

LEMMA ConcludeEvidence ==
  ASSUME PreparationInv, NEW r \in Runs, RunEvidence(r), Conclude(r)
  PROVE  RunEvidence(r)' /\ StepsKept(r)
<1> USE DEF durable, request, checkpoints
<1>0. /\ handler \in [Runs -> Handler] /\ handler[r] \in Handler
      /\ prep \in [Runs -> {"none", "running", "succeeded", "partial", "failed", "cancelled"}]
  BY DEF PreparationInv, TypeOK
<1>1. /\ handler[r].at = "jobs" /\ handler[r].left = {}
      /\ UNCHANGED <<phase, cohort, targets, steps, committed>>
  BY DEF Conclude
<1>2. /\ handler'[r].at = IF handler[r].failed THEN "raised" ELSE "returned"
      /\ prep'[r] = IF handler[r].failed THEN "partial" ELSE "succeeded"
  BY <1>0 DEF Conclude, Handler
<1>3. StepsKept(r) /\ Checkpointed(r)'
  BY <1>1, Unwritten
<1>4. phase'[r] # "succeeded"
  BY <1>1 DEF PreparationInv, Handled
<1>5. ~handler[r].failed => r \in cohort /\ \A j \in targets[r] : Finished(r, j)
  BY <1>1 DEF RunEvidence, Progress, Busy
<1>6. Concluded(r)'
  BY <1>1, <1>2, <1>4, <1>5 DEF Concluded, Finished
<1>7. AtWork(r)' /\ Behind(r)' /\ Progress(r)'
  BY <1>2, Away DEF Busy
<1> QED
  BY <1>3, <1>6, <1>7 DEF RunEvidence

(* The durable run only records a success that the handler returned with.  *)
LEMMA DurableEvidence ==
  ASSUME PreparationInv, NEW r \in Runs, RunEvidence(r), Environment(r) \/ Settle(r)
  PROVE  RunEvidence(r)' /\ StepsKept(r)
<1> USE DEF durable, request, checkpoints
<1>0. /\ handler \in [Runs -> Handler] /\ handler[r] \in Handler
      /\ phase \in [Runs -> {"absent", "open"} \cup Outcomes]
  BY DEF PreparationInv, TypeOK
<1>1. UNCHANGED <<prep, cohort, targets, steps, committed>>
  BY DEF Environment, Submit, Cancel, Begin, Crash, CloseUnexecuted, Settle
<1>2. StepsKept(r) /\ Checkpointed(r)'
  BY <1>1, Unwritten
<1>3. phase'[r] = "succeeded" => phase[r] = "succeeded" \/ handler[r].at = "returned"
  BY <1>0 DEF Environment, Submit, Cancel, Begin, Crash, CloseUnexecuted, Settle
<1>4. handler'[r] = handler[r] \/ handler'[r].at \in {"entered", "idle"}
  BY <1>0 DEF Environment, Submit, Cancel, Begin, Crash, CloseUnexecuted, Settle, Idle, Handler
<1>5. Concluded(r)'
  BY <1>1, <1>3, <1>4 DEF RunEvidence, Concluded, Finished
<1>6. AtWork(r)' /\ Behind(r)' /\ Progress(r)'
  <2>1. CASE handler'[r] = handler[r]
    BY <1>1, <2>1 DEF RunEvidence, AtWork, Behind, Progress, Finished
  <2>2. CASE handler'[r].at \in {"entered", "idle"}
    BY <2>2, Away DEF Busy
  <2> QED
    BY <1>4, <2>1, <2>2
<1> QED
  BY <1>2, <1>5, <1>6 DEF RunEvidence

(* Another run's step leaves a run's evidence alone.                       *)
LEMMA OthersAlone ==
  ASSUME PreparationInv, NEW q \in Runs, RunStep(q) \/ Environment(q), NEW r \in Runs, q # r
  PROVE  /\ UNCHANGED <<handler[r], steps[r], targets[r], prep[r], phase[r]>>
         /\ cohort \subseteq cohort' /\ committed \subseteq committed'
<1> USE DEF durable, request, checkpoints
<1>0. TypeOK
  BY DEF PreparationInv
<1>1. CASE Environment(q) \/ Settle(q) \/ Refuse(q)
  BY <1>0, <1>1 DEF Environment, Submit, Cancel, Begin, Crash, CloseUnexecuted, Settle, Refuse,
     TypeOK
<1>2. CASE Open(q) \/ Inherit(q) \/ FailSelection(q) \/ CloseInterrupted(q) \/ Conclude(q)
  BY <1>0, <1>2 DEF Open, Inherit, FailSelection, CloseInterrupted, Conclude, TypeOK
<1>3. CASE SelectTargets(q)
  BY <1>0, <1>3 DEF SelectTargets, TypeOK
<1>4. CASE \E j \in Jobs :
             ClaimJob(q, j) \/ BusyJob(q, j) \/ ReleaseInterrupted(q, j) \/ FinishJob(q, j)
  BY <1>0, <1>4 DEF ClaimJob, BusyJob, ReleaseInterrupted, FinishJob, TypeOK
<1>5. CASE \E j \in Jobs : StageStep(q, j)
  <2>1. PICK j \in Jobs : StageStep(q, j)
    BY <1>5
  <2>2. /\ UNCHANGED <<phase, prep, targets>>
        /\ handler'[r] = handler[r] /\ steps'[r] = steps[r]
    BY <1>0, <2>1, StageMoves DEF StageStep
  <2>3. cohort' = cohort /\ committed \subseteq committed'
    BY <2>1 DEF StageStep, PassStage, BlockStage, SkipStage, StartStage, Accept, FinishStage,
       FailStage, Interrupt, MarkInterrupted
  <2> QED
    BY <2>2, <2>3
<1> QED
  BY <1>1, <1>2, <1>3, <1>4, <1>5 DEF RunStep, JobStep, StageStep

LEMMA StepEvidence ==
  ASSUME PreparationInv, EvidenceInv, [Next]_vars
  PROVE  EvidenceInv' /\ \A r \in Runs : StepsKept(r)
<1> SUFFICES ASSUME NEW r \in Runs PROVE RunEvidence(r)' /\ StepsKept(r)
  BY DEF EvidenceInv
<1>0. RunEvidence(r)
  BY DEF EvidenceInv
<1>1. CASE UNCHANGED vars
  BY <1>0, <1>1, SameRun DEF vars, durable, request, checkpoints
<1>2. CASE \E q \in Runs : q # r /\ (RunStep(q) \/ Environment(q))
  BY <1>0, <1>2, SameRun, OthersAlone
<1>3. CASE RunStep(r)
  BY <1>0, <1>3, StageStepEvidence, OutsideEvidence, InheritEvidence, SelectEvidence,
     ClaimEvidence, BusyEvidence, FinishEvidence, ConcludeEvidence, DurableEvidence
     DEF RunStep, JobStep, StageStep
<1>4. CASE Environment(r)
  BY <1>0, <1>4, DurableEvidence
<1> QED
  BY <1>1, <1>2, <1>3, <1>4 DEF Next

(* A preparation has the types of its definitions.                         *)
THEOREM TypeCorrect == Spec => []TypeOK
<1>1. PreparationInv => TypeOK
  BY DEF PreparationInv
<1> QED
  BY <1>1, PreparationInvariant, PTL

(* At every place of a handler the saved stages are as they should be.     *)
THEOREM EvidenceInvariant == Spec => []EvidenceInv
<1>1. PreparationInv /\ EvidenceInv /\ [Next]_vars => EvidenceInv'
  BY StepEvidence
<1> QED
  BY <1>1, InitEvidence, PreparationInvariant, PTL DEF Spec

(* What the saved stages say is true: in order, complete where the run     *)
(* succeeded, accepted by their features, cancelled only by the user; for  *)
(* any crashes, interruptions, retries and inherited checkpoints.          *)
THEOREM EvidenceHolds == Spec => []Evidence
BY PreparationInvariant, EvidenceInvariant, EvidenceFollows, PTL

(* And it is not taken back: a finished stage, the identity of a started   *)
(* one and a cancelled preparation are never changed.                      *)
THEOREM EvidenceStaysHolds == Spec => EvidenceStays
<1>1. PreparationInv /\ EvidenceInv /\ [Next]_vars =>
        [\A r \in Runs, j \in Jobs, s \in Stages :
           /\ steps[r][j][s].status \in Done => steps'[r][j][s] = steps[r][j][s]
           /\ steps[r][j][s].op # NoRun => steps'[r][j][s].op = steps[r][j][s].op]_vars
  BY StepEvidence DEF StepsKept, Kept
<1>2. Spec => CheckpointsStay
  BY <1>1, PreparationInvariant, EvidenceInvariant, PTL DEF Spec, CheckpointsStay
<1> QED
  BY <1>2, CancelledStaysHolds DEF EvidenceStays
===============================================================================
