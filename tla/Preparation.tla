------------------------------ MODULE Preparation ------------------------------
(***************************************************************************)
(* The preparation recipes (app/preparation.py) over their checkpoints     *)
(* (app/preparation_store.py): runs that take the jobs of their cohort     *)
(* through the stages of a recipe one after the other, claim a job while   *)
(* they work on it, checkpoint every stage, and are executed, interrupted, *)
(* retried and closed as the durable runs of DurableRun.  A retry is a run *)
(* of its own with a parent whose finished stages it inherits.             *)
(*                                                                         *)
(* A definition whose name ends in "Mutant" is not part of the             *)
(* specification: it is the named definition with one plausible bug.       *)
(***************************************************************************)
EXTENDS Naturals, FiniteSets

CONSTANTS
  Runs,
  Jobs,
  NumStages,  \* stages of the recipe, executed in order
  Requests,   \* sets of jobs a request names: {} for pending work, or for
              \* all unfinished jobs of the parent
  MaxAttempts, \* attempts the durable run grants (3)
  NoRun

ASSUME PreparationAssumption ==
  /\ NumStages \in Nat \ {0}
  /\ MaxAttempts \in Nat
  /\ NoRun \notin Runs
  /\ Requests \subseteq SUBSET Jobs

Stages == 1..NumStages

VARIABLES
  phase, working, revoked,  \* of each run, as in DurableRun
  attempts,   \* begun so far
  parent,     \* the run that preparation.retry names, NoRun for preparation.run
  asked,      \* the jobs the request names: none for pending work or all unfinished
  prep,       \* preparation_runs.status
  frozen,     \* the job_ids of preparation_runs.request_json
  cohort,     \* runs whose preparation_runs.targets_json is saved
  targets,    \* the jobs in it
  steps,      \* preparation_steps of each run, job and stage
  claim,      \* preparation_job_claims
  committed,  \* operations whose result a feature has accepted
  handler     \* where the handler of each run is

durable     == <<phase, working, revoked>>
request     == <<attempts, parent, asked>>
checkpoints == <<prep, frozen, cohort, targets, steps, claim>>
vars == <<durable, request, checkpoints, committed, handler>>

Outcomes == {"succeeded", "failed", "cancelled"}
Done     == {"succeeded", "skipped"}   \* TERMINAL_STEPS; "warning" is a success here

(* The operation identity of a stage is that of a run, the job and the     *)
(* stage; it is saved with the frozen inputs, hence NoRun when there are   *)
(* none.                                                                   *)
Pending == {"absent", "pending", "running", "failed", "blocked", "cancelled"}
Step == [status : Pending \cup Done, op : Runs \cup {NoRun}]
Operation == (Runs \cup {NoRun}) \X Jobs \X Stages

(* Locals of run and _run_job.                                             *)
Handler == [at : {"idle", "entered", "opened", "selecting", "jobs", "stages", "working",
                  "accepted", "stopping", "leaving", "closing", "returned", "raised",
                  "interrupted"},
            job : SUBSET Jobs, stage : 1..(NumStages + 1), blocked : BOOLEAN,
            left : SUBSET Jobs, failed : BOOLEAN]
Idle == [at |-> "idle", job |-> {}, stage |-> 1, blocked |-> FALSE, left |-> {}, failed |-> FALSE]

TypeOK ==
  /\ phase \in [Runs -> {"absent", "open"} \cup Outcomes]
  /\ working \in [Runs -> BOOLEAN]
  /\ revoked \in [Runs -> BOOLEAN]
  /\ attempts \in [Runs -> 0..MaxAttempts]
  /\ parent \in [Runs -> Runs \cup {NoRun}]
  /\ asked \in [Runs -> SUBSET Jobs]
  /\ prep \in [Runs -> {"none", "running", "succeeded", "partial", "failed", "cancelled"}]
  /\ frozen \in [Runs -> SUBSET Jobs]
  /\ cohort \in SUBSET Runs
  /\ targets \in [Runs -> SUBSET Jobs]
  /\ steps \in [Runs -> [Jobs -> [Stages -> Step]]]
  /\ claim \in [Jobs -> Runs \cup {NoRun}]
  /\ committed \in SUBSET Operation
  /\ handler \in [Runs -> Handler]

Init ==
  /\ phase = [r \in Runs |-> "absent"]
  /\ working = [r \in Runs |-> FALSE]
  /\ revoked = [r \in Runs |-> FALSE]
  /\ attempts = [r \in Runs |-> 0]
  /\ parent = [r \in Runs |-> NoRun]
  /\ asked = [r \in Runs |-> {}]
  /\ prep = [r \in Runs |-> "none"]
  /\ frozen = [r \in Runs |-> {}]
  /\ cohort = {}
  /\ targets = [r \in Runs |-> {}]
  /\ steps = [r \in Runs |-> [j \in Jobs |->
                [s \in Stages |-> [status |-> "absent", op |-> NoRun]]]]
  /\ claim = [j \in Jobs |-> NoRun]
  /\ committed = {}
  /\ handler = [r \in Runs |-> Idle]

-------------------------------------------------------------------------------
(* The durable run around the handler.                                     *)

Submit(r, p, js) ==
  /\ phase[r] = "absent"
  /\ p # NoRun => phase[p] # "absent"
  /\ phase' = [phase EXCEPT ![r] = "open"]
  /\ parent' = [parent EXCEPT ![r] = p]
  /\ asked' = [asked EXCEPT ![r] = js]
  /\ UNCHANGED <<working, revoked, attempts, checkpoints, committed, handler>>

Cancel(r) ==
  /\ phase[r] = "open"
  /\ revoked' = [revoked EXCEPT ![r] = TRUE]
  /\ \/ UNCHANGED phase
     \/ ~working[r] /\ phase' = [phase EXCEPT ![r] = "cancelled"]
  /\ UNCHANGED <<working, request, checkpoints, committed, handler>>

BeginMutant(r) ==
  /\ phase[r] = "open"
  /\ ~working[r]
  /\ ~revoked[r]
  /\ attempts' = [attempts EXCEPT ![r] = @ + 1]
  /\ working' = [working EXCEPT ![r] = TRUE]
  /\ handler' = [handler EXCEPT ![r].at = "entered"]
  /\ UNCHANGED <<phase, revoked, parent, asked, checkpoints, committed>>

Begin(r) ==
  /\ phase[r] = "open"
  /\ ~working[r]
  /\ ~revoked[r]
  /\ attempts[r] < MaxAttempts
  /\ attempts' = [attempts EXCEPT ![r] = @ + 1]
  /\ working' = [working EXCEPT ![r] = TRUE]
  /\ handler' = [handler EXCEPT ![r].at = "entered"]
  /\ UNCHANGED <<phase, revoked, parent, asked, checkpoints, committed>>

(* The worker dies anywhere; the run stays open for a next attempt.        *)
Crash(r) ==
  /\ working[r]
  /\ working' = [working EXCEPT ![r] = FALSE]
  /\ handler' = [handler EXCEPT ![r] = Idle]
  /\ UNCHANGED <<phase, revoked, request, checkpoints, committed>>

CloseUnexecuted(r) ==
  /\ phase[r] = "open"
  /\ ~working[r]
  /\ \E outcome \in {"failed", "cancelled"} : phase' = [phase EXCEPT ![r] = outcome]
  /\ UNCHANGED <<working, revoked, request, checkpoints, committed, handler>>

LeavesOpenMutant(r) == FALSE

(* An interruption that the user did not ask for leaves the run open.      *)
LeavesOpen(r) == handler[r].at = "interrupted" /\ ~revoked[r]

Settle(r) ==
  /\ handler[r].at \in {"returned", "raised", "interrupted"}
  /\ phase' = [phase EXCEPT ![r] =
       IF handler[r].at = "returned" THEN "succeeded"
       ELSE IF LeavesOpen(r) THEN "open"
       ELSE IF revoked[r] \/ handler[r].at = "interrupted" THEN "cancelled"
       ELSE "failed"]
  /\ working' = [working EXCEPT ![r] = FALSE]
  /\ handler' = [handler EXCEPT ![r] = Idle]
  /\ UNCHANGED <<revoked, request, checkpoints, committed>>

-------------------------------------------------------------------------------
(* retry and the opening of run.                                           *)

UnfinishedJobs(p) ==
  {j \in Jobs :
     \/ \E s \in Stages : steps[p][j][s].status \in {"failed", "blocked", "cancelled"}
     \/ /\ prep[p] = "cancelled"
        /\ j \in targets[p]
        /\ \E s \in Stages : steps[p][j][s].status \notin Done}

(* The jobs a request is for: a retry that names none is for all that are  *)
(* unfinished.                                                             *)
Requested(r) ==
  IF parent[r] = NoRun \/ asked[r] # {} THEN asked[r]
  ELSE targets[parent[r]] \cap UnfinishedJobs(parent[r])

Retryable(r) ==
  /\ prep[parent[r]] \in {"failed", "partial", "cancelled"}
  /\ Requested(r) # {}
  /\ Requested(r) \subseteq UnfinishedJobs(parent[r])

(* A next attempt must be for the request that was frozen.                 *)
MayOpen(r) ==
  /\ parent[r] # NoRun => Retryable(r)
  /\ prep[r] # "none" => frozen[r] = Requested(r)

Open(r) ==
  /\ handler[r].at = "entered"
  /\ MayOpen(r)
  /\ prep' = IF prep[r] = "none" THEN [prep EXCEPT ![r] = "running"] ELSE prep
  /\ frozen' = [frozen EXCEPT ![r] = Requested(r)]
  /\ handler' = [handler EXCEPT ![r].at = "opened"]
  /\ UNCHANGED <<durable, request, cohort, targets, steps, claim, committed>>

Refuse(r) ==
  /\ handler[r].at = "entered"
  /\ ~MayOpen(r)
  /\ handler' = [handler EXCEPT ![r].at = "raised"]
  /\ UNCHANGED <<durable, request, checkpoints, committed>>

(* A step of the parent for which the retry has none: finished work is     *)
(* taken over, a cancelled stage keeps its identity and its inputs.        *)
InheritedStep(r, j, s) ==
  LET own == steps[r][j][s]  theirs == steps[parent[r]][j][s] IN
  CASE own.status = "absent" /\ theirs.status \in Done -> theirs
    [] own.status = "absent" /\ theirs.status = "cancelled" /\ theirs.op # NoRun ->
         [theirs EXCEPT !.status = "pending"]
    [] OTHER -> own

Inherit(r) ==
  /\ handler[r].at = "opened"
  /\ steps' = IF parent[r] = NoRun THEN steps
       ELSE [steps EXCEPT ![r] = [j \in Jobs |-> [s \in Stages |->
              IF j \in frozen[r] THEN InheritedStep(r, j, s) ELSE steps[r][j][s]]]]
  /\ handler' = [handler EXCEPT ![r].at = "selecting"]
  /\ UNCHANGED <<durable, request, prep, frozen, cohort, targets, claim, committed>>

(* _target_ids: the selected jobs, or whatever is pending now; saved once. *)
SelectTargets(r) ==
  /\ handler[r].at = "selecting"
  /\ IF r \in cohort THEN UNCHANGED targets
     ELSE \E js \in SUBSET Jobs :
            /\ frozen[r] # {} => js = frozen[r]
            /\ targets' = [targets EXCEPT ![r] = js]
  /\ cohort' = cohort \cup {r}
  /\ handler' = [handler EXCEPT ![r].at = "jobs", ![r].left = targets'[r]]
  /\ UNCHANGED <<durable, request, prep, frozen, steps, claim, committed>>

(* The selection itself fails: reading another feature, or the database.   *)
FailSelection(r) ==
  /\ handler[r].at = "selecting"
  /\ prep' = IF prep[r] = "running" THEN [prep EXCEPT ![r] = "failed"] ELSE prep
  /\ handler' = [handler EXCEPT ![r].at = "raised"]
  /\ UNCHANGED <<durable, request, frozen, cohort, targets, steps, claim, committed>>

-------------------------------------------------------------------------------
(* One job after the other.                                                *)

ReclaimableMutant(o) == prep[o] \in Outcomes \cup {"partial"}

(* _owner_reclaimable reads the receipt of the durable run.                *)
Reclaimable(o) == phase[o] \in Outcomes

MayClaim(r, j) == claim[j] \notin {NoRun, r} => Reclaimable(claim[j])

ClaimJob(r, j) ==
  /\ handler[r].at = "jobs"
  /\ j \in handler[r].left
  /\ MayClaim(r, j)
  /\ claim' = [claim EXCEPT ![j] = r]
  /\ handler' = [handler EXCEPT ![r] =
       [handler[r] EXCEPT !.at = "stages", !.job = {j}, !.stage = 1,
                          !.blocked = FALSE, !.left = @ \ {j}]]
  /\ UNCHANGED <<durable, request, prep, frozen, cohort, targets, steps, committed>>

Unfinished(r, j) == {s \in Stages : steps[r][j][s].status \notin Done}

(* Another preparation owns the job: its unfinished stages fail here, the  *)
(* first as the reason of the others.                                      *)
BusyJob(r, j) ==
  /\ handler[r].at = "jobs"
  /\ j \in handler[r].left
  /\ ~MayClaim(r, j)
  /\ steps' = [steps EXCEPT ![r][j] = [s \in Stages |->
       IF s \notin Unfinished(r, j) THEN @[s]
       ELSE [@[s] EXCEPT !.status =
              IF \A t \in Unfinished(r, j) : s <= t THEN "failed" ELSE "blocked"]]]
  /\ handler' = [handler EXCEPT ![r].left = @ \ {j}, ![r].failed = TRUE]
  /\ UNCHANGED <<durable, request, prep, frozen, cohort, targets, claim, committed>>

-------------------------------------------------------------------------------
(* One stage after the other: _run_job for job j at the stage the handler  *)
(* is at.                                                                  *)

At(r, j, place) == handler[r].at = place /\ handler[r].job = {j} /\ handler[r].stage \in Stages

StepOf(r, j) == steps[r][j][handler[r].stage]

SetStep(r, j, value) == steps' = [steps EXCEPT ![r][j][handler[r].stage] = value]

GoOn(r, isBlocked) ==
  handler' = [handler EXCEPT ![r].at = "stages", ![r].stage = @ + 1, ![r].blocked = isBlocked]

PassStage(r, j) ==
  /\ At(r, j, "stages")
  /\ ~revoked[r]
  /\ StepOf(r, j).status \in Done
  /\ GoOn(r, handler[r].blocked)
  /\ UNCHANGED <<durable, request, checkpoints, committed>>

BlockStage(r, j) ==
  /\ At(r, j, "stages")
  /\ ~revoked[r]
  /\ StepOf(r, j).status \notin Done
  /\ handler[r].blocked
  /\ SetStep(r, j, [StepOf(r, j) EXCEPT !.status = "blocked"])
  /\ GoOn(r, TRUE)
  /\ UNCHANGED <<durable, request, prep, frozen, cohort, targets, claim, committed>>

(* There is nothing to do; decided only while the inputs are not frozen.   *)
SkipStage(r, j) ==
  /\ At(r, j, "stages")
  /\ ~revoked[r]
  /\ ~handler[r].blocked
  /\ StepOf(r, j).status \notin Done
  /\ StepOf(r, j).op = NoRun
  /\ SetStep(r, j, [StepOf(r, j) EXCEPT !.status = "skipped"])
  /\ GoOn(r, FALSE)
  /\ UNCHANGED <<durable, request, prep, frozen, cohort, targets, claim, committed>>

FrozenOperationMutant(r, j) == r

(* start_step keeps the identity and inputs a step was first started with. *)
FrozenOperation(r, j) == IF StepOf(r, j).op = NoRun THEN r ELSE StepOf(r, j).op

StartStage(r, j) ==
  /\ At(r, j, "stages")
  /\ ~revoked[r]
  /\ ~handler[r].blocked
  /\ StepOf(r, j).status \notin Done
  /\ SetStep(r, j, [status |-> "running", op |-> FrozenOperation(r, j)])
  /\ handler' = [handler EXCEPT ![r].at = "working"]
  /\ UNCHANGED <<durable, request, prep, frozen, cohort, targets, claim, committed>>

(* The feature accepts the stage's result, or finds that it already has    *)
(* for this operation.                                                     *)
Accept(r, j) ==
  /\ At(r, j, "working")
  /\ committed' = committed \cup {<<StepOf(r, j).op, j, handler[r].stage>>}
  /\ handler' = [handler EXCEPT ![r].at = "accepted"]
  /\ UNCHANGED <<durable, request, checkpoints>>

FinishStageMutant(r, j) ==
  /\ At(r, j, "accepted") \/ At(r, j, "working")
  /\ SetStep(r, j, [StepOf(r, j) EXCEPT !.status = "succeeded"])
  /\ GoOn(r, FALSE)
  /\ UNCHANGED <<durable, request, prep, frozen, cohort, targets, claim, committed>>

FinishStage(r, j) ==
  /\ At(r, j, "accepted")
  /\ SetStep(r, j, [StepOf(r, j) EXCEPT !.status = "succeeded"])
  /\ GoOn(r, FALSE)
  /\ UNCHANGED <<durable, request, prep, frozen, cohort, targets, claim, committed>>

(* Computing the inputs, the feature, or the check of what it accepted     *)
(* fails.  After a cancellation that is how a feature stops.               *)
FailStage(r, j) ==
  /\ \/ At(r, j, "working") \/ At(r, j, "accepted")
     \/ /\ At(r, j, "stages") /\ ~handler[r].blocked
        /\ StepOf(r, j) \in [status : Pending, op : {NoRun}]
  /\ IF revoked[r]
     THEN /\ SetStep(r, j, [StepOf(r, j) EXCEPT !.status = "cancelled"])
          /\ handler' = [handler EXCEPT ![r].at = "leaving"]
     ELSE /\ SetStep(r, j, [StepOf(r, j) EXCEPT !.status = "failed"])
          /\ GoOn(r, TRUE)
  /\ UNCHANGED <<durable, request, prep, frozen, cohort, targets, claim, committed>>

(* The handler's task is cancelled: a shutdown of the worker, or the       *)
(* delivery of the user's cancellation; either is also looked for before   *)
(* every stage.                                                            *)
Interrupt(r, j) ==
  /\ At(r, j, "stages") \/ At(r, j, "working") \/ At(r, j, "accepted")
  /\ handler' = [handler EXCEPT ![r].at = IF @ = "stages" THEN "leaving" ELSE "stopping"]
  /\ UNCHANGED <<durable, request, checkpoints, committed>>

(* Only the user's cancellation is written down, and whether it was that   *)
(* is read again for the step, for the claim and for the run.              *)
MarkInterrupted(r, j) ==
  /\ At(r, j, "stopping")
  /\ IF revoked[r] THEN SetStep(r, j, [StepOf(r, j) EXCEPT !.status = "cancelled"])
     ELSE UNCHANGED steps
  /\ handler' = [handler EXCEPT ![r].at = "leaving"]
  /\ UNCHANGED <<durable, request, prep, frozen, cohort, targets, claim, committed>>

ReleaseInterrupted(r, j) ==
  /\ handler[r].at = "leaving"
  /\ handler[r].job = {j}
  /\ claim' = IF revoked[r] /\ claim[j] = r THEN [claim EXCEPT ![j] = NoRun] ELSE claim
  /\ handler' = [handler EXCEPT ![r].at = "closing", ![r].job = {}]
  /\ UNCHANGED <<durable, request, prep, frozen, cohort, targets, steps, committed>>

CloseInterrupted(r) ==
  /\ handler[r].at = "closing"
  /\ prep' = IF revoked[r] THEN [prep EXCEPT ![r] = "cancelled"] ELSE prep
  /\ handler' = [handler EXCEPT ![r].at = "interrupted"]
  /\ UNCHANGED <<durable, request, frozen, cohort, targets, steps, claim, committed>>

FinishJob(r, j) ==
  /\ handler[r].at = "stages"
  /\ handler[r].job = {j}
  /\ handler[r].stage > NumStages
  /\ claim' = IF claim[j] = r THEN [claim EXCEPT ![j] = NoRun] ELSE claim
  /\ handler' = [handler EXCEPT ![r] =
       [handler[r] EXCEPT !.at = "jobs", !.job = {}, !.failed = @ \/ handler[r].blocked]]
  /\ UNCHANGED <<durable, request, prep, frozen, cohort, targets, steps, committed>>

Conclude(r) ==
  /\ handler[r].at = "jobs"
  /\ handler[r].left = {}
  /\ prep' = [prep EXCEPT ![r] = IF handler[r].failed THEN "partial" ELSE "succeeded"]
  /\ handler' = [handler EXCEPT ![r].at = IF handler[r].failed THEN "raised" ELSE "returned"]
  /\ UNCHANGED <<durable, request, frozen, cohort, targets, steps, claim, committed>>

-------------------------------------------------------------------------------
JobStep(r, j) ==
  \/ ClaimJob(r, j)
  \/ BusyJob(r, j)
  \/ PassStage(r, j)
  \/ BlockStage(r, j)
  \/ SkipStage(r, j)
  \/ StartStage(r, j)
  \/ Accept(r, j)
  \/ FinishStage(r, j)
  \/ FailStage(r, j)
  \/ Interrupt(r, j)
  \/ MarkInterrupted(r, j)
  \/ ReleaseInterrupted(r, j)
  \/ FinishJob(r, j)

RunStep(r) ==
  \/ Open(r)
  \/ Refuse(r)
  \/ Inherit(r)
  \/ SelectTargets(r)
  \/ FailSelection(r)
  \/ \E j \in Jobs : JobStep(r, j)
  \/ CloseInterrupted(r)
  \/ Conclude(r)
  \/ Settle(r)

Environment(r) ==
  \/ \E p \in Runs \cup {NoRun}, js \in Requests : Submit(r, p, js)
  \/ Cancel(r)
  \/ Begin(r)
  \/ Crash(r)
  \/ CloseUnexecuted(r)

Next == \E r \in Runs : RunStep(r) \/ Environment(r)

Spec == Init /\ [][Next]_vars

-------------------------------------------------------------------------------
(* Properties.                                                             *)

Places == {"stages", "working", "accepted", "stopping"}

(* Two preparations never work on the same job at the same time, although  *)
(* claims outlive interruptions and are taken over from runs that ended.   *)
OneWriter ==
  \A q, r \in Runs : \A j \in Jobs :
    /\ handler[q].at \in Places /\ handler[q].job = {j}
    /\ handler[r].at \in Places /\ handler[r].job = {j}
    => q = r

(* Nobody works on a stage of a job while an earlier one is unfinished,    *)
(* also when attempts and retries find checkpoints of earlier ones.        *)
StagesInOrder ==
  \A r \in Runs, j \in Jobs : \A t \in Stages :
    /\ handler[r].at \in {"working", "accepted"}
    /\ handler[r].job = {j}
    /\ t < handler[r].stage
    => steps[r][j][t].status \in Done

(* A preparation that says it succeeded finished every stage of every job  *)
(* of its cohort, and a succeeded action is a succeeded preparation.       *)
SuccessIsComplete ==
  \A r \in Runs :
    /\ phase[r] = "succeeded" => prep[r] = "succeeded"
    /\ prep[r] = "succeeded" =>
         \A j \in targets[r] : \A s \in Stages : steps[r][j][s].status \in Done

(* A checkpoint is never ahead of its feature: a stage that is recorded as *)
(* succeeded has a result that the feature accepted for its operation.     *)
CheckpointIsAccepted ==
  \A r \in Runs, j \in Jobs, s \in Stages :
    steps[r][j][s].status = "succeeded" => <<steps[r][j][s].op, j, s>> \in committed

(* Finished stages are evidence: no attempt, retry or busy job changes     *)
(* one, and the identity and inputs of a started stage are never replaced, *)
(* so its feature can answer a repetition with what it accepted.           *)
CheckpointsStay ==
  [][\A r \in Runs, j \in Jobs, s \in Stages :
       /\ steps[r][j][s].status \in Done => steps'[r][j][s] = steps[r][j][s]
       /\ steps[r][j][s].op # NoRun => steps'[r][j][s].op = steps[r][j][s].op]_vars

(* "Only an explicit saved user request becomes terminal": what says that  *)
(* it was cancelled was cancelled by the user, and a cancelled preparation *)
(* does nothing more.                                                      *)
CancelledStays ==
  [][\A r \in Runs :
       prep[r] = "cancelled" => UNCHANGED <<prep[r], steps[r], targets[r]>>]_vars

CancelledByUser ==
  \A r \in Runs :
    prep[r] = "cancelled" \/ (\E j \in Jobs, s \in Stages : steps[r][j][s].status = "cancelled")
      => revoked[r]

(* The saved stages are evidence: in order, complete, accepted by their    *)
(* features, and cancelled only by the user...                             *)
Evidence == StagesInOrder /\ SuccessIsComplete /\ CheckpointIsAccepted /\ CancelledByUser

(* ... and they stay so.                                                   *)
EvidenceStays == CheckpointsStay /\ CancelledStays

(* Around its handler a preparation does what a durable run does: what is  *)
(* assumed here of the action layer is what ActionRun implements.          *)
Durable(r) == INSTANCE DurableRun WITH
  phase <- phase[r], working <- working[r], revoked <- revoked[r]

RunsAreDurable ==
  /\ \A r \in Runs : Durable(r)!Init
  /\ [][\A r \in Runs : Durable(r)!Next \/ UNCHANGED Durable(r)!vars]_durable

(* preparation_store.py:241: "A cancelled stage may already have a         *)
(* committed feature result.  Preserve its original operation identity",   *)
(* and docs/architecture/pipeline/concurrency.md:13: "Committed work       *)
(* survives an interruption; retry must not duplicate a job, artifact".    *)
(* The retry of a cancelled preparation does not repeat under an identity  *)
(* of its own what the parent's feature has accepted.                      *)
RetryDoesNotRepeat ==
  \A r \in Runs, j \in Jobs, s \in Stages :
    /\ parent[r] # NoRun
    /\ prep[parent[r]] = "cancelled"
    /\ steps[parent[r]][j][s].status # "failed"
    /\ <<parent[r], j, s>> \in committed
    => <<r, j, s>> \notin committed

(* docs/user/normal-flows.md:451: "Failed preparation work can be retried  *)
(* per job or in bulk".  A preparation whose action ended outside of its   *)
(* handler says "running" for ever, and its retry is refused.              *)
EndedIsRetryable ==
  \A r \in Runs :
    phase[r] \in {"failed", "cancelled"} => prep[r] # "running"
===============================================================================
