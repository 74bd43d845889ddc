------------------------------ MODULE Applications ------------------------------
(***************************************************************************)
(* The Applications feature: preparation, rehearsal, review and control of *)
(* an application (application_store.py), repeat-application consent       *)
(* (repeat.py), and the executions that submit approved emails             *)
(* (service.py), with the crashes and retries their durable action runs    *)
(* go through and a mail provider whose answer can be lost.  Every         *)
(* operation of the store is one SQLite transaction, hence one action.     *)
(*                                                                         *)
(* A definition whose name ends in "Mutant" is not part of the             *)
(* specification: it is the named definition with one plausible bug.       *)
(***************************************************************************)
EXTENDS Naturals, Sequences, FiniteSets

CONSTANTS
  Jobs,
  OtherJobs,       \* further jobs, known here only as confirmed applications
  Direct,          \* runs of applications.execute and applications.batch:
                   \* their items are fixed when they are queued
  Standing,        \* runs of applications.run_approved: items selected at start
  Modes,           \* payload modes in use, among "email" and "browser"
  Reviews,         \* review decisions in use, among Verdicts
  Stops,           \* ways to stop a job in use, among the two
  Concurrency,     \* setting applyConcurrency
  MaxTries,        \* attempts the durable action run grants each execution
  AutomaticLimit,  \* attempt count from which the standing loop skips a job (3)
  MaxPayloads,     \* bound: preparations of one job
  MaxDecisions,    \* bound: decisions on one job
  MaxSources,      \* bound: changes of one job's bound sources
  MaxStops,        \* bound: local stops of one job
  MaxChecks        \* bound: repeat assessments of one job

Verdicts == {"approve_submit", "approve_dry_run", "defer", "decline", "reset"}

ASSUME ApplicationsAssumption ==
  /\ Direct \cap Standing = {}
  /\ Jobs \cap OtherJobs = {}
  /\ Modes \subseteq {"email", "browser"}
  /\ Reviews \subseteq Verdicts
  /\ Stops \subseteq {"skipped", "cancelled"}
  /\ Concurrency \in Nat \ {0}
  /\ MaxTries \in [Direct \cup Standing -> Nat \ {0}]
  /\ AutomaticLimit \in Nat
  /\ {MaxPayloads, MaxDecisions, MaxSources, MaxStops, MaxChecks} \subseteq Nat

Executions == Direct \cup Standing

VARIABLES
  payloads,    \* applications_payloads of each job; an id is its position
  payload,     \* state.payloadId, 0 for none
  decisions,   \* applications_decisions of each job; an id is its position
  rehearsed,   \* payloads of each job with completed rehearsal evidence
  rehearsing,  \* payload a running rehearsal of the job was admitted for
  status,      \* state.status
  stopped,     \* state.stopped
  epoch,       \* state.claimEpoch
  attempts,    \* state.attemptCount
  runOf,       \* executions that state.runId names: none or one
  runs,        \* applications_runs of each execution and job
  intents,     \* applications_submit_intents
  receipts,    \* jobs whose intent has a row in applications_submit_receipts
  outcomes,    \* jobs with a confirmed application in the feedback ledger
  sources,     \* revision of everything a payload of the job is bound to
  checks,      \* repeat assessments of each job, with their consents
  stage,       \* where the action run of each execution is
  tries,       \* attempts it has used
  item,        \* what each execution is asked to submit for each job
  pc,          \* where Service.execute is for each execution and job
  delivered    \* messages the mail provider was handed for each job

prepared   == <<payloads, payload, rehearsed, rehearsing>>
decided    == <<decisions, status, stopped, epoch, attempts, runOf>>
submission == <<runs, intents, receipts, delivered>>
execution  == <<stage, tries, item, pc>>
world      == <<outcomes, sources, checks>>
vars == <<prepared, decided, submission, execution, world>>

Statuses == {"unprepared", "awaiting_rehearsal", "awaiting_approval", "approved",
             "approved_dry_run", "deferred", "declined", "failed", "skipped",
             "cancelled", "sending", "manual_required", "needs_verification", "applied"}
RunStatuses == {"none", "sending", "manual_required", "needs_verification", "applied"}
InFlight == {"admitted", "confirmed", "unknown"}

Nothing == [payload |-> 0, approval |-> 0]
NoRun   == [status |-> "none", payload |-> 0, approval |-> 0, consent |-> 0]

Payload == [mode : {"email", "browser"}, epoch : Nat, sources : Nat]
Decision == [verdict : Verdicts, payload : Nat]
(* `consent` of a run, the assessment whose consent it used, and the       *)
(* record of an unused consent are what tables of repeat.py hold.          *)
Run    == [status : RunStatuses, payload : Nat, approval : Nat, consent : Nat]
Intent == [job : Jobs, run : Executions, payload : Nat, approval : Nat]
Check  == [evidence : Nat \X SUBSET (Jobs \cup OtherJobs),
           verdict : {"clear", "same_employer_equivalent_role", "uncertain"},
           granted : BOOLEAN, usedBy : SUBSET Executions]

TypeOK ==
  /\ payloads \in [Jobs -> Seq(Payload)]
  /\ payload \in [Jobs -> Nat]
  /\ decisions \in [Jobs -> Seq(Decision)]
  /\ rehearsed \in [Jobs -> SUBSET Nat]
  /\ rehearsing \in [Jobs -> Nat]
  /\ status \in [Jobs -> Statuses]
  /\ stopped \in SUBSET Jobs
  /\ epoch \in [Jobs -> Nat]
  /\ attempts \in [Jobs -> Nat]
  /\ runOf \in [Jobs -> SUBSET Executions]
  /\ runs \in [Executions -> [Jobs -> Run]]
  /\ intents \in SUBSET Intent
  /\ receipts \in SUBSET Jobs
  /\ outcomes \in SUBSET (Jobs \cup OtherJobs)
  /\ sources \in [Jobs -> Nat]
  /\ checks \in [Jobs -> Seq(Check)]
  /\ stage \in [Executions -> {"new", "queued", "executing", "cancelled",
                            "done", "ended"}]
  /\ tries \in [Executions -> Nat] /\ \A e \in Executions : tries[e] <= MaxTries[e]
  /\ item \in [Executions -> [Jobs -> [payload : Nat, approval : Nat]]]
  /\ pc \in [Executions -> [Jobs -> {"idle", "todo"} \cup InFlight]]
  /\ delivered \in [Jobs -> Nat]

Init ==
  /\ payloads = [j \in Jobs |-> << >>]
  /\ payload = [j \in Jobs |-> 0]
  /\ decisions = [j \in Jobs |-> << >>]
  /\ rehearsed = [j \in Jobs |-> {}]
  /\ rehearsing = [j \in Jobs |-> 0]
  /\ status = [j \in Jobs |-> "unprepared"]
  /\ stopped = {}
  /\ epoch = [j \in Jobs |-> 0]
  /\ attempts = [j \in Jobs |-> 0]
  /\ runOf = [j \in Jobs |-> {}]
  /\ runs = [e \in Executions |-> [j \in Jobs |-> NoRun]]
  /\ intents = {}
  /\ receipts = {}
  /\ outcomes = {}
  /\ sources = [j \in Jobs |-> 0]
  /\ checks = [j \in Jobs |-> << >>]
  /\ stage = [e \in Executions |-> "new"]
  /\ tries = [e \in Executions |-> 0]
  /\ item = [e \in Executions |-> [j \in Jobs |-> Nothing]]
  /\ pc = [e \in Executions |-> [j \in Jobs |-> "idle"]]
  /\ delivered = [j \in Jobs |-> 0]

-------------------------------------------------------------------------------
HasIntent(j) == \E i \in intents : i.job = j

(* The run that state.runId names holds a claim on the job.                *)
ActiveRun(j) == \E e \in runOf[j] : runs[e][j].status = "sending"

SendingRuns == {r \in Executions \X Jobs : runs[r[1]][r[2]].status = "sending"}

SourceFenceMutant(j, p) == sources[j] = payloads[j][p].sources

(* _source_fence: the payload was prepared after the last local stop, and  *)
(* everything it was captured from is unchanged.                           *)
SourceFence(j, p) ==
  /\ epoch[j] = payloads[j][p].epoch
  /\ sources[j] = payloads[j][p].sources

(* The decision that admission accepts: the latest one of the job, an      *)
(* approval of exactly this payload, with rehearsal evidence for it.       *)
Approves(j, d, p) ==
  /\ d = Len(decisions[j])
  /\ d # 0
  /\ decisions[j][d].verdict = "approve_submit"
  /\ decisions[j][d].payload = p
  /\ p \in rehearsed[j]

(* repeat.py: confirmed applications to other jobs are evidence of repeat  *)
(* risk; an assessment counts for the exact evidence it was made from.     *)
Evidence(j) == <<sources[j], outcomes>>

Assessments(j) == {n \in 1..Len(checks[j]) : checks[j][n].evidence = Evidence(j)}

(* The latest assessment of the current evidence, 0 when there is none.    *)
Assessed(j) ==
  IF Assessments(j) = {} THEN 0
  ELSE CHOOSE n \in Assessments(j) : \A m \in Assessments(j) : m <= n

RepeatClear(j) ==
  \/ outcomes = {}
  \/ Assessed(j) # 0 /\ checks[j][Assessed(j)].verdict = "clear"

ConsentedMutant(j, users) ==
  /\ Assessed(j) # 0
  /\ checks[j][Assessed(j)].verdict = "same_employer_equivalent_role"
  /\ checks[j][Assessed(j)].granted

Consented(j, users) ==
  /\ Assessed(j) # 0
  /\ checks[j][Assessed(j)].verdict = "same_employer_equivalent_role"
  /\ checks[j][Assessed(j)].granted
  /\ checks[j][Assessed(j)].usedBy \subseteq users

(* _guard, for a review ({}) or for the admission of a run ({e}).          *)
RepeatGuard(j, users) == j \notin outcomes /\ (RepeatClear(j) \/ Consented(j, users))

-------------------------------------------------------------------------------
(* The user's commands.  A command carries the revision of the state it    *)
(* was decided on, so a stale one changes nothing; a repeated one answers  *)
(* from its receipt.                                                       *)

Prepare(j, mode) ==
  /\ Len(payloads[j]) < MaxPayloads
  /\ ~HasIntent(j)
  /\ j \notin outcomes
  /\ j \notin stopped
  /\ ~ActiveRun(j)
  /\ payloads' = [payloads EXCEPT ![j] =
       Append(@, [mode |-> mode, epoch |-> epoch[j], sources |-> sources[j]])]
  /\ payload' = [payload EXCEPT ![j] = Len(payloads[j]) + 1]
  /\ status' = [status EXCEPT ![j] = "awaiting_rehearsal"]
  /\ runOf' = [runOf EXCEPT ![j] = {}]
  /\ UNCHANGED <<rehearsed, rehearsing, decisions, stopped, epoch, attempts,
                 submission, execution, world>>

BeginRehearsal(j) ==
  /\ rehearsing[j] = 0
  /\ payload[j] # 0
  /\ j \notin stopped
  /\ SourceFence(j, payload[j])
  /\ rehearsing' = [rehearsing EXCEPT ![j] = payload[j]]
  /\ UNCHANGED <<payloads, payload, rehearsed, decided, submission, execution, world>>

CompleteRehearsalMutant(j) ==
  /\ rehearsing[j] # 0
  /\ rehearsing' = [rehearsing EXCEPT ![j] = 0]
  /\ rehearsed' = [rehearsed EXCEPT ![j] = @ \cup {rehearsing[j]}]
  /\ status' = [status EXCEPT ![j] = "awaiting_approval"]
  /\ UNCHANGED <<payloads, payload, decisions, stopped, epoch, attempts, runOf,
                 submission, execution, world>>

(* The browser was inspected meanwhile: everything is checked again.  The  *)
(* status is set whatever it has become.                                   *)
CompleteRehearsal(j) ==
  /\ rehearsing[j] # 0
  /\ rehearsing' = [rehearsing EXCEPT ![j] = 0]
  /\ \/ /\ j \notin stopped
        /\ payload[j] = rehearsing[j]
        /\ SourceFence(j, payload[j])
        /\ rehearsed' = [rehearsed EXCEPT ![j] = @ \cup {payload[j]}]
        /\ status' = [status EXCEPT ![j] = "awaiting_approval"]
     \/ UNCHANGED <<rehearsed, status>>   \* refused, failed, timed out or crashed
  /\ UNCHANGED <<payloads, payload, decisions, stopped, epoch, attempts, runOf,
                 submission, execution, world>>

Decided(verdict) ==
  CASE verdict = "approve_submit" -> "approved"
    [] verdict = "approve_dry_run" -> "approved_dry_run"
    [] verdict = "defer" -> "deferred"
    [] verdict = "decline" -> "declined"
    [] OTHER -> "awaiting_approval"

ReviewAllowed(j, verdict) ==
  /\ verdict \in {"approve_submit", "approve_dry_run"} =>
       /\ j \notin stopped
       /\ payload[j] # 0
       /\ SourceFence(j, payload[j])
  /\ verdict = "approve_submit" =>
       /\ ~HasIntent(j)
       /\ RepeatGuard(j, {})
       /\ payload[j] \in rehearsed[j]

Review(j, verdict) ==
  /\ Len(decisions[j]) < MaxDecisions
  /\ ReviewAllowed(j, verdict)
  /\ decisions' = [decisions EXCEPT ![j] =
       Append(@, [verdict |-> verdict, payload |-> payload[j]])]
  /\ status' = IF HasIntent(j) \/ j \in stopped THEN status
               ELSE [status EXCEPT ![j] = Decided(verdict)]
  /\ UNCHANGED <<prepared, stopped, epoch, attempts, runOf, submission, execution, world>>

(* control: a reset releases a local stop and revokes every earlier        *)
(* approval; it is refused once the job has an intent.                     *)
Reset(j) ==
  /\ Len(decisions[j]) < MaxDecisions
  /\ ~HasIntent(j)
  /\ j \notin outcomes
  /\ status[j] # "needs_verification"
  /\ ~ActiveRun(j)
  /\ stopped' = stopped \ {j}
  /\ status' = [status EXCEPT ![j] = IF payload[j] # 0 THEN "awaiting_approval" ELSE "unprepared"]
  /\ \/ attempts' = [attempts EXCEPT ![j] = 0]                     \* resetAttempts
     \/ attempts[j] < AutomaticLimit /\ UNCHANGED attempts
  /\ decisions' = [decisions EXCEPT ![j] = Append(@, [verdict |-> "reset", payload |-> payload[j]])]
  /\ UNCHANGED <<prepared, epoch, runOf, submission, execution, world>>

MarkFailed(j) ==
  /\ ~HasIntent(j)
  /\ j \notin outcomes
  /\ j \notin stopped
  /\ ~ActiveRun(j)
  /\ status' = [status EXCEPT ![j] = "failed"]
  /\ UNCHANGED <<prepared, decisions, stopped, epoch, attempts, runOf, submission,
                 execution, world>>

Stop(j, how) ==
  /\ epoch[j] < MaxStops
  /\ stopped' = stopped \cup {j}
  /\ status' = [status EXCEPT ![j] = how]
  /\ epoch' = [epoch EXCEPT ![j] = @ + 1]
  /\ UNCHANGED <<prepared, decisions, attempts, runOf, submission, execution, world>>

(* The posting, the profile, the accepted resume or the screening answers  *)
(* a payload of this job is bound to change.                               *)
ChangeSources(j) ==
  /\ sources[j] < MaxSources
  /\ sources' = [sources EXCEPT ![j] = @ + 1]
  /\ UNCHANGED <<prepared, decided, submission, execution, outcomes, checks>>

(* The user records that the job was applied to, by whatever means.        *)
RecordOutcome(j) ==
  /\ j \notin outcomes
  /\ outcomes' = outcomes \cup {j}
  /\ UNCHANGED <<prepared, decided, submission, execution, sources, checks>>

(* The model's answer is dropped when the evidence changed while it was    *)
(* thinking, so an assessment is always of the current evidence.           *)
AssessRepeat(j, verdict) ==
  /\ Len(checks[j]) < MaxChecks
  /\ outcomes # {}
  /\ j \notin outcomes
  /\ checks' = [checks EXCEPT ![j] = Append(@,
       [evidence |-> Evidence(j), verdict |-> verdict, granted |-> FALSE, usedBy |-> {}])]
  /\ UNCHANGED <<prepared, decided, submission, execution, outcomes, sources>>

ConsentToRepeat(j) ==
  /\ j \notin outcomes
  /\ outcomes # {}
  /\ Assessed(j) # 0
  /\ checks[j][Assessed(j)].verdict = "same_employer_equivalent_role"
  /\ ~checks[j][Assessed(j)].granted
  /\ ~HasIntent(j)
  /\ checks' = [checks EXCEPT ![j][Assessed(j)].granted = TRUE]
  /\ UNCHANGED <<prepared, decided, submission, execution, outcomes, sources>>

-------------------------------------------------------------------------------
(* Executions: the action runs that submit.  Their retries are those of    *)
(* ActionRun; what they do here is Service.execute, batch, run_approved.   *)

(* The user's execution names the reviewed payload and its approval; both  *)
(* may be out of date by the time it is admitted.                          *)
QueueDirect(e, js) ==
  /\ stage[e] = "new"
  /\ js # {}
  /\ \A j \in js : payload[j] # 0 /\ Approves(j, Len(decisions[j]), payload[j])
  /\ item' = [item EXCEPT ![e] = [j \in Jobs |->
       IF j \in js THEN [payload |-> payload[j], approval |-> Len(decisions[j])] ELSE Nothing]]
  /\ stage' = [stage EXCEPT ![e] = "queued"]
  /\ UNCHANGED <<prepared, decided, submission, tries, pc, world>>

QueueStanding(e) ==
  /\ stage[e] = "new"
  /\ stage' = [stage EXCEPT ![e] = "queued"]
  /\ UNCHANGED <<prepared, decided, submission, tries, item, pc, world>>

StartWith(e, js) ==
  /\ stage[e] = "queued"
  /\ stage' = [stage EXCEPT ![e] = "executing"]
  /\ tries' = [tries EXCEPT ![e] = @ + 1]
  /\ pc' = [pc EXCEPT ![e] = [j \in Jobs |-> IF j \in js THEN "todo" ELSE "idle"]]

StartDirectMutant(e) ==
  /\ StartWith(e, {j \in Jobs : item[e][j] # Nothing /\ ~HasIntent(j)})
  /\ UNCHANGED <<prepared, decided, submission, item, world>>

(* An attempt of a fixed batch works on every item again.                  *)
StartDirect(e) ==
  /\ StartWith(e, {j \in Jobs : item[e][j] # Nothing})
  /\ UNCHANGED <<prepared, decided, submission, item, world>>

(* select_approved: canExecute, and the limits of automatic selection.     *)
Selectable(j) ==
  /\ j \notin stopped
  /\ payload[j] # 0
  /\ ~HasIntent(j)
  /\ status[j] = "approved"
  /\ attempts[j] < AutomaticLimit
  /\ Approves(j, Len(decisions[j]), payload[j])
  /\ SourceFence(j, payload[j])
  /\ RepeatGuard(j, {})

(* An attempt of the standing loop selects again.  Fit, its threshold, the *)
(* source exclusions and the limit of the command may leave any job out.   *)
StartStanding(e, js) ==
  /\ js \subseteq {j \in Jobs : Selectable(j)}
  /\ StartWith(e, js)
  /\ item' = [item EXCEPT ![e] = [j \in Jobs |->
       IF j \in js THEN [payload |-> payload[j], approval |-> Len(decisions[j])] ELSE Nothing]]
  /\ UNCHANGED <<prepared, decided, submission, world>>

(* The run identity of an item is fixed by the execution, the position and *)
(* the job: a row it already has must be for the same payload and approval.*)
Conflict(e, j) ==
  /\ runs[e][j] # NoRun
  /\ \/ runs[e][j].payload # item[e][j].payload
     \/ runs[e][j].approval # item[e][j].approval

(* The semaphore of a batch.                                               *)
HasSlot(e) == Cardinality({k \in Jobs : pc[e][k] \in InFlight}) < Concurrency

(* The conditions of admit_execution for a run the job does not have yet.  *)
Admissible(e, j) ==
  LET p == item[e][j].payload IN
  /\ stage[e] = "executing"
  /\ ~HasIntent(j)
  /\ runs[e][j] = NoRun
  /\ j \notin stopped
  /\ j \notin outcomes
  /\ payload[j] = p
  /\ Approves(j, item[e][j].approval, p)
  /\ SourceFence(j, p)
  /\ e \in Standing => status[j] = "approved" /\ attempts[j] < AutomaticLimit
  /\ RepeatGuard(j, {e})
  /\ payloads[j][p].mode = "email" => Cardinality(SendingRuns) < Concurrency

(* admit_execution: the run, the attempt, the use of a repeat consent and, *)
(* for an email, the submit intent are one transaction.                    *)
Admit(e, j) ==
  LET p      == item[e][j].payload
      email  == payloads[j][p].mode = "email"
      now    == IF email THEN "sending" ELSE "manual_required"
      used   == IF RepeatClear(j) THEN 0 ELSE Assessed(j)
  IN
  /\ pc[e][j] = "todo"
  /\ HasSlot(e)
  /\ Admissible(e, j)
  /\ checks' = IF used = 0 THEN checks
               ELSE [checks EXCEPT ![j][used].usedBy = {e}]
  /\ runs' = [runs EXCEPT ![e][j] =
       [status |-> now, payload |-> p, approval |-> item[e][j].approval, consent |-> used]]
  /\ attempts' = [attempts EXCEPT ![j] = @ + 1]
  /\ runOf' = [runOf EXCEPT ![j] = {e}]
  /\ status' = [status EXCEPT ![j] = now]
  /\ intents' = IF ~email THEN intents
       ELSE intents \cup {[job |-> j, run |-> e, payload |-> p, approval |-> item[e][j].approval]}
  /\ pc' = [pc EXCEPT ![e][j] = IF email THEN "admitted" ELSE "idle"]
  /\ UNCHANGED <<prepared, decisions, stopped, epoch, receipts, delivered,
                 stage, tries, item, outcomes, sources>>

(* A refusal, the answer of an earlier run or a cancelled batch leaves     *)
(* everything as it is.  Fit and the attachment may refuse any admission.  *)
Refuse(e, j) ==
  /\ pc[e][j] = "todo"
  /\ ~HasIntent(j) \/ Conflict(e, j) \/ stage[e] = "cancelled"
  /\ pc' = [pc EXCEPT ![e][j] = "idle"]
  /\ UNCHANGED <<prepared, decided, submission, stage, tries, item, world>>

(* _park_unknown for the run f that owns the intent of j.                  *)
Park(f, j) ==
  /\ runs' = [runs EXCEPT ![f][j].status = "needs_verification"]
  /\ status' = IF runOf[j] = {f} /\ j \notin stopped
               THEN [status EXCEPT ![j] = "needs_verification"] ELSE status

ReconcileMutant(e, j) ==
  /\ pc[e][j] = "todo"
  /\ HasSlot(e)
  /\ ~Conflict(e, j)
  /\ \E i \in intents : i.job = j /\ Park(i.run, j)
  /\ pc' = [pc EXCEPT ![e][j] = "idle"]
  /\ UNCHANGED <<prepared, decisions, stopped, epoch, attempts, runOf, intents, receipts,
                 delivered, stage, tries, item, world>>

(* admit_execution on a job with an intent, whichever run asks and even if *)
(* it is cancelled: settled, or parked as unknown, also while the run that *)
(* owns the intent is still sending.                                       *)
Reconcile(e, j) ==
  /\ pc[e][j] = "todo"
  /\ HasSlot(e)
  /\ ~Conflict(e, j)
  /\ \E i \in intents :
       /\ i.job = j
       /\ IF j \in receipts THEN UNCHANGED <<runs, status>> ELSE Park(i.run, j)
  /\ pc' = [pc EXCEPT ![e][j] = "idle"]
  /\ UNCHANGED <<prepared, decisions, stopped, epoch, attempts, runOf, intents, receipts,
                 delivered, stage, tries, item, world>>

SendMutant(e, j) ==
  /\ pc[e][j] = "admitted"
  /\ \/ /\ pc' = [pc EXCEPT ![e][j] = "confirmed"]
        /\ \/ UNCHANGED delivered
           \/ delivered' = [delivered EXCEPT ![j] = @ + 1]
     \/ /\ pc' = [pc EXCEPT ![e][j] = "unknown"]
        /\ \/ UNCHANGED delivered
           \/ delivered' = [delivered EXCEPT ![j] = @ + 1]
  /\ UNCHANGED <<prepared, decided, runs, intents, receipts, stage, tries, item, world>>

(* One POST.  A valid receipt confirms it; a refusal, a timeout, a lost or *)
(* malformed answer or a cancellation does not say whether it was sent.    *)
Send(e, j) ==
  /\ pc[e][j] = "admitted"
  /\ \/ /\ pc' = [pc EXCEPT ![e][j] = "confirmed"]
        /\ delivered' = [delivered EXCEPT ![j] = @ + 1]
     \/ /\ pc' = [pc EXCEPT ![e][j] = "unknown"]
        /\ \/ UNCHANGED delivered
           \/ delivered' = [delivered EXCEPT ![j] = @ + 1]
  /\ UNCHANGED <<prepared, decided, runs, intents, receipts, stage, tries, item, world>>

(* settle_confirmation: the receipt, the outcome fact, the run and, unless *)
(* it was stopped meanwhile, the job are one transaction.                  *)
SettleConfirmation(e, j) ==
  /\ pc[e][j] = "confirmed"
  /\ receipts' = receipts \cup {j}
  /\ outcomes' = outcomes \cup {j}
  /\ runs' = [runs EXCEPT ![e][j].status = "applied"]
  /\ status' = IF runOf[j] = {e} /\ j \notin stopped
               THEN [status EXCEPT ![j] = "applied"] ELSE status
  /\ pc' = [pc EXCEPT ![e][j] = "idle"]
  /\ UNCHANGED <<prepared, decisions, stopped, epoch, attempts, runOf, intents,
                 delivered, stage, tries, item, sources, checks>>

RetainUncertain(e, j) ==
  /\ pc[e][j] = "unknown"
  /\ IF j \in receipts THEN UNCHANGED <<runs, status>> ELSE Park(e, j)
  /\ pc' = [pc EXCEPT ![e][j] = "idle"]
  /\ UNCHANGED <<prepared, decisions, stopped, epoch, attempts, runOf, intents, receipts,
                 delivered, stage, tries, item, world>>

Finish(e) ==
  /\ stage[e] \in {"executing", "cancelled"}
  /\ \A j \in Jobs : pc[e][j] = "idle"
  /\ stage' = [stage EXCEPT ![e] = IF stage[e] = "executing" THEN "done" ELSE "ended"]
  /\ UNCHANGED <<prepared, decided, submission, tries, item, pc, world>>

CrashMutant(e) ==
  /\ stage[e] \in {"executing", "cancelled"}
  /\ pc' = [pc EXCEPT ![e] = [j \in Jobs |-> "idle"]]
  /\ stage' = [stage EXCEPT ![e] = "queued"]
  /\ UNCHANGED <<prepared, decided, submission, tries, item, world>>

(* The worker process dies anywhere in the attempt; the durable run tries  *)
(* again while it may.                                                     *)
Crash(e) ==
  /\ stage[e] \in {"executing", "cancelled"}
  /\ pc' = [pc EXCEPT ![e] = [j \in Jobs |-> "idle"]]
  /\ stage' = [stage EXCEPT ![e] =
       IF stage[e] = "executing" /\ tries[e] < MaxTries[e] THEN "queued" ELSE "ended"]
  /\ UNCHANGED <<prepared, decided, submission, tries, item, world>>

Cancel(e) ==
  /\ stage[e] \in {"queued", "executing"}
  /\ stage' = [stage EXCEPT ![e] = IF stage[e] = "queued" THEN "ended" ELSE "cancelled"]
  /\ UNCHANGED <<prepared, decided, submission, tries, item, pc, world>>

Step(e) ==
  \/ e \in Direct /\ StartDirect(e)
  \/ e \in Standing /\ \E js \in SUBSET Jobs : StartStanding(e, js)
  \/ \E j \in Jobs :
       \/ Admit(e, j)
       \/ Refuse(e, j)
       \/ Reconcile(e, j)
       \/ Send(e, j)
       \/ SettleConfirmation(e, j)
       \/ RetainUncertain(e, j)
  \/ Finish(e)

Decide(j) ==
  \/ \E mode \in Modes : Prepare(j, mode)
  \/ BeginRehearsal(j)
  \/ CompleteRehearsal(j)
  \/ \E verdict \in Reviews : Review(j, verdict)
  \/ Reset(j)
  \/ MarkFailed(j)
  \/ \E how \in Stops : Stop(j, how)
  \/ ChangeSources(j)
  \/ \E verdict \in {"clear", "same_employer_equivalent_role", "uncertain"} :
       AssessRepeat(j, verdict)
  \/ ConsentToRepeat(j)

Next ==
  \/ \E j \in Jobs : Decide(j)
  \/ \E j \in Jobs \cup OtherJobs : RecordOutcome(j)
  \/ \E e \in Direct, js \in SUBSET Jobs : QueueDirect(e, js)
  \/ \E e \in Standing : QueueStanding(e)
  \/ \E e \in Executions : Step(e) \/ Crash(e) \/ Cancel(e)

Spec == Init /\ [][Next]_vars

(* The durable service keeps starting what is queued, and an attempt that  *)
(* does not crash goes on: every call it makes has a timeout.              *)
Fairness == \A e \in Executions : WF_vars(Step(e))

FairSpec == Spec /\ Fairness

-------------------------------------------------------------------------------
(* Properties.                                                             *)

(* At most one message per job ever reaches the provider, whatever mixture *)
(* of executions, retries, crashes, stops and resets it goes through.      *)
AtMostOneMessage == \A j \in Jobs : delivered[j] <= 1

(* A recorded confirmation is of a message that was sent, it is in the     *)
(* feedback ledger, and nothing turns its run back into an uncertain one.  *)
ConfirmationStands ==
  \A i \in intents : i.job \in receipts =>
    /\ delivered[i.job] = 1
    /\ i.job \in outcomes
    /\ runs[i.run][i.job].status = "applied"

(* A local stop keeps the job out of every working status until the user   *)
(* resets it, also when a rehearsal, a late confirmation or another        *)
(* execution's reconciliation arrives after the stop.                      *)
StopSurvives == \A j \in stopped : status[j] \in {"skipped", "cancelled"}

(* The intent is for the payload the job still shows and belongs to the    *)
(* run that the job still names: no preparation or second run may replace  *)
(* them once the intent exists.                                            *)
IntentPinsJob ==
  \A i \in intents :
    /\ payload[i.job] = i.payload
    /\ runOf[i.job] = {i.run}
    /\ runs[i.run][i.job].payload = i.payload
    /\ runs[i.run][i.job].status # "none"

(* What the record of a submission says stays true of the job.             *)
RecordStands == ConfirmationStands /\ IntentPinsJob

(* A consent to repeat an application is good for one run.                 *)
OneUseConsent ==
  \A j \in Jobs : \A e, f \in Executions :
    /\ e # f
    /\ runs[e][j].consent # 0
    => runs[e][j].consent # runs[f][j].consent

(* "Safe reset never revives a payload prepared before that stop" and an   *)
(* approval is of the sources it showed: a payload older than the last     *)
(* stop or than the last change of its sources that has no intent never    *)
(* gets one, whatever is reset, rehearsed or approved afterwards.          *)
UpToDate(j, p) ==
  payloads[j][p].epoch = epoch[j] /\ payloads[j][p].sources = sources[j]

CommitsPayload(j, p) == \E i \in intents : i.job = j /\ i.payload = p

NoRevival ==
  [][\A j \in Jobs : \A p \in DOMAIN payloads[j] :
       ~UpToDate(j, p) /\ ~CommitsPayload(j, p)
         => ~UpToDate(j, p)' /\ ~CommitsPayload(j, p)']_vars

(* The owned email path implements the at-most-once promise: a job is      *)
(* committed by its intent and confirmed by its receipt.                   *)
Once == INSTANCE SubmitOnce WITH
  committed <- {i.job : i \in intents}, sent <- delivered, confirmed <- receipts

SubmitsOnce == Once!Spec

(* An email that a direct execution or batch admitted does not stay        *)
(* "sending": it is confirmed or parked, unless the execution used up its  *)
(* attempts or was cancelled ("ended" instead of "done").                  *)
DirectSettles ==
  \A e \in Direct, j \in Jobs :
    runs[e][j].status = "sending" ~> runs[e][j].status # "sending" \/ stage[e] = "ended"

(* docs/claims-ledger.md:118: "a crash or provider exception after that    *)
(* intent parks the run for manual verification instead of retrying".  The *)
(* standing loop selects no job with an intent: its next attempt completes *)
(* without parking the run.                                                *)
CrashParks ==
  \A e \in Standing, j \in Jobs :
    runs[e][j].status = "sending" /\ stage[e] = "done" ~> runs[e][j].status # "sending"

(* docs/architecture/read-model.md:33: "A lost or malformed                *)
(* acknowledgement remains `needs_verification` and blocks another send,   *)
(* even after retry, reset, restart or a manual outcome".  A rehearsal     *)
(* that completes after it puts the job back to "awaiting_approval".       *)
UnknownStaysVisible ==
  [][\A j \in Jobs : status[j] = "needs_verification"
       => status'[j] = "needs_verification" \/ j \in stopped' \/ j \in receipts']_vars

===============================================================================
