------------------------------ MODULE BrowserTasks ------------------------------
(***************************************************************************)
(* Discovery through the user's Chrome: the broker that queues and leases  *)
(* acquisitions (ExtensionBroker of extension_transport.py), the Discovery *)
(* activities that wait for them (fetch_public), and the polling pool and  *)
(* lease heartbeats of the extension (background.ts, discovery-loop.ts,    *)
(* local-api.ts).  The user changes the selected profile, rotates the      *)
(* token and cancels runs while leases are resolved, pages are fetched and *)
(* results are on their way; requests are abandoned and processes die.     *)
(*                                                                         *)
(* A lease ends with its task: both deadlines are timeoutMs away, the      *)
(* task's from the earlier moment, and the lease has the smaller one.      *)
(*                                                                         *)
(* A definition whose name ends in "Mutant" is not part of the             *)
(* specification: it is the named definition with one plausible bug.       *)
(***************************************************************************)
EXTENDS Naturals, Sequences, FiniteSets

CONSTANTS
  Tasks,        \* acquisitions, by taskId
  Runs,         \* the action runs they are made for
  ParentOf,     \* the run of each task
  Profiles,     \* paired Chrome profiles, by installationId
  Executors,    \* the polling loops of all profiles
  Of,           \* the profile of each loop
  Capacity,     \* open tasks the broker admits (64)
  MaxChanges,   \* bound: selections of a profile and rotations of the token
  Nobody

ASSUME BrowserTasksAssumption ==
  /\ IsFiniteSet(Tasks)
  /\ ParentOf \in [Tasks -> Runs] /\ Of \in [Executors -> Profiles]
  /\ Capacity \in Nat /\ MaxChanges \in Nat
  /\ Nobody \notin Profiles \cup Executors \cup Tasks

VARIABLES
  active,     \* runs that are queued or running, and not cancelled
  tasks,      \* extension_browser_tasks
  queued,     \* the tasks by created_at
  caller,     \* where fetch_public is for each task
  selected,   \* extension_installation
  changes,    \* selections and rotations so far
  paired,     \* profiles that hold the current token
  on,         \* loops that run
  expired,    \* loops that run with a token that was rotated
  work,       \* what each loop does
  polls,      \* lease requests whose destination is being resolved
  posts,      \* results on their way
  started     \* how often each task was begun in Chrome

broker == <<tasks, queued>>
chrome == <<on, expired, work>>
wire == <<polls, posts>>
selection == <<selected, changes, paired>>
vars == <<active, broker, caller, selection, chrome, wire, started>>

Open == {"pending", "leased"}
Terminal == {"succeeded", "failed"}

(* `holder` is the loop whose leaseId the row has; `late`, the deadline    *)
(* has passed.                                                             *)
Task == [state : {"none"} \cup Open \cup Terminal,
         holder : Executors \cup {Nobody}, late : BOOLEAN]
Work == [at : {"idle", "polling", "executing"}, task : Tasks \cup {Nobody}, aborted : BOOLEAN]
Poll == [loop : Executors, task : Tasks, awaited : BOOLEAN]
Post == [loop : Executors, task : Tasks, status : Terminal]

(* Type correctness.  A loop that works is running.                        *)
TypeOK ==
  /\ active \subseteq Runs
  /\ tasks \in [Tasks -> Task]
  /\ queued \in Seq(Tasks)
  /\ caller \in [Tasks -> {"none", "resolving", "waiting", "returned", "raised", "dead"}]
  /\ selected \in Profiles \cup {Nobody} /\ paired \subseteq Profiles
  /\ changes \in 0..MaxChanges
  /\ expired \subseteq on /\ on \subseteq Executors
  /\ work \in [Executors -> Work]
  /\ \A e \in Executors : work[e].at # "idle" => e \in on
  /\ polls \subseteq Poll /\ posts \subseteq Post
  /\ started \in [Tasks -> Nat]

NoWork == [at |-> "idle", task |-> Nobody, aborted |-> FALSE]

Init ==
  /\ active = Runs
  /\ tasks = [t \in Tasks |-> [state |-> "none", holder |-> Nobody, late |-> FALSE]]
  /\ queued = << >>
  /\ caller = [t \in Tasks |-> "none"]
  /\ selected = Nobody /\ changes = 0 /\ paired = {}
  /\ on = {} /\ expired = {} /\ work = [e \in Executors |-> NoWork]
  /\ polls = {} /\ posts = {}
  /\ started = [t \in Tasks |-> 0]

-------------------------------------------------------------------------------
(* What the broker's transactions have in common.                          *)

Active(t) == ParentOf[t] \in active

Failed(rows, S) ==
  [t \in Tasks |-> IF t \in S THEN [rows[t] EXCEPT !.state = "failed"] ELSE rows[t]]

(* _expire, by which every transaction of the broker begins                *)
Unexpired ==
  Failed(tasks, {t \in Tasks : tasks[t].state \in Open /\ tasks[t].late})

(* _selected: otherwise 409, and nothing of the transaction is kept.       *)
Selected(e) == selected = Of[e]

(* The capability token is read when a request arrives: otherwise 401.     *)
Authorised(e) == e \notin expired /\ Selected(e)

Leased(rows, t, e) == rows[t].state = "leased" /\ rows[t].holder = e

(* lease_active of an authorised loop                                      *)
LeaseActive(t, e) == Leased(Unexpired, t, e) /\ Active(t)

Validated(t, e) ==
  IF Leased(Unexpired, t, e) /\ ~Active(t) THEN Failed(Unexpired, {t}) ELSE Unexpired

Cancelled(t) == Failed(tasks, {t} \cap {u \in Tasks : tasks[u].state \in Open})

-------------------------------------------------------------------------------
(* fetch_public                                                            *)

Ask(t) ==
  /\ caller[t] = "none"
  /\ caller' = [caller EXCEPT ![t] = IF Active(t) THEN "resolving" ELSE "raised"]
  /\ UNCHANGED <<active, broker, selection, chrome, wire, started>>

(* The destination is public, and the run is still active.                 *)
CreateTask(t) ==
  /\ caller[t] = "resolving"
  /\ Active(t)
  /\ Cardinality({u \in Tasks : Unexpired[u].state \in Open}) < Capacity
  /\ tasks' = [Unexpired EXCEPT ![t] = [state |-> "pending", holder |-> Nobody, late |-> FALSE]]
  /\ queued' = Append(queued, t)
  /\ caller' = [caller EXCEPT ![t] = "waiting"]
  /\ UNCHANGED <<active, selection, chrome, wire, started>>

(* It is not, the run has ended, or the queue is full.                     *)
CreateRefused(t) ==
  /\ caller[t] = "resolving"
  /\ caller' = [caller EXCEPT ![t] = "raised"]
  /\ UNCHANGED <<active, broker, selection, chrome, wire, started>>

ReadStatus(t) ==
  /\ caller[t] = "waiting"
  /\ tasks' = Unexpired
  /\ caller' = [caller EXCEPT ![t] =
       CASE Unexpired[t].state = "succeeded" -> "returned"
         [] Unexpired[t].state = "failed" -> "raised"
         [] OTHER -> "waiting"]
  /\ UNCHANGED <<active, queued, selection, chrome, wire, started>>

(* The run was cancelled, the time is up, or the wait is interrupted (a    *)
(* shutdown, a heartbeat that fails): the task goes with its caller.       *)
GiveUp(t) ==
  /\ caller[t] = "waiting"
  /\ tasks' = Cancelled(t)
  /\ caller' = [caller EXCEPT ![t] = "raised"]
  /\ UNCHANGED <<active, queued, selection, chrome, wire, started>>

CallerDies(t) ==
  /\ caller[t] \in {"resolving", "waiting"}
  /\ caller' = [caller EXCEPT ![t] = "dead"]
  /\ UNCHANGED <<active, broker, selection, chrome, wire, started>>

EndRun(r) ==
  /\ r \in active
  /\ active' = active \ {r}
  /\ UNCHANGED <<broker, caller, selection, chrome, wire, started>>

DeadlinePasses(t) ==
  /\ tasks[t].state # "none" /\ ~tasks[t].late
  /\ tasks' = [tasks EXCEPT ![t].late = TRUE]
  /\ UNCHANGED <<active, queued, caller, selection, chrome, wire, started>>

-------------------------------------------------------------------------------
(* One polling loop of the extension, and the requests it makes.           *)

(* The oldest pending task is the i-th that was made.                      *)
Oldest(i) ==
  /\ Unexpired[queued[i]].state = "pending"
  /\ \A j \in 1..(i - 1) : Unexpired[queued[j]].state # "pending"

Stopped(e) == on' = on \ {e} /\ expired' = expired \ {e}

(* The first transaction of lease chooses the oldest pending task.         *)
PollNext(e) ==
  /\ e \in on /\ work[e].at = "idle" /\ Authorised(e)
  /\ tasks' = Unexpired
  /\ \E i \in DOMAIN queued :
       /\ Oldest(i)
       /\ polls' = polls \cup {[loop |-> e, task |-> queued[i], awaited |-> TRUE]}
       /\ work' = [work EXCEPT ![e] = [at |-> "polling", task |-> queued[i], aborted |-> FALSE]]
  /\ UNCHANGED <<active, queued, caller, selection, on, expired, posts, started>>

(* Nothing is pending.                                                     *)
PollIdle(e) ==
  /\ e \in on /\ work[e].at = "idle" /\ Authorised(e)
  /\ \A t \in Tasks : Unexpired[t].state # "pending"
  /\ tasks' = Unexpired
  /\ UNCHANGED <<active, queued, caller, selection, chrome, wire, started>>

PollRefused(e) ==
  /\ e \in on /\ work[e].at = "idle" /\ ~Authorised(e)
  /\ Stopped(e)
  /\ UNCHANGED <<active, broker, caller, selection, work, wire, started>>

Forgotten(S) ==
  {IF p.loop \in S THEN [p EXCEPT !.awaited = FALSE] ELSE p : p \in polls}

(* No answer within the loop's 10 seconds, or it was lost.                 *)
AbandonPoll(e) ==
  /\ work[e].at = "polling"
  /\ work' = [work EXCEPT ![e] = NoWork]
  /\ polls' = Forgotten({e})
  /\ UNCHANGED <<active, broker, caller, selection, on, expired, posts, started>>

AnsweredMutant(p, w) == work' = [work EXCEPT ![p.loop] = w]

(* The loop that waits for the answer goes on; one that does not, has.     *)
Answered(p, w) == work' = IF p.awaited THEN [work EXCEPT ![p.loop] = w] ELSE work

(* The run has ended or the destination is not public.                     *)
LeaseRefused(p) ==
  /\ tasks' = Cancelled(p.task)
  /\ polls' = polls \ {p}
  /\ Answered(p, NoWork)
  /\ UNCHANGED <<active, queued, caller, selection, on, expired, posts, started>>

AdmissibleMutant(t) == Unexpired[t].state \in Open

(* the condition of the UPDATE that grants the lease *)
Admissible(t) == Unexpired[t].state = "pending"

(* The second transaction of lease, after the destination was resolved.    *)
GrantLease(p) ==
  LET t == p.task
      granted == Active(t) /\ Admissible(t)
  IN /\ Selected(p.loop)
     /\ tasks' = IF granted
                 THEN [Unexpired EXCEPT ![t] =
                        [state |-> "leased", holder |-> p.loop, late |-> Unexpired[t].late]]
                 ELSE Failed(Unexpired, {t} \cap {u \in Tasks : ~Active(u) /\ Unexpired[u].state = "pending"})
     /\ Answered(p, IF granted THEN [at |-> "executing", task |-> t, aborted |-> FALSE] ELSE NoWork)
     /\ started' = IF granted /\ p.awaited THEN [started EXCEPT ![t] = started[t] + 1] ELSE started
     /\ polls' = polls \ {p}
     /\ UNCHANGED <<active, queued, caller, selection, on, expired, posts>>

GrantRefused(p) ==
  /\ ~Selected(p.loop)
  /\ Answered(p, NoWork)
  /\ IF p.awaited THEN Stopped(p.loop) ELSE UNCHANGED <<on, expired>>
  /\ polls' = polls \ {p}
  /\ UNCHANGED <<active, broker, caller, selection, posts, started>>

HeartbeatMutant(e) ==
  LET t == work[e].task
  IN /\ work[e].at = "executing" /\ ~work[e].aborted
     /\ Authorised(e)
     /\ tasks' = Validated(t, e)
     /\ work' = [work EXCEPT ![e].aborted = ~LeaseActive(t, e)]
     /\ UNCHANGED <<active, queued, caller, selection, on, expired, wire, started>>

(* While Chrome works; 401, 403, 404 and 409 abort it as an inactive lease *)
(* does.                                                                   *)
Heartbeat(e) ==
  LET t == work[e].task
  IN /\ work[e].at = "executing" /\ ~work[e].aborted
     /\ tasks' = IF Authorised(e) THEN Validated(t, e) ELSE tasks
     /\ work' = [work EXCEPT ![e].aborted = ~(Authorised(e) /\ LeaseActive(t, e))]
     /\ UNCHANGED <<active, queued, caller, selection, on, expired, wire, started>>

(* Chrome is done, or out of its own time, and the last heartbeat was      *)
(* good: the result is sent.  The loop does not depend on the answer.      *)
SendResult(e) ==
  /\ work[e].at = "executing" /\ ~work[e].aborted
  /\ \E status \in Terminal :
       posts' = posts \cup {[loop |-> e, task |-> work[e].task, status |-> status]}
  /\ work' = [work EXCEPT ![e] = NoWork]
  /\ UNCHANGED <<active, broker, caller, selection, on, expired, polls, started>>

Abort(e) ==
  /\ work[e].at = "executing" /\ work[e].aborted
  /\ work' = [work EXCEPT ![e] = NoWork]
  /\ UNCHANGED <<active, broker, caller, selection, on, expired, wire, started>>

CompleteTaskMutant(p) ==
  /\ tasks' = IF Leased(Unexpired, p.task, p.loop)
              THEN [Unexpired EXCEPT ![p.task].state = p.status]
              ELSE Unexpired
  /\ posts' = posts \ {p}
  /\ UNCHANGED <<active, queued, caller, selection, chrome, polls, started>>

(* complete: its last check and its transaction, after the address the     *)
(* page ended at was resolved; what its first check refuses, these do.     *)
CompleteTask(p) ==
  /\ Selected(p.loop)
  /\ tasks' = IF LeaseActive(p.task, p.loop)
              THEN [Unexpired EXCEPT ![p.task].state = p.status]
              ELSE Validated(p.task, p.loop)
  /\ posts' = posts \ {p}
  /\ UNCHANGED <<active, queued, caller, selection, chrome, polls, started>>

(* The request is refused, or lost.                                        *)
LoseResult(p) ==
  /\ posts' = posts \ {p}
  /\ UNCHANGED <<active, broker, caller, selection, chrome, polls, started>>

-------------------------------------------------------------------------------
(* Profiles.                                                               *)

LoopsOf(pr) == {e \in Executors : Of[e] = pr}

(* wakeDiscoveryPolling, by an alarm every 30 seconds or after a message:  *)
(* nothing while a loop of the pool runs.  The claim replaces nobody.      *)
Wake(pr) ==
  /\ pr \in paired /\ LoopsOf(pr) \cap on = {}
  /\ selected \in {pr, Nobody}
  /\ selected' = pr
  /\ on' = on \cup LoopsOf(pr)
  /\ UNCHANGED <<active, broker, caller, changes, paired, expired, work, wire, started>>

(* saveToken, selectDiscoveryProfile: the claim replaces another profile,  *)
(* whose leases fail.                                                      *)
Select(pr) ==
  /\ changes < MaxChanges /\ changes' = changes + 1
  /\ selected' = pr
  /\ paired' = paired \cup {pr}
  /\ tasks' = IF selected \in {pr, Nobody} THEN tasks
              ELSE Failed(tasks, {t \in Tasks : tasks[t].state = "leased"})
  /\ UNCHANGED <<active, queued, caller, chrome, wire, started>>

(* The token is rotated, and disconnect() fails what is open, unless it    *)
(* fails itself (extension_rotation_partial) and leaves the selection.     *)
RotateToken ==
  /\ changes < MaxChanges /\ changes' = changes + 1
  /\ paired' = {}
  /\ expired' = on
  /\ \/ /\ selected' = Nobody
        /\ tasks' = Failed(tasks, {t \in Tasks : tasks[t].state \in Open})
     \/ UNCHANGED <<selected, tasks>>
  /\ UNCHANGED <<active, queued, caller, on, work, wire, started>>

(* The service worker of a profile is terminated.                          *)
WorkerDies(pr) ==
  /\ LoopsOf(pr) \cap on # {}
  /\ on' = on \ LoopsOf(pr) /\ expired' = expired \ LoopsOf(pr)
  /\ work' = [e \in Executors |-> IF Of[e] = pr THEN NoWork ELSE work[e]]
  /\ polls' = Forgotten(LoopsOf(pr))
  /\ UNCHANGED <<active, broker, caller, selection, posts, started>>

-------------------------------------------------------------------------------
Fetch(t) ==
  Ask(t) \/ CreateTask(t) \/ CreateRefused(t) \/ ReadStatus(t) \/ GiveUp(t) \/ CallerDies(t)

Loop(e) ==
  \/ PollNext(e) \/ PollIdle(e) \/ PollRefused(e) \/ AbandonPoll(e)
  \/ Heartbeat(e) \/ SendResult(e) \/ Abort(e)

Next ==
  \/ \E t \in Tasks : Fetch(t) \/ DeadlinePasses(t)
  \/ \E r \in Runs : EndRun(r)
  \/ \E e \in Executors : Loop(e)
  \/ \E p \in polls : LeaseRefused(p) \/ GrantLease(p) \/ GrantRefused(p)
  \/ \E p \in posts : CompleteTask(p) \/ LoseResult(p)
  \/ \E pr \in Profiles : Wake(pr) \/ Select(pr) \/ WorkerDies(pr)
  \/ RotateToken

Spec == Init /\ [][Next]_vars

(* A loop that executes calls every 750 ms until it is done, which an      *)
(* abort makes it.  Nothing is assumed of the page, or of Chrome's timer.  *)
Fairness == \A e \in Executors : WF_vars(Heartbeat(e)) /\ WF_vars(Abort(e))

FairSpec == Spec /\ Fairness

-------------------------------------------------------------------------------
(* Properties.                                                             *)

(* A page is fetched at most once for a task, also when two loops resolve  *)
(* the destination of the same pending task, or one of them has given up   *)
(* on the lease it is about to be granted.                                 *)
StartedOnce == \A t \in Tasks : started[t] <= 1

(* A task is leased, and a page accepted for it, only for the profile that *)
(* is selected and the run that is active in that moment, whatever was     *)
(* selected or cancelled while addresses were resolved and the page was    *)
(* fetched; and its first answer stands.                                   *)
Authority ==
  [][\A t \in Tasks : tasks'[t].state # tasks[t].state =>
       /\ tasks[t].state \notin Terminal
       /\ tasks'[t].state \in {"leased", "succeeded"} =>
            Active(t) /\ selected = Of[tasks'[t].holder]]_vars

(* A loop does not go on with a task that is no longer its own.            *)
AbandonedStops ==
  \A e \in Executors, t \in Tasks :
    work[e].at = "executing" /\ work[e].task = t /\ ~Leased(tasks, t, e)
      ~> ~(work[e].at = "executing" /\ work[e].task = t)

===============================================================================
