---------------------------- MODULE ExtensionProofs ----------------------------
(***************************************************************************)
(* Theorems about the two halves of a Discovery task.  About BrowserTasks: *)
(* for any number of tasks, runs, profiles and loops, a page is fetched at *)
(* most once for a task, and nothing is leased or accepted without the     *)
(* user's present authority.  And about PageVisit, what a loop does with a *)
(* task in Chrome: whatever Chrome answers, and however late, a visit that *)
(* is over leaves nothing behind, and its tab shows no page of another     *)
(* origin than the task's.                                                 *)
(***************************************************************************)
EXTENDS BrowserTasks, PageVisit, TLAPS

Rows == [Tasks -> Task]

(* A row from the moment it is made; before, nobody has asked for it.      *)
FreshInv ==
  \A t \in Tasks : caller[t] \in {"none", "resolving"} => tasks[t].state = "none"

(* What is not leased yet has not been begun.                              *)
BegunInv ==
  \A t \in Tasks : /\ started[t] \in {0, 1}
                   /\ tasks[t].state \in {"none", "pending"} => started[t] = 0

(* Whoever awaits a lease is the loop that is polling for that task.       *)
AwaitedInv ==
  /\ \A e \in Executors : work[e].at # "idle" => work[e].task \in Tasks
  /\ \A p \in polls : p.awaited =>
       work[p.loop].at = "polling" /\ work[p.loop].task = p.task

IInv == TypeOK /\ FreshInv /\ BegunInv /\ AwaitedInv

(* What one step may do with a row.                                        *)
Kept(t) == tasks'[t].state = tasks[t].state
Made(t) == caller[t] = "resolving" /\ caller'[t] = "waiting" /\ tasks'[t].state = "pending"
FailedNow(t) == tasks[t].state \in Open /\ tasks'[t].state = "failed"
Granted(t) == /\ tasks[t].state = "pending" /\ tasks'[t].state = "leased"
              /\ Active(t) /\ selected = Of[tasks'[t].holder]
Accepted(t) == /\ tasks[t].state = "leased" /\ tasks'[t].state \in Terminal
               /\ Active(t) /\ selected = Of[tasks'[t].holder]

RowStep(t) == Kept(t) \/ Made(t) \/ FailedNow(t) \/ Granted(t) \/ Accepted(t)

USE DEF Open, Terminal

-------------------------------------------------------------------------------
(* Failing rows keeps their type, and changes no row but those.            *)
LEMMA FailedRows ==
  ASSUME NEW rows \in Rows, NEW S
  PROVE  /\ Failed(rows, S) \in Rows
         /\ \A t \in Tasks : /\ t \in S => Failed(rows, S)[t].state = "failed"
                             /\ t \notin S => Failed(rows, S)[t] = rows[t]
                             /\ Failed(rows, S)[t].holder = rows[t].holder
  BY DEF Failed, Rows, Task

(* What _expire leaves of a row.                                           *)
LEMMA UnexpiredRows ==
  ASSUME tasks \in Rows
  PROVE  /\ Unexpired \in Rows
         /\ \A t \in Tasks :
              \/ Unexpired[t] = tasks[t]
              \/ tasks[t].state \in Open /\ Unexpired[t].state = "failed"
         /\ \A t \in Tasks : Unexpired[t].holder = tasks[t].holder
  BY FailedRows DEF Unexpired

LEMMA CancelledRows ==
  ASSUME tasks \in Rows, NEW t
  PROVE  /\ Cancelled(t) \in Rows
         /\ \A u \in Tasks : \/ Cancelled(t)[u] = tasks[u]
                             \/ tasks[u].state \in Open /\ Cancelled(t)[u].state = "failed"
  BY FailedRows DEF Cancelled

LEMMA ValidatedRows ==
  ASSUME tasks \in Rows, NEW t, NEW e
  PROVE  /\ Validated(t, e) \in Rows
         /\ \A u \in Tasks : \/ Validated(t, e)[u] = tasks[u]
                             \/ tasks[u].state \in Open /\ Validated(t, e)[u].state = "failed"
<1>1. CASE Leased(Unexpired, t, e) /\ ~Active(t)
  <2>1. Unexpired \in Rows /\ Validated(t, e) = Failed(Unexpired, {t})
        BY <1>1, UnexpiredRows DEF Validated
  <2>2. QED
        BY <1>1, <2>1, UnexpiredRows, FailedRows DEF Leased
<1>2. CASE ~(Leased(Unexpired, t, e) /\ ~Active(t))
      BY <1>2, UnexpiredRows DEF Validated
<1>3. QED
      BY <1>1, <1>2

-------------------------------------------------------------------------------
(* The broker's rows after any step.                                       *)
LEMMA StepRows ==
  ASSUME IInv, [Next]_vars
  PROVE  tasks' \in Rows /\ \A t \in Tasks : RowStep(t)
<1>0. tasks \in Rows
      BY DEF IInv, TypeOK, Rows
<1> USE DEF RowStep, Kept, FailedNow
<1>1. ASSUME NEW t \in Tasks, CreateTask(t) PROVE tasks' \in Rows /\ \A u \in Tasks : RowStep(u)
  <2>1. tasks' = [Unexpired EXCEPT ![t] = [state |-> "pending", holder |-> Nobody, late |-> FALSE]]
        BY <1>1 DEF CreateTask
  <2>2. Made(t)
        BY <1>0, <1>1, <2>1, UnexpiredRows DEF CreateTask, Made, IInv, TypeOK, Rows
  <2>3. QED
        BY <1>0, <2>1, <2>2, UnexpiredRows DEF Rows, Task
<1>2. ASSUME NEW t \in Tasks, ReadStatus(t) PROVE tasks' \in Rows /\ \A u \in Tasks : RowStep(u)
      BY <1>0, <1>2, UnexpiredRows DEF ReadStatus
<1>3. ASSUME NEW t \in Tasks, GiveUp(t) PROVE tasks' \in Rows /\ \A u \in Tasks : RowStep(u)
      BY <1>0, <1>3, CancelledRows DEF GiveUp
<1>4. ASSUME NEW t \in Tasks, DeadlinePasses(t) PROVE tasks' \in Rows /\ \A u \in Tasks : RowStep(u)
      BY <1>0, <1>4 DEF DeadlinePasses, Rows, Task
<1>5. ASSUME NEW e \in Executors, PollNext(e) PROVE tasks' \in Rows /\ \A u \in Tasks : RowStep(u)
      BY <1>0, <1>5, UnexpiredRows DEF PollNext
<1>6. ASSUME NEW e \in Executors, Heartbeat(e) PROVE tasks' \in Rows /\ \A u \in Tasks : RowStep(u)
      BY <1>0, <1>6, ValidatedRows DEF Heartbeat
<1>7. ASSUME NEW p \in polls, LeaseRefused(p) PROVE tasks' \in Rows /\ \A u \in Tasks : RowStep(u)
      BY <1>0, <1>7, CancelledRows DEF LeaseRefused
<1>8. ASSUME NEW p \in polls, GrantLease(p) PROVE tasks' \in Rows /\ \A u \in Tasks : RowStep(u)
  <2> DEFINE t == p.task
  <2>0. t \in Tasks /\ p.loop \in Executors
        BY DEF IInv, TypeOK, Poll
  <2>1. CASE Active(t) /\ Admissible(t)
    <3>1. tasks' = [Unexpired EXCEPT ![t] =
                     [state |-> "leased", holder |-> p.loop, late |-> Unexpired[t].late]]
          BY <1>8, <2>1 DEF GrantLease
    <3>2. Unexpired[t] = tasks[t] /\ tasks[t].state = "pending"
          BY <1>0, <2>0, <2>1, UnexpiredRows DEF Admissible
    <3>3. tasks' \in Rows /\ tasks'[t].state = "leased" /\ tasks'[t].holder = p.loop
          BY <1>0, <2>0, <3>1, UnexpiredRows DEF Rows, Task
    <3>4. Granted(t)
          BY <1>8, <2>1, <3>2, <3>3 DEF Granted, GrantLease, Selected
    <3>5. \A u \in Tasks \ {t} : RowStep(u)
          BY <1>0, <3>1, UnexpiredRows DEF Rows
    <3>6. QED
          BY <3>3, <3>4, <3>5
  <2>2. CASE ~(Active(t) /\ Admissible(t))
    <3>1. tasks' = Failed(Unexpired, {t} \cap {u \in Tasks : ~Active(u) /\ Unexpired[u].state = "pending"})
          BY <1>8, <2>2 DEF GrantLease
    <3>2. QED
          BY <1>0, <3>1, UnexpiredRows, FailedRows
  <2>3. QED
        BY <2>1, <2>2
<1>9. ASSUME NEW p \in posts, CompleteTask(p) PROVE tasks' \in Rows /\ \A u \in Tasks : RowStep(u)
  <2>0. p.task \in Tasks /\ p.status \in Terminal
        BY DEF IInv, TypeOK, Post
  <2>1. CASE LeaseActive(p.task, p.loop)
    <3>1. tasks' = [Unexpired EXCEPT ![p.task].state = p.status]
          BY <1>9, <2>1 DEF CompleteTask
    <3>2. Unexpired[p.task] = tasks[p.task] /\ tasks[p.task].state = "leased" /\ tasks[p.task].holder = p.loop
          BY <1>0, <2>0, <2>1, UnexpiredRows DEF LeaseActive, Leased
    <3>3. tasks' \in Rows /\ tasks'[p.task].state = p.status /\ tasks'[p.task].holder = p.loop
          BY <1>0, <2>0, <3>1, <3>2, UnexpiredRows DEF Rows, Task
    <3>4. Accepted(p.task)
          BY <1>9, <2>0, <2>1, <3>2, <3>3 DEF Accepted, CompleteTask, Selected, LeaseActive
    <3>5. \A u \in Tasks \ {p.task} : RowStep(u)
          BY <1>0, <3>1, UnexpiredRows DEF Rows
    <3>6. QED
          BY <3>3, <3>4, <3>5
  <2>2. CASE ~LeaseActive(p.task, p.loop)
        BY <1>0, <1>9, <2>2, ValidatedRows DEF CompleteTask
  <2>3. QED
        BY <2>1, <2>2
<1>10. ASSUME NEW pr \in Profiles, Select(pr) PROVE tasks' \in Rows /\ \A u \in Tasks : RowStep(u)
       BY <1>0, <1>10, FailedRows DEF Select
<1>11. CASE RotateToken
       BY <1>0, <1>11, FailedRows DEF RotateToken
<1>12. CASE UNCHANGED tasks
       BY <1>0, <1>12
<1>13. ASSUME NEW e \in Executors, PollIdle(e) PROVE tasks' \in Rows /\ \A u \in Tasks : RowStep(u)
       BY <1>0, <1>13, UnexpiredRows DEF PollIdle
<1>14. QED
  <2>1. ASSUME NEW t \in Tasks, Fetch(t) \/ DeadlinePasses(t) PROVE tasks' \in Rows /\ \A u \in Tasks : RowStep(u)
        BY <1>1, <1>2, <1>3, <1>4, <1>12, <2>1 DEF Fetch, Ask, CreateRefused, CallerDies, broker
  <2>2. ASSUME NEW e \in Executors, Loop(e) PROVE tasks' \in Rows /\ \A u \in Tasks : RowStep(u)
        BY <1>5, <1>6, <1>12, <1>13, <2>2 DEF Loop, PollRefused, AbandonPoll, SendResult, Abort, broker
  <2>3. ASSUME NEW p \in polls, LeaseRefused(p) \/ GrantLease(p) \/ GrantRefused(p)
        PROVE  tasks' \in Rows /\ \A u \in Tasks : RowStep(u)
        BY <1>7, <1>8, <1>12, <2>3 DEF GrantRefused, broker
  <2>4. ASSUME NEW p \in posts, CompleteTask(p) \/ LoseResult(p)
        PROVE  tasks' \in Rows /\ \A u \in Tasks : RowStep(u)
        BY <1>9, <1>12, <2>4 DEF LoseResult, broker
  <2>5. ASSUME NEW pr \in Profiles, Wake(pr) \/ Select(pr) \/ WorkerDies(pr)
        PROVE  tasks' \in Rows /\ \A u \in Tasks : RowStep(u)
        BY <1>10, <1>12, <2>5 DEF Wake, WorkerDies, broker
  <2>6. ASSUME NEW r \in Runs, EndRun(r) PROVE tasks' \in Rows /\ \A u \in Tasks : RowStep(u)
        BY <1>12, <2>6 DEF EndRun, broker
  <2>7. QED
        BY <1>11, <1>12, <2>1, <2>2, <2>3, <2>4, <2>5, <2>6 DEF Next, vars, broker

(* What is not the broker's keeps its type.                                *)
RestType ==
  /\ active \subseteq Runs
  /\ queued \in Seq(Tasks)
  /\ caller \in [Tasks -> {"none", "resolving", "waiting", "returned", "raised", "dead"}]
  /\ selected \in Profiles \cup {Nobody} /\ paired \subseteq Profiles
  /\ changes \in 0..MaxChanges
  /\ posts \subseteq Post
  /\ started \in [Tasks -> Nat]

LoopType ==
  /\ expired \subseteq on /\ on \subseteq Executors
  /\ work \in [Executors -> Work]
  /\ \A e \in Executors : work[e].at # "idle" => e \in on
  /\ polls \subseteq Poll

LEMMA InitInv == Init => IInv
  BY BrowserTasksAssumption
  DEF Init, IInv, TypeOK, Task, Work, NoWork, FreshInv, BegunInv, AwaitedInv

LEMMA StepFresh ==
  ASSUME IInv, [Next]_vars
  PROVE  FreshInv'
<1>1. \A t \in Tasks : caller'[t] \in {"none", "resolving"} =>
        caller[t] \in {"none", "resolving"} /\ (caller[t] = "resolving" => caller'[t] = "resolving")
      BY DEF IInv, TypeOK, Next, vars, Fetch, Loop, Ask, CreateTask, CreateRefused, ReadStatus, GiveUp,
         CallerDies, DeadlinePasses, EndRun, PollNext, PollIdle, PollRefused, AbandonPoll, Heartbeat,
         SendResult, Abort, LeaseRefused, GrantLease, GrantRefused, CompleteTask, LoseResult,
         Wake, Select, WorkerDies, RotateToken
<1>2. ASSUME NEW t \in Tasks, caller'[t] \in {"none", "resolving"} PROVE tasks'[t].state = "none"
      BY <1>1, <1>2, StepRows DEF IInv, FreshInv, RowStep, Kept, Made, FailedNow, Granted, Accepted
<1>3. QED
      BY <1>2 DEF FreshInv

LEMMA StepBegun ==
  ASSUME IInv, [Next]_vars
  PROVE  BegunInv'
<1>1. CASE UNCHANGED started
  <2>1. ASSUME NEW t \in Tasks, tasks'[t].state \in {"none", "pending"} PROVE started[t] = 0
        BY <2>1, StepRows
        DEF IInv, FreshInv, BegunInv, RowStep, Kept, Made, FailedNow, Granted, Accepted
  <2>2. QED
        BY <1>1, <2>1 DEF IInv, BegunInv
<1>2. ASSUME NEW p \in polls, GrantLease(p) PROVE BegunInv'
  <2> DEFINE t == p.task
  <2>0. t \in Tasks /\ tasks \in Rows
        BY DEF IInv, TypeOK, Poll, Rows
  <2>1. CASE UNCHANGED started
        BY <1>1, <2>1
  <2>2. CASE ~UNCHANGED started
    <3>1. Active(t) /\ Admissible(t) /\ started' = [started EXCEPT ![t] = started[t] + 1]
          BY <1>2, <2>2 DEF GrantLease
    <3>2. Unexpired[t] = tasks[t] /\ tasks[t].state = "pending"
          BY <2>0, <3>1, UnexpiredRows DEF Admissible
    <3>3. tasks' = [Unexpired EXCEPT ![t] =
                     [state |-> "leased", holder |-> p.loop, late |-> Unexpired[t].late]]
          BY <1>2, <3>1 DEF GrantLease
    <3>4. tasks'[t].state = "leased"
          BY <2>0, <3>3, UnexpiredRows DEF Rows, Task
    <3>5. started'[t] = 1
          BY <2>0, <3>1, <3>2 DEF IInv, TypeOK, BegunInv
    <3>6. \A u \in Tasks \ {t} : started'[u] = started[u]
          BY <3>1 DEF IInv, TypeOK
    <3>7. \A u \in Tasks \ {t} : tasks'[u].state \in {"none", "pending"} => started[u] = 0
          BY StepRows
          DEF IInv, FreshInv, BegunInv, RowStep, Kept, Made, FailedNow, Granted, Accepted
    <3>8. QED
          BY <3>4, <3>5, <3>6, <3>7 DEF IInv, BegunInv
  <2>3. QED
        BY <2>1, <2>2
<1>3. QED
      BY <1>1, <1>2
      DEF Next, vars, Fetch, Loop, Ask, CreateTask, CreateRefused, ReadStatus, GiveUp,
          CallerDies, DeadlinePasses, EndRun, PollNext, PollIdle, PollRefused, AbandonPoll, Heartbeat,
          SendResult, Abort, LeaseRefused, GrantRefused, CompleteTask, LoseResult,
          Wake, Select, WorkerDies, RotateToken

LEMMA StepRest ==
  ASSUME IInv, [Next]_vars
  PROVE  RestType'
<1>1. UNCHANGED <<active, queued, caller, selected, changes, paired, posts, started>> => RestType'
      BY DEF IInv, TypeOK, RestType
<1>2. ASSUME NEW t \in Tasks, Fetch(t) \/ DeadlinePasses(t) PROVE RestType'
  <2>1. queued' \in Seq(Tasks)
    <3>1. UNCHANGED queued \/ queued' = Append(queued, t)
          BY <1>2 DEF Fetch, Ask, CreateTask, CreateRefused, ReadStatus, GiveUp,
             CallerDies, DeadlinePasses, broker
    <3>2. queued \in Seq(Tasks) /\ Append(queued, t) \in Seq(Tasks)
          BY DEF IInv, TypeOK
    <3>3. QED
          BY <3>1, <3>2
  <2>2. caller' \in [Tasks -> {"none", "resolving", "waiting", "returned", "raised", "dead"}]
    <3>1. \/ UNCHANGED caller
          \/ \E c \in {"resolving", "waiting", "returned", "raised", "dead"} :
               caller' = [caller EXCEPT ![t] = c]
          BY <1>2 DEF Fetch, Ask, CreateTask, CreateRefused, ReadStatus, GiveUp,
             CallerDies, DeadlinePasses
    <3>2. QED
          BY <3>1 DEF IInv, TypeOK
  <2>3. UNCHANGED <<active, selected, changes, paired, posts, started>>
        BY <1>2 DEF Fetch, Ask, CreateTask, CreateRefused, ReadStatus, GiveUp,
           CallerDies, DeadlinePasses, selection, wire
  <2>4. QED
        BY <2>1, <2>2, <2>3 DEF IInv, TypeOK, RestType
<1>3. ASSUME NEW e \in Executors, Loop(e) PROVE RestType'
  <2>1. CASE SendResult(e)
    <3>1. work[e].task \in Tasks
          BY <2>1 DEF SendResult, IInv, AwaitedInv
    <3>2. QED
          BY <2>1, <3>1 DEF IInv, TypeOK, RestType, SendResult, Post, broker, selection
  <2>2. CASE ~SendResult(e)
        BY <1>1, <1>3, <2>2
        DEF Loop, PollNext, PollIdle, PollRefused, AbandonPoll, Heartbeat, Abort, broker, selection, wire
  <2>3. QED
        BY <2>1, <2>2
<1>4. ASSUME NEW p \in polls, LeaseRefused(p) \/ GrantLease(p) \/ GrantRefused(p) PROVE RestType'
      BY <1>4 DEF IInv, TypeOK, RestType, Poll, LeaseRefused, GrantLease, GrantRefused, broker, selection
<1>5. ASSUME NEW p \in posts, CompleteTask(p) \/ LoseResult(p) PROVE RestType'
      BY <1>5 DEF IInv, TypeOK, RestType, CompleteTask, LoseResult, broker, selection
<1>6. ASSUME NEW pr \in Profiles, Wake(pr) \/ Select(pr) \/ WorkerDies(pr) PROVE RestType'
      BY <1>6, BrowserTasksAssumption
      DEF IInv, TypeOK, RestType, Wake, Select, WorkerDies, broker, selection, wire
<1>7. ASSUME NEW r \in Runs, EndRun(r) PROVE RestType'
      BY <1>7 DEF IInv, TypeOK, RestType, EndRun, broker, selection, chrome, wire
<1>8. CASE RotateToken
      BY <1>8, BrowserTasksAssumption DEF IInv, TypeOK, RestType, RotateToken, wire
<1>9. QED
      BY <1>1, <1>2, <1>3, <1>4, <1>5, <1>6, <1>7, <1>8
      DEF Next, vars, broker, selection, chrome, wire

LEMMA StepLoops ==
  ASSUME IInv, [Next]_vars
  PROVE  LoopType' /\ AwaitedInv'
<1> USE DEF IInv, TypeOK, LoopType, AwaitedInv
<1>1. UNCHANGED <<on, expired, work, polls>> => LoopType' /\ AwaitedInv'
      OBVIOUS
<1>2. NoWork \in Work /\ NoWork.at = "idle"
      BY DEF NoWork, Work
<1>3. ASSUME NEW S PROVE /\ Forgotten(S) \subseteq Poll
                         /\ \A p \in Forgotten(S) : p.awaited => p \in polls /\ p.loop \notin S
      BY DEF Forgotten, Poll
<1>4. ASSUME NEW e \in Executors, PollNext(e) PROVE LoopType' /\ AwaitedInv'
  <2>1. PICK i \in DOMAIN queued :
          /\ polls' = polls \cup {[loop |-> e, task |-> queued[i], awaited |-> TRUE]}
          /\ work' = [work EXCEPT ![e] = [at |-> "polling", task |-> queued[i], aborted |-> FALSE]]
        BY <1>4 DEF PollNext
  <2>2. queued[i] \in Tasks /\ e \in on /\ work[e].at = "idle" /\ UNCHANGED <<on, expired>>
        BY <1>4 DEF PollNext
  <2>3. LoopType'
    <3>1. work' \in [Executors -> Work] /\ work'[e].at = "polling"
          BY <2>1, <2>2 DEF Work
    <3>2. [loop |-> e, task |-> queued[i], awaited |-> TRUE] \in Poll
          BY <2>2 DEF Poll
    <3>3. \A f \in Executors \ {e} : work'[f] = work[f]
          BY <2>1
    <3>4. QED
          BY <2>1, <2>2, <3>1, <3>2, <3>3
  <2>4. \A p \in polls : p.awaited => p.loop # e
        BY <2>2
  <2>5. AwaitedInv'
        BY <2>1, <2>2, <2>4 DEF Poll
  <2>6. QED
        BY <2>3, <2>5
<1>5. ASSUME NEW e \in Executors, PollRefused(e) PROVE LoopType' /\ AwaitedInv'
      BY <1>5 DEF PollRefused, Stopped, wire
<1>6. ASSUME NEW e \in Executors, AbandonPoll(e) PROVE LoopType' /\ AwaitedInv'
  <2>1. LoopType'
        BY <1>2, <1>3, <1>6 DEF AbandonPoll
  <2>2. AwaitedInv'
        BY <1>2, <1>3, <1>6 DEF AbandonPoll, Poll
  <2>3. QED
        BY <2>1, <2>2
<1>7. ASSUME NEW e \in Executors, Heartbeat(e) PROVE LoopType' /\ AwaitedInv'
  <2>1. PICK b \in BOOLEAN : work' = [work EXCEPT ![e].aborted = b]
        BY <1>7 DEF Heartbeat
  <2>2. work' \in [Executors -> Work] /\ \A f \in Executors : work'[f].at = work[f].at /\ work'[f].task = work[f].task
    <3>1. work[e] \in Work
          OBVIOUS
    <3>2. /\ [work[e] EXCEPT !.aborted = b] \in Work
          /\ [work[e] EXCEPT !.aborted = b].at = work[e].at
          /\ [work[e] EXCEPT !.aborted = b].task = work[e].task
          BY <3>1 DEF Work
    <3>3. work' = [work EXCEPT ![e] = [work[e] EXCEPT !.aborted = b]]
          BY <2>1
    <3>4. QED
          BY <3>2, <3>3
  <2>3. UNCHANGED <<on, expired, polls>>
        BY <1>7 DEF Heartbeat, wire
  <2>4. QED
        BY <2>2, <2>3 DEF Poll
<1>8. ASSUME NEW e \in Executors, SendResult(e) \/ Abort(e) PROVE LoopType' /\ AwaitedInv'
  <2>1. work' = [work EXCEPT ![e] = NoWork] /\ work[e].at = "executing" /\ UNCHANGED <<on, expired, polls>>
        BY <1>8 DEF SendResult, Abort, wire
  <2>2. QED
        BY <1>2, <2>1 DEF Poll
<1>9. ASSUME NEW p \in polls, LeaseRefused(p) \/ GrantLease(p) \/ GrantRefused(p)
      PROVE  LoopType' /\ AwaitedInv'
  <2>1. p \in Poll
        OBVIOUS
  <2>2. PICK w \in Work : Answered(p, w) /\ (w.at # "idle" => w.task \in Tasks)
    <3>1. CASE LeaseRefused(p) \/ GrantRefused(p)
          BY <1>2, <3>1 DEF LeaseRefused, GrantRefused
    <3>2. CASE GrantLease(p)
      <4> DEFINE v == [at |-> "executing", task |-> p.task, aborted |-> FALSE]
      <4>1. v \in Work /\ v.task \in Tasks
            BY <2>1 DEF Work, Poll
      <4>2. Answered(p, v) \/ Answered(p, NoWork)
            BY <3>2 DEF GrantLease
      <4> HIDE DEF v
      <4>3. QED
            BY <1>2, <4>1, <4>2
    <3>3. QED
          BY <1>9, <3>1, <3>2
  <2>3. polls' = polls \ {p}
        BY <1>9 DEF LeaseRefused, GrantLease, GrantRefused
  <2>4. \/ UNCHANGED <<on, expired>>
        \/ p.awaited /\ Stopped(p.loop) /\ work'[p.loop] = NoWork
        BY <1>9, <2>1 DEF LeaseRefused, GrantLease, GrantRefused, Answered, Poll
  <2>5. p.awaited => work[p.loop].at = "polling" /\ p.loop \in on
        BY <2>1 DEF Poll
  <2>6. p.awaited => \A q \in polls \ {p} : q.awaited => q.loop # p.loop
    <3>1. ASSUME NEW q \in polls, p.awaited, q.awaited, q.loop = p.loop PROVE q = p
      <4>1. q \in Poll /\ q.task = p.task
            BY <2>1, <3>1
      <4>2. QED
            BY <2>1, <3>1, <4>1 DEF Poll
    <3>2. QED
          BY <3>1
  <2>7. CASE p.awaited
    <3>1. work' = [work EXCEPT ![p.loop] = w]
          BY <2>2, <2>7 DEF Answered
    <3>2. LoopType'
          BY <1>2, <2>1, <2>2, <2>3, <2>4, <2>5, <2>7, <3>1 DEF Stopped, Poll
    <3>3. AwaitedInv'
      <4>1. \A f \in Executors : work'[f] = IF f = p.loop THEN w ELSE work[f]
            BY <3>1
      <4>2. \A f \in Executors : work'[f].at # "idle" => work'[f].task \in Tasks
            BY <2>2, <4>1
      <4>3. QED
            BY <2>1, <2>3, <2>6, <2>7, <4>1, <4>2 DEF Poll
    <3>4. QED
          BY <3>2, <3>3
  <2>8. CASE ~p.awaited
        BY <2>2, <2>3, <2>4, <2>8 DEF Answered
  <2>9. QED
        BY <2>7, <2>8
<1>10. ASSUME NEW pr \in Profiles, Wake(pr) \/ Select(pr) PROVE LoopType' /\ AwaitedInv'
       BY <1>10 DEF Wake, Select, LoopsOf, wire, chrome
<1>11. ASSUME NEW pr \in Profiles, WorkerDies(pr) PROVE LoopType' /\ AwaitedInv'
  <2>1. LoopType'
        BY <1>2, <1>3, <1>11 DEF WorkerDies, LoopsOf
  <2>2. AwaitedInv'
        BY <1>2, <1>3, <1>11 DEF WorkerDies, LoopsOf, Poll
  <2>3. QED
        BY <2>1, <2>2
<1>12. CASE RotateToken
       BY <1>12 DEF RotateToken, wire
<1>13. QED
       BY <1>1, <1>4, <1>5, <1>6, <1>7, <1>8, <1>9, <1>10, <1>11, <1>12
       DEF Next, Fetch, Loop, PollIdle, Ask, CreateTask, CreateRefused, ReadStatus, GiveUp, CallerDies,
           DeadlinePasses, EndRun, CompleteTask, LoseResult, vars, chrome, wire

-------------------------------------------------------------------------------
(* The rows, the callers and the loops fit together after every step.      *)
THEOREM Invariant == Spec => []IInv
<1>1. IInv /\ [Next]_vars => IInv'
      BY StepRows, StepRest, StepLoops, StepFresh, StepBegun
      DEF IInv, TypeOK, RestType, LoopType, Rows
<1>2. QED
      BY <1>1, InitInv, PTL DEF Spec

(* Every value of every variable has its type, and a loop that works runs. *)
THEOREM TypeCorrect == Spec => []TypeOK
<1>1. QED
      BY Invariant, PTL DEF IInv

(* A page is fetched at most once for a task.                              *)
THEOREM FetchedOnce == Spec => []StartedOnce
<1>1. IInv => StartedOnce
      BY DEF IInv, BegunInv, StartedOnce
<1>2. QED
      BY <1>1, Invariant, PTL

(* A lease, and the page fetched under it, has the authority of the        *)
(* moment in which the broker grants or accepts it.                        *)
THEOREM PresentAuthority == Spec => Authority
<1>1. IInv /\ [Next]_vars =>
        [\A t \in Tasks : tasks'[t].state # tasks[t].state =>
           /\ tasks[t].state \notin Terminal
           /\ tasks'[t].state \in {"leased", "succeeded"} =>
                Active(t) /\ selected = Of[tasks'[t].holder]]_vars
  <2>1. IInv => \A t \in Tasks : caller[t] = "resolving" => tasks[t].state = "none"
        BY DEF IInv, FreshInv
  <2>2. QED
        BY <2>1, StepRows DEF RowStep, Kept, Made, FailedNow, Granted, Accepted
<1>2. QED
      BY <1>1, Invariant, PTL DEF Spec, Authority

-------------------------------------------------------------------------------
(* The visit of one task, which BrowserTasks sees only the beginning and   *)
(* the end of.                                                             *)

(* The awaits that ask Chrome for something, and all that it may be asked. *)
Asked == {"create", "guard", "move", "navigate"}
Calls == Asked \cup {"close", "clear", "close late", "clear late"}

PlaceType ==
  /\ mode \in Modes
  /\ step \in {"start", "fetch", "probe", "snapshot"} \cup Asked \cup Finished
  /\ aborted \in BOOLEAN /\ known \in BOOLEAN /\ ruled \in BOOLEAN
  /\ hears \in BOOLEAN /\ rules \in BOOLEAN
  /\ result \in {"none", "succeeded", "failed", "unsafe_redirect"}
  /\ \A c \in calls : c \in Calls
  /\ tab \in {"none", "open", "closed"}
  /\ page \in {"blank", "loading", "source"}

(* Before the tab is known, nothing has been done with it.                 *)
NothingYet ==
  ~known => /\ tab = "none" /\ page = "blank"
            /\ ~ruled /\ ~hears /\ ~rules
            /\ step \in {"start", "fetch", "create", "over"}
            /\ \A c \in calls : c = "create"

(* Which calls may be open, by the await the visit is at.  Until it ends   *)
(* there is no other than the awaited one; the tab has gone nowhere before *)
(* "navigate", which comes last.                                           *)
CallsInv ==
  /\ step \notin Finished => \A c \in calls : c = step
  /\ step \in Asked => step \in calls
  /\ "close" \in calls <=> step = "closing"
  /\ "clear" \in calls <=> step = "clearing"
  /\ "create" \in calls => ~known

Blank ==
  page # "blank" \/ "navigate" \in calls =>
    /\ "guard" \notin calls /\ "move" \notin calls
    /\ "close late" \notin calls /\ "clear late" \notin calls

(* Until it ends, the visit knows its tab and its guard.                   *)
WorkingInv ==
  /\ step \in {"start", "fetch", "create"} => ~known
  /\ step \in {"guard", "move", "navigate", "probe", "snapshot"} => known /\ ruled
  /\ step \in {"move", "navigate", "probe", "snapshot"} => rules
  /\ step \in Finished => ~hears
  /\ rules \/ "guard" \in calls => ruled

(* A tab that is left open, or a guard that is left, has a call that will  *)
(* remove it.                                                              *)
CleanupInv ==
  /\ step \in {"clearing", "over"} /\ tab = "open" =>
       "move" \in calls \/ "close late" \in calls
  /\ step = "over" /\ rules => "guard" \in calls \/ "clear late" \in calls

(* The tab was not sent anywhere while there was no guard.                 *)
GuardInv ==
  /\ page # "blank" => known
  /\ tab = "open" => page = "blank" \/ rules
  /\ tab = "open" /\ "navigate" \in calls => rules

VisitInv ==
  /\ PlaceType /\ NothingYet /\ CallsInv /\ Blank /\ WorkingInv /\ CleanupInv /\ GuardInv

LEMMA VisitStutterInv ==
  ASSUME VisitInv, UNCHANGED <<mode, step, aborted, known, ruled, hears, result, calls, tab, page, rules>>
  PROVE  VisitInv'
<1>0. PlaceType
      BY DEF VisitInv
<1>1. PlaceType'
      BY <1>0 DEF PlaceType
<1>a. NothingYet'
      BY DEF VisitInv, NothingYet
<1>2. CallsInv'
      BY DEF VisitInv, CallsInv
<1>3. Blank' /\ WorkingInv' /\ CleanupInv' /\ GuardInv'
      BY DEF VisitInv, Blank, WorkingInv, CleanupInv, GuardInv
<1>4. QED
      BY <1>1, <1>a, <1>2, <1>3 DEF VisitInv

USE DEF Asked, Calls, Finished

LEMMA VisitInitInv == VisitInit => VisitInv
  BY DEF VisitInit, VisitInv, PlaceType, NothingYet, CallsInv, Blank, WorkingInv, CleanupInv, GuardInv

(* Until the visit ends, nothing but what it awaits is open.               *)
LEMMA Awaiting ==
  ASSUME VisitInv, step \notin Finished
  PROVE  /\ step \in Asked => calls = {step}
         /\ step \notin Asked => calls = {}
  BY DEF VisitInv, PlaceType, CallsInv

(* Whatever ends it, its finally block and the calls that are open put     *)
(* everything in order.                                                    *)
LEMMA EndInv ==
  ASSUME VisitInv, step \notin Finished,
         NEW outcome \in {"succeeded", "failed", "unsafe_redirect"},
         NEW pending, pending = calls \/ pending = {},
         End(outcome, pending), aborted' \in BOOLEAN, UNCHANGED <<tab, page, rules>>
  PROVE  VisitInv'
<1> USE DEF End, Close
<1>1. CASE known
  <2>1. step' = "closing" /\ calls' = pending \cup {"close"}
        BY <1>1
  <2>2. \A c \in calls' : c = "close" \/ (c = step /\ c \in Asked)
        BY <2>1, Awaiting
  <2>3. step # "create" /\ ruled
        BY <1>1 DEF VisitInv, PlaceType, WorkingInv
  <2>4. PlaceType'
        BY <2>1, <2>2 DEF VisitInv, PlaceType
  <2>5. NothingYet' /\ WorkingInv' /\ CleanupInv'
        BY <1>1, <2>1 DEF VisitInv, PlaceType, NothingYet, WorkingInv, CleanupInv
  <2>6. CallsInv'
        BY <2>1, <2>2, <2>3 DEF CallsInv
  <2>7. "navigate" \in calls' => step = "navigate"
        BY <2>2
  <2>8. page # "blank" => "guard" \notin calls' /\ "move" \notin calls'
        BY <2>2 DEF VisitInv, CallsInv, Blank
  <2>9. Blank' /\ GuardInv'
        BY <1>1, <2>2, <2>7, <2>8 DEF VisitInv, PlaceType, Blank, GuardInv, WorkingInv
  <2>10. QED
        BY <2>4, <2>5, <2>6, <2>9 DEF VisitInv
<1>2. CASE ~known
  <2>1. step' = "over" /\ calls' = pending /\ ~ruled /\ ~rules /\ tab = "none" /\ page = "blank"
        BY <1>2 DEF VisitInv, NothingYet
  <2>2. \A c \in calls' : c = "create"
        BY <1>2, <2>1 DEF VisitInv, NothingYet
  <2>3. QED
        BY <1>2, <2>1, <2>2 DEF VisitInv, PlaceType, NothingYet, CallsInv, Blank, WorkingInv, CleanupInv, GuardInv
<1>3. QED
      BY <1>1, <1>2

(* The next await: what it asks for is the one call that is open.          *)
LEMMA AskInv ==
  ASSUME VisitInv, step \notin Finished,
         NEW next \in {"fetch", "create", "guard", "move", "navigate", "probe", "snapshot"},
         Asks(next), hears' \in BOOLEAN, ruled' \in BOOLEAN, known' \in BOOLEAN, rules' \in BOOLEAN,
         tab' \in {"none", "open", "closed"}, page' \in {"blank", "loading", "source"},
         UNCHANGED <<mode, aborted, result>>,
         next \in {"fetch", "create"} =>
           ~known' /\ tab' = "none" /\ page' = "blank" /\ ~ruled' /\ ~hears' /\ ~rules',
         next \notin {"fetch", "create"} => known' /\ ruled',
         next \in {"move", "navigate", "probe", "snapshot"} => rules',
         rules' => ruled',
         next \in {"guard", "move"} => page' = "blank",
         tab' = "open" => page' = "blank" \/ rules'
  PROVE  VisitInv'
<1>1. step' = next /\ calls' = IF next \in Asked THEN {next} ELSE {}
      BY Awaiting DEF Asks
<1>2. \A c \in calls' : c = next /\ c \in Asked
      BY <1>1
<1>3. next \in Asked => next \in calls'
      BY <1>1
<1>4. PlaceType'
      BY <1>1, <1>2 DEF VisitInv, PlaceType
<1>5. NothingYet' /\ WorkingInv' /\ CleanupInv'
      BY <1>1, <1>2 DEF NothingYet, WorkingInv, CleanupInv
<1>6. CallsInv'
      BY <1>1, <1>2, <1>3 DEF CallsInv
<1>7. Blank' /\ GuardInv'
      BY <1>2 DEF Blank, GuardInv
<1>8. QED
      BY <1>4, <1>5, <1>6, <1>7 DEF VisitInv

(* What an answer nobody waits for can do: it is replaced by the cleanup   *)
(* that goes with it.                                                      *)
LEMMA LateInv ==
  ASSUME VisitInv, step \in Finished, known',
         \A c \in calls' : \/ c \in calls /\ c # "create"
                          \/ /\ c \in {"close late", "clear late"}
                             /\ page' = "blank" /\ "navigate" \notin calls',
         "close" \in calls' <=> step = "closing", "clear" \in calls' <=> step = "clearing",
         rules' \in BOOLEAN, tab' \in {"none", "open", "closed"}, page' \in {"blank", "loading", "source"},
         page' # "blank" => page # "blank" \/ "navigate" \in calls,
         rules' => ruled,
         tab' = "open" => page' = "blank" \/ rules',
         tab' = "open" /\ "navigate" \in calls' => rules',
         step \in {"clearing", "over"} /\ tab' = "open" => "move" \in calls' \/ "close late" \in calls',
         step = "over" /\ rules' => "guard" \in calls' \/ "clear late" \in calls',
         UNCHANGED <<mode, step, aborted, ruled, hears, result>>
  PROVE  VisitInv'
<1>1. PlaceType'
      BY DEF VisitInv, PlaceType
<1>2. NothingYet' /\ CleanupInv' /\ GuardInv'
      BY DEF NothingYet, CleanupInv, GuardInv
<1>3. WorkingInv'
      BY DEF VisitInv, WorkingInv
<1>4. CallsInv'
      BY DEF CallsInv
<1>5. Blank'
      BY DEF VisitInv, Blank
<1>6. QED
      BY <1>1, <1>2, <1>3, <1>4, <1>5 DEF VisitInv

LEMMA VisitStepInv == VisitInv /\ [VisitNext]_visitVars => VisitInv'
<1> SUFFICES ASSUME VisitInv, [VisitNext]_visitVars PROVE VisitInv'
    OBVIOUS
<1>0. /\ aborted \in BOOLEAN /\ known \in BOOLEAN /\ ruled \in BOOLEAN
      /\ hears \in BOOLEAN /\ rules \in BOOLEAN
      /\ tab \in {"none", "open", "closed"} /\ page \in {"blank", "loading", "source"}
      BY DEF VisitInv, PlaceType
<1>1. CASE Start
  <2>1. ~known /\ tab = "none" /\ page = "blank" /\ ~ruled /\ ~hears /\ ~rules
        BY <1>1 DEF Start, VisitInv, WorkingInv, NothingYet
  <2>2. CASE Asks(IF mode = "http" THEN "fetch" ELSE "create") /\ UNCHANGED <<mode, known, ruled, hears, result>>
        BY <1>0, <1>1, <2>1, <2>2, AskInv DEF Start
  <2>3. CASE End("failed", calls)
        BY <1>0, <1>1, <2>3, EndInv DEF Start
  <2>4. QED
        BY <1>1, <2>2, <2>3 DEF Start
<1>2. CASE Fetched
      BY <1>0, <1>2, EndInv DEF Fetched, Working
<1>3. CASE Probed
      BY <1>0, <1>3, AskInv DEF Probed, Working, VisitInv, WorkingInv, GuardInv
<1>4. CASE Snapshot
      BY <1>0, <1>4, EndInv DEF Snapshot, Working
<1>5. CASE AbortVisit
      BY <1>0, <1>5, EndInv DEF AbortVisit, Working
<1>6. CASE TabCreated
  <2>1. calls = {"create"} /\ ~known /\ page = "blank"
        BY <1>6 DEF TabCreated, VisitInv, CallsInv, NothingYet
  <2>2. CASE step = "create"
        BY <1>0, <1>6, <2>1, <2>2, AskInv DEF TabCreated
  <2>3. CASE step # "create"
    <3>1. step \in Finished /\ step = "over" /\ ~rules
          BY <2>1, <2>3 DEF VisitInv, CallsInv, NothingYet
    <3>2. /\ calls' = {"close late"} /\ known' /\ tab' = "open"
          /\ UNCHANGED <<mode, step, aborted, ruled, hears, result, page, rules>>
          BY <1>6, <2>1, <2>3 DEF TabCreated
    <3>3. PlaceType'
          BY <3>2 DEF VisitInv, PlaceType
    <3>4. QED
          BY <2>1, <3>1, <3>2, <3>3 DEF VisitInv, NothingYet, CallsInv, Blank, WorkingInv, CleanupInv, GuardInv
  <2>4. QED
        BY <2>2, <2>3
<1>7. CASE RulesInstalled
  <2>1. known /\ page = "blank"
        BY <1>7 DEF RulesInstalled, VisitInv, NothingYet, Blank
  <2>2. CASE step = "guard"
        BY <1>0, <1>7, <2>1, <2>2, AskInv DEF RulesInstalled, VisitInv, WorkingInv
  <2>3. CASE step # "guard"
    <3>1. step \in Finished
          BY <1>7, <2>3 DEF RulesInstalled, VisitInv, CallsInv
    <3>2. /\ calls' = (calls \ {"guard"}) \cup {"clear late"}
          /\ UNCHANGED <<mode, step, aborted, known, ruled, hears, result, tab, page>>
          /\ rules' \in BOOLEAN /\ (rules => rules')
          BY <1>0, <1>7, <2>3 DEF RulesInstalled
    <3>3. "navigate" \notin calls'
          BY <1>7, <3>2 DEF RulesInstalled, VisitInv, Blank
    <3>4. /\ "close" \in calls' <=> step = "closing"
          /\ "clear" \in calls' <=> step = "clearing"
          BY <3>2 DEF VisitInv, CallsInv
    <3>5. /\ step \in {"clearing", "over"} /\ tab' = "open" => "move" \in calls' \/ "close late" \in calls'
          /\ step = "over" /\ rules' => "guard" \in calls' \/ "clear late" \in calls'
          BY <1>7, <3>2 DEF RulesInstalled, VisitInv, CleanupInv
    <3>a. "create" \notin calls
          BY <2>1 DEF VisitInv, CallsInv
    <3>6. /\ step \in Finished /\ known'
          /\ rules' \in BOOLEAN /\ tab' \in {"none", "open", "closed"}
          /\ page' \in {"blank", "loading", "source"}
          /\ UNCHANGED <<mode, step, aborted, ruled, hears, result>>
          BY <1>0, <1>7, <2>1, <3>1, <3>2, <3>3, <3>a
    <3>7. /\ page' # "blank" => page # "blank" \/ "navigate" \in calls
          /\ rules' => ruled
          /\ tab' = "open" => page' = "blank" \/ rules'
          /\ tab' = "open" /\ "navigate" \in calls' => rules'
          BY <1>7, <2>1, <3>1, <3>2, <3>3, <3>a DEF RulesInstalled, VisitInv, WorkingInv
    <3>8. \A c \in calls' : \/ c \in calls /\ c # "create"
                           \/ /\ c \in {"close late", "clear late"}
                              /\ page' = "blank" /\ "navigate" \notin calls'
          BY <1>7, <2>1, <3>1, <3>2, <3>3, <3>a
    <3>9. QED
          BY <3>4, <3>5, <3>6, <3>7, <3>8, LateInv
  <2>4. QED
        BY <2>2, <2>3
<1>8. CASE TabMoved
  <2>1. known /\ page = "blank"
        BY <1>8 DEF TabMoved, VisitInv, NothingYet, Blank
  <2>2. CASE step = "move"
        BY <1>0, <1>8, <2>1, <2>2, AskInv DEF TabMoved, VisitInv, WorkingInv
  <2>3. CASE step # "move"
    <3>1. step \in Finished
          BY <1>8, <2>3 DEF TabMoved, VisitInv, CallsInv
    <3>2. /\ calls' = (calls \ {"move"}) \cup {"close late"}
          /\ UNCHANGED <<mode, step, aborted, known, ruled, hears, result, tab, page>>
          /\ rules' \in BOOLEAN /\ (rules => rules')
          BY <1>0, <1>8, <2>3 DEF TabMoved
    <3>3. "navigate" \notin calls'
          BY <1>8, <3>2 DEF TabMoved, VisitInv, Blank
    <3>4. /\ "close" \in calls' <=> step = "closing"
          /\ "clear" \in calls' <=> step = "clearing"
          BY <3>2 DEF VisitInv, CallsInv
    <3>5. /\ step \in {"clearing", "over"} /\ tab' = "open" => "move" \in calls' \/ "close late" \in calls'
          /\ step = "over" /\ rules' => "guard" \in calls' \/ "clear late" \in calls'
          BY <1>8, <3>2 DEF TabMoved, VisitInv, CleanupInv
    <3>a. "create" \notin calls
          BY <2>1 DEF VisitInv, CallsInv
    <3>6. /\ step \in Finished /\ known'
          /\ rules' \in BOOLEAN /\ tab' \in {"none", "open", "closed"}
          /\ page' \in {"blank", "loading", "source"}
          /\ UNCHANGED <<mode, step, aborted, ruled, hears, result>>
          BY <1>0, <1>8, <2>1, <3>1, <3>2, <3>3, <3>a
    <3>7. /\ page' # "blank" => page # "blank" \/ "navigate" \in calls
          /\ rules' => ruled
          /\ tab' = "open" => page' = "blank" \/ rules'
          /\ tab' = "open" /\ "navigate" \in calls' => rules'
          BY <1>8, <2>1, <3>1, <3>2, <3>3, <3>a DEF TabMoved, VisitInv, WorkingInv
    <3>8. \A c \in calls' : \/ c \in calls /\ c # "create"
                           \/ /\ c \in {"close late", "clear late"}
                              /\ page' = "blank" /\ "navigate" \notin calls'
          BY <1>8, <2>1, <3>1, <3>2, <3>3, <3>a
    <3>9. QED
          BY <3>4, <3>5, <3>6, <3>7, <3>8, LateInv
  <2>4. QED
        BY <2>2, <2>3
<1>9. CASE Navigated
  <2>1. known
        BY <1>9 DEF Navigated, VisitInv, NothingYet
  <2>2. CASE step = "navigate"
        BY <1>0, <1>9, <2>1, <2>2, AskInv DEF Navigated, VisitInv, WorkingInv
  <2>3. CASE step # "navigate"
    <3>1. step \in Finished
          BY <1>9, <2>3 DEF Navigated, VisitInv, CallsInv
    <3>2. /\ calls' = calls \ {"navigate"}
          /\ UNCHANGED <<mode, step, aborted, known, ruled, hears, result, tab, rules>>
          /\ page' = IF tab = "open" THEN "loading" ELSE page
          BY <1>9, <2>3 DEF Navigated
    <3>3. "navigate" \notin calls' /\ (tab = "open" => rules)
          BY <1>9, <3>2 DEF Navigated, VisitInv, GuardInv
    <3>4. /\ "close" \in calls' <=> step = "closing"
          /\ "clear" \in calls' <=> step = "clearing"
          BY <3>2 DEF VisitInv, CallsInv
    <3>5. /\ step \in {"clearing", "over"} /\ tab' = "open" => "move" \in calls' \/ "close late" \in calls'
          /\ step = "over" /\ rules' => "guard" \in calls' \/ "clear late" \in calls'
          BY <3>2 DEF VisitInv, CleanupInv
    <3>a. "create" \notin calls
          BY <2>1 DEF VisitInv, CallsInv
    <3>6. /\ step \in Finished /\ known'
          /\ rules' \in BOOLEAN /\ tab' \in {"none", "open", "closed"}
          /\ page' \in {"blank", "loading", "source"}
          /\ UNCHANGED <<mode, step, aborted, ruled, hears, result>>
          BY <1>0, <1>9, <2>1, <3>1, <3>2, <3>3, <3>a
    <3>7. /\ page' # "blank" => page # "blank" \/ "navigate" \in calls
          /\ rules' => ruled
          /\ tab' = "open" => page' = "blank" \/ rules'
          /\ tab' = "open" /\ "navigate" \in calls' => rules'
          BY <1>9, <2>1, <3>1, <3>2, <3>3, <3>a DEF Navigated, VisitInv, WorkingInv
    <3>8. \A c \in calls' : \/ c \in calls /\ c # "create"
                           \/ /\ c \in {"close late", "clear late"}
                              /\ page' = "blank" /\ "navigate" \notin calls'
          BY <1>9, <2>1, <3>1, <3>2, <3>3, <3>a
    <3>9. QED
          BY <3>4, <3>5, <3>6, <3>7, <3>8, LateInv
  <2>4. QED
        BY <2>2, <2>3
<1>10. ASSUME NEW call \in calls, CallFails(call) PROVE VisitInv'
  <2>1. CASE step = call
    <3>1. calls \ {call} = {} /\ step \notin Finished
          BY <1>10, <2>1, Awaiting DEF CallFails
    <3>2. QED
          BY <1>0, <1>10, <2>1, <3>1, EndInv DEF CallFails
  <2>2. CASE step # call
    <3>1. step \in Finished
          BY <1>10, <2>2 DEF CallFails, VisitInv, CallsInv
    <3>2. PICK more \in SUBSET {"close late", "clear late"} :
            /\ calls' = (calls \ {call}) \cup more
            /\ more = CASE call = "guard" -> {"clear late"} [] call = "move" -> {"close late"} [] OTHER -> {}
          BY <1>10, <2>2 DEF CallFails
    <3>3. /\ call \in Asked /\ UNCHANGED <<mode, step, aborted, known, ruled, hears, result, tab, page, rules>>
          /\ more # {} => call \in {"guard", "move"}
          BY <1>10, <2>2, <3>2 DEF CallFails
    <3>4. /\ "close" \in calls' <=> step = "closing"
          /\ "clear" \in calls' <=> step = "clearing"
          BY <3>2, <3>3 DEF VisitInv, CallsInv
    <3>5. /\ step \in {"clearing", "over"} /\ tab' = "open" => "move" \in calls' \/ "close late" \in calls'
          /\ step = "over" /\ rules' => "guard" \in calls' \/ "clear late" \in calls'
          BY <3>2, <3>3 DEF VisitInv, CleanupInv
    <3>6. more # {} => page' = "blank" /\ "navigate" \notin calls'
          BY <3>2, <3>3 DEF VisitInv, Blank
    <3>a. known => "create" \notin calls
          BY DEF VisitInv, CallsInv
    <3>7. CASE known
          BY <1>0, <3>1, <3>2, <3>3, <3>4, <3>5, <3>6, <3>7, <3>a, LateInv DEF VisitInv, WorkingInv, GuardInv
    <3>8. CASE ~known
      <4>1. call = "create" /\ calls' = {} /\ more = {}
            BY <3>2, <3>3, <3>8 DEF VisitInv, NothingYet
      <4>2. QED
            BY <3>1, <3>3, <3>8, <4>1
            DEF VisitInv, PlaceType, NothingYet, CallsInv, Blank, WorkingInv, CleanupInv, GuardInv
    <3>9. QED
          BY <3>7, <3>8
  <2>3. QED
        BY <2>1, <2>2
<1>11. CASE Closed
  <2>1. step = "closing" /\ known /\ ~hears
        BY <1>11 DEF Closed, VisitInv, CallsInv, NothingYet, WorkingInv
  <2>2. \A c \in calls' : c = "clear" \/ (c \in calls /\ c # "close")
        BY <1>11 DEF Closed
  <2>3. /\ "clear" \in calls' <=> ruled
        /\ step' = IF ruled THEN "clearing" ELSE "over"
        /\ tab' = "closed" \/ (tab' = tab /\ "move" \in calls')
        /\ UNCHANGED <<mode, aborted, known, ruled, hears, result, page, rules>>
        /\ \A c \in Calls \ {"close", "clear"} : c \in calls' <=> c \in calls
        BY <1>11, <2>1 DEF Closed, VisitInv, CallsInv
  <2>4. ruled \/ ~rules
        BY DEF VisitInv, WorkingInv
  <2>5. QED
        BY <2>1, <2>2, <2>3, <2>4
        DEF VisitInv, PlaceType, NothingYet, CallsInv, Blank, WorkingInv, CleanupInv, GuardInv
<1>12. CASE Cleared
       BY <1>12 DEF Cleared, VisitInv, PlaceType, NothingYet, CallsInv, Blank, WorkingInv, CleanupInv, GuardInv
<1>13. CASE LateClosed
       BY <1>13 DEF LateClosed, visit, VisitInv, PlaceType, NothingYet, CallsInv, Blank, WorkingInv, CleanupInv, GuardInv
<1>14. CASE LateCleared
       BY <1>14 DEF LateCleared, visit, VisitInv, PlaceType, NothingYet, CallsInv, Blank, WorkingInv, CleanupInv, GuardInv
<1>15. CASE Loads
       BY <1>15 DEF Loads, visit, VisitInv, PlaceType, NothingYet, CallsInv, Blank, WorkingInv, CleanupInv, GuardInv
<1>16. CASE Redirects
  <2>1. rules /\ UNCHANGED <<tab, page, rules>>
        BY <1>16 DEF Redirects, VisitInv, GuardInv
  <2>2. CASE End("unsafe_redirect", calls) /\ Working /\ aborted'
        BY <1>0, <2>1, <2>2, EndInv DEF Working
  <2>3. CASE UNCHANGED <<visit, calls>>
        BY <2>1, <2>3, VisitStutterInv DEF visit
  <2>4. QED
        BY <1>16, <2>2, <2>3 DEF Redirects
<1>17. CASE NavigationFails
       BY <1>0, <1>17, EndInv DEF NavigationFails, Working
<1>18. CASE UserCloses
  <2>1. PlaceType'
    <3>1. tab' = "closed" /\ UNCHANGED <<mode, step, aborted, known, ruled, hears, result, calls, page, rules>>
          BY <1>18 DEF UserCloses, visit
    <3>2. QED
          BY <3>1 DEF VisitInv, PlaceType
  <2>2. NothingYet' /\ CleanupInv' /\ GuardInv' /\ WorkingInv' /\ Blank'
        BY <1>18 DEF UserCloses, visit, VisitInv, NothingYet, CleanupInv, GuardInv, WorkingInv, Blank
  <2>3. CallsInv'
        BY <1>18 DEF UserCloses, visit, VisitInv, CallsInv
  <2>4. QED
        BY <2>1, <2>2, <2>3 DEF VisitInv
<1>19. CASE UNCHANGED visitVars
       BY <1>19, VisitStutterInv DEF visitVars, visit, browser
<1>20. QED
       BY <1>1, <1>2, <1>3, <1>4, <1>5, <1>6, <1>7, <1>8, <1>9, <1>10, <1>11, <1>12,
          <1>13, <1>14, <1>15, <1>16, <1>17, <1>18, <1>19 DEF VisitNext, Answers, Cleanup

-------------------------------------------------------------------------------
(* Chrome is asked for no more, and nothing else is left behind, than the  *)
(* visit remembers.                                                        *)
THEOREM VisitInvariant == VisitSpec => []VisitInv
<1>1. QED
      BY VisitInitInv, VisitStepInv, PTL DEF VisitSpec

(* Every variable has a value of its type, and Chrome is asked only for    *)
(* what is awaited.                                                        *)
THEOREM VisitTypeCorrect == VisitSpec => []VisitTypeOK
<1>1. VisitInv => VisitTypeOK
  <2> SUFFICES ASSUME VisitInv PROVE VisitTypeOK
      OBVIOUS
  <2>1. step \in Asked <=> step \notin Finished /\ calls # {}
        BY Awaiting DEF VisitInv, PlaceType, CallsInv
  <2>2. QED
        BY <2>1 DEF VisitInv, PlaceType, VisitTypeOK
<1>2. QED
      BY <1>1, VisitInvariant, PTL

(* A visit that is over, all of whose calls are answered, leaves no tab,   *)
(* rule or listener, however late Chrome created them.                     *)
THEOREM NothingLeft == VisitSpec => []LeavesNothing
<1>1. VisitInv => LeavesNothing
      BY DEF VisitInv, PlaceType, WorkingInv, CleanupInv, LeavesNothing
<1>2. QED
      BY <1>1, VisitInvariant, PTL

(* The tab never navigates to an origin that was not validated.            *)
THEOREM NowhereElse == VisitSpec => []StaysAtSource
<1>1. VisitInv => StaysAtSource
      BY DEF VisitInv, PlaceType, StaysAtSource
<1>2. QED
      BY <1>1, VisitInvariant, PTL
===============================================================================
