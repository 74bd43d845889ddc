# JobCtrl in TLA+

JobCtrl is a local job-search application. A Python program
(`src/workers/automation/src/jobctrl`) keeps all durable state in one SQLite
workspace, runs its long operations as Temporal workflows, asks language models for
judgements, and - the one thing it does to the outside world - sends an approved
application email. Around it are a React application (`src/apps/web`), which can also run
alone as a demo, a browser extension (`src/apps/extension`), a Go launcher that installs,
starts and upgrades it (`src/launcher`), and packaging, scripts and documentation. Paths
below are relative to `src/workers/automation/src/jobctrl` unless they start with `web/`
(`src/apps/web/src`), `ext/` (`src/apps/extension/src`) or `src/`.

This directory holds TLA+ models of the parts in which concurrency, crashes and lost
answers decide correctness, the TLC configurations that check them on small instances,
and theorems about them that TLAPS checks for every value of the constants.

## 1. Inventory

| Part | State it keeps | Operations | Talks to |
| --- | --- | --- | --- |
| **Durable action runs** `app/actions.py`, `app/execution.py`, `app/worker.py` | receipt row `app_action_runs`, lifecycle events, a custody file per run, the Temporal workflow | `submit`, `execute`, `cancel`, `reconcile_runs`; poll, heartbeat, retry | Temporal, every feature handler |
| **Application submission** `features/applications/` | payloads, decisions, rehearsals, runs, submit intents and receipts, repeat checks and consents, a per-job state row | `prepare`, `rehearse`, `review`, `control`, `repeat.check/override`, `execute`, `batch`, `run_approved` | mail transport, browser, feedback ledger, jobs, profile, resumes, screening, fit |
| **Mail transport** `features/applications/mail.py` | OAuth tokens | send one message, search | Gmail |
| **Outcomes and Gmail scan** `features/applications/feedback.py` | outcome facts, suggestions, anchors | record, decide, scan | mail, model |
| **Screening answers** `features/applications/screening.py` | answer drafts, revisions, library | draft, accept, bind | model |
| **Model gateway** `app/model.py` | `app_model_calls` receipts with cost and tokens | admit, call, settle, report spend and lanes | providers, settings, every feature that asks a model |
| **Preparation** `app/preparation.py`, `preparation_store.py` | runs, jobs claimed, step checkpoints, targets | run, retry, cancel | features as pipeline stages, durable runs |
| **Discovery runs** `features/discovery/` | run leases and epochs, unit checkpoints, intake receipts, budgets | claim, heartbeat, accept posting, settle, cancel | sources, jobs |
| **Extension transport** `extension_transport.py` | selected installation, tasks with leases, capture receipts | claim, rotate, create, lease, lease_active, complete, cancel, fetch, capture | browser extension, jobs |
| **Extension** `ext/queue.ts`, `background.ts`, `discovery-loop.ts`, `discovery-executor.ts` | queue of captures and token in browser storage, polling loops, tabs and redirect rules in Chrome | capture, flush, discard; poll, heartbeat, execute, post a result | extension transport, Chrome |
| **Web optimistic cache** `web/shared/lib/createOptimisticMutation.ts` | the query cache, and per query a ledger of unconfirmed edits over a baseline | publish, merge, roll back, settle, invalidate, cancel | HTTP API, stream of committed events |
| **Demo workspace** `web/demo/workspace/` | snapshot and event log in IndexedDB, a repository and a stream per tab | initialize, mutate, reset, fall back to memory, announce | the other tabs, the demo's commands |
| **Schedules** `app/scheduling.py`, `app/events.py` | event cursor per consumer | follow committed events with a durable run | durable runs |
| **Agent runtime pool** `app/provider_support/pool.py` | warm provider sessions, running turns | open, run, cancel, retire, close | model gateway |
| **Polite fetching** `network/` | per-host next time, backoff | wait for a turn, note Retry-After | discovery, extension |
| **Record keeping** jobs, profile, requirements, fit, resumes, companies, contacts, outreach, compensation, interviews, learning, offers, digest | revisioned records and accepted determinations | commands with a revision and an idempotency key | one another, read-only |
| **Configuration** credentials, settings, security | settings row, key-store entries | read, write | operating system |
| **Interfaces** HTTP API, CLI, web views | none of their own | translate requests | all of the above |
| **Supervision** `process_ownership.py`, `runtime.py` | child processes, ownership files | start, watch, stop | operating system |
| **Launcher** `src/launcher` (Go) | installed releases, pointers, owned processes, retention manifests | install, start, stop, upgrade, roll back, purge | operating system |

Where they are hard, and what makes each correct:

* **Durable runs.** Up to three activity attempts in different processes, a stalled one
  among them, a direct execution from the command line, any number of clients retrying
  `submit`, a cancellation and a recovery loop all write one receipt. Correct: one
  execution at a time; a terminal receipt is final and told by one event; a cancelled run
  that is not executing never executes; every started run ends.
* **Application submission.** Two executions, each with retries after crashes, compete
  for a job while the user stops it, resets it, prepares it again and changes what the
  application was made from; the provider's answer can be lost. Correct: at most one
  message per job, never retried when unknown; only what the user approved, on the
  sources they saw; a stop holds; a confirmation is permanent; a consent is used once.
* **Model gateway.** Several processes admit calls against one budget; a process can die
  in a call. Correct: no call on spent or unknown money or tokens, no running call taken
  for an interrupted one, receipts settle once.
* **Preparation.** A run takes over the job of another whose action ended while that
  process may still execute; checkpoints must not mix frozen inputs. Correct: one writer
  per job, finished steps never run again, cancellation distinct from shutdown.
* **Discovery through Chrome.** Selection, capability and run are checked, a name is
  resolved, and a lease is granted afterwards; loops give up on requests that are still
  served; Chrome creates a tab after its task was cancelled. Correct: a task is begun once,
  for the profile and the run that may; work that lost its lease stops; no tab, listener or
  redirect rule is left behind and the guard outlives the tab.
* **Captures.** A page the user captured is sent, answered late or not at all, and sent
  again, by another flush, token or version of the extension, while an import stalls and is
  taken over. Correct: kept until imported or discarded, imported at most once, an
  acknowledgement is repeatable, and nothing is passed over without a label.
* **Optimistic cache.** Edits that overlap, reads that began before them, refusals, lost
  answers and committed events come in any order. Correct: a refused edit leaves nothing,
  stale data is never shown as current, and everything converges to the server.
* **Demo workspace.** Tabs of different releases commit to one snapshot, hear of one
  another late, lose storage and are closed. Correct: no confirmed write is lost to
  another tab, nobody goes back, and who has heard everything shows everything.
* **Discovery runs.** A retried activity takes a new epoch while the old one still reads.
  Correct: the old epoch writes nothing, the budget of new jobs holds, replay is idempotent.
* **Schedules.** A crash between submission and cursor. Correct: no event lost, at most
  one run per batch.
* **Pool and limiter.** Correct: no lost settlement, no host visited faster than promised.

`PROJECT.json` lists every component with its status and every hazard at its line.

## 2. Plan

Order of work: the path on which an error cannot be repaired - a message that leaves the
machine - and what it stands on come first, then what spends money, what repeats work, what
acts in the user's browser, and what the user is shown.

| Module | Subject | Composition | State |
| --- | --- | --- | --- |
| `DurableRun` | what one action run promises | abstract | done |
| `ActionRun` | receipt, lock, workflow, attempts, clients, recovery of one run | implements `DurableRun` | done, proved |
| `SubmitOnce` | what the submission path promises for a job | abstract | done |
| `Applications` | preparation to confirmation of an application | implements `SubmitOnce` | done, safety proved |
| `ModelGateway` | admission and settlement of model calls | - | done, proved |
| `Preparation` | recipes, claims, checkpoints, retries | one `DurableRun` per run | done, proved in part |
| `CaptureOnce` | what the extension promises of a captured page | abstract | done |
| `CaptureQueue` | the extension's queue and flushes with JobCtrl's capture receipts | composes client and server; implements `CaptureOnce` | done, proved |
| `BrowserTasks` | the broker's leases with the callers and the extension's loops | composes three programs | done, safety proved |
| `PageVisit` | one task in Chrome | what `SendResult` and `Abort` of `BrowserTasks` stand for | done, safety proved |
| `OptimisticCache` | edits, reads and events of one tab | over an external query cache | done, safety proved |
| `DemoWorkspace` | snapshot, tabs, announcements, streams | - | done, proved |
| `DiscoveryRuns` | epochs and leases, unit checkpoints, intake receipts, new-job budget | an abstract budget; implements an abstract "one live epoch" | open |
| `Schedules` | event cursor and follow-up submission | one `DurableRun` per batch | open |
| `RuntimePool`, `RateLimiter` | session retention and settlement; pacing per host | - | open |
| `Applications` over `ActionRun` | the direct execution with the lock and the workflow in place of `MaxTries` | refinement | open |

Further theorems worth proving, with the modules they need: that `DiscoveryRuns` keeps its
budget of new jobs across epochs, and that `Schedules` submits a batch at most once.

## 3. Modules and the code

Every module follows the same conventions. One SQLite or IndexedDB transaction is one
action, because both stores make them serial; what a function reads outside of that
transaction and uses in it is a state of its own (`pc`, `handler`, `recovery`, `polls`,
`base`). `await`s, calls to other processes and file locks separate actions, and what
JavaScript does between two `await`s is one action. A definition ending in
`Mutant` is the named definition with one plausible bug: it is never part of the
specification, and exists to show that a property notices.

**`ActionRun`** - `app/actions.py`, `execution.py`, `worker.py`. One run; runs share
nothing but the database file. `status`, `cancelRequested`, `hasError` are columns of the
receipt and `closings` counts its terminal events; `custody` is the holder of the file
lock; `pc[k]` is where the invocation of attempt `k` (or the direct one, `0`) is in
`execute`; `workflow`, `activity`, `attempt` are what Temporal says; `submitting` is where
each client is in `submit`; `recovery` is where `reconcile_runs` is. Clients can die
between any two steps and retry with their key; the start of a workflow can succeed with
a lost answer; an attempt that misses heartbeats is replaced while it lives on.

**`DurableRun`** - the promise: a receipt closes at most once and is final, one execution
at a time, execution only while open and not revoked. Three variables, no attempts or locks.

**`Applications`** - `features/applications/`. `payloads`, `decisions`, `runs`, `intents`,
`receipts`, `checks` are the tables; `payload`, `status`, `stopped`, `epoch`, `attempts`,
`runOf` the job's state row; `stage`, `tries`, `item`, `pc` the executions; `delivered`
counts what the provider was really handed. `Admit` is the transaction that commits the
intent, `Send` the POST, `SettleConfirmation` and `RetainUncertain` the two ends,
`Park`/`Reconcile` what a later admission does with an unfinished intent. `StartDirect`
takes the items that were queued, `StartStanding` selects approved jobs at its start.

**`SubmitOnce`** - the promise per job: committed once, handed over at most once after
that and only for it, confirmed only if handed over.

**`ModelGateway`** - `app/model.py`. `calls` is `app_model_calls` in order; `charged` what
the provider really consumed, which the receipt need not know; `process` who owns a process
identifier: none, a JobCtrl process, another program.

**`Preparation`** - `app/preparation.py`, `preparation_store.py`. `prep`, `frozen`,
`cohort`/`targets`, `steps`, `claim` are the tables; `phase`, `working`, `revoked` the
durable run around the handler; `handler[r]` the locals of `run` and `_run_job`. Stages
are numbers; a step's `op` is the run whose operation identity and frozen inputs it
carries; `committed` are the operations a feature has accepted. `MarkInterrupted`,
`ReleaseInterrupted` and `CloseInterrupted` are three actions because the code reads the
user's cancellation three times while an interruption unwinds.

**`CaptureQueue`** - `ext/queue.ts`, the capture request of `ext/local-api.ts`, and the
`capture` of `extension_transport.py` with the guarded transaction of `features/jobs`.
`queue` is the stored queue; `flush` the running flush with the snapshot it still has to
go through (`todo`) and what it is done with (`passed`); `waiting` the promise chain of
flushes with other tokens; `sends` every request, with the handler that serves it, so that
a request whose sender has given up goes on in the server. `receipts` is
`extension_capture_receipts` with owner and lease, `written` and `imports` the receipts and
postings of the Jobs feature. `ClaimReceipt`, `ImportCapture` and `AcceptReceipt` are three
transactions; `LeaseExpires` lets a second handler in between any two of them. A capture's
identity is `<<item, n>>`: an item of an old version gets its `captureId` when it is first
sent, and `form` is how a version of the extension serialises it, which decides whether a
retry has the content the receipt is bound to.

**`CaptureOnce`** - the promise: kept until acknowledged or discarded, written at most
once, acknowledged only when written.

**`BrowserTasks`** - `ExtensionBroker`, `fetch_public`, `ext/background.ts`,
`discovery-loop.ts`. `tasks` and `queued` are `extension_browser_tasks`; `caller` is where
`fetch_public` is; `selected` is the row of `extension_installation`; `work` is what each
polling loop does; `polls` are lease requests between their two transactions, with
`awaited` saying whether the loop still listens; `posts` are results on their way. Each
transaction of the broker begins with `_expire` (`Unexpired`). A capability token is read
when a request arrives, the selection again in each transaction, and that difference is
kept: `Authorised` guards arrivals, `Selected` the transactions that end a request.

**`PageVisit`** - `ext/discovery-executor.ts`. `step` is the `await` the visit is at;
`calls` are calls of Chrome without an answer, among them those nobody waits for any more;
`known`, `ruled`, `hears` are its locals, `tab`, `page` and `rules` what Chrome has. The
continuations that run after the visit has ended are `"close late"` and `"clear late"`.

**`OptimisticCache`** - `web/shared/lib/createOptimisticMutation.ts` and the reconciliation
of `EventStreamProvider.tsx`. `cache[q]` is one query with its read in flight and its
ownership ledger (`baseline`, `entries`, `deferred`); `stage` and `request` are where a
mutation is in the page and at the server; `server` is the sequence of committed writes and
`events` those the stream has not delivered. The content of a query is the sequence of
writes it includes, so that order and omissions show. What TanStack Query does
(`StartedRead`, `EndedRead`, `Refetched`) is not in the repository and is marked external.

**`DemoWorkspace`** - `web/demo/workspace/`. `db` is the snapshot in IndexedDB with its
bounded event log, `memory` a tab's own store; `mode`, `snap`, `mark` are fields of the
tab's repository; `inbox` holds announcements of the broadcast channel, in any order;
`hearing` is an announcement for which the snapshot is being read; `ops` are `mutate` and
`reset` calls, each of which is committed in the store (`Transact`) before its tab hears of
it (`Committed`); `notices` and `seen` are the stream's queue and cursor. `Told` keeps the
order in which one connection of IndexedDB reports its transactions.

`PROJECT.json` maps each definition to its lines.

## 4. What is checked

`capture_queue` also checks for deadlock (a request can always be made or fail); the other
systems really stop: receipts close, executions end, attempts run out, and what a user may
do is bounded. Bounds are CONSTANTS of the modules.

| Run | Instance | States | Shows |
| --- | --- | --- | --- |
| `action_run` | 2 clients, 2 attempts, fair | 114,207 | one execution at a time, of an open receipt; one closing event; completion has its result; a cancelled run that is not executing never executes; `ActionRun` implements `DurableRun`; every run whose workflow started gets a terminal receipt |
| `submission_safety` | 1 job, a direct execution of two attempts and a standing one, 2 modes, 2 payloads and decisions, a stop or (constraint `PlainChange`) a change of sources | 1,608,234 | at most one message; records stay true of what happened; a stop survives every late answer; what was prepared before a stop or a change is never sent; `Applications` implements `SubmitOnce` |
| `submission_consent` | 1 job, 1 earlier application, 2 direct executions, changing sources, fair | 316,190 | one consent admits one run; a sending email is settled or parked, unless its execution is cancelled or out of attempts |
| `model_gateway` | 2 processes, 2 lanes, 2 calls, 2 days, budget and token limits on and off | 2,301,216 | no call is admitted on spent or unknown money or tokens; the report is honest about unknown usage; an answer finds its receipt |
| `preparation` | 2 interchangeable runs (either may retry the other), 1 job, 2 stages, 2 attempts of which one run may use both, one run cancelled | 2,003,196 | one writer per job; stages in order, complete and accepted by their feature; finished and frozen checkpoints never change; only the user cancels and a cancelled run rests; each run is a `DurableRun` |
| `preparation_retry_repeats` | 2 runs, 1 job | - | the disagreement of section 6 |
| `optimistic_cache` | 1 fenced list, 2 overlapping edits, another's write | 677,942 | what is shown is the replay of the ledger; a refused edit leaves no trace |
| `optimistic_converges` | the same, observed and not fenced, a caller that declines rollbacks, fair | 253,430 | stale data is marked, being read or about to be reconciled; in the end the page shows the server's content or a failed refresh |
| `capture_queue` | 2 captures, one of an old version; 2 tokens, 2 forms, 2 requests, a waiting flush | 316,108 | a flush leaves behind only what is labelled; accepted stays accepted; queue and receipts implement `CaptureOnce` |
| `browser_tasks` | 1 task, 2 profiles, 3 loops, 3 selections or rotations, fair | 318,282 | a task is begun in Chrome once, for the profile and run that may; a loop whose lease has ended stops |
| `page_visit` | 1 task in each of 3 modes, fair | 166 | no tab, rule or listener is left; the tab never navigates away from its source; a visit ends |
| `demo_workspace` | 2 tabs, 2 releases, 2 writes, a log of one entry, 1 failure, reset or closed tab | 1,237,909 | no confirmed write is lost to another tab; who has heard of everything, with an open stream, shows everything; a tab never goes back |

Why these bounds show the interesting cases. *ActionRun*: an attempt and the one that
replaces it, with a direct execution beside them, are the smallest competition for the
lock, and two clients are needed for a retry next to a first submission; the same instance
with three attempts and without liveness (313,660 states) satisfies the safety properties
too. *Applications*: jobs interact only through the concurrency setting and repeat
evidence, which the run with an earlier application contains; two
executions are the smallest competition, two attempts of one of them the smallest crash and
retry (both with two attempts: 3.4 million states, and the same properties), two payloads
the smallest replacement. A change of the sources is tried on the first payload of a job
that is not stopped; without that constraint (5,876,700 states) the same properties hold.
*ModelGateway*: overshoot needs two calls at once; three calls
in one lane (1,479,548 states) satisfy the token limit too. *Preparation*: two runs
are the smallest takeover and the smallest retry; that only one of them is restarted is
the constraint `OneRestart`, and that only one is cancelled `OneCancelled`; without the
latter (2,946,767 states) the properties hold too. One stage with both runs restarted (927,134 states),
requests that name their jobs with one attempt each (1,287,911), and two jobs
with two runs of one attempt each (3.7 million) satisfy the same properties.
*CaptureQueue*: two captures, one of an older version, are the smallest flush that has to
go past an item; two requests for one capture are the smallest takeover; two tokens and two
forms the smallest change in between. *BrowserTasks*: one task is fought over by two loops
of one profile and a third of another, through three selections or rotations. Two tasks
with one loop per profile and room for one open task (2,560,636 states, two selections) or
for two (226,458, one selection), and two tasks with both loops of one profile (2,102,260)
satisfy the safety properties too. *PageVisit* has no bound. *OptimisticCache*: two
overlapping edits are the smallest in which one is rolled back under the other, and the
write of somebody else tells the server's order from the tab's. The two runs differ in
whether reads are fenced, the caller may decline a rollback, and the query stays observed.
*DemoWorkspace*: two tabs, two writes and a log of one entry are the smallest gap; two
releases the smallest upgrade; with a migration in the place of the replacement
(1,201,448 states) the same properties hold. Symmetry is
used only in runs without liveness properties, over sets the modules never order.

**Fairness.** `ActionRun`: the supervisor restarts a dead worker, so a scheduled attempt
is polled, an attempt that executes ends or is timed out, and its result is reported (weak
fairness); the lock is polled ten times a second by waiting invocations and the recovery
loop comes by every three seconds, so neither is shut out for ever although each is
disabled while the other holds the lock (strong fairness of taking it and of recovery's
two following calls, which can each fail). Clients owe nothing: nobody must submit, cancel
or retry, hence `StartedSettles` begins at the workflow, not at the receipt.
`Applications`: weak fairness of each execution's own steps - the durable service starts
queued attempts, and every call it makes has a timeout. The user and the provider's answer
owe nothing. `BrowserTasks`: a loop that executes sends its heartbeat every 750 ms and
unwinds when aborted; pages, Chrome, callers and users owe nothing. `PageVisit`: the timer
of `task.timeoutMs` fires, and Chrome answers a request to close a tab or to remove rules,
also with a failure; of its other calls nothing is assumed. `OptimisticCache`: reads and
requests end, by their timeouts at the latest, handlers that have begun are finished, and
the open stream delivers (a reconnection is `Reconcile`, which owes nothing). The other
modules claim no liveness.

## 5. What is proved

`*Proofs` modules hold the theorems; TLAPS checks them for every value of the constants.
Liveness and `ENABLED` stay with TLC. What a recursive function computes is proved where a
proof needs it (`OptimisticCacheProofs`).

* **`ActionRunProofs`** (from `MaxAttempts \in Nat \ {0}`). Mutual exclusion does not
  follow from itself: the invariant also says that custody is held exactly by the
  invocation that is past `Acquire` (or by recovery), and that an executing invocation's
  receipt is running and has no closing event. From it: `Custody` (one execution, which owns
  its receipt; one closing event; completion has its result), that a terminal receipt is
  final, that a cancelled run that is not executing never executes, and that every step is
  a step or a stutter of `DurableRun`.
* **`ApplicationsProofs`** (from the named typing assumptions on the constants).
  `SubmissionInv`: a job has at most one intent, only the intent's run can be sending, and
  nothing is handed over, confirmed or in flight without an intent. From it: at most one
  message, and that the submission path implements `SubmitOnce`. `StopInv`
  links `stopped` to the status, hence `StopSurvives`. `TypeOK` bounds the starts of an
  execution, which needs where in its life it is (`TriesLeft`: a queued one has a try left).
  `RecordStands` is inductive with the types and `SubmissionInv`: only the intent's own run
  may confirm, and what may replace a payload asks first whether there is an intent.
  `OneUseConsent` compares two runs; its invariant (`ConsentsSpent`) compares each run
  with the assessment it used, which names that run and no other. `NoRevival` is an action
  property that needs a bound from the past (`PastPayloads`): no payload was captured from
  a later stop or a later source than the current ones, and those only count upwards
  (`Forward`), so what is out of date stays so, and only what is current is committed.
* **`ModelGatewayProofs`**. A call under way has an open receipt and a living owner
  (`AnswerFindsReceipt`), which is why the marks other processes make on interrupted calls
  never touch it; from it and the shape of the updates, that closed receipts never change.
  What receipts say of money needs a second invariant (`ReceiptsAccount`): each receipt, on
  its own, says nothing of an open call, was charged nothing where nothing was dispatched,
  and else reports what was charged or that it is unknown. Row by row this gives the sums
  of `SpendIsHonest` and `WithinLimits` without induction: where nothing is unresolved, the
  reported amounts and the charged ones are the same function, so their totals (`Total`)
  are the same.
* **`PreparationProofs`**. A handler is somewhere exactly while its run is working, a
  working run is open, a handler at a stage holds its job's claim, a cancelled preparation
  rests. A claim is taken only from a run with a terminal receipt, so its owner's handler
  is nowhere: `OneWriter`. A second invariant, `EvidenceInv`, says for each place of a
  handler what is saved there: past `StartStage` the step it is at is running, after
  `Accept` its operation is committed, every stage behind an unblocked handler is finished,
  and so is every job it has left unless it knows of a failure. From it `Evidence` and
  `EvidenceStays`. Further, that only the user cancels and a cancelled preparation
  rests, and `RunsAreDurable`: what `Preparation` assumes of the action layer is the
  `DurableRun` that `ActionRun` implements.
* **`CaptureQueueProofs`** (from `CaptureQueueAssumption`). That a posting is written once
  does not follow from the receipts, whose owners can overlap; it follows from one identity
  per capture (`minted` is stored with the item before the first request) and the
  receipt the Jobs feature keeps in the transaction that writes. That nothing is let go too
  early needs that an `acknowledged` on the wire, an `imported` handler and an `accepted`
  receipt each imply `written`. From the invariant: `TypeOK`, `PassedAreLabelled`,
  `AcceptedStands`, and that every step is a step or a stutter of `CaptureOnce`.
* **`ExtensionProofs`** (from `BrowserTasksAssumption`). `StartedOnce` needs that a task
  that was not leased yet has not been begun, and that a request somebody awaits belongs to
  a loop that is polling for that very task. `Authority` follows from what each step may do
  with a row (`Granted`, `Accepted`, `FailedNow`).
  Of `PageVisit`, which it extends as well: `LeavesNothing` is about the end; its invariant says of every
  state which call, under way or owed, will remove the tab and the guard, and that a visit
  in each `step` knows what it created. `StaysAtSource`: no call to navigate is under way
  unless the guard is there, and the guard goes only after the tab.
* **`DemoWorkspaceProofs`** (from `DemoWorkspaceAssumption`). `NothingLost` speaks of what
  was confirmed; its invariant also speaks of what a transaction has left and its tab has
  not been told of (`OpInv`): that write, too, is in IndexedDB or a reset came after it.
  Every step changes IndexedDB only as `DbStep` allows - the same epoch with no write taken
  out, or the next epoch - which is what re-reading the snapshot inside the transaction
  buys. Typing needs that every snapshot a tab, a command or an announcement holds existed.

  `Coherent` and `NeverGoesBack` compare what tabs hold with revisions that are gone, and
  the state does not keep those. The invariant says that there is a past, a snapshot for each
  revision, with which everything agrees (`PastInv`, `\E past : Agrees(past)`): the workspace
  is its last revision; successive ones differ by at most one event, which the log has at
  its place unless it was cut off (`Logged`), and within an epoch no write is lost
  (`Before`); the snapshot of a tab, its watermark and every announcement are points of the
  past; the queue of its stream leads, in order, from what was delivered to the watermark
  (`Queue`); an open stream shows a revision no earlier than what it has delivered; a
  transaction a tab has not been told of is later than all it has adopted (`OpsPast`); and
  the last revision a tab was sent it has taken in, has still to hear, is reading for, or
  will not need because it leaves for memory (`Awaited`). Each action then extends the past
  by at most one revision (`PastGrows`), and the tabs that do not move agree with the longer
  one. `Coherent` follows for a quiet tab: watermark, stream and views are all at the last
  revision. `NeverGoesBack` follows step by step: a tab moves to what is in IndexedDB,
  to its own commit, or to the next notice. Beside the typing assumptions
  `DemoWorkspaceAssumption` says that there is a release to load, and that `Nothing` is
  neither a snapshot nor an announcement.
* **`OptimisticCacheProofs`** (from `OptimisticCacheAssumption`: every caller settles what it
  patches or merges into, and patches what its write is about). The content of a query is a
  sequence, and what it shows is its ledger replayed, edit by edit. The induction theorems
  of the library take an operator and cannot be used, so `Induction` is derived for sets
  from the least element of a well-founded order; with it the recursions of `Kept` and
  `Replay` are characterised by their steps (`KeptSteps`, `ReplaySteps`), and then by what
  they do with an appended element, with settled marks and with the set of elements. The
  operations on one query follow (`PatchRow`, `RollbackRow`, `SettleRow`, `CommitRow`, ...),
  and every action combines a few of them.

  The invariant has four parts. `Clean`: the ledger explains what is shown, and lasts only
  while an edit has not settled. `EntriesInv`: an edit stays in a ledger only while its
  mutation can still take it back or after it was committed, and only in a query the
  mutation will settle. `TraceInv`: what is shown, read or kept as baseline is committed or
  in the ledger - a baseline with a refused write would bring it back with the next
  rollback; hence `RefusedLeavesNothing`. `WatchInv`, for `Coherent`, speaks of the future
  of a read as well as of the query: an answer that has arrived is the server's content,
  or will be repeated, or an event or a running mutation will mark the query once the
  answer is in; and a read is overtaken only while the mutation that overtook it is
  running. Without the second half a read that keeps the published value would lose the
  mark for good. `Coherent` is about the watched queries only: section 6 shows that it
  fails for others.

Only model-checked: the liveness properties `StartedSettles`, `DirectSettles`,
`AbandonedStops`, `VisitEnds` and `Converges`. Every safety and action property of the
passing runs is a theorem.

## 6. Where the code and its documents disagree

`preparation_retry_repeats` is a checked run: a stage left `running` by an attempt that was
killed or shut down, in a preparation that is then cancelled, is not inherited by the retry,
which executes it under a new identity. The cancellation can arrive while one attempt
unwinds, between its reads of it for the stage and for the run (TLC's shortest behaviour),
or be noticed by the next attempt before the stage. Depending on the stage the feature repeats the work or refuses it
because its sources have changed. `PROJECT.json` quotes the lines.

The following configurations show others; they are kept beside the models, and TLC finds
each of their properties violated.

| Configuration | Property | What happens |
| --- | --- | --- |
| `ActionRun_error_code` | `FailedHasCode` | An attempt that fails before `submit` records `queued` loses its error code, because that update clears the column whatever the status is. |
| `Applications_crash_parks` | `CrashParks` | The documents say a crash after the intent parks the run for verification. Only a later admission for the job parks it, and the standing loop never selects a job with an intent: the run stays `sending`. Nothing is sent twice. |
| `Applications_unknown_visible` | `UnknownStaysVisible` | A rehearsal that completes after a lost acknowledgement takes the job from `needs_verification` to `awaiting_approval`. The run's row and the summary still show the unknown answer, and the intent still blocks a send. |
| `Preparation_ended` | `EndedIsRetryable` | A preparation whose action is closed between attempts says `running` for ever, and its retry is refused. A new run for the job is still possible. |
| `OptimisticCache_stale_current` | `NothingStaleAsCurrent` | A refresh is in flight when its component unmounts; an event then marks the query without reading it again, and the answer of the older read clears the mark. Old data counts as current until the next event or reconnection (`src/docs/architecture/frontend/realtime.md:15` and `:19` say that reads in flight are reconciled and nothing stale is presented as current). |
| `DemoWorkspace_memory` | `PreservesConfirmed` | "this tab preserved the last confirmed demo state" (`web/demo/workspace/contracts.ts:123`): a write of the same tab that is confirmed between the read of the newest snapshot and the switch to memory is not in it, and of two operations that fall back together the second replaces what the first one has. |

Met while reading, without a configuration of their own:

* `src/docs/user/security.md:142` calls the broker memory-only with at most four tasks; it
  is a table of the workspace with room for 64 (`extension_transport.py:274`).
* A capture that JobCtrl refuses for good stops the flush at the head of the queue, and
  later captures wait until the user discards it (`ext/queue.ts:160`).
* A demo tab reads the snapshot before it listens to the channel and announces its own
  migration before it has one, so that two tabs that start together may each miss the
  other's first step (`web/demo/workspace/DemoWorkspaceRepository.ts:137`, `:512`); a gap in
  the revisions or the next announcement repairs it.
* An announcement whose snapshot is being read when the tab switches to memory is adopted
  into the memory tab's view (`DemoWorkspaceRepository.ts:774`).
* A `reset` that could only be applied in memory is reported like any success
  (`web/demo/guide/DemoGuide.tsx`).

## 7. Abstractions and what is not modelled

* *ActionRun*: heartbeats as such (only their absence), the health gate of `submit`, payload
  hashes. A custody file that is not private, or is replaced, turns an invocation away
  while it waits; what the operating system does to the locks of a replaced file is left out.
* *Applications*: version and idempotency checks (a stale or repeated command changes
  nothing); fit eligibility, exclusions and the limits of the standing loop appear as a
  refusal that is always possible; dry runs and the targeted form of `run_approved`;
  `delete_job_data`; the latest decision is read from the decisions; profile, posting,
  resume and screening answers are one revision per job (`sources`); one rehearsal per job
  at a time; a run's identity is its execution and job; `execute` and `batch` are one kind
  of execution; a message delivered after its POST timed out counts at the POST; `MaxTries`
  stands for the attempts `ActionRun` models.
* *ModelGateway*: estimated costs are the provider's charge; input and output tokens are
  known together; lane capacities are constant; a refusal leaves nothing behind (its marks
  are rolled back); providers charge only while the call executes. A lane's token limit
  counts calls that have settled, in the code as in `WithinLane`: the receipt of a dead
  process whose identifier was reused counts for nothing in its lane until that process
  ends too, while the budget of the day is refused as long as it is open.
* *Preparation*: the discover step; `warning` is a success; a feature accepts once per
  operation identity, and its revision checks are a failure that is always possible; the
  jobs of a cohort are taken in any order; the stages of a busy job are marked in one step;
  a computation that outlives its interrupted handler in a thread is refused by the feature
  and does not appear; a finished step is read back without an error (the code would
  record the stage as failed, over its success, if that read of the database failed).
* *OptimisticCache*: what a mutation writes is one patch per query, replayed in the order of
  the ledger; a mutation settles at least the queries it patches (an assumption, named in
  the module); a rebase that meets a query without its baseline cannot happen in the
  callers there are and is left out, as are direct `setQueryData` calls of other features;
  cancelling a read restores the flags of the query, not its content; no query function of
  these features consumes the abort signal, so the end of the last observer cancels no
  read; callbacks of the cache
  that re-enter the module in the same turn do not occur.
* *CaptureQueue*: a posting the user has deleted in JobCtrl is acknowledged without a new
  import, as `dismissed` is, and both are "written" here; the parsing and the limits of a
  capture are a refusal that is always possible; storage of the browser does not fail.
* *BrowserTasks*: the rotation of the token and the disconnect that follows are one step,
  in which the latter may fail; rows are deleted after 600 seconds, when nobody asks for them; the first
  step of `lease_active` is part of the lease; addresses and redirects are inputs.
* *PageVisit*: the death of the service worker, after which nobody cleans up; what a page
  contains, and whether its source is allowed, is decided by pure functions.
* *DemoWorkspace*: the identity of a workspace is its reset epoch; blobs, lifecycle
  revisions and the failure of reading all blobs are left out (under quota it leaves the
  tab on IndexedDB); reading and seeding at the start is one step, so a newer release does
  not adopt the fresh seed of an older one; a call that needs no fence and its transaction are one step; the
  channel delivers in any order, the connections of IndexedDB in order (`Told`).
* Components without a module, with the reasons, are in `PROJECT.json`: they are planned
  (section 2), have a single writer and little concurrency of their own, or are pure I/O.
  The largest of them by lines - build and distribution scripts, schemas, React views,
  what each demo command computes from the synthetic workspace - keep no state that two
  actors share.
