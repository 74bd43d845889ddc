------------------------------ MODULE ModelGateway ------------------------------
(***************************************************************************)
(* The spend and lane authority of app/model.py: every process of JobCtrl  *)
(* admits its own model calls against the receipts in app_model_calls, one *)
(* immediate transaction per admission and per settlement, while settings  *)
(* change, days pass, and processes die in a call and their identifiers    *)
(* are given to other processes.                                           *)
(*                                                                         *)
(* A definition whose name ends in "Mutant" is not part of the             *)
(* specification: it is the named definition with one plausible bug.       *)
(***************************************************************************)
EXTENDS Integers, Sequences, FiniteSets, FiniteSetsExt

CONSTANTS
  Pids,        \* identifiers the operating system gives to processes
  Lanes,
  Capacity,    \* setting laneConcurrency of each lane
  Budgets,     \* values in use of the setting dailyBudgetUsd, 0 for none
  Limits,      \* values in use of a lane's laneTokenLimits, 0 for none
  Usages,      \* what a call may consume: records of cost and tokens
  MaxCalls,    \* bound: admitted calls
  MaxDay       \* bound: days that pass

ASSUME ModelGatewayAssumption ==
  /\ Capacity \in [Lanes -> Nat \ {0}]
  /\ Budgets \subseteq Nat
  /\ Limits \subseteq Nat
  /\ Usages \subseteq [cost : Nat, tokens : Nat]
  /\ MaxCalls \in Nat /\ MaxDay \in Nat

VARIABLES
  calls,       \* app_model_calls in the order of admission
  executing,   \* calls whose determine() is between _admit and _settle
  charged,     \* what the provider really charged for each call so far
  process,     \* who has each process identifier
  budget,      \* setting dailyBudgetUsd
  limit,       \* setting laneTokenLimits
  day          \* the current UTC day

settings == <<budget, limit>>
vars == <<calls, executing, charged, process, settings, day>>

Unknown == -1            \* SQL NULL, of an amount
Nothing == [cost |-> 0, tokens |-> 0]

(* `cost` and `tokens` are what the receipt records; input and output      *)
(* tokens count as known only together, as in every query of the module.   *)
(* `dispatched` is FALSE for a receipt that says provider_started=0.       *)
Call == [lane : Lanes, day : Nat, owner : Pids,
         status : {"running", "succeeded", "failed", "uncertain"},
         dispatched : BOOLEAN,
         cost : Nat \cup {Unknown}, tokens : Nat \cup {Unknown}]

TypeOK ==
  /\ calls \in Seq(Call)
  /\ executing \subseteq 1..Len(calls)
  /\ charged \in Seq([cost : Nat, tokens : Nat])
  /\ Len(charged) = Len(calls)
  /\ process \in [Pids -> {"none", "jobctrl", "other"}]
  /\ budget \in Nat
  /\ limit \in [Lanes -> Nat]
  /\ day \in Nat

Init ==
  /\ calls = << >>
  /\ executing = {}
  /\ charged = << >>
  /\ process = [p \in Pids |-> "none"]
  /\ budget \in Budgets
  /\ limit \in [Lanes -> Limits]
  /\ day = 0

-------------------------------------------------------------------------------
(* Admission.                                                              *)

(* A process answers to the identifier; whose it is cannot be told.        *)
Alive(p) == process[p] # "none"

MarkInterruptedTypeMutant(rows) ==
  [i \in DOMAIN rows |->
     IF rows[i].status = "running" /\ ~Alive(rows[i].owner)
     THEN [rows[i] EXCEPT !.status = "process_interrupted"] ELSE rows[i]]

MarkInterruptedEagerMutant(rows) ==
  [i \in DOMAIN rows |->
     IF rows[i].status = "running" THEN [rows[i] EXCEPT !.status = "uncertain"] ELSE rows[i]]

(* Calls whose process is gone.                                            *)
MarkInterrupted(rows) ==
  [i \in DOMAIN rows |->
     IF rows[i].status = "running" /\ ~Alive(rows[i].owner)
     THEN [rows[i] EXCEPT !.status = "uncertain"] ELSE rows[i]]

Today(rows) == {i \in DOMAIN rows : rows[i].day = day}
InLane(rows, lane) == {i \in DOMAIN rows : rows[i].lane = lane}
Running(rows) == {i \in DOMAIN rows : rows[i].status = "running"}

(* A settled call of which the receipt does not know what it consumed.     *)
Unresolved(row, field) ==
  /\ row.status # "running"
  /\ row.dispatched
  /\ row.status = "uncertain" \/ row[field] = Unknown

Known(amount) == IF amount = Unknown THEN 0 ELSE amount

(* The sum of a function's values, as COALESCE(SUM(...), 0).               *)
Total(amounts) == MapThenSumSet(LAMBDA i : amounts[i], DOMAIN amounts)

SpentToday(rows) == Total([i \in Today(rows) |-> Known(rows[i].cost)])

TokensToday(rows, lane) ==
  Total([i \in Today(rows) \cap InLane(rows, lane) |-> Known(rows[i].tokens)])

WithinPolicyMutant(rows, lane) ==
  /\ budget # 0 =>
       /\ \A i \in Today(rows) : ~Unresolved(rows[i], "cost")
       /\ SpentToday(rows) < budget
  /\ limit[lane] # 0 =>
       /\ \A i \in Today(rows) \cap InLane(rows, lane) : ~Unresolved(rows[i], "tokens")
       /\ TokensToday(rows, lane) < limit[lane]

(* The daily budget admits a call only when the cost of every earlier one  *)
(* is known, which leaves none running; a lane's limit is on the calls of  *)
(* the lane that have settled.                                             *)
WithinPolicy(rows, lane) ==
  /\ budget # 0 =>
       /\ \A i \in Today(rows) : ~Unresolved(rows[i], "cost")
       /\ SpentToday(rows) < budget
       /\ Running(rows) = {}
  /\ limit[lane] # 0 =>
       /\ \A i \in Today(rows) \cap InLane(rows, lane) : ~Unresolved(rows[i], "tokens")
       /\ TokensToday(rows, lane) < limit[lane]

HasCapacity(rows, lane) == Cardinality(Running(rows) \cap InLane(rows, lane)) < Capacity[lane]

(* The process that admits a call owns it.  A refusal rolls back the marks *)
(* of interrupted calls with the rest: it changes nothing.  A provider     *)
(* without cost accounting may be refused at any time.                     *)
Admit(p, lane) ==
  LET rows == MarkInterrupted(calls) IN
  /\ Len(calls) < MaxCalls
  /\ process[p] = "jobctrl"
  /\ WithinPolicy(rows, lane)
  /\ HasCapacity(rows, lane)
  /\ calls' = Append(rows,
       [lane |-> lane, day |-> day, owner |-> p, status |-> "running",
        dispatched |-> TRUE, cost |-> Unknown, tokens |-> Unknown])
  /\ charged' = Append(charged, Nothing)
  /\ executing' = executing \cup {Len(calls) + 1}
  /\ UNCHANGED <<process, settings, day>>

-------------------------------------------------------------------------------
(* The call and its settlement.                                            *)

(* The provider executes the call, or has executed part of it.             *)
Charge(i, usage) ==
  /\ charged[i] = Nothing
  /\ charged' = [charged EXCEPT ![i] = usage]
  /\ UNCHANGED <<calls, executing, process, settings, day>>

(* What a provider reports of an amount: the amount, or nothing.           *)
Reported(amount) == {amount, Unknown}

SettleMutant(i, outcome, dispatched, cost, tokens) ==
  /\ executing' = executing \ {i}
  /\ calls' = [calls EXCEPT ![i] =
       [@ EXCEPT !.status = outcome, !.dispatched = dispatched,
                 !.cost = Known(cost), !.tokens = Known(tokens)]]
  /\ UNCHANGED <<charged, process, settings, day>>

(* The update names status='running'.                                      *)
Settle(i, outcome, dispatched, cost, tokens) ==
  /\ executing' = executing \ {i}
  /\ calls' = IF calls[i].status # "running" THEN calls
              ELSE [calls EXCEPT ![i] =
                     [@ EXCEPT !.status = outcome, !.dispatched = dispatched,
                               !.cost = cost, !.tokens = tokens]]
  /\ UNCHANGED <<charged, process, settings, day>>

Succeed(i) ==
  \E cost \in Reported(charged[i].cost), tokens \in Reported(charged[i].tokens) :
    Settle(i, "succeeded", TRUE, cost, tokens)

(* A provider error, a rejected answer or a cancellation of the call with  *)
(* something of its usage observed.                                        *)
FailWithUsage(i) ==
  \E cost \in Reported(charged[i].cost), tokens \in Reported(charged[i].tokens) :
    Settle(i, "failed", TRUE, cost, tokens)

(* It failed before anything was dispatched.                               *)
FailUnstarted(i) ==
  /\ charged[i] = Nothing
  /\ Settle(i, "failed", FALSE, Unknown, Unknown)

FailUncertain(i) == Settle(i, "uncertain", TRUE, Unknown, Unknown)

(* The settling transaction itself fails: the receipt stays running under  *)
(* a process that lives on.                                                *)
LoseSettlement(i) ==
  /\ executing' = executing \ {i}
  /\ UNCHANGED <<calls, charged, process, settings, day>>

Crash(p) ==
  /\ process[p] # "none"
  /\ process' = [process EXCEPT ![p] = "none"]
  /\ executing' = {i \in executing : calls[i].owner # p}
  /\ UNCHANGED <<calls, charged, settings, day>>

(* Identifiers are used again, by JobCtrl or by any other program.         *)
Spawn(p, who) ==
  /\ process[p] = "none"
  /\ process' = [process EXCEPT ![p] = who]
  /\ UNCHANGED <<calls, executing, charged, settings, day>>

ChangeSettings(b, l) ==
  /\ budget' = b
  /\ limit' = l
  /\ UNCHANGED <<calls, executing, charged, process, day>>

NextDay ==
  /\ day < MaxDay
  /\ day' = day + 1
  /\ UNCHANGED <<calls, executing, charged, process, settings>>

Next ==
  \/ \E p \in Pids, lane \in Lanes : Admit(p, lane)
  \/ \E i \in executing :
       \/ \E usage \in Usages : Charge(i, usage)
       \/ Succeed(i) \/ FailWithUsage(i) \/ FailUnstarted(i) \/ FailUncertain(i)
       \/ LoseSettlement(i)
  \/ \E p \in Pids : Crash(p) \/ Spawn(p, "jobctrl") \/ Spawn(p, "other")
  \/ \E b \in Budgets, l \in [Lanes -> Limits] : ChangeSettings(b, l)
  \/ NextDay

Spec == Init /\ [][Next]_vars

-------------------------------------------------------------------------------
(* Properties.                                                             *)

Admits == Len(calls') > Len(calls)

ChargedToday == Total([i \in Today(calls) |-> charged[i].cost])

(* A call is admitted under a daily budget only while everything that      *)
(* providers really charged for the calls of the day is below it: also     *)
(* charges of processes that died, of calls whose usage was not reported,  *)
(* and of calls admitted before the budget was set.                        *)
WithinBudget == [][Admits /\ budget # 0 => ChargedToday < budget]_vars

(* The same for the tokens of a lane, of which the calls whose receipts    *)
(* are open do not count: configuration.md calls the limit an "observed-   *)
(* token threshold".  A receipt left open by a dead process is not an      *)
(* exception unless another process has its identifier.                    *)
OpenReceipts(lane) ==
  {i \in Running(calls) \cap InLane(calls, lane) : Alive(calls[i].owner)}

WithinLane ==
  [][\A lane \in Lanes :
       /\ Admits
       /\ calls'[Len(calls')].lane = lane
       /\ limit[lane] # 0
       => Total([i \in Today(calls) \cap InLane(calls, lane) |->
                   IF i \in OpenReceipts(lane) THEN 0 ELSE charged[i].tokens])
            < limit[lane]]_vars

(* Nothing is admitted beyond the budget of the day or the limit of a lane.*)
WithinLimits == WithinBudget /\ WithinLane

(* A peer never takes a call under way for an interrupted one: its answer  *)
(* will find its receipt open, and its process is still there.             *)
AnswerFindsReceipt ==
  \A i \in executing :
    calls[i].status = "running" /\ process[calls[i].owner] = "jobctrl"

(* A receipt that is no longer running never changes.                      *)
ReceiptsFinal ==
  [][\A i \in DOMAIN calls : calls[i].status # "running" => calls'[i] = calls[i]]_vars

(* spend(): what the report counts as incomplete.                          *)
ReportUnresolved(row) ==
  /\ row.dispatched
  /\ \/ row.status \in {"running", "uncertain"}
     \/ row.cost = Unknown
     \/ row.tokens = Unknown

(* "JobCtrl never presents unknown usage as a complete zero"               *)
(* (docs/user/configuration.md): when the report of the day says that the  *)
(* accounting is complete, its costs and tokens are what was charged.      *)
SpendIsHonest ==
  (\A i \in Today(calls) : ~ReportUnresolved(calls[i])) =>
    /\ SpentToday(calls) = ChargedToday
    /\ \A i \in Today(calls) : Known(calls[i].tokens) = charged[i].tokens

===============================================================================
