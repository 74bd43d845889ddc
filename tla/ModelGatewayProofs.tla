--------------------------- MODULE ModelGatewayProofs ---------------------------
(***************************************************************************)
(* Theorems about ModelGateway for all processes, lanes, capacities,       *)
(* settings and bounds.  Two facts are inductive: a call under way has an  *)
(* open receipt and a living owner, and a receipt says nothing of its call *)
(* but what was charged.  The rest is what the admission and the           *)
(* settlement do to rows.                                                  *)
(***************************************************************************)
EXTENDS ModelGateway, SequenceTheorems, TLAPS

GatewayInv == TypeOK /\ AnswerFindsReceipt

(* Marking interrupted calls changes the status of open receipts only, and *)
(* never of one whose owner is there.                                      *)
LEMMA MarkedRows ==
  ASSUME calls \in Seq(Call)
  PROVE  /\ MarkInterrupted(calls) \in Seq(Call)
         /\ Len(MarkInterrupted(calls)) = Len(calls)
         /\ \A i \in 1..Len(calls) :
              /\ MarkInterrupted(calls)[i].owner = calls[i].owner
              /\ MarkInterrupted(calls)[i].lane = calls[i].lane
              /\ MarkInterrupted(calls)[i].day = calls[i].day
              /\ calls[i].status = "running" /\ ~Alive(calls[i].owner) =>
                   MarkInterrupted(calls)[i] = [calls[i] EXCEPT !.status = "uncertain"]
              /\ Alive(calls[i].owner) => MarkInterrupted(calls)[i] = calls[i]
              /\ calls[i].status # "running" => MarkInterrupted(calls)[i] = calls[i]
<1> DEFINE rows == MarkInterrupted(calls)
<1>1. \A i \in 1..Len(calls) : calls[i] \in Call
  OBVIOUS
<1>2. rows = [i \in 1..Len(calls) |->
               IF calls[i].status = "running" /\ ~Alive(calls[i].owner)
               THEN [calls[i] EXCEPT !.status = "uncertain"] ELSE calls[i]]
  BY DEF MarkInterrupted
<1> HIDE DEF rows
<1>3. ASSUME NEW i \in 1..Len(calls)
      PROVE  /\ rows[i] \in Call
             /\ rows[i].owner = calls[i].owner
             /\ rows[i].lane = calls[i].lane
             /\ rows[i].day = calls[i].day
  <2>1. calls[i] \in Call
    BY <1>1
  <2>2. /\ [calls[i] EXCEPT !.status = "uncertain"] \in Call
        /\ [calls[i] EXCEPT !.status = "uncertain"].owner = calls[i].owner
        /\ [calls[i] EXCEPT !.status = "uncertain"].lane = calls[i].lane
        /\ [calls[i] EXCEPT !.status = "uncertain"].day = calls[i].day
    BY <2>1 DEF Call
  <2> QED
    BY <1>2, <2>1, <2>2
<1>4. rows \in Seq(Call) /\ Len(rows) = Len(calls)
  BY <1>2, <1>3
<1> QED
  BY <1>2, <1>3, <1>4 DEF rows

(* A settlement keeps the rows' types and touches one row, and that one    *)
(* only while it is open.                                                  *)
LEMMA SettledRows ==
  ASSUME TypeOK, NEW i \in executing,
         NEW outcome \in {"succeeded", "failed", "uncertain"}, NEW dispatched \in BOOLEAN,
         NEW cost \in Nat \cup {Unknown}, NEW tokens \in Nat \cup {Unknown},
         Settle(i, outcome, dispatched, cost, tokens)
  PROVE  /\ TypeOK'
         /\ executing' = executing \ {i}
         /\ process' = process
         /\ \A k \in 1..Len(calls) :
              /\ k # i => calls'[k] = calls[k]
              /\ calls[k].status # "running" => calls'[k] = calls[k]
<1>1. i \in 1..Len(calls) /\ calls[i] \in Call
  BY DEF TypeOK
<1>2. [calls[i] EXCEPT !.status = outcome, !.dispatched = dispatched,
                       !.cost = cost, !.tokens = tokens] \in Call
  BY <1>1 DEF Call
<1>3. calls' \in Seq(Call) /\ Len(calls') = Len(calls)
  BY <1>1, <1>2 DEF Settle, TypeOK
<1>4. \A k \in 1..Len(calls) :
        /\ k # i => calls'[k] = calls[k]
        /\ calls[k].status # "running" => calls'[k] = calls[k]
  BY <1>1 DEF Settle, TypeOK
<1>5. TypeOK'
  BY <1>3 DEF Settle, TypeOK, settings
<1> QED
  BY <1>4, <1>5 DEF Settle

(* Every end of a call is a settlement with typed arguments.               *)
LEMMA Endings ==
  ASSUME TypeOK, NEW i \in executing,
         Succeed(i) \/ FailWithUsage(i) \/ FailUnstarted(i) \/ FailUncertain(i)
  PROVE  \E outcome \in {"succeeded", "failed", "uncertain"}, dispatched \in BOOLEAN,
            cost \in Nat \cup {Unknown}, tokens \in Nat \cup {Unknown} :
           Settle(i, outcome, dispatched, cost, tokens)
<1>1. charged[i] \in [cost : Nat, tokens : Nat]
  <2>1. i \in 1..Len(charged) /\ charged \in Seq([cost : Nat, tokens : Nat])
    BY DEF TypeOK
  <2> QED
    BY <2>1, ElementOfSeq
<1>2. /\ Reported(charged[i].cost) \subseteq Nat \cup {Unknown}
      /\ Reported(charged[i].tokens) \subseteq Nat \cup {Unknown}
  BY <1>1 DEF Reported
<1>3. CASE Succeed(i)
  BY <1>2, <1>3 DEF Succeed
<1>4. CASE FailWithUsage(i)
  BY <1>2, <1>4 DEF FailWithUsage
<1>5. CASE FailUnstarted(i)
  BY <1>5 DEF FailUnstarted
<1>6. CASE FailUncertain(i)
  BY <1>6 DEF FailUncertain
<1> QED
  BY <1>3, <1>4, <1>5, <1>6

LEMMA InitGateway == Init => GatewayInv
<1> SUFFICES ASSUME Init PROVE GatewayInv
  OBVIOUS
<1>1. budget \in Nat /\ limit \in [Lanes -> Nat]
  BY ModelGatewayAssumption DEF Init
<1>2. calls \in Seq(Call) /\ charged \in Seq([cost : Nat, tokens : Nat])
  BY DEF Init
<1>3. Len(charged) = Len(calls)
  BY DEF Init
<1> QED
  BY <1>1, <1>2, <1>3 DEF Init, GatewayInv, TypeOK, AnswerFindsReceipt

(* An admission appends an open row of a living process.                   *)
LEMMA AdmittedRows ==
  ASSUME TypeOK, NEW p \in Pids, NEW lane \in Lanes, Admit(p, lane)
  PROVE  /\ TypeOK'
         /\ Len(calls') = Len(calls) + 1
         /\ \A k \in 1..Len(calls) : calls'[k] = MarkInterrupted(calls)[k]
         /\ calls'[Len(calls) + 1].status = "running"
         /\ calls'[Len(calls) + 1].owner = p
<1> DEFINE rows == MarkInterrupted(calls)
           row  == [lane |-> lane, day |-> day, owner |-> p, status |-> "running",
                    dispatched |-> TRUE, cost |-> Unknown, tokens |-> Unknown]
<1>1. rows \in Seq(Call) /\ Len(rows) = Len(calls)
  BY MarkedRows DEF TypeOK
<1>2. row \in Call
  BY DEF TypeOK, Call
<1>3. calls' = Append(rows, row) /\ charged' = Append(charged, Nothing)
  BY DEF Admit
<1> HIDE DEF rows, row
<1>4. /\ calls' \in Seq(Call)
      /\ Len(calls') = Len(calls) + 1
      /\ \A k \in 1..Len(calls) : calls'[k] = rows[k]
      /\ calls'[Len(calls) + 1] = row
  BY <1>1, <1>2, <1>3
<1>5. charged' \in Seq([cost : Nat, tokens : Nat]) /\ Len(charged') = Len(charged) + 1
  BY <1>3 DEF TypeOK, Nothing
<1>6. executing' = executing \cup {Len(calls) + 1}
  BY DEF Admit
<1>7. executing' \subseteq 1..Len(calls') /\ Len(charged') = Len(calls')
  <2>1. Len(calls) \in Nat /\ executing \subseteq 1..Len(calls) /\ Len(charged) = Len(calls)
    BY DEF TypeOK
  <2>2. Len(charged') = Len(calls')
    BY <1>4, <1>5, <2>1
  <2>3. 1..Len(calls') = 1..Len(calls) \cup {Len(calls) + 1}
    BY <1>4, <2>1
  <2> QED
    BY <1>6, <2>1, <2>2, <2>3
<1>8. UNCHANGED <<process, settings, day>>
  BY DEF Admit
<1>9. TypeOK'
  BY <1>4, <1>5, <1>7, <1>8 DEF TypeOK, settings
<1> QED
  BY <1>4, <1>9 DEF rows, row

LEMMA StepGateway == GatewayInv /\ [Next]_vars => GatewayInv'
<1> SUFFICES ASSUME GatewayInv, [Next]_vars PROVE GatewayInv'
  OBVIOUS
<1> USE DEF GatewayInv
<1>1. CASE \E p \in Pids, lane \in Lanes : Admit(p, lane)
  <2>1. PICK p \in Pids, lane \in Lanes : Admit(p, lane)
    BY <1>1
  <2>2. TypeOK'
    BY <2>1, AdmittedRows
  <2>3. ASSUME NEW i \in executing
        PROVE  calls'[i].status = "running" /\ calls'[i].owner = calls[i].owner
    <3>1. i \in 1..Len(calls) /\ calls \in Seq(Call)
      BY DEF TypeOK
    <3>2. Alive(calls[i].owner) /\ calls[i].status = "running"
      BY DEF AnswerFindsReceipt, Alive
    <3> QED
      BY <2>1, <3>1, <3>2, AdmittedRows, MarkedRows
  <2>4. process' = process /\ process[p] = "jobctrl"
    BY <2>1 DEF Admit
  <2>5. executing' = executing \cup {Len(calls) + 1}
    BY <2>1 DEF Admit
  <2>6. AnswerFindsReceipt'
    BY <2>1, <2>3, <2>4, <2>5, AdmittedRows DEF AnswerFindsReceipt
  <2> QED
    BY <2>2, <2>6
<1>2. CASE \E i \in executing : \E usage \in Usages : Charge(i, usage)
  <2>1. PICK i \in executing, usage \in Usages : Charge(i, usage)
    BY <1>2
  <2>2. usage \in [cost : Nat, tokens : Nat]
    BY ModelGatewayAssumption
  <2>3. charged' \in Seq([cost : Nat, tokens : Nat]) /\ Len(charged') = Len(charged)
    BY <2>1, <2>2 DEF Charge, TypeOK
  <2> QED
    BY <2>1, <2>3 DEF Charge, TypeOK, settings, AnswerFindsReceipt
<1>3. CASE \E i \in executing :
             Succeed(i) \/ FailWithUsage(i) \/ FailUnstarted(i) \/ FailUncertain(i)
  <2>1. PICK i \in executing :
             Succeed(i) \/ FailWithUsage(i) \/ FailUnstarted(i) \/ FailUncertain(i)
    BY <1>3
  <2>2. PICK outcome \in {"succeeded", "failed", "uncertain"}, dispatched \in BOOLEAN,
             cost \in Nat \cup {Unknown}, tokens \in Nat \cup {Unknown} :
           Settle(i, outcome, dispatched, cost, tokens)
    BY <2>1, Endings
  <2>3. TypeOK'
    BY <2>2, SettledRows
  <2>4. \A k \in executing' : calls'[k] = calls[k] /\ k \in executing
    BY <2>2, SettledRows DEF TypeOK
  <2>5. process' = process
    BY <2>2, SettledRows
  <2> QED
    BY <2>3, <2>4, <2>5 DEF AnswerFindsReceipt
<1>4. CASE \E i \in executing : LoseSettlement(i)
  BY <1>4 DEF LoseSettlement, TypeOK, settings, AnswerFindsReceipt
<1>5. CASE \E p \in Pids : Crash(p)
  BY <1>5 DEF Crash, TypeOK, settings, AnswerFindsReceipt
<1>6. CASE \E p \in Pids : Spawn(p, "jobctrl") \/ Spawn(p, "other")
  <2>1. PICK p \in Pids, who \in {"jobctrl", "other"} : Spawn(p, who)
    BY <1>6
  <2>2. \A i \in executing : calls[i].owner # p
    BY <2>1 DEF Spawn, AnswerFindsReceipt
  <2> QED
    BY <2>1, <2>2 DEF Spawn, TypeOK, settings, AnswerFindsReceipt
<1>7. CASE \E b \in Budgets, l \in [Lanes -> Limits] : ChangeSettings(b, l)
  BY <1>7, ModelGatewayAssumption DEF ChangeSettings, TypeOK, settings, AnswerFindsReceipt
<1>8. CASE NextDay
  BY <1>8 DEF NextDay, TypeOK, settings, AnswerFindsReceipt
<1>9. CASE UNCHANGED vars
  BY <1>9 DEF vars, TypeOK, settings, AnswerFindsReceipt
<1> QED
  BY <1>1, <1>2, <1>3, <1>4, <1>5, <1>6, <1>7, <1>8, <1>9 DEF Next

(* The inductive invariant, hence type correctness.                        *)
THEOREM GatewayInvariant == Spec => []GatewayInv
BY InitGateway, StepGateway, PTL DEF Spec

(* The answer of a call under way always finds its receipt open, whatever  *)
(* other processes conclude about interrupted calls meanwhile.             *)
THEOREM AnswersLand == Spec => []AnswerFindsReceipt
BY GatewayInvariant, PTL DEF GatewayInv

(* A step changes no row whose receipt is closed.                          *)
LEMMA ClosedRowsStay ==
  ASSUME GatewayInv, [Next]_vars
  PROVE  \A k \in DOMAIN calls : calls[k].status # "running" => calls'[k] = calls[k]
<1> USE DEF GatewayInv
<1> SUFFICES ASSUME NEW k \in 1..Len(calls), calls[k].status # "running"
             PROVE  calls'[k] = calls[k]
  BY DEF TypeOK
<1>1. CASE \E p \in Pids, lane \in Lanes : Admit(p, lane)
  BY <1>1, AdmittedRows, MarkedRows DEF TypeOK
<1>2. CASE \E i \in executing :
             Succeed(i) \/ FailWithUsage(i) \/ FailUnstarted(i) \/ FailUncertain(i)
  BY <1>2, Endings, SettledRows
<1>3. CASE UNCHANGED calls
  BY <1>3
<1> QED
  BY <1>1, <1>2, <1>3 DEF Next, Charge, LoseSettlement, Crash, Spawn, ChangeSettings,
     NextDay, vars

(* A receipt that is settled or marked interrupted never changes.          *)
THEOREM ReceiptsStay == Spec => ReceiptsFinal
<1>1. GatewayInv /\ [Next]_vars =>
        [\A i \in DOMAIN calls : calls[i].status # "running" => calls'[i] = calls[i]]_vars
  BY ClosedRowsStay
<1> QED
  BY <1>1, GatewayInvariant, PTL DEF Spec, ReceiptsFinal

(* The receipts and everything else of the module keep their types.        *)
THEOREM TypeCorrect == Spec => []TypeOK
BY GatewayInvariant, PTL DEF GatewayInv

-------------------------------------------------------------------------------
(* Accounting.                                                             *)

(* What the receipt of call i says of its charges: nothing while it is     *)
(* open, nothing of a call that was not dispatched and cost nothing, and   *)
(* of any other call only what it was charged.                             *)
Accounts(i) ==
  IF calls[i].status = "running" \/ ~calls[i].dispatched
  THEN /\ calls[i].cost = Unknown /\ calls[i].tokens = Unknown
       /\ calls[i].status = "running" => calls[i].dispatched
       /\ ~calls[i].dispatched => charged[i] = Nothing
  ELSE /\ calls[i].cost \in Reported(charged[i].cost)
       /\ calls[i].tokens \in Reported(charged[i].tokens)

ReceiptsAccount == \A i \in 1..Len(calls) : Accounts(i)

AccountInv == GatewayInv /\ ReceiptsAccount

(* A receipt that stays as it is, of a call that is charged nothing more.  *)
LEMMA AccountStays ==
  ASSUME NEW k, Accounts(k), calls'[k] = calls[k], charged'[k] = charged[k]
  PROVE  Accounts(k)'
BY DEF Accounts

(* The mark of an interrupted call reports nothing of it.                  *)
LEMMA MarkAccounts ==
  ASSUME GatewayInv, NEW k \in 1..Len(calls), Accounts(k),
         calls'[k] = MarkInterrupted(calls)[k], charged'[k] = charged[k]
  PROVE  Accounts(k)'
<1>1. calls[k] \in Call
  BY DEF GatewayInv, TypeOK
<1>2. CASE calls[k].status = "running" /\ ~Alive(calls[k].owner)
  <2>1. calls'[k] = [calls[k] EXCEPT !.status = "uncertain"]
    BY <1>2, MarkedRows DEF GatewayInv, TypeOK
  <2>2. calls'[k].dispatched /\ calls'[k].cost = Unknown /\ calls'[k].tokens = Unknown
    BY <1>1, <1>2, <2>1 DEF Accounts, Call
  <2>3. calls'[k].status = "uncertain"
    BY <1>1, <2>1 DEF Call
  <2> QED
    BY <2>2, <2>3 DEF Accounts, Reported
<1>3. CASE ~(calls[k].status = "running" /\ ~Alive(calls[k].owner))
  BY <1>3, AccountStays, MarkedRows DEF GatewayInv, TypeOK
<1> QED
  BY <1>2, <1>3

(* A settlement reports what was charged, or nothing.                      *)
LEMMA SettleAccounts ==
  ASSUME GatewayInv, ReceiptsAccount, NEW i \in executing,
         Succeed(i) \/ FailWithUsage(i) \/ FailUnstarted(i) \/ FailUncertain(i)
  PROVE  Accounts(i)'
<1>1. i \in 1..Len(calls) /\ calls[i] \in Call /\ calls[i].status = "running"
  BY DEF GatewayInv, TypeOK, AnswerFindsReceipt
<1>2. ASSUME NEW outcome \in {"succeeded", "failed", "uncertain"}, NEW dispatched \in BOOLEAN,
             NEW cost, NEW tokens, Settle(i, outcome, dispatched, cost, tokens)
      PROVE  /\ calls'[i].status = outcome /\ calls'[i].dispatched = dispatched
             /\ calls'[i].cost = cost /\ calls'[i].tokens = tokens
             /\ charged' = charged
  <2>1. calls'[i] = [calls[i] EXCEPT !.status = outcome, !.dispatched = dispatched,
                                     !.cost = cost, !.tokens = tokens]
    <3>1. PICK row : /\ row = [calls[i] EXCEPT !.status = outcome, !.dispatched = dispatched,
                                               !.cost = cost, !.tokens = tokens]
                     /\ calls' = [calls EXCEPT ![i] = row]
      BY <1>1, <1>2 DEF Settle
    <3>2. calls \in Seq(Call)
      BY DEF GatewayInv, TypeOK
    <3>3. i \in DOMAIN calls /\ calls' = [calls EXCEPT ![i] = row]
      BY <1>1, <3>1, <3>2
    <3>4. calls'[i] = row
      BY <3>3, Zenon
    <3> QED
      BY <3>1, <3>4
  <2> QED
    BY <1>1, <1>2, <2>1 DEF Call, Settle
<1>3. CASE Succeed(i) \/ FailWithUsage(i) \/ FailUncertain(i)
  <2>1. PICK outcome \in {"succeeded", "failed", "uncertain"},
             cost \in Reported(charged[i].cost), tokens \in Reported(charged[i].tokens) :
          Settle(i, outcome, TRUE, cost, tokens)
    BY <1>3 DEF Succeed, FailWithUsage, FailUncertain, Reported
  <2>2. calls'[i].status = outcome /\ calls'[i].dispatched = TRUE /\ charged' = charged
        /\ calls'[i].cost = cost /\ calls'[i].tokens = tokens
    BY <2>1, <1>2
  <2> QED
    BY <2>2 DEF Accounts, Reported
<1>4. CASE FailUnstarted(i)
  <2>1. PICK outcome \in {"failed"}, dispatched \in {FALSE}, cost \in {Unknown} :
          Settle(i, outcome, dispatched, cost, cost) /\ charged[i] = Nothing
    BY <1>4 DEF FailUnstarted
  <2>2. calls'[i].dispatched = FALSE /\ charged' = charged
        /\ calls'[i].cost = Unknown /\ calls'[i].tokens = Unknown /\ calls'[i].status = "failed"
    BY <2>1, <1>2
  <2> QED
    BY <2>1, <2>2 DEF Accounts
<1> QED
  BY <1>3, <1>4

LEMMA StepAccounts ==
  ASSUME AccountInv, [Next]_vars
  PROVE  ReceiptsAccount'
<1> USE DEF AccountInv
<1>0. Len(charged) = Len(calls) /\ Len(calls) \in Nat /\ executing \subseteq 1..Len(calls)
      /\ calls \in Seq(Call) /\ charged \in Seq([cost : Nat, tokens : Nat])
  BY DEF GatewayInv, TypeOK
<1>1. CASE \E p \in Pids, lane \in Lanes : Admit(p, lane)
  <2>1. PICK p \in Pids, lane \in Lanes : Admit(p, lane)
    BY <1>1
  <2>2. /\ Len(calls') = Len(calls) + 1
        /\ \A k \in 1..Len(calls) : calls'[k] = MarkInterrupted(calls)[k]
    BY <2>1, AdmittedRows DEF GatewayInv
  <2>3. \A k \in 1..Len(calls) : charged'[k] = charged[k]
    BY <2>1, <1>0 DEF Admit, Nothing
  <2>4. \A k \in 1..Len(calls) : Accounts(k)'
    BY <2>2, <2>3, MarkAccounts DEF ReceiptsAccount
  <2>5. calls'[Len(calls) + 1] =
          [lane |-> lane, day |-> day, owner |-> p, status |-> "running",
           dispatched |-> TRUE, cost |-> Unknown, tokens |-> Unknown]
    <3>1. MarkInterrupted(calls) \in Seq(Call) /\ Len(MarkInterrupted(calls)) = Len(calls)
      BY MarkedRows, <1>0
    <3> QED
      BY <2>1, <3>1 DEF Admit
  <2>6. /\ calls'[Len(calls) + 1].status = "running" /\ calls'[Len(calls) + 1].dispatched
        /\ calls'[Len(calls) + 1].cost = Unknown /\ calls'[Len(calls) + 1].tokens = Unknown
    BY <2>5
  <2>7. ASSUME NEW k \in 1..Len(calls'), k = Len(calls) + 1  PROVE Accounts(k)'
    BY <2>6, <2>7 DEF Accounts
  <2> QED
    BY <1>0, <2>2, <2>4, <2>7 DEF ReceiptsAccount
<1>2. CASE \E i \in executing : \E usage \in Usages : Charge(i, usage)
  <2>1. PICK i \in executing, usage \in Usages : Charge(i, usage)
    BY <1>2
  <2>2. calls' = calls /\ \A k \in 1..Len(calls) : k # i => charged'[k] = charged[k]
    BY <2>1, <1>0 DEF Charge
  <2>3. Accounts(i)'
    <3>1. calls[i].status = "running" /\ Accounts(i)
      BY <1>0 DEF GatewayInv, AnswerFindsReceipt, ReceiptsAccount
    <3> QED
      BY <2>2, <3>1 DEF Accounts
  <2>4. \A k \in 1..Len(calls) : k # i => Accounts(k)'
    BY <2>2, AccountStays DEF ReceiptsAccount
  <2> QED
    BY <2>2, <2>3, <2>4 DEF ReceiptsAccount
<1>3. CASE \E i \in executing :
             Succeed(i) \/ FailWithUsage(i) \/ FailUnstarted(i) \/ FailUncertain(i)
  <2>1. PICK i \in executing :
             Succeed(i) \/ FailWithUsage(i) \/ FailUnstarted(i) \/ FailUncertain(i)
    BY <1>3
  <2>2. Accounts(i)'
    BY <2>1, SettleAccounts
  <2>3. PICK outcome \in {"succeeded", "failed", "uncertain"}, dispatched \in BOOLEAN,
             cost \in Nat \cup {Unknown}, tokens \in Nat \cup {Unknown} :
           Settle(i, outcome, dispatched, cost, tokens)
    BY <2>1, Endings DEF GatewayInv
  <2>4. \A k \in 1..Len(calls) : k # i => calls'[k] = calls[k] /\ charged' = charged
    BY <2>3, SettledRows DEF GatewayInv, Settle
  <2>5. Len(calls') = Len(calls)
    BY <2>3, <1>0 DEF Settle
  <2>6. \A k \in 1..Len(calls) : k # i => Accounts(k)'
    BY <2>4, AccountStays DEF ReceiptsAccount
  <2> QED
    BY <2>2, <2>5, <2>6 DEF ReceiptsAccount
<1>4. CASE UNCHANGED <<calls, charged>>
  BY <1>4 DEF ReceiptsAccount, Accounts
<1> QED
  BY <1>1, <1>2, <1>3, <1>4 DEF Next, LoseSettlement, Crash, Spawn, ChangeSettings,
     NextDay, vars

(* Receipts account for the calls in every reachable state.                *)
THEOREM AccountInvariant == Spec => []AccountInv
<1>1. Init => AccountInv
  BY InitGateway DEF Init, AccountInv, ReceiptsAccount
<1>2. AccountInv /\ [Next]_vars => AccountInv'
  BY StepAccounts, StepGateway DEF AccountInv
<1> QED
  BY <1>1, <1>2, PTL DEF Spec

(* What a receipt knows, when it says that it is settled and complete, is  *)
(* what was charged: of cost, of tokens.                                   *)
LEMMA KnownIsCharged ==
  ASSUME AccountInv, NEW i \in 1..Len(calls), calls[i].status # "running"
  PROVE  /\ calls[i].dispatched => calls[i].cost = Unknown \/ calls[i].cost = charged[i].cost
         /\ calls[i].dispatched => calls[i].tokens = Unknown \/ calls[i].tokens = charged[i].tokens
         /\ ~calls[i].dispatched => /\ Known(calls[i].cost) = charged[i].cost
                                   /\ Known(calls[i].tokens) = charged[i].tokens
         /\ charged[i].cost \in Nat /\ charged[i].tokens \in Nat
<1>1. Accounts(i) /\ charged[i] \in [cost : Nat, tokens : Nat]
  <2>1. i \in 1..Len(charged) /\ charged \in Seq([cost : Nat, tokens : Nat])
    BY DEF AccountInv, GatewayInv, TypeOK
  <2> QED
    BY <2>1, ElementOfSeq DEF AccountInv, ReceiptsAccount
<1>2. CASE calls[i].dispatched
  BY <1>1, <1>2 DEF Accounts, Reported
<1>3. CASE ~calls[i].dispatched
  <2>1. charged[i] = Nothing /\ calls[i].cost = Unknown /\ calls[i].tokens = Unknown
    BY <1>1, <1>3 DEF Accounts
  <2>2. Known(Unknown) = 0 /\ Nothing.cost = 0 /\ Nothing.tokens = 0
    BY DEF Known, Nothing
  <2> QED
    BY <1>1, <1>3, <2>1, <2>2
<1> QED
  BY <1>2, <1>3, <1>1

(* "JobCtrl never presents unknown usage as a complete zero": spend().     *)
THEOREM SpendHonest == Spec => []SpendIsHonest
<1>1. AccountInv => SpendIsHonest
  <2> SUFFICES ASSUME AccountInv, \A i \in Today(calls) : ~ReportUnresolved(calls[i])
               PROVE  /\ SpentToday(calls) = ChargedToday
                      /\ \A i \in Today(calls) : Known(calls[i].tokens) = charged[i].tokens
    BY DEF SpendIsHonest
  <2>1. ASSUME NEW i \in Today(calls)
        PROVE  /\ Known(calls[i].cost) = charged[i].cost
               /\ Known(calls[i].tokens) = charged[i].tokens
    <3>1. i \in 1..Len(calls) /\ Accounts(i)
      BY DEF Today, AccountInv, GatewayInv, TypeOK, ReceiptsAccount
    <3>2. CASE calls[i].dispatched
      <4>1. /\ calls[i].status # "running"
            /\ calls[i].cost # Unknown /\ calls[i].tokens # Unknown
        BY <3>2 DEF ReportUnresolved
      <4> QED
        BY <3>1, <3>2, <4>1, KnownIsCharged DEF Known
    <3>3. CASE ~calls[i].dispatched
      <4>1. calls[i].status # "running"
        BY <3>1, <3>3 DEF Accounts
      <4> QED
        BY <3>1, <3>3, <4>1, KnownIsCharged
    <3> QED
      BY <3>2, <3>3
  <2>2. [i \in Today(calls) |-> Known(calls[i].cost)] = [i \in Today(calls) |-> charged[i].cost]
    BY <2>1
  <2>3. SpentToday(calls) = ChargedToday
    BY <2>2 DEF SpentToday, ChargedToday
  <2> QED
    BY <2>1, <2>3
<1> QED
  BY <1>1, AccountInvariant, PTL

(* Only an admission makes the receipts more.                              *)
LEMMA OnlyAdmitAdmits ==
  ASSUME GatewayInv, [Next]_vars, Admits
  PROVE  \E p \in Pids, lane \in Lanes : Admit(p, lane)
<1>1. calls \in Seq(Call) /\ Len(calls) \in Nat
  BY DEF GatewayInv, TypeOK
<1>2. ASSUME NEW i \in executing,
             Succeed(i) \/ FailWithUsage(i) \/ FailUnstarted(i) \/ FailUncertain(i)
      PROVE  FALSE
  <2>1. PICK outcome \in {"succeeded", "failed", "uncertain"}, dispatched \in BOOLEAN,
             cost \in Nat \cup {Unknown}, tokens \in Nat \cup {Unknown} :
           Settle(i, outcome, dispatched, cost, tokens)
    BY <1>2, Endings DEF GatewayInv
  <2>2. Len(calls') = Len(calls)
    BY <2>1, <1>1 DEF Settle
  <2> QED
    BY <1>1, <2>2 DEF Admits
<1>3. CASE UNCHANGED calls
  BY <1>1, <1>3 DEF Admits
<1> QED
  BY <1>2, <1>3 DEF Next, Charge, LoseSettlement, Crash, Spawn, ChangeSettings, NextDay, vars

(* A row that the policy of an admission looks at and finds resolved and   *)
(* not running knows what its call was charged.                            *)
LEMMA ResolvedRow ==
  ASSUME AccountInv, NEW k \in 1..Len(calls),
         MarkInterrupted(calls)[k].status # "running"
  PROVE  /\ ~Unresolved(MarkInterrupted(calls)[k], "cost") =>
              Known(MarkInterrupted(calls)[k].cost) = charged[k].cost
         /\ ~Unresolved(MarkInterrupted(calls)[k], "tokens") =>
              Known(MarkInterrupted(calls)[k].tokens) = charged[k].tokens
<1>1. calls[k] \in Call /\ Accounts(k)
  BY DEF AccountInv, GatewayInv, TypeOK, ReceiptsAccount
<1>2. CASE calls[k].status = "running" /\ ~Alive(calls[k].owner)
  <2>1. MarkInterrupted(calls)[k] = [calls[k] EXCEPT !.status = "uncertain"]
    BY <1>2, MarkedRows DEF AccountInv, GatewayInv, TypeOK
  <2>2. /\ MarkInterrupted(calls)[k].status = "uncertain"
        /\ MarkInterrupted(calls)[k].dispatched = calls[k].dispatched
    BY <1>1, <2>1 DEF Call
  <2>3. calls[k].dispatched
    BY <1>1, <1>2 DEF Accounts
  <2> QED
    BY <2>2, <2>3 DEF Unresolved
<1>3. CASE ~(calls[k].status = "running" /\ ~Alive(calls[k].owner))
  <2>1. MarkInterrupted(calls)[k] = calls[k]
    BY <1>3, MarkedRows DEF AccountInv, GatewayInv, TypeOK
  <2>2. calls[k].status # "running"
    BY <2>1
  <2>3. CASE calls[k].dispatched
    BY <2>1, <2>2, <2>3, KnownIsCharged DEF Unresolved, Known
  <2>4. CASE ~calls[k].dispatched
    BY <2>1, <2>2, <2>4, KnownIsCharged
  <2> QED
    BY <2>3, <2>4
<1> QED
  BY <1>2, <1>3

(* The rows an admission looks at are those of the day and of the lane.    *)
LEMMA MarkedScope ==
  ASSUME GatewayInv
  PROVE  /\ DOMAIN MarkInterrupted(calls) = 1..Len(calls)
         /\ DOMAIN calls = 1..Len(calls)
         /\ Today(MarkInterrupted(calls)) = Today(calls)
         /\ \A lane \in Lanes : InLane(MarkInterrupted(calls), lane) = InLane(calls, lane)
<1>1. calls \in Seq(Call)
  BY DEF GatewayInv, TypeOK
<1>2. DOMAIN calls = 1..Len(calls) /\ DOMAIN MarkInterrupted(calls) = 1..Len(calls)
  BY <1>1, MarkedRows
<1> QED
  BY <1>1, <1>2, MarkedRows DEF Today, InLane

(* The daily budget is compared with everything charged for the day.       *)
LEMMA AdmittedWithinBudget ==
  ASSUME AccountInv, NEW p \in Pids, NEW lane \in Lanes, Admit(p, lane), budget # 0
  PROVE  ChargedToday < budget
<1> DEFINE rows == MarkInterrupted(calls)
<1>1. /\ \A i \in Today(rows) : ~Unresolved(rows[i], "cost")
      /\ SpentToday(rows) < budget
      /\ Running(rows) = {}
  BY DEF Admit, WithinPolicy
<1>2. /\ DOMAIN rows = 1..Len(calls) /\ Today(rows) = Today(calls)
      /\ Today(rows) \subseteq 1..Len(calls)
  BY MarkedScope DEF AccountInv, Today
<1>3. ASSUME NEW i \in Today(calls)  PROVE Known(rows[i].cost) = charged[i].cost
  <2>1. i \in 1..Len(calls) /\ rows[i].status # "running" /\ ~Unresolved(rows[i], "cost")
    BY <1>1, <1>2 DEF Running
  <2> QED
    BY <2>1, ResolvedRow
<1>4. [i \in Today(rows) |-> Known(rows[i].cost)] = [i \in Today(calls) |-> charged[i].cost]
  BY <1>2, <1>3
<1>5. SpentToday(rows) = ChargedToday
  BY <1>4 DEF SpentToday, ChargedToday
<1> QED
  BY <1>1, <1>5

(* The limit of a lane is compared with everything charged for the calls   *)
(* of the lane whose receipts are not held open by a process.              *)
LEMMA AdmittedWithinLane ==
  ASSUME AccountInv, NEW p \in Pids, NEW lane \in Lanes, Admit(p, lane), limit[lane] # 0
  PROVE  Total([i \in Today(calls) \cap InLane(calls, lane) |->
                  IF i \in OpenReceipts(lane) THEN 0 ELSE charged[i].tokens]) < limit[lane]
<1> DEFINE rows    == MarkInterrupted(calls)
           scope   == Today(calls) \cap InLane(calls, lane)
           counted == [i \in scope |-> IF i \in OpenReceipts(lane) THEN 0 ELSE charged[i].tokens]
<1>1. /\ \A i \in Today(rows) \cap InLane(rows, lane) : ~Unresolved(rows[i], "tokens")
      /\ TokensToday(rows, lane) < limit[lane]
  BY DEF Admit, WithinPolicy
<1>2. /\ Today(rows) \cap InLane(rows, lane) = scope
      /\ scope \subseteq 1..Len(calls) /\ DOMAIN calls = 1..Len(calls)
  BY MarkedScope DEF AccountInv, Today
<1>3. ASSUME NEW i \in scope
      PROVE  Known(rows[i].tokens) = IF i \in OpenReceipts(lane) THEN 0 ELSE charged[i].tokens
  <2>1. i \in 1..Len(calls) /\ calls \in Seq(Call) /\ Accounts(i) /\ i \in InLane(calls, lane)
    BY <1>2 DEF AccountInv, GatewayInv, TypeOK, ReceiptsAccount
  <2>2. CASE i \in OpenReceipts(lane)
    <3>1. rows[i] = calls[i] /\ calls[i].status = "running"
      BY <2>1, <2>2, MarkedRows DEF OpenReceipts, Running
    <3> QED
      BY <2>1, <2>2, <3>1 DEF Accounts, Known
  <2>3. CASE i \notin OpenReceipts(lane)
    <3>1. calls[i].status = "running" => ~Alive(calls[i].owner)
      BY <2>1, <2>3, <1>2 DEF OpenReceipts, Running
    <3>2. rows[i].status # "running"
      <4>1. CASE calls[i].status = "running"
        <5>1. rows[i] = [calls[i] EXCEPT !.status = "uncertain"] /\ calls[i] \in Call
          BY <2>1, <3>1, <4>1, MarkedRows
        <5> QED
          BY <5>1 DEF Call
      <4>2. CASE calls[i].status # "running"
        BY <2>1, <4>2, MarkedRows
      <4> QED
        BY <4>1, <4>2
    <3>3. ~Unresolved(rows[i], "tokens")
      BY <1>1, <1>2
    <3> QED
      BY <2>1, <2>3, <3>2, <3>3, ResolvedRow
  <2> QED
    BY <2>2, <2>3
<1>4. [i \in Today(rows) \cap InLane(rows, lane) |-> Known(rows[i].tokens)] = counted
  BY <1>2, <1>3
<1>5. TokensToday(rows, lane) = Total(counted)
  BY <1>4 DEF TokensToday
<1> QED
  BY <1>1, <1>5

(* Whatever settings change, calls crash and identifiers are given to      *)
(* other processes: nothing is admitted beyond the daily budget or the     *)
(* token limit of its lane (ModelGateway._admit in app/model.py).          *)
THEOREM LimitsHold == Spec => WithinLimits
<1>1. ASSUME AccountInv, [Next]_vars, Admits
      PROVE  /\ budget # 0 => ChargedToday < budget
             /\ \A lane \in Lanes :
                  calls'[Len(calls')].lane = lane /\ limit[lane] # 0
                  => Total([i \in Today(calls) \cap InLane(calls, lane) |->
                              IF i \in OpenReceipts(lane) THEN 0 ELSE charged[i].tokens])
                       < limit[lane]
  <2>1. PICK p \in Pids, lane \in Lanes : Admit(p, lane)
    BY <1>1, OnlyAdmitAdmits DEF AccountInv
  <2>2. calls'[Len(calls')].lane = lane
    <3>1. MarkInterrupted(calls) \in Seq(Call)
      BY <1>1, MarkedRows DEF AccountInv, GatewayInv, TypeOK
    <3> QED
      BY <2>1, <3>1 DEF Admit
  <2> QED
    BY <1>1, <2>1, <2>2, AdmittedWithinBudget, AdmittedWithinLane
<1>2. AccountInv /\ [Next]_vars => [Admits /\ budget # 0 => ChargedToday < budget]_vars
  BY <1>1
<1>3. AccountInv /\ [Next]_vars =>
        [\A lane \in Lanes :
           /\ Admits
           /\ calls'[Len(calls')].lane = lane
           /\ limit[lane] # 0
           => Total([i \in Today(calls) \cap InLane(calls, lane) |->
                       IF i \in OpenReceipts(lane) THEN 0 ELSE charged[i].tokens])
                < limit[lane]]_vars
  BY <1>1
<1>4. Spec => WithinBudget
  BY <1>2, AccountInvariant, PTL DEF Spec, WithinBudget
<1>5. Spec => WithinLane
  BY <1>3, AccountInvariant, PTL DEF Spec, WithinLane
<1> QED
  BY <1>4, <1>5 DEF WithinLimits

===============================================================================
