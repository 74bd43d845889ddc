--------------------------- MODULE DemoWorkspaceProofs ---------------------------
(***************************************************************************)
(* Theorems about DemoWorkspace, for any number of tabs, releases and      *)
(* commands under way: a write that was confirmed from IndexedDB stays in  *)
(* the workspace until a reset; a tab that has heard of the last revision  *)
(* shows the workspace; and no tab on IndexedDB goes back to an earlier    *)
(* one.  The first needs only IInv, what snapshots hold and where writes   *)
(* are; the others need PastInv, that what the tabs hold are revisions of  *)
(* one past.                                                               *)
(***************************************************************************)
EXTENDS DemoWorkspace, SequenceTheorems, TLAPS

(* A snapshot that contains no write that was not made.                    *)
Known == [release : Releases, epoch : Nat, rev : Nat, seq : Nat, log : Seq(Nat),
          writes : SUBSET (1..writes)]

KnownOp == [step : {"idle", "asked", "done", "newest", "full", "memory"}, reset : BOOLEAN,
            durable : BOOLEAN, base : Known \cup {Nothing}]

Confirmation == [tab : Tabs \cup {Nothing}, write : Nat, epoch : Nat, durable : BOOLEAN]

(* Write w of epoch e is in IndexedDB, or a reset has been there since.    *)
LandedIn(d, w, e) ==
  /\ d # Nothing /\ e <= d.epoch
  /\ e = d.epoch => w \in d.writes
Landed(w, e) == LandedIn(db, w, e)

DbInv ==
  /\ db \in Known \cup {Nothing}
  /\ db # Nothing => Len(db.log) <= LogLimit /\ Len(db.log) <= db.seq

(* What a tab has: who works with IndexedDB has found a workspace there.   *)
TabInv ==
  /\ memory \in [Tabs -> Known \cup {Nothing}] /\ snap \in [Tabs -> Known \cup {Nothing}]
  /\ release \in [Tabs -> Releases \cup {Nothing}]
  /\ mode \in [Tabs -> {"closed", "entering", "replacing", "indexeddb", "memory", "full",
                    "upgrade"}]
  /\ \A t \in Tabs :
       /\ InMemory(t) <=> memory[t] # Nothing
       /\ mode[t] # "closed" => release[t] \in Releases
       /\ mode[t] \notin {"closed", "upgrade"} => snap[t] # Nothing
       /\ mode[t] \in {"entering", "replacing", "indexeddb", "upgrade"} => db # Nothing

(* What a transaction has left, and its tab has not been told of, is still *)
(* there.                                                                  *)
OpInv ==
  /\ ops \in [Tabs -> [Ops -> KnownOp]]
  /\ \A t \in Tabs, o \in Ops :
       LET op == ops[t][o]
       IN /\ op.step # "idle" => op.base # Nothing
          /\ op.durable => db # Nothing
          /\ op.step = "done" => db # Nothing
          /\ op.step = "done" /\ ~op.reset =>
               Max(op.base.writes) \in Nat /\ Landed(Max(op.base.writes), op.base.epoch)

HearInv ==
  /\ mark \in [Tabs -> [rev : Nat, epoch : Nat]]
  /\ inbox \in [Tabs -> SUBSET Notice]
  /\ hearing \in [Tabs -> Hearing \cup {Nothing}]
  /\ \A t \in Tabs : hearing[t] # Nothing => db # Nothing
  /\ heard \in [Tabs -> Nat]

StreamInv ==
  /\ notices \in [Tabs -> Seq(Notice)]
  /\ seen \in [Tabs -> [rev : Nat, seq : Nat]]
  /\ stream \in [Tabs -> BOOLEAN]
  /\ views \in [Tabs -> SUBSET Nat]

KeptInv ==
  /\ kept \subseteq Confirmation
  /\ \A k \in kept : k.durable => Landed(k.write, k.epoch)

CountInv == writes \in 0..MaxWrites /\ others \in 0..MaxOthers

IInv ==
  /\ DbInv /\ TabInv /\ OpInv /\ HearInv /\ StreamInv /\ KeptInv /\ CountInv

(* How IndexedDB may change: no write is taken out within an epoch.        *)
DbStep ==
  \/ db' = db
  \/ db = Nothing /\ db' # Nothing
  \/ /\ db # Nothing /\ db' # Nothing
     /\ \/ db'.epoch = db.epoch /\ db.writes \subseteq db'.writes
        \/ db'.epoch = db.epoch + 1

-------------------------------------------------------------------------------
(* Snapshots.                                                              *)

LEMMA KnownIsSnapshot ==
  ASSUME writes \in Nat
  PROVE  Known \subseteq Snapshot /\ Nothing \notin Known
<1>1. Known \subseteq Snapshot
      BY DEF Known, Snapshot
<1>2. QED
      BY <1>1, DemoWorkspaceAssumption

(* What was known before a step is known after it.                         *)
LEMMA KnownGrows ==
  ASSUME writes \in Nat, writes' \in Nat, writes <= writes'
  PROVE  Known \subseteq Known' /\ KnownOp \subseteq KnownOp'
<1>1. 1..writes \subseteq 1..writes'
      OBVIOUS
<1>2. Known \subseteq Known'
      BY <1>1 DEF Known
<1>3. QED
      BY <1>2 DEF KnownOp

LEMMA SeedKnown ==
  ASSUME NEW r \in Releases, writes \in Nat
  PROVE  Seed(r) \in Known /\ Len(Seed(r).log) = 0 /\ Seed(r).seq = 0
<1>1. << >> \in Seq(Nat) /\ Len(<< >>) = 0
      OBVIOUS
<1>2. QED
      BY <1>1 DEF Seed, Known

LEMMA ReplacementKnown ==
  ASSUME NEW s \in Known, NEW r \in Releases, writes \in Nat
  PROVE  /\ Replacement(s, r) \in Known /\ Replacement(s, r).epoch = s.epoch + 1
         /\ Len(Replacement(s, r).log) = 0 /\ Replacement(s, r).seq = s.seq
<1>1. << >> \in Seq(Nat) /\ Len(<< >>) = 0
      OBVIOUS
<1>2. QED
      BY <1>1 DEF Replacement, Known

LEMMA LogBounded ==
  ASSUME NEW log \in Seq(Nat), Len(log) > LogLimit
  PROVE  Recent(log) \in Seq(Nat) /\ Len(Recent(log)) = LogLimit
<1>1. LogLimit \in Nat \ {0} /\ Len(log) \in Nat
      BY DemoWorkspaceAssumption
<1>2. QED
      BY <1>1 DEF Recent

(* A mutation adds one write, the last one.                                *)
LEMMA MutatedKnown ==
  ASSUME NEW s \in Known, NEW event \in BOOLEAN, writes \in Nat, writes' = writes + 1
  PROVE  LET n == Mutated(s, writes + 1, event)
         IN /\ n \in Known' /\ n # Nothing
            /\ n.epoch = s.epoch /\ s.writes \subseteq n.writes
            /\ Max(n.writes) = writes + 1 /\ Max(n.writes) \in n.writes
            /\ Len(n.log) <= LogLimit
            /\ Len(s.log) <= s.seq => Len(n.log) <= n.seq
<1> DEFINE log == IF event THEN Append(s.log, writes + 1) ELSE s.log
           n == Mutated(s, writes + 1, event)
           kept_log == IF Len(log) > LogLimit THEN Recent(log) ELSE log
<1>1. /\ s.log \in Seq(Nat) /\ s.writes \in SUBSET (1..writes) /\ s.rev \in Nat /\ s.seq \in Nat
      /\ s.epoch \in Nat /\ s.release \in Releases
      BY DEF Known
<1>2. log \in Seq(Nat) /\ Len(log) = IF event THEN Len(s.log) + 1 ELSE Len(s.log)
      BY <1>1
<1>3. LogLimit \in Nat /\ Len(s.log) \in Nat
      BY <1>1, DemoWorkspaceAssumption
<1>4. /\ kept_log \in Seq(Nat) /\ Len(kept_log) <= Len(log)
      /\ Len(kept_log) <= LogLimit
  <2> HIDE DEF log
  <2>1. CASE Len(log) > LogLimit
        BY <1>2, <1>3, <2>1, LogBounded
  <2>2. CASE ~(Len(log) > LogLimit)
        BY <1>2, <1>3, <2>2
  <2>3. QED
        BY <2>1, <2>2
<1>5. n = [release |-> s.release, epoch |-> s.epoch, rev |-> s.rev + 1,
           seq |-> IF event THEN s.seq + 1 ELSE s.seq, log |-> kept_log,
           writes |-> s.writes \cup {writes + 1}]
  <2>1. n = [s EXCEPT !.rev = s.rev + 1, !.seq = IF event THEN s.seq + 1 ELSE s.seq,
                      !.log = kept_log, !.writes = s.writes \cup {writes + 1}]
        BY DEF Mutated
  <2> HIDE DEF n, kept_log
  <2>2. QED
        BY <2>1 DEF Known
<1>6. n.writes \in SUBSET (1..writes')
      BY <1>1, <1>5
<1>7. n \in Known'
  <2> HIDE DEF kept_log, n
  <2>1. QED
        BY <1>1, <1>4, <1>5, <1>6 DEF Known
<1>8. Max(n.writes) = writes + 1
  <2>1. writes + 1 \in n.writes /\ \A y \in n.writes : writes + 1 >= y
        BY <1>1, <1>5
  <2>2. \A x \in n.writes : (\A y \in n.writes : x >= y) => x = writes + 1
        BY <1>1, <1>5, <2>1
  <2> HIDE DEF n
  <2>3. QED
        BY <2>1, <2>2 DEF Max
<1>9. n # Nothing
  <2>1. writes' \in Nat
        OBVIOUS
  <2>2. Known' \subseteq Snapshot
        BY <2>1 DEF Known, Snapshot
  <2>3. QED
        BY <1>7, <2>2, DemoWorkspaceAssumption
<1> HIDE DEF kept_log, log
<1>10. /\ n.log = kept_log /\ n.seq = (IF event THEN s.seq + 1 ELSE s.seq)
       /\ n.epoch = s.epoch /\ n.writes = s.writes \cup {writes + 1}
      BY <1>5
<1>11. Len(s.log) <= s.seq => Len(n.log) <= n.seq
      BY <1>1, <1>2, <1>3, <1>4, <1>10
<1>12. QED
      BY <1>4, <1>7, <1>8, <1>9, <1>10, <1>11

LEMMA InitializedKnown ==
  ASSUME NEW s \in Known \cup {Nothing}, NEW r \in Releases, writes \in Nat
  PROVE  LET n == Initialized(s, r)
         IN /\ n \in Known
            /\ s # Nothing => /\ (n.epoch = s.epoch /\ n.writes = s.writes) \/ n.epoch = s.epoch + 1
                              /\ Len(s.log) <= LogLimit => Len(n.log) <= LogLimit
                              /\ Len(s.log) <= s.seq => Len(n.log) <= n.seq
            /\ s = Nothing => Len(n.log) <= LogLimit /\ Len(n.log) <= n.seq
<1>0. Nothing \notin Known /\ LogLimit \in Nat
      BY KnownIsSnapshot, DemoWorkspaceAssumption
<1>1. CASE s = Nothing
      BY <1>0, <1>1, SeedKnown DEF Initialized
<1>2. CASE s # Nothing /\ s.release >= r
      BY <1>0, <1>2 DEF Initialized
<1>3. CASE s # Nothing /\ ~(s.release >= r) /\ s.release \in Migrated
  <2>1. Initialized(s, r) = [s EXCEPT !.release = r, !.rev = s.rev + 1]
        BY <1>3 DEF Initialized
  <2>2. s \in Known
        BY <1>3
  <2> DEFINE n == Initialized(s, r)
  <2>3. n \in Known /\ n.epoch = s.epoch /\ n.writes = s.writes /\ n.log = s.log /\ n.seq = s.seq
    <3>1. n = [release |-> r, epoch |-> s.epoch, rev |-> s.rev + 1, seq |-> s.seq,
               log |-> s.log, writes |-> s.writes]
          BY <2>1, <2>2 DEF Known
    <3> HIDE DEF n
    <3>2. QED
          BY <2>2, <3>1 DEF Known
  <2>4. QED
        BY <1>0, <1>3, <2>3
<1>4. CASE s # Nothing /\ ~(s.release >= r) /\ s.release \notin Migrated
  <2>1. Initialized(s, r) = Replacement(s, r) /\ s \in Known
        BY <1>4 DEF Initialized
  <2>2. s.seq \in Nat
        BY <2>1 DEF Known
  <2>3. QED
        BY <1>0, <1>4, <2>1, <2>2, ReplacementKnown
<1>5. QED
      BY <1>1, <1>2, <1>3, <1>4

-------------------------------------------------------------------------------
(* What a step does to the parts of the invariant it does not touch.       *)

LEMMA LandedStays ==
  ASSUME IInv, DbStep, DbInv', writes' \in Nat, NEW w, NEW e \in Nat, Landed(w, e)
  PROVE  LandedIn(db', w, e)
<1>1. db \in Known /\ db' \in Known'
      BY DEF IInv, DbInv, DbStep, Landed, LandedIn
<1>2. db.epoch \in Nat /\ db'.epoch \in Nat /\ db' # Nothing
      BY <1>1 DEF Known, DbStep, Landed, LandedIn
<1>3. QED
      BY <1>1, <1>2 DEF DbStep, Landed, LandedIn

LEMMA Grows ==
  ASSUME IInv, writes' \in Nat, writes <= writes'
  PROVE  Known \subseteq Known' /\ KnownOp \subseteq KnownOp' /\ Nothing \notin Known
<1>1. writes \in Nat
      BY DEF IInv, CountInv
<1>2. QED
      BY <1>1, KnownGrows, KnownIsSnapshot

(* IndexedDB is left alone, and so is what was confirmed.                  *)
LEMMA DbKept ==
  ASSUME IInv, UNCHANGED <<db, kept, writes>>
  PROVE  DbInv' /\ KeptInv' /\ DbStep /\ Known' = Known /\ KnownOp' = KnownOp
<1>1. Known' = Known /\ KnownOp' = KnownOp
      BY DEF Known, KnownOp
<1>2. QED
      BY <1>1 DEF IInv, DbInv, KeptInv, DbStep, Landed, LandedIn

(* An operation of one tab is replaced, and no other.                      *)
LEMMA OpReplaced ==
  ASSUME IInv, DbStep, DbInv', writes' \in Nat, writes <= writes',
         NEW t \in Tabs, NEW o \in Ops, NEW op \in KnownOp',
         SetOp(t, o, op),
         op.step # "idle" => op.base # Nothing,
         op.durable => db' # Nothing,
         op.step = "done" => db' # Nothing,
         op.step = "done" /\ ~op.reset =>
           Max(op.base.writes) \in Nat /\ LandedIn(db', Max(op.base.writes), op.base.epoch)
  PROVE  OpInv'
<1>1. ops \in [Tabs -> [Ops -> KnownOp']]
      BY Grows DEF IInv, OpInv
<1>2. ops' = [ops EXCEPT ![t] = [ops[t] EXCEPT ![o] = op]]
      BY DEF SetOp
<1>3. ops' \in [Tabs -> [Ops -> KnownOp']] /\ ops'[t][o] = op
      BY <1>1, <1>2
<1>4. \A u \in Tabs, q \in Ops : u # t \/ q # o => ops'[u][q] = ops[u][q]
      BY <1>1, <1>2
<1>5. ASSUME NEW u \in Tabs, NEW q \in Ops, u # t \/ q # o
      PROVE  LET p == ops[u][q]
             IN /\ p.step # "idle" => p.base # Nothing
                /\ p.durable => db' # Nothing
                /\ p.step = "done" => db' # Nothing
                /\ p.step = "done" /\ ~p.reset =>
                     Max(p.base.writes) \in Nat /\ LandedIn(db', Max(p.base.writes), p.base.epoch)
  <2> DEFINE p == ops[u][q]
  <2>1. /\ p.step # "idle" => p.base # Nothing
        /\ p.durable => db # Nothing
        /\ p.step = "done" => db # Nothing
        /\ p.step = "done" /\ ~p.reset =>
             Max(p.base.writes) \in Nat /\ Landed(Max(p.base.writes), p.base.epoch)
        BY DEF IInv, OpInv
  <2>2. p \in KnownOp
        BY DEF IInv, OpInv
  <2>3. p.base # Nothing => p.base.epoch \in Nat
        BY <2>2 DEF KnownOp, Known
  <2>4. db # Nothing => db' # Nothing
        BY DEF DbStep
  <2>5. p.step = "done" /\ ~p.reset => LandedIn(db', Max(p.base.writes), p.base.epoch)
        BY <2>1, <2>3, LandedStays
  <2>6. QED
        BY <2>1, <2>4, <2>5
<1>6. QED
      BY <1>3, <1>4, <1>5 DEF OpInv, Landed

LEMMA OpsKept ==
  ASSUME IInv, DbStep, DbInv', writes' \in Nat, writes <= writes', ops' = ops
  PROVE  OpInv'
<1>1. ops' \in [Tabs -> [Ops -> KnownOp']]
      BY Grows DEF IInv, OpInv
<1>2. ASSUME NEW u \in Tabs, NEW q \in Ops
      PROVE  LET p == ops[u][q]
             IN /\ p.step # "idle" => p.base # Nothing
                /\ p.durable => db' # Nothing
                /\ p.step = "done" => db' # Nothing
                /\ p.step = "done" /\ ~p.reset =>
                     Max(p.base.writes) \in Nat /\ LandedIn(db', Max(p.base.writes), p.base.epoch)
  <2> DEFINE p == ops[u][q]
  <2>1. /\ p.step # "idle" => p.base # Nothing
        /\ p.durable => db # Nothing
        /\ p.step = "done" => db # Nothing
        /\ p.step = "done" /\ ~p.reset =>
             Max(p.base.writes) \in Nat /\ Landed(Max(p.base.writes), p.base.epoch)
        BY DEF IInv, OpInv
  <2>2. p \in KnownOp
        BY DEF IInv, OpInv
  <2>3. p.base # Nothing => p.base.epoch \in Nat
        BY <2>2 DEF KnownOp, Known
  <2>4. db # Nothing => db' # Nothing
        BY DEF DbStep
  <2>5. p.step = "done" /\ ~p.reset => LandedIn(db', Max(p.base.writes), p.base.epoch)
        BY <2>1, <2>3, LandedStays
  <2>6. QED
        BY <2>1, <2>4, <2>5
<1>3. QED
      BY <1>1, <1>2 DEF OpInv, Landed

(* A tab may know another snapshot, and works as it did.                   *)
LEMMA TabsKept ==
  ASSUME IInv, DbStep, writes' \in Nat, writes <= writes', UNCHANGED <<memory, release, mode>>,
         snap' \in [Tabs -> Known' \cup {Nothing}],
         \A u \in Tabs : snap[u] # Nothing => snap'[u] # Nothing
  PROVE  TabInv'
<1>1. memory' \in [Tabs -> Known' \cup {Nothing}]
      BY Grows DEF IInv, TabInv
<1>2. QED
      BY <1>1 DEF IInv, TabInv, InMemory, DbStep

LEMMA SnapTyped ==
  ASSUME IInv, writes' \in Nat, writes <= writes'
  PROVE  snap \in [Tabs -> Known' \cup {Nothing}] /\ memory \in [Tabs -> Known' \cup {Nothing}]
  BY Grows DEF IInv, TabInv

LEMMA KeptStays ==
  ASSUME IInv, DbStep, DbInv', writes' \in Nat, kept' = kept
  PROVE  KeptInv'
<1>1. \A k \in kept : k \in Confirmation /\ k.epoch \in Nat
      BY DEF IInv, KeptInv, Confirmation
<1>2. QED
      BY <1>1, LandedStays DEF IInv, KeptInv, Landed

LEMMA NoticeTyped ==
  ASSUME NEW d \in Known, NEW kind \in {"commit", "reset", "resync"}
  PROVE  NoticeOf(kind, d) \in Notice /\ Watermark(d) \in [rev : Nat, epoch : Nat]
  BY DEF NoticeOf, Notice, Watermark, Known

(* What is posted is a notice in the inboxes of the others.                *)
LEMMA PostedTyped ==
  ASSUME IInv, NEW t \in Tabs, NEW n \in Notice, Posted(t, n)
  PROVE  inbox' \in [Tabs -> SUBSET Notice] /\ heard' \in [Tabs -> Nat]
<1>1. n.rev \in Nat
      BY DEF Notice
<1>2. inbox \in [Tabs -> SUBSET Notice] /\ heard \in [Tabs -> Nat]
      BY DEF IInv, HearInv
<1> DEFINE hearers == IF mode'[t] = "indexeddb"
                      THEN {u \in Tabs \ {t} : mode[u] = "indexeddb"} ELSE {}
<1>3. inbox' = [u \in Tabs |-> IF u \in hearers THEN inbox[u] \cup {n} ELSE inbox[u]]
      BY DEF Posted
<1>4. heard' = [u \in Tabs |-> IF u \in hearers \cup {t} /\ n.rev > heard[u] THEN n.rev ELSE heard[u]]
      BY DEF Posted
<1> HIDE DEF hearers
<1>5. QED
      BY <1>1, <1>2, <1>3, <1>4

-------------------------------------------------------------------------------
(* One lemma for each action.                                              *)

LEMMA EnterInv ==
  ASSUME IInv, NEW t \in Tabs, NEW r \in Releases, Enter(t, r)
  PROVE  IInv'
<1>0. /\ writes' = writes /\ others' = others /\ writes \in Nat
      /\ UNCHANGED <<memory, mark, inbox, hearing, ops, adapter, kept, heard>>
      BY DEF Enter, counters, IInv, CountInv
<1>1. db' = Initialized(db, r) /\ Known' = Known /\ KnownOp' = KnownOp
      BY <1>0 DEF Enter, Known, KnownOp
<1>2. db' \in Known /\ db' # Nothing /\ DbInv' /\ DbStep
  <2>1. db \in Known \cup {Nothing} /\ Nothing \notin Known
        BY <1>0, KnownIsSnapshot DEF IInv, DbInv
  <2>2. QED
        BY <1>0, <1>1, <2>1, InitializedKnown DEF IInv, DbInv, DbStep
<1>3. TabInv'
  <2>1. snap' = [snap EXCEPT ![t] = db'] /\ release' = [release EXCEPT ![t] = r]
        BY DEF Enter
  <2>2. PICK m \in {"upgrade", "replacing", "entering"} : mode' = [mode EXCEPT ![t] = m]
        BY DEF Enter
  <2>3. mode[t] = "closed" /\ memory' = memory
        BY DEF Enter
  <2>4. QED
        BY <1>1, <1>2, <2>1, <2>2, <2>3 DEF IInv, TabInv, InMemory
<1>4. OpInv'
      BY <1>0, <1>2, OpsKept
<1>5. HearInv' /\ StreamInv'
      BY <1>0, <1>2 DEF IInv, HearInv, StreamInv, adapter
<1>6. KeptInv'
      BY <1>0, <1>2, KeptStays
<1>7. CountInv'
      BY <1>0 DEF IInv, CountInv
<1>8. QED
      BY <1>2, <1>3, <1>4, <1>5, <1>6, <1>7 DEF IInv

LEMMA EnteredInv ==
  ASSUME IInv, NEW t \in Tabs, Entered(t)
  PROVE  IInv'
<1>0. /\ UNCHANGED <<db, memory, release, snap, hearing, ops, notices, kept, writes, others>>
      /\ mode[t] \in {"entering", "replacing"} /\ mode' = [mode EXCEPT ![t] = "indexeddb"]
      BY DEF Entered, counters
<1>1. snap[t] \in Known /\ writes \in Nat /\ writes <= writes'
      BY <1>0 DEF IInv, TabInv, CountInv
<1>2. DbInv' /\ KeptInv' /\ DbStep /\ Known' = Known /\ KnownOp' = KnownOp
      BY <1>0, DbKept
<1>3. TabInv'
      BY <1>0, <1>2 DEF IInv, TabInv, InMemory
<1>4. OpInv'
      BY <1>0, <1>1, <1>2, OpsKept
<1>5. HearInv'
  <2>1. mark' \in [Tabs -> [rev : Nat, epoch : Nat]]
        BY <1>1, NoticeTyped DEF Entered, IInv, HearInv
  <2>2. inbox' \in [Tabs -> SUBSET Notice] /\ heard' \in [Tabs -> Nat]
    <3>1. CASE Posted(t, NoticeOf("reset", snap[t]))
          BY <1>1, <3>1, NoticeTyped, PostedTyped
    <3>2. CASE heard' = [heard EXCEPT ![t] = snap[t].rev] /\ inbox' = inbox
          BY <1>1, <3>2 DEF IInv, HearInv, Known
    <3>3. QED
          BY <3>1, <3>2 DEF Entered
  <2>3. QED
        BY <1>0, <2>1, <2>2 DEF IInv, HearInv
<1>6. StreamInv'
  <2>1. snap[t].rev \in Nat /\ snap[t].seq \in Nat /\ snap[t].writes \subseteq Nat
        BY <1>1 DEF Known
  <2>2. QED
        BY <1>0, <2>1 DEF IInv, StreamInv, Entered
<1>7. CountInv'
      BY <1>0 DEF IInv, CountInv
<1>8. QED
      BY <1>2, <1>3, <1>4, <1>5, <1>6, <1>7 DEF IInv

(* A tab leaves for a memory store of its own.                             *)
LEMMA LeaveTyped ==
  ASSUME IInv, DbStep, writes' = writes, NEW t \in Tabs, NEW d \in Known,
         NEW warning \in {"full", "memory"}, LeaveFor(t, d, warning), NEW r \in Releases,
         release' = [release EXCEPT ![t] = r]
  PROVE  /\ TabInv'
         /\ mark' \in [Tabs -> [rev : Nat, epoch : Nat]]
         /\ inbox' \in [Tabs -> SUBSET Notice]
         /\ heard' \in [Tabs -> Nat]
<1>1. writes \in Nat /\ Known' = Known /\ Nothing \notin Known
      BY KnownIsSnapshot DEF IInv, CountInv, Known
<1>2. Watermark(d) \in [rev : Nat, epoch : Nat]
      BY DEF Watermark, Known
<1>3. TabInv'
      BY <1>1 DEF IInv, TabInv, InMemory, LeaveFor, DbStep
<1>4. QED
      BY <1>2, <1>3 DEF LeaveFor, IInv, HearInv

LEMMA EnterInMemoryInv ==
  ASSUME IInv, NEW t \in Tabs, NEW r \in Releases, EnterInMemory(t, r)
  PROVE  IInv'
<1>0. /\ writes' = writes /\ writes \in Nat /\ others' \in 0..MaxOthers
      /\ UNCHANGED <<db, hearing, ops, notices, kept>>
      BY DemoWorkspaceAssumption DEF EnterInMemory, Fails, Another, IInv, CountInv
<1>1. PICK known \in {db, Nothing}, warning \in {"full", "memory"} :
        LET d == IF known # Nothing /\ known.release \in Migrated THEN known
                 ELSE Initialized(known, r)
        IN /\ LeaveFor(t, d, warning)
           /\ seen' = [seen EXCEPT ![t] = [rev |-> d.rev, seq |-> d.seq]]
           /\ views' = [views EXCEPT ![t] = d.writes]
      BY DEF EnterInMemory
<1> DEFINE d == IF known # Nothing /\ known.release \in Migrated THEN known
                ELSE Initialized(known, r)
<1>2. d \in Known
  <2>1. known \in Known \cup {Nothing} /\ Initialized(known, r) \in Known
        BY <1>0, <1>1, InitializedKnown DEF IInv, DbInv
  <2>2. QED
        BY <2>1
<1>3. /\ LeaveFor(t, d, warning)
      /\ seen' = [seen EXCEPT ![t] = [rev |-> d.rev, seq |-> d.seq]]
      /\ views' = [views EXCEPT ![t] = d.writes]
      BY <1>1
<1>1a. warning \in {"full", "memory"}
       OBVIOUS
<1> HIDE DEF d
<1>3a. LeaveFor(t, d, warning)
       BY <1>3
<1>4. DbInv' /\ KeptInv' /\ DbStep /\ Known' = Known /\ KnownOp' = KnownOp
      BY <1>0, DbKept
<1>5. release' = [release EXCEPT ![t] = r] /\ stream' = [stream EXCEPT ![t] = TRUE]
      BY DEF EnterInMemory
<1>6. TabInv' /\ HearInv'
  <2>1. /\ TabInv' /\ inbox' \in [Tabs -> SUBSET Notice] /\ heard' \in [Tabs -> Nat]
        /\ mark' \in [Tabs -> [rev : Nat, epoch : Nat]]
        BY <1>0, <1>1a, <1>2, <1>3a, <1>4, <1>5, LeaveTyped
  <2>2. QED
        BY <1>0, <2>1 DEF IInv, HearInv
<1>7. OpInv'
      BY <1>0, <1>4, OpsKept
<1>8. StreamInv'
  <2>1. d.rev \in Nat /\ d.seq \in Nat /\ d.writes \subseteq Nat
        BY <1>2 DEF Known
  <2>2. QED
        BY <1>0, <1>3, <1>5, <2>1 DEF IInv, StreamInv
<1>9. QED
      BY <1>0, <1>4, <1>6, <1>7, <1>8 DEF IInv, CountInv

LEMMA NoOpKnown == NoOp \in KnownOp /\ NoOp.step = "idle" /\ NoOp.durable = FALSE
  BY DEF NoOp, KnownOp

LEMMA ReadFailsInv ==
  ASSUME IInv, NEW t \in Tabs, NEW o \in Ops, ReadFails(t, o)
  PROVE  IInv'
<1>0. /\ writes' = writes /\ writes \in Nat /\ others' \in 0..MaxOthers
      /\ UNCHANGED <<db, memory, release, mode, snap, mark, inbox, adapter, kept, heard>>
      BY DemoWorkspaceAssumption DEF ReadFails, Fails, Another, IInv, CountInv
<1>1. DbInv' /\ KeptInv' /\ DbStep /\ Known' = Known /\ KnownOp' = KnownOp
      BY <1>0, DbKept
<1>2. TabInv'
      BY <1>0, <1>1, SnapTyped, TabsKept
<1>3. OpInv'
  <2> DEFINE op == [NoOp EXCEPT !.step = "memory", !.base = snap[t]]
  <2>1. snap[t] \in Known /\ snap[t] # Nothing
        BY <1>0, Grows DEF IInv, TabInv, ReadFails
  <2>2. op \in KnownOp' /\ op.step = "memory" /\ op.base = snap[t] /\ ~op.durable
        BY <1>1, <2>1 DEF NoOp, KnownOp
  <2>3. SetOp(t, o, op)
        BY DEF ReadFails
  <2> HIDE DEF op
  <2>4. QED
        BY <1>0, <1>1, <2>1, <2>2, <2>3, OpReplaced
<1>4. HearInv' /\ StreamInv'
  <2>1. PICK h \in {hearing[t], Nothing} : hearing' = [hearing EXCEPT ![t] = h]
        BY DEF ReadFails
  <2>2. QED
        BY <1>0, <2>1 DEF IInv, HearInv, StreamInv, adapter
<1>5. QED
      BY <1>0, <1>1, <1>2, <1>3, <1>4 DEF IInv, CountInv

LEMMA StoredKnown ==
  ASSUME IInv, NEW t \in Tabs, Ready(t)
  PROVE  Stored(t) \in Known /\ Stored(t) # Nothing /\ writes \in Nat
         /\ (mode[t] = "indexeddb" => Stored(t) = db)
<1>1. writes \in Nat /\ Nothing \notin Known
      BY KnownIsSnapshot DEF IInv, CountInv
<1>2. QED
      BY <1>1 DEF IInv, TabInv, DbInv, Ready, InMemory, Stored

LEMMA AskInv ==
  ASSUME IInv, NEW t \in Tabs, NEW o \in Ops, Ask(t, o)
  PROVE  IInv'
<1>0. /\ UNCHANGED <<db, memory, release, mode, mark, inbox, hearing, adapter, kept, heard, writes, others>>
      /\ Ready(t)
      BY DEF Ask, counters
<1>1. DbInv' /\ KeptInv' /\ DbStep /\ Known' = Known /\ KnownOp' = KnownOp
      BY <1>0, DbKept
<1>2. Stored(t) \in Known /\ Stored(t) # Nothing /\ writes \in Nat
      BY <1>0, StoredKnown
<1>3. TabInv'
  <2>1. snap' = [snap EXCEPT ![t] = Stored(t)]
        BY DEF Ask
  <2>2. snap' \in [Tabs -> Known' \cup {Nothing}] /\ \A u \in Tabs : snap[u] # Nothing => snap'[u] # Nothing
        BY <1>1, <1>2, <2>1 DEF IInv, TabInv
  <2>3. QED
        BY <1>0, <1>1, <1>2, <2>2, TabsKept
<1>4. OpInv'
  <2> DEFINE op == [NoOp EXCEPT !.step = "asked", !.base = Stored(t), !.durable = mode[t] = "indexeddb"]
  <2>0. (mode[t] = "indexeddb") \in BOOLEAN
        OBVIOUS
  <2>1. op \in KnownOp' /\ op.step = "asked" /\ op.base = Stored(t)
        /\ (op.durable => mode[t] = "indexeddb")
        BY <1>1, <1>2, <2>0 DEF NoOp, KnownOp
  <2>2. SetOp(t, o, op)
        BY DEF Ask
  <2>3. mode[t] = "indexeddb" => db' # Nothing
        BY <1>0 DEF IInv, TabInv
  <2> HIDE DEF op
  <2>4. QED
        BY <1>0, <1>1, <1>2, <2>1, <2>2, <2>3, OpReplaced
<1>5. HearInv' /\ StreamInv' /\ CountInv'
      BY <1>0 DEF IInv, HearInv, StreamInv, CountInv, adapter
<1>6. QED
      BY <1>1, <1>3, <1>4, <1>5 DEF IInv

(* What the transaction of a mutation or a reset leaves.                   *)
LEMMA TransactedKnown ==
  ASSUME IInv, NEW t \in Tabs, release[t] \in Releases, NEW s \in Known, NEW op \in KnownOp,
         NEW done \in Transacted(s, t, op), Counted(done.reset)
  PROVE  LET n == done.next
         IN /\ writes \in Nat /\ writes' \in Nat /\ writes <= writes' /\ CountInv'
            /\ done.reset \in BOOLEAN /\ n \in Known' /\ n # Nothing
            /\ ~done.reset => /\ n.epoch = s.epoch /\ s.writes \subseteq n.writes
                              /\ Max(n.writes) \in Nat /\ Max(n.writes) \in n.writes
            /\ done.reset => n.epoch = s.epoch + 1
            /\ Len(s.log) <= LogLimit => Len(n.log) <= LogLimit
            /\ Len(s.log) <= s.seq => Len(n.log) <= n.seq
<1>0. /\ writes \in Nat /\ others \in Nat /\ MaxWrites \in Nat /\ MaxOthers \in Nat /\ LogLimit \in Nat
      /\ writes \in 0..MaxWrites /\ others \in 0..MaxOthers /\ s.seq \in Nat
      BY DemoWorkspaceAssumption DEF IInv, CountInv, Known
<1>1. CASE \E event \in BOOLEAN : done = [reset |-> FALSE, next |-> Mutated(s, writes + 1, event)]
  <2>1. PICK event \in BOOLEAN : done = [reset |-> FALSE, next |-> Mutated(s, writes + 1, event)]
        BY <1>1
  <2>2. done.reset \in BOOLEAN /\ ~done.reset /\ done.next = Mutated(s, writes + 1, event)
        BY <2>1
  <2>3. writes < MaxWrites /\ writes' = writes + 1 /\ others' = others
        BY <2>2 DEF Counted
  <2>4. writes' \in Nat /\ writes <= writes' /\ CountInv'
        BY <1>0, <2>3 DEF CountInv
  <2> DEFINE n == Mutated(s, writes + 1, event)
  <2>5. /\ n \in Known' /\ n # Nothing
        /\ n.epoch = s.epoch /\ s.writes \subseteq n.writes
        /\ Max(n.writes) = writes + 1 /\ Max(n.writes) \in n.writes
        /\ Len(n.log) <= LogLimit
        /\ Len(s.log) <= s.seq => Len(n.log) <= n.seq
        BY <1>0, <2>3, MutatedKnown
  <2> HIDE DEF n
  <2>6. done.next = n
        BY <2>2 DEF n
  <2>7. Max(n.writes) \in Nat
        BY <1>0, <2>5
  <2>8. QED
        BY <1>0, <2>2, <2>4, <2>5, <2>6, <2>7
<1>2. CASE done = [reset |-> TRUE, next |-> Replacement(s, release[t])]
  <2>1. done.reset \in BOOLEAN /\ done.reset /\ done.next = Replacement(s, release[t])
        BY <1>2
  <2>2. writes' = writes /\ others' = others + 1 /\ others < MaxOthers
        BY <2>1 DEF Counted, Another
  <2>3. writes' \in Nat /\ writes <= writes' /\ CountInv' /\ Known' = Known
        BY <1>0, <2>2 DEF CountInv, Known
  <2>4. /\ Replacement(s, release[t]) \in Known /\ Replacement(s, release[t]).epoch = s.epoch + 1
        /\ Len(Replacement(s, release[t]).log) = 0 /\ Replacement(s, release[t]).seq = s.seq
        BY <1>0, ReplacementKnown
  <2>5. Replacement(s, release[t]) # Nothing
        BY <1>0, <2>4, KnownIsSnapshot
  <2>6. QED
        BY <1>0, <2>1, <2>3, <2>4, <2>5
<1>3. QED
      BY <1>1, <1>2 DEF Transacted

LEMMA TransactInv ==
  ASSUME IInv, NEW t \in Tabs, NEW o \in Ops, Transact(t, o)
  PROVE  IInv'
<1> DEFINE op == ops[t][o]
<1>0. /\ UNCHANGED <<memory, release, mode, snap, mark, inbox, hearing, adapter, kept, heard>>
      /\ Durable(t, op)
      BY DEF Transact, repository
<1>1. op \in KnownOp /\ release[t] \in Releases
      BY <1>0 DEF IInv, OpInv, TabInv, Durable, Ready, InMemory
<1>2. db # Nothing /\ db \in Known
      BY <1>0 DEF IInv, OpInv, TabInv, DbInv, Durable
<1>3. PICK done \in Transacted(db, t, op) :
        /\ Counted(done.reset)
        /\ db' = done.next
        /\ SetOp(t, o, [op EXCEPT !.step = "done", !.reset = done.reset, !.base = done.next])
      BY DEF Transact
<1> HIDE DEF op
<1> DEFINE n == done.next
<1>4. /\ writes \in Nat /\ writes' \in Nat /\ writes <= writes' /\ CountInv'
      /\ done.reset \in BOOLEAN /\ n \in Known' /\ n # Nothing
      /\ ~done.reset => /\ n.epoch = db.epoch /\ db.writes \subseteq n.writes
                        /\ Max(n.writes) \in Nat /\ Max(n.writes) \in n.writes
      /\ done.reset => n.epoch = db.epoch + 1
      /\ Len(db.log) <= LogLimit => Len(n.log) <= LogLimit
      /\ Len(db.log) <= db.seq => Len(n.log) <= n.seq
      BY <1>1, <1>2, <1>3, TransactedKnown
<1>5. db' = n
      BY <1>3
<1> HIDE DEF n
<1>6. DbInv' /\ DbStep
  <2>1. DbInv'
        BY <1>2, <1>4, <1>5 DEF IInv, DbInv
  <2>2. DbStep
        BY <1>2, <1>4, <1>5 DEF DbStep
  <2>3. QED
        BY <2>1, <2>2
<1>7. TabInv'
      BY <1>0, <1>4, <1>6, SnapTyped, TabsKept
<1>8. OpInv'
  <2> DEFINE new == [op EXCEPT !.step = "done", !.reset = done.reset, !.base = n]
  <2>1. new \in KnownOp' /\ new.step = "done" /\ new.base = n /\ new.reset = done.reset
        BY <1>1, <1>4 DEF KnownOp
  <2>2. SetOp(t, o, new)
        BY <1>3 DEF n
  <2>3. ~done.reset => Max(n.writes) \in Nat /\ LandedIn(db', Max(n.writes), n.epoch)
    <3>1. n.epoch \in Nat
          BY <1>4 DEF Known
    <3>2. QED
          BY <1>4, <1>5, <3>1 DEF LandedIn
  <2> HIDE DEF new
  <2>4. QED
        BY <1>4, <1>5, <1>6, <2>1, <2>2, <2>3, OpReplaced
<1>9. HearInv' /\ StreamInv'
      BY <1>0, <1>4, <1>5 DEF IInv, HearInv, StreamInv, adapter
<1>10. KeptInv'
      BY <1>0, <1>4, <1>6, KeptStays
<1>11. QED
      BY <1>4, <1>6, <1>7, <1>8, <1>9, <1>10 DEF IInv

(* A command is over.                                                      *)
LEMMA OpForgotten ==
  ASSUME IInv, DbStep, DbInv', writes' \in Nat, writes <= writes',
         NEW t \in Tabs, NEW o \in Ops, SetOp(t, o, NoOp)
  PROVE  OpInv'
<1>1. NoOp \in KnownOp' /\ NoOp.step = "idle" /\ ~NoOp.durable
      BY DEF NoOp, KnownOp
<1>2. QED
      BY <1>1, OpReplaced

LEMMA RefuseInv ==
  ASSUME IInv, NEW t \in Tabs, NEW o \in Ops, Refuse(t, o)
  PROVE  IInv'
<1>0. /\ UNCHANGED <<db, memory, release, mode, snap, mark, inbox, hearing, adapter, kept, heard, writes, others>>
      /\ SetOp(t, o, NoOp) /\ writes \in Nat
      BY DEF Refuse, repository, counters, IInv, CountInv
<1>1. DbInv' /\ KeptInv' /\ DbStep
      BY <1>0, DbKept
<1>2. TabInv'
      BY <1>0, <1>1, SnapTyped, TabsKept
<1>3. OpInv'
      BY <1>0, <1>1, OpForgotten
<1>4. QED
      BY <1>0, <1>1, <1>2, <1>3 DEF IInv, HearInv, StreamInv, CountInv, adapter

LEMMA UpgradeRequiredInv ==
  ASSUME IInv, NEW t \in Tabs, UpgradeRequired(t)
  PROVE  IInv'
<1>0. /\ UNCHANGED <<db, memory, release, snap, mark, inbox, ops, adapter, kept, heard, writes, others>>
      /\ mode[t] = "indexeddb" /\ writes \in Nat
      /\ mode' = [mode EXCEPT ![t] = "upgrade"] /\ hearing' = [hearing EXCEPT ![t] = Nothing]
      BY DEF UpgradeRequired, counters, IInv, CountInv
<1>1. DbInv' /\ KeptInv' /\ DbStep /\ Known' = Known
      BY <1>0, DbKept
<1>2. TabInv'
      BY <1>0, <1>1 DEF IInv, TabInv, InMemory
<1>3. OpInv'
      BY <1>0, <1>1, OpsKept
<1>4. HearInv'
      BY <1>0 DEF IInv, HearInv
<1>5. QED
      BY <1>0, <1>1, <1>2, <1>3, <1>4 DEF IInv, StreamInv, CountInv, adapter

(* The local part of a commit.                                             *)
LEMMA PublishTyped ==
  ASSUME IInv, db # Nothing => db' # Nothing, writes' \in Nat, writes <= writes',
         NEW t \in Tabs, NEW reset \in BOOLEAN, NEW s \in Known', Publish(t, reset, s)
  PROVE  /\ snap' \in [Tabs -> Known' \cup {Nothing}]
         /\ \A u \in Tabs : snap[u] # Nothing => snap'[u] # Nothing
         /\ HearInv' /\ StreamInv'
         /\ release' = release /\ mode' = mode
<1>1. /\ s.rev \in Nat /\ s.epoch \in Nat /\ s.seq \in Nat /\ s # Nothing
      /\ snap \in [Tabs -> Known' \cup {Nothing}]
  <2>1. Known' \subseteq Snapshot
        BY DEF Known, Snapshot
  <2>2. QED
        BY <2>1, SnapTyped, DemoWorkspaceAssumption DEF Known
<1> DEFINE n == NoticeOf(IF reset THEN "reset" ELSE "commit", s)
<1>2. n \in Notice /\ Watermark(s) \in [rev : Nat, epoch : Nat]
      BY <1>1 DEF NoticeOf, Notice, Watermark
<1>3. /\ snap' = [snap EXCEPT ![t] = s]
      /\ mark' = [mark EXCEPT ![t] = Watermark(s)]
      /\ notices' = [notices EXCEPT ![t] = Append(notices[t], n)]
      /\ UNCHANGED <<release, mode, hearing, seen, stream, views>>
      /\ Posted(t, n)
      BY DEF Publish
<1> HIDE DEF n
<1>4. inbox' \in [Tabs -> SUBSET Notice] /\ heard' \in [Tabs -> Nat]
      BY <1>2, <1>3, PostedTyped
<1>5. HearInv'
      BY <1>2, <1>3, <1>4 DEF IInv, HearInv
<1>6. StreamInv'
  <2>1. notices[t] \in Seq(Notice)
        BY DEF IInv, StreamInv
  <2>2. Append(notices[t], n) \in Seq(Notice)
        BY <1>2, <2>1
  <2>3. QED
        BY <1>3, <2>2 DEF IInv, StreamInv
<1>7. QED
      BY <1>1, <1>3, <1>5, <1>6

LEMMA CommittedInv ==
  ASSUME IInv, NEW t \in Tabs, NEW o \in Ops, Committed(t, o)
  PROVE  IInv'
<1> DEFINE op == ops[t][o]
<1>0. /\ UNCHANGED <<db, memory, writes, others>>
      /\ SetOp(t, o, NoOp) /\ Publish(t, op.reset, op.base) /\ Confirmed(t, op.reset, op.base, TRUE)
      BY DEF Committed, counters
<1>a. writes \in Nat /\ writes' \in Nat /\ writes <= writes' /\ Known' = Known
      BY <1>0 DEF IInv, CountInv, Known
<1>1. /\ op \in KnownOp /\ op.step = "done" /\ op.base # Nothing /\ db # Nothing
      /\ ~op.reset => Max(op.base.writes) \in Nat /\ Landed(Max(op.base.writes), op.base.epoch)
      BY DEF Committed, IInv, OpInv
<1> HIDE DEF op
<1>2. op.base \in Known /\ op.reset \in BOOLEAN /\ op.base.epoch \in Nat
      BY <1>1 DEF KnownOp, Known
<1>3. DbInv' /\ DbStep
      BY <1>0, <1>a DEF IInv, DbInv, DbStep
<1>4. /\ snap' \in [Tabs -> Known' \cup {Nothing}]
      /\ \A u \in Tabs : snap[u] # Nothing => snap'[u] # Nothing
      /\ HearInv' /\ StreamInv' /\ release' = release /\ mode' = mode
      BY <1>0, <1>a, <1>2, PublishTyped
<1>5. TabInv'
      BY <1>0, <1>a, <1>3, <1>4, TabsKept
<1>6. OpInv'
      BY <1>0, <1>a, <1>3, OpForgotten
<1>7. KeptInv'
  <2>1. CASE op.reset
    <3>1. kept' = kept
          BY <1>0, <1>a, <2>1 DEF Confirmed
    <3>2. QED
          BY <1>0, <1>a, <1>3, <3>1, KeptStays
  <2>2. CASE ~op.reset
    <3> DEFINE k == [tab |-> t, write |-> Max(op.base.writes), epoch |-> op.base.epoch, durable |-> TRUE]
    <3>1. kept' = kept \cup {k}
          BY <1>0, <1>a, <2>2 DEF Confirmed
    <3>2. k \in Confirmation /\ Landed(k.write, k.epoch)
          BY <1>1, <1>2, <2>2 DEF Confirmation
    <3> HIDE DEF k
    <3>3. QED
          BY <1>0, <1>a, <3>1, <3>2 DEF IInv, KeptInv, Landed, LandedIn
  <2>3. QED
        BY <2>1, <2>2
<1>8. QED
      BY <1>0, <1>a, <1>3, <1>4, <1>5, <1>6, <1>7 DEF IInv, CountInv

LEMMA TransactInMemoryInv ==
  ASSUME IInv, NEW t \in Tabs, NEW o \in Ops, TransactInMemory(t, o)
  PROVE  IInv'
<1> DEFINE op == ops[t][o]
<1>0. db' = db /\ InMemory(t) /\ SetOp(t, o, NoOp) /\ (db # Nothing => db' # Nothing)
      BY DEF TransactInMemory
<1>1. op \in KnownOp /\ release[t] \in Releases
      BY <1>0 DEF IInv, OpInv, TabInv, InMemory
<1>2. memory[t] \in Known /\ memory[t] # Nothing
      BY <1>0 DEF IInv, TabInv
<1>3. PICK done \in Transacted(memory[t], t, op) :
        /\ Counted(done.reset)
        /\ memory' = [memory EXCEPT ![t] = done.next]
        /\ Publish(t, done.reset, done.next)
        /\ Confirmed(t, done.reset, done.next, FALSE)
      BY DEF TransactInMemory
<1> HIDE DEF op
<1> DEFINE n == done.next
<1>4. /\ writes \in Nat /\ writes' \in Nat /\ writes <= writes' /\ CountInv'
      /\ done.reset \in BOOLEAN /\ n \in Known' /\ n # Nothing
      /\ ~done.reset => Max(n.writes) \in Nat
      BY <1>1, <1>2, <1>3, TransactedKnown
<1>5. DbInv' /\ DbStep
      BY <1>0, <1>4, Grows DEF IInv, DbInv, DbStep
<1>6. /\ memory' = [memory EXCEPT ![t] = n]
      /\ Publish(t, done.reset, n) /\ Confirmed(t, done.reset, n, FALSE)
      BY <1>3
<1> HIDE DEF n
<1>7. /\ snap' \in [Tabs -> Known' \cup {Nothing}]
      /\ \A u \in Tabs : snap[u] # Nothing => snap'[u] # Nothing
      /\ HearInv' /\ StreamInv' /\ release' = release /\ mode' = mode
      BY <1>0, <1>4, <1>6, PublishTyped
<1>8. TabInv'
  <2>1. memory \in [Tabs -> Known' \cup {Nothing}]
        BY <1>4, SnapTyped
  <2>2. memory' \in [Tabs -> Known' \cup {Nothing}] /\ \A u \in Tabs : memory'[u] # Nothing <=> memory[u] # Nothing
        BY <1>2, <1>4, <1>6, <2>1
  <2>3. QED
        BY <1>0, <1>7, <2>2 DEF IInv, TabInv, InMemory
<1>9. OpInv'
      BY <1>0, <1>4, <1>5, OpForgotten
<1>10. KeptInv'
  <2>1. CASE done.reset
    <3>1. kept' = kept
          BY <1>6, <2>1 DEF Confirmed
    <3>2. QED
          BY <1>4, <1>5, <3>1, KeptStays
  <2>2. CASE ~done.reset
    <3> DEFINE k == [tab |-> t, write |-> Max(n.writes), epoch |-> n.epoch, durable |-> FALSE]
    <3>1. kept' = kept \cup {k}
          BY <1>6, <2>2 DEF Confirmed
    <3>2. k \in Confirmation /\ ~k.durable
          BY <1>4, <2>2 DEF Confirmation, Known
    <3> HIDE DEF k
    <3>3. QED
          BY <1>0, <3>1, <3>2 DEF IInv, KeptInv, Landed, LandedIn
  <2>3. QED
        BY <1>4, <2>1, <2>2
<1>11. QED
      BY <1>4, <1>5, <1>7, <1>8, <1>9, <1>10 DEF IInv

LEMMA TransactFailsInv ==
  ASSUME IInv, NEW t \in Tabs, NEW o \in Ops, TransactFails(t, o)
  PROVE  IInv'
<1>0. /\ writes' = writes /\ writes \in Nat /\ others' \in 0..MaxOthers
      /\ UNCHANGED <<db, memory, release, mode, snap, mark, inbox, hearing, adapter, kept, heard>>
      BY DemoWorkspaceAssumption DEF TransactFails, repository, Fails, Another, IInv, CountInv
<1>1. DbInv' /\ KeptInv' /\ DbStep /\ Known' = Known /\ KnownOp' = KnownOp
      BY <1>0, DbKept
<1>2. TabInv'
      BY <1>0, <1>1, SnapTyped, TabsKept
<1>3. OpInv'
  <2>1. PICK step \in {"newest", "memory"}, confirmed \in {ops[t][o].base, snap[t]} \ {Nothing} :
          SetOp(t, o, [NoOp EXCEPT !.step = step, !.base = confirmed])
        BY DEF TransactFails
  <2> DEFINE op == [NoOp EXCEPT !.step = step, !.base = confirmed]
  <2>2. ops[t][o] \in KnownOp /\ snap[t] \in Known \cup {Nothing}
        BY DEF IInv, OpInv, TabInv
  <2>3. confirmed \in Known /\ confirmed # Nothing
        BY <2>2 DEF KnownOp
  <2>4. op \in KnownOp' /\ op.step = step /\ op.base = confirmed /\ ~op.durable
        BY <1>1, <2>3 DEF NoOp, KnownOp
  <2>5. SetOp(t, o, op)
        BY <2>1
  <2> HIDE DEF op
  <2>6. QED
        BY <1>0, <1>1, <2>3, <2>4, <2>5, OpReplaced
<1>4. HearInv' /\ StreamInv'
      BY <1>0 DEF IInv, HearInv, StreamInv, adapter
<1>5. QED
      BY <1>0, <1>1, <1>2, <1>3, <1>4 DEF IInv, CountInv

LEMMA ReadNewestInv ==
  ASSUME IInv, NEW t \in Tabs, NEW o \in Ops, ReadNewest(t, o)
  PROVE  IInv'
<1>0. /\ UNCHANGED <<db, memory, release, mode, snap, mark, inbox, hearing, adapter, kept, heard, writes, others>>
      /\ Ready(t)
      BY DEF ReadNewest, repository, counters
<1>1. DbInv' /\ KeptInv' /\ DbStep /\ Known' = Known /\ KnownOp' = KnownOp
      BY <1>0, DbKept
<1>2. PICK newest \in {s \in {Stored(t)} : ~Newer(s, t)} \cup {ops[t][o].base} :
        SetOp(t, o, [ops[t][o] EXCEPT !.step = "full", !.base = newest])
      BY DEF ReadNewest
<1>3. newest \in Known /\ newest # Nothing /\ writes \in Nat
  <2>1. Stored(t) \in Known /\ Stored(t) # Nothing /\ writes \in Nat
        BY <1>0, StoredKnown
  <2>2. ops[t][o].base \in Known /\ ops[t][o].base # Nothing
        BY DEF ReadNewest, IInv, OpInv, KnownOp
  <2>3. QED
        BY <1>2, <2>1, <2>2
<1>4. TabInv'
      BY <1>0, <1>1, <1>3, SnapTyped, TabsKept
<1>5. OpInv'
  <2> DEFINE op == [ops[t][o] EXCEPT !.step = "full", !.base = newest]
  <2>1. ops[t][o] \in KnownOp /\ (ops[t][o].durable => db # Nothing)
        BY DEF IInv, OpInv
  <2>2. op \in KnownOp' /\ op.step = "full" /\ op.base = newest /\ (op.durable => db' # Nothing)
        BY <1>0, <1>1, <1>3, <2>1 DEF KnownOp
  <2>3. SetOp(t, o, op)
        BY <1>2
  <2> HIDE DEF op
  <2>4. QED
        BY <1>0, <1>1, <1>3, <2>2, <2>3, OpReplaced
<1>6. QED
      BY <1>0, <1>1, <1>4, <1>5 DEF IInv, HearInv, StreamInv, CountInv, adapter

LEMMA SwitchToMemoryInv ==
  ASSUME IInv, NEW t \in Tabs, NEW o \in Ops, SwitchToMemory(t, o)
  PROVE  IInv'
<1> DEFINE op == ops[t][o]
<1>0. /\ UNCHANGED <<db, release, hearing, adapter, kept, writes, others>>
      /\ SetOp(t, o, NoOp) /\ writes \in Nat
      /\ LeaveFor(t, op.base, op.step)
      BY DEF SwitchToMemory, counters, IInv, CountInv
<1>1. op \in KnownOp /\ op.step \in {"full", "memory"} /\ op.base # Nothing
      BY DEF SwitchToMemory, IInv, OpInv
<1> HIDE DEF op
<1>2. op.base \in Known
      BY <1>1 DEF KnownOp
<1>3. DbInv' /\ KeptInv' /\ DbStep /\ Known' = Known
      BY <1>0, DbKept
<1>4. release[t] \in Releases /\ release' = [release EXCEPT ![t] = release[t]]
      BY <1>0 DEF SwitchToMemory, IInv, TabInv, Ready, InMemory
<1>5. /\ TabInv' /\ inbox' \in [Tabs -> SUBSET Notice] /\ heard' \in [Tabs -> Nat]
      /\ mark' \in [Tabs -> [rev : Nat, epoch : Nat]]
      BY <1>0, <1>1, <1>2, <1>3, <1>4, LeaveTyped
<1>6. HearInv'
      BY <1>0, <1>5 DEF IInv, HearInv
<1>7. OpInv'
      BY <1>0, <1>3, OpForgotten
<1>8. QED
      BY <1>0, <1>3, <1>5, <1>6, <1>7 DEF IInv, StreamInv, CountInv, adapter

LEMMA HearsInv ==
  ASSUME IInv, NEW t \in Tabs, NEW n \in inbox[t], Hear(t, n)
  PROVE  IInv'
<1>0. /\ UNCHANGED <<db, memory, release, mode, snap, mark, ops, adapter, kept, heard, writes, others>>
      /\ mode[t] = "indexeddb" /\ writes \in Nat
      /\ inbox' = [inbox EXCEPT ![t] = @ \ {n}]
      BY DEF Hear, counters, IInv, CountInv
<1>1. DbInv' /\ KeptInv' /\ DbStep
      BY <1>0, DbKept
<1>2. TabInv'
      BY <1>0, <1>1, SnapTyped, TabsKept
<1>3. OpInv'
      BY <1>0, <1>1, OpsKept
<1>4. HearInv'
  <2>1. n \in Notice /\ db # Nothing
        BY <1>0 DEF IInv, HearInv, TabInv
  <2> DEFINE h == [note |-> n, reset |-> n.epoch > mark[t].epoch,
                   gap |-> n.epoch = mark[t].epoch /\ n.rev # mark[t].rev + 1]
  <2>2. (n.epoch > mark[t].epoch) \in BOOLEAN
        /\ (n.epoch = mark[t].epoch /\ n.rev # mark[t].rev + 1) \in BOOLEAN
        OBVIOUS
  <2>3. h \in Hearing
        BY <2>1, <2>2 DEF Hearing
  <2>4. hearing' = [hearing EXCEPT ![t] = IF Old(t, n) THEN Nothing ELSE h]
        BY DEF Hear
  <2> HIDE DEF h
  <2>5. PICK g \in Hearing \cup {Nothing} : hearing' = [hearing EXCEPT ![t] = g]
        BY <2>3, <2>4
  <2>6. QED
        BY <1>0, <2>1, <2>5 DEF IInv, HearInv
<1>5. QED
      BY <1>0, <1>1, <1>2, <1>3, <1>4 DEF IInv, StreamInv, CountInv, adapter

LEMMA RereadInv ==
  ASSUME IInv, NEW t \in Tabs, Reread(t)
  PROVE  IInv'
<1> DEFINE h == hearing[t]
<1>0. /\ UNCHANGED <<db, memory, release, mode, inbox, ops, seen, stream, views, kept, heard, writes, others>>
      /\ h # Nothing /\ writes \in Nat
      /\ hearing' = [hearing EXCEPT ![t] = Nothing]
      /\ snap' = [snap EXCEPT ![t] = db]
      BY DEF Reread, counters, IInv, CountInv
<1>1. h \in Hearing /\ db # Nothing /\ db \in Known
      BY <1>0 DEF IInv, HearInv, DbInv
<1>2. PICK n : \/ UNCHANGED <<mark, notices>>
               \/ /\ n = NoticeFor(h, db)
                  /\ mark' = [mark EXCEPT ![t] = [rev |-> n.rev, epoch |-> n.epoch]]
                  /\ notices' = [notices EXCEPT ![t] = Append(notices[t], n)]
      BY DEF Reread
<1> HIDE DEF h
<1>3. DbInv' /\ KeptInv' /\ DbStep /\ Known' = Known
      BY <1>0, DbKept
<1>4. TabInv'
  <2>1. snap \in [Tabs -> Known' \cup {Nothing}]
        BY <1>0, SnapTyped
  <2>2. /\ snap' \in [Tabs -> Known' \cup {Nothing}]
        /\ \A u \in Tabs : snap[u] # Nothing => snap'[u] # Nothing
        BY <1>0, <1>1, <1>3, <2>1
  <2>3. QED
        BY <1>0, <1>3, <2>2, TabsKept
<1>5. OpInv'
      BY <1>0, <1>3, OpsKept
<1>6. NoticeFor(h, db) \in Notice
  <2>1. h.note \in Notice /\ db.rev \in Nat /\ db.epoch \in Nat /\ db.seq \in Nat
        BY <1>1 DEF Hearing, Known
  <2>2. \A kind \in {"commit", "reset", "resync"} :
          NoticeOf(kind, db) \in Notice /\ [h.note EXCEPT !.kind = kind] \in Notice
        BY <2>1 DEF NoticeOf, Notice
  <2>3. QED
        BY <2>2 DEF NoticeFor
<1>7. HearInv' /\ StreamInv'
  <2>1. CASE UNCHANGED <<mark, notices>>
        BY <1>0, <2>1 DEF IInv, HearInv, StreamInv
  <2>2. CASE /\ n = NoticeFor(h, db)
             /\ mark' = [mark EXCEPT ![t] = [rev |-> n.rev, epoch |-> n.epoch]]
             /\ notices' = [notices EXCEPT ![t] = Append(notices[t], n)]
    <3>1. n \in Notice /\ n.rev \in Nat /\ n.epoch \in Nat /\ notices[t] \in Seq(Notice)
          BY <1>6, <2>2 DEF Notice, IInv, StreamInv
    <3>2. Append(notices[t], n) \in Seq(Notice)
          BY <3>1
    <3>3. HearInv'
          BY <1>0, <2>2, <3>1 DEF IInv, HearInv
    <3>4. StreamInv'
          BY <1>0, <2>2, <3>2 DEF IInv, StreamInv
    <3>5. QED
          BY <3>3, <3>4
  <2>3. QED
        BY <1>2, <2>1, <2>2
<1>8. QED
      BY <1>0, <1>3, <1>4, <1>5, <1>7 DEF IInv, CountInv

(* The events of a log are writes.                                         *)
LEMMA EventsTyped ==
  ASSUME NEW s \in Known, NEW n \in Notice, NEW after \in Nat, Held(s, n, after)
  PROVE  Events(s, n, after) \subseteq Nat
<1>1. s.log \in Seq(Nat) /\ s.seq \in Nat /\ Len(s.log) \in Nat /\ n.seq \in Nat
      BY DEF Known, Notice
<1> DEFINE first == s.seq - Len(s.log)
<1>2. ASSUME NEW i \in (after - first + 1)..(n.seq - first)
      PROVE  i \in 1..Len(s.log)
      BY <1>1 DEF Held
<1> HIDE DEF first
<1>3. \A i \in (after - first + 1)..(n.seq - first) : s.log[i] \in Nat
  <2>1. \A i \in 1..Len(s.log) : s.log[i] \in Nat
        BY <1>1
  <2>2. QED
        BY <1>2, <2>1
<1>4. QED
      BY <1>3 DEF Events, first

LEMMA DrainInv ==
  ASSUME IInv, NEW t \in Tabs, Drain(t)
  PROVE  IInv'
<1> DEFINE n == Head(notices[t])
<1>0. /\ UNCHANGED <<db, memory, release, mode, mark, inbox, hearing, ops, kept, heard, writes, others>>
      /\ Ready(t) /\ notices[t] # << >> /\ notices' = [notices EXCEPT ![t] = Tail(notices[t])]
      /\ writes \in Nat
      BY DEF Drain, counters, IInv, CountInv
<1>1. notices[t] \in Seq(Notice) /\ n \in Notice /\ Tail(notices[t]) \in Seq(Notice)
      BY <1>0 DEF IInv, StreamInv
<1>2. DbInv' /\ KeptInv' /\ DbStep /\ Known' = Known
      BY <1>0, DbKept
<1>3. /\ Stored(t) \in Known /\ Stored(t) # Nothing
      /\ snap[t] \in Known /\ snap[t] # Nothing
      BY <1>0, StoredKnown DEF IInv, TabInv, Ready, InMemory
<1>4. /\ snap' = snap \/ snap' = [snap EXCEPT ![t] = Stored(t)]
      /\ seen' = seen \/ Delivered(t, n)
      /\ \/ UNCHANGED <<stream, views>>
         \/ Cycled(t)
         \/ /\ Held(Stored(t), n, seen[t].seq) /\ stream' = stream
            /\ views' = [views EXCEPT ![t] = @ \cup Events(Stored(t), n, seen[t].seq)]
      BY DEF Drain
<1> HIDE DEF n
<1>5. /\ snap' \in [Tabs -> Known' \cup {Nothing}] /\ snap'[t] \in Known
      /\ \A u \in Tabs : snap[u] # Nothing => snap'[u] # Nothing
  <2>1. snap \in [Tabs -> Known' \cup {Nothing}]
        BY <1>0, SnapTyped
  <2>2. QED
        BY <1>2, <1>3, <1>4, <2>1
<1>6. TabInv'
      BY <1>0, <1>2, <1>5, TabsKept
<1>7. OpInv'
      BY <1>0, <1>2, OpsKept
<1>8. StreamInv'
  <2>1. seen[t].rev \in Nat /\ seen[t].seq \in Nat /\ n.rev \in Nat /\ n.seq \in Nat
        BY <1>1 DEF IInv, StreamInv, Notice
  <2>2. seen' \in [Tabs -> [rev : Nat, seq : Nat]]
    <3>1. CASE seen' = seen
          BY <3>1 DEF IInv, StreamInv
    <3>2. CASE Delivered(t, n)
      <4>1. PICK q \in {seen[t].seq, n.seq} : seen' = [seen EXCEPT ![t] = [rev |-> n.rev, seq |-> q]]
            BY <3>2 DEF Delivered, IInv, StreamInv
      <4>2. QED
            BY <2>1, <4>1 DEF IInv, StreamInv
    <3>3. QED
          BY <1>4, <3>1, <3>2
  <2>3. stream' \in [Tabs -> BOOLEAN] /\ views' \in [Tabs -> SUBSET Nat]
    <3>1. CASE UNCHANGED <<stream, views>>
          BY <3>1 DEF IInv, StreamInv
    <3>2. CASE Cycled(t)
      <4>1. snap'[t].writes \subseteq Nat
            BY <1>5 DEF Known
      <4>2. QED
            BY <3>2, <4>1 DEF Cycled, IInv, StreamInv
    <3>3. CASE /\ Held(Stored(t), n, seen[t].seq) /\ stream' = stream
               /\ views' = [views EXCEPT ![t] = @ \cup Events(Stored(t), n, seen[t].seq)]
      <4>1. Events(Stored(t), n, seen[t].seq) \subseteq Nat
            BY <1>1, <1>3, <2>1, <3>3, EventsTyped
      <4>2. QED
            BY <3>3, <4>1 DEF IInv, StreamInv
    <3>4. QED
          BY <1>4, <3>1, <3>2, <3>3
  <2>4. notices' \in [Tabs -> Seq(Notice)]
        BY <1>0, <1>1 DEF IInv, StreamInv
  <2>5. QED
        BY <2>2, <2>3, <2>4 DEF StreamInv
<1>9. QED
      BY <1>0, <1>2, <1>6, <1>7, <1>8 DEF IInv, HearInv, CountInv

LEMMA DrainFailsInv ==
  ASSUME IInv, NEW t \in Tabs, DrainFails(t)
  PROVE  IInv'
<1>0. /\ writes' = writes /\ writes \in Nat /\ others' \in 0..MaxOthers
      /\ UNCHANGED <<db, memory, release, mode, snap, mark, inbox, hearing, ops, seen, views, kept, heard>>
      /\ notices[t] # << >> /\ notices' = [notices EXCEPT ![t] = Tail(notices[t])]
      /\ stream' = [stream EXCEPT ![t] = FALSE]
      BY DemoWorkspaceAssumption DEF DrainFails, repository, Fails, Another, IInv, CountInv
<1>1. DbInv' /\ KeptInv' /\ DbStep
      BY <1>0, DbKept
<1>2. TabInv'
      BY <1>0, <1>1, SnapTyped, TabsKept
<1>3. OpInv'
      BY <1>0, <1>1, OpsKept
<1>4. StreamInv'
  <2>1. notices[t] \in Seq(Notice)
        BY DEF IInv, StreamInv
  <2>2. Tail(notices[t]) \in Seq(Notice)
        BY <1>0, <2>1
  <2>3. QED
        BY <1>0, <2>2 DEF IInv, StreamInv
<1>5. QED
      BY <1>0, <1>1, <1>2, <1>3, <1>4 DEF IInv, HearInv, CountInv

LEMMA DiesInv ==
  ASSUME IInv, NEW t \in Tabs, Dies(t)
  PROVE  IInv'
<1>0. /\ db' = db /\ writes' = writes /\ writes \in Nat /\ others' \in 0..MaxOthers
      /\ Known' = Known /\ KnownOp' = KnownOp
      BY DemoWorkspaceAssumption DEF Dies, Another, IInv, CountInv, Known, KnownOp
<1>1. DbInv'
      BY <1>0 DEF IInv, DbInv
<1>2. TabInv'
  <2>1. /\ mode' = [mode EXCEPT ![t] = "closed"] /\ release' = [release EXCEPT ![t] = Nothing]
        /\ memory' = [memory EXCEPT ![t] = Nothing] /\ snap' = [snap EXCEPT ![t] = Nothing]
        BY DEF Dies
  <2>2. QED
        BY <1>0, <2>1 DEF IInv, TabInv, InMemory
<1>3. OpInv'
  <2>1. NoOp \in KnownOp' /\ NoOp.step = "idle" /\ ~NoOp.durable
        BY DEF NoOp, KnownOp
  <2>2. ops' = [ops EXCEPT ![t] = [o \in Ops |-> NoOp]]
        BY DEF Dies
  <2>3. ops' \in [Tabs -> [Ops -> KnownOp']]
        BY <1>0, <2>1, <2>2 DEF IInv, OpInv
  <2>4. ASSUME NEW u \in Tabs, NEW o \in Ops
        PROVE  LET op == ops'[u][o]
               IN /\ op.step # "idle" => op.base # Nothing
                  /\ op.durable => db # Nothing
                  /\ op.step = "done" => db # Nothing
                  /\ op.step = "done" /\ ~op.reset =>
                       Max(op.base.writes) \in Nat /\ LandedIn(db, Max(op.base.writes), op.base.epoch)
    <3>1. CASE u = t
          BY <2>1, <2>2, <3>1 DEF IInv, OpInv
    <3>2. CASE u # t
          BY <2>2, <3>2 DEF IInv, OpInv, Landed
    <3>3. QED
          BY <3>1, <3>2
  <2>5. QED
        BY <1>0, <2>3, <2>4 DEF OpInv, Landed
<1>4. HearInv'
  <2>1. /\ mark' = [mark EXCEPT ![t] = [rev |-> 0, epoch |-> 0]]
        /\ inbox' = [inbox EXCEPT ![t] = {}] /\ hearing' = [hearing EXCEPT ![t] = Nothing]
        /\ heard' = [heard EXCEPT ![t] = 0]
        BY DEF Dies
  <2>2. QED
        BY <1>0, <2>1 DEF IInv, HearInv
<1>5. StreamInv'
  <2>1. /\ notices' = [notices EXCEPT ![t] = << >>]
        /\ seen' = [seen EXCEPT ![t] = [rev |-> 0, seq |-> 0]]
        /\ stream' = [stream EXCEPT ![t] = FALSE] /\ views' = [views EXCEPT ![t] = {}]
        BY DEF Dies
  <2>2. << >> \in Seq(Notice)
        OBVIOUS
  <2>3. QED
        BY <2>1, <2>2 DEF IInv, StreamInv
<1>6. KeptInv'
  <2>1. ASSUME NEW k \in kept
        PROVE  LET q == IF k.tab = t THEN [k EXCEPT !.tab = Nothing] ELSE k
               IN q \in Confirmation /\ q.durable = k.durable /\ q.write = k.write /\ q.epoch = k.epoch
        BY DEF IInv, KeptInv, Confirmation
  <2>2. \A q \in kept' : \E k \in kept : q = IF k.tab = t THEN [k EXCEPT !.tab = Nothing] ELSE k
        BY DEF Dies
  <2>3. QED
        BY <1>0, <2>1, <2>2 DEF IInv, KeptInv, Landed, LandedIn
<1>7. QED
      BY <1>0, <1>1, <1>2, <1>3, <1>4, <1>5, <1>6 DEF IInv, CountInv

-------------------------------------------------------------------------------
(* The theorems.                                                           *)

LEMMA InitInv == Init => IInv
<1> SUFFICES ASSUME Init PROVE IInv
    OBVIOUS
<1>1. NoOp \in KnownOp /\ NoOp.step = "idle" /\ ~NoOp.durable
      BY DEF NoOp, KnownOp
<1>2. DbInv /\ TabInv
      BY DEF Init, DbInv, TabInv, InMemory
<1>3. OpInv
      BY <1>1 DEF Init, OpInv
<1>4. HearInv /\ KeptInv
      BY DEF Init, HearInv, KeptInv
<1>5. StreamInv
  <2>1. << >> \in Seq(Notice)
        OBVIOUS
  <2>2. QED
        BY <2>1 DEF Init, StreamInv
<1>6. CountInv
      BY DemoWorkspaceAssumption DEF Init, CountInv
<1>7. QED
      BY <1>2, <1>3, <1>4, <1>5, <1>6 DEF IInv

LEMMA StepInv == IInv /\ [Next]_vars => IInv'
<1> SUFFICES ASSUME IInv, [Next]_vars PROVE IInv'
    OBVIOUS
<1>1. CASE UNCHANGED vars
      BY <1>1 DEF vars, repository, adapter, counters, IInv, DbInv, TabInv, OpInv, HearInv,
                  StreamInv, KeptInv, CountInv, Known, KnownOp, InMemory, Landed, LandedIn
<1>2. ASSUME NEW t \in Tabs, TabStep(t) PROVE IInv'
  <2>1. CASE \E r \in Releases : Enter(t, r) \/ EnterInMemory(t, r)
        BY <2>1, EnterInv, EnterInMemoryInv
  <2>2. CASE Entered(t)
        BY <2>2, EnteredInv
  <2>3. CASE UpgradeRequired(t)
        BY <2>3, UpgradeRequiredInv
  <2>4. CASE Reread(t)
        BY <2>4, RereadInv
  <2>5. CASE Drain(t)
        BY <2>5, DrainInv
  <2>6. CASE DrainFails(t)
        BY <2>6, DrainFailsInv
  <2>7. CASE Dies(t)
        BY <2>7, DiesInv
  <2>8. CASE \E n \in inbox[t] : Hear(t, n)
        BY <2>8, HearsInv
  <2>9. QED
        BY <1>2, <2>1, <2>2, <2>3, <2>4, <2>5, <2>6, <2>7, <2>8 DEF TabStep
<1>3. ASSUME NEW t \in Tabs, NEW o \in Ops, OpStep(t, o) PROVE IInv'
  <2>1. CASE Ask(t, o)
        BY <2>1, AskInv
  <2>2. CASE Transact(t, o)
        BY <2>2, TransactInv
  <2>3. CASE Refuse(t, o)
        BY <2>3, RefuseInv
  <2>4. CASE Committed(t, o)
        BY <2>4, CommittedInv
  <2>5. CASE TransactInMemory(t, o)
        BY <2>5, TransactInMemoryInv
  <2>6. CASE TransactFails(t, o)
        BY <2>6, TransactFailsInv
  <2>7. CASE ReadFails(t, o)
        BY <2>7, ReadFailsInv
  <2>8. CASE ReadNewest(t, o)
        BY <2>8, ReadNewestInv
  <2>9. CASE SwitchToMemory(t, o)
        BY <2>9, SwitchToMemoryInv
  <2>10. QED
        BY <1>3, <2>1, <2>2, <2>3, <2>4, <2>5, <2>6, <2>7, <2>8, <2>9 DEF OpStep
<1>4. QED
      BY <1>1, <1>2, <1>3 DEF Next

(* In every reachable state the parts of the invariant hold: what tabs,    *)
(* commands and announcements hold comes from snapshots that existed, and  *)
(* a write whose tab has not been told of it yet is in IndexedDB.          *)
THEOREM Invariant == Spec => []IInv
<1>1. QED
      BY InitInv, StepInv, PTL DEF Spec

(* Type correctness for any number of tabs, commands and releases.         *)
THEOREM TypeCorrect == Spec => []TypeOK
<1>1. IInv => TypeOK
  <2> SUFFICES ASSUME IInv PROVE TypeOK
      OBVIOUS
  <2>1. Known \subseteq Snapshot /\ KnownOp \subseteq Op
    <3>1. Known \subseteq Snapshot
          BY KnownIsSnapshot DEF IInv, CountInv
    <3>2. QED
          BY <3>1 DEF KnownOp, Op
  <2>2. /\ db \in Snapshot \cup {Nothing}
        /\ memory \in [Tabs -> Snapshot \cup {Nothing}] /\ snap \in [Tabs -> Snapshot \cup {Nothing}]
        BY <2>1 DEF IInv, DbInv, TabInv
  <2>3. ops \in [Tabs -> [Ops -> Op]]
        BY <2>1 DEF IInv, OpInv
  <2>4. kept \subseteq [tab : Tabs \cup {Nothing}, write : Nat, epoch : Nat, durable : BOOLEAN]
        BY DEF IInv, KeptInv, Confirmation
  <2>5. /\ db # Nothing => Len(db.log) <= LogLimit /\ Len(db.log) <= db.seq
        /\ \A t \in Tabs : /\ Ready(t) => db # Nothing \/ InMemory(t)
                           /\ Ready(t) => snap[t] # Nothing
                           /\ InMemory(t) <=> memory[t] # Nothing
        BY DEF IInv, DbInv, TabInv, Ready, InMemory
  <2>6. hearing \in [Tabs -> Hearing \cup {Nothing}]
        BY DEF IInv, HearInv
  <2>7. QED
        BY <2>2, <2>3, <2>4, <2>5, <2>6 DEF TypeOK, IInv, TabInv, HearInv, StreamInv, CountInv
<1>2. QED
      BY <1>1, Invariant, PTL

(* A write that IndexedDB has confirmed to any tab is in the workspace     *)
(* until a reset, whatever the other tabs commit, and whatever they last   *)
(* read.                                                                   *)
THEOREM NothingLostHolds == Spec => []NothingLost
<1>1. IInv => NothingLost
      BY DEF IInv, KeptInv, NothingLost, Landed, LandedIn
<1>2. QED
      BY <1>1, Invariant, PTL

-------------------------------------------------------------------------------
(* The past of the workspace.  What a tab holds of it, it read or was told *)
(* at some revision, and its views are those of one; the state does not    *)
(* keep the revisions that are gone, so the invariant says that there is a *)
(* past, a snapshot for each revision, with which everything agrees.       *)

(* The sequence after which the log has all events.                        *)
First(s) == s.seq - Len(s.log)

(* The notice n tells of a revision up to top as it was.                   *)
Point(past, top, n) ==
  n.rev <= top /\ n.epoch = past[n.rev].epoch /\ n.seq = past[n.rev].seq

(* The workspace at r is no later than at q.                               *)
Before(r, q) ==
  /\ r.epoch <= q.epoch /\ r.seq <= q.seq
  /\ r.epoch = q.epoch => r.writes \subseteq q.writes

(* Where the log of d has the event between two successive revisions, it   *)
(* is the write they differ by.                                            *)
Logged(d, r, q) ==
  /\ q.seq <= r.seq + 1
  /\ q.epoch = d.epoch /\ q.seq > r.seq /\ q.seq > First(d) =>
       q.writes = r.writes \cup {d.log[q.seq - First(d)]}

PastOf(past) ==
  db # Nothing =>
    /\ past[db.rev] = db
    /\ \A q \in 0..db.rev, r \in 0..db.rev : r <= q => Before(past[r], past[q])
    /\ \A q \in 1..db.rev : Logged(db, past[q - 1], past[q])

(* A queue of notices between two revisions, in their order, of which the  *)
(* last one is at the later.                                               *)
Queue(past, top, q, low, high) ==
  /\ \A i \in 1..Len(q) : Point(past, top, q[i]) /\ low <= q[i].rev /\ q[i].rev <= high
  /\ \A i \in 1..Len(q), j \in 1..Len(q) : i <= j => q[i].rev <= q[j].rev
  /\ q # << >> => q[Len(q)].rev = high

(* A tab that does not listen yet.                                         *)
NewTab(t) ==
  mode[t] \in {"closed", "entering", "replacing"} =>
    /\ inbox[t] = {} /\ hearing[t] = Nothing /\ notices[t] = << >> /\ heard[t] = 0
    /\ \A o \in Ops : ops[t][o].step = "idle"

SnapPast(past, t) ==
  mode[t] \in {"entering", "replacing", "indexeddb"} =>
    snap[t].rev <= db.rev /\ snap[t] = past[snap[t].rev]

(* The stream lags behind the watermark by what is in the queue, and shows *)
(* a revision that is no earlier than what it has delivered.               *)
StreamAt(past, top, base, m, told, q, open, shown) ==
  /\ m.rev <= base /\ m.epoch = past[m.rev].epoch
  /\ told.rev <= m.rev /\ told.seq = past[told.rev].seq
  /\ Queue(past, top, q, told.rev, m.rev)
  /\ q = << >> /\ open => told.rev = m.rev
  /\ open => \E v \in told.rev..top : shown = past[v].writes

StreamPast(past, t) ==
  mode[t] = "indexeddb" =>
    StreamAt(past, db.rev, snap[t].rev, mark[t], seen[t], notices[t], stream[t], views[t])

(* What a tab was sent it has taken in, has still to hear, is reading for, *)
(* or will not read because it leaves.                                     *)
Awaited(t) ==
  \/ heard[t] <= mark[t].rev
  \/ \E n \in inbox[t] : heard[t] <= n.rev
  \/ hearing[t] # Nothing /\ heard[t] <= hearing[t].note.rev
  \/ \E o \in Ops : ops[t][o].step = "memory"

HeardPast(past, t) ==
  mode[t] = "indexeddb" =>
    /\ \A n \in inbox[t] : Point(past, db.rev, n)
    /\ hearing[t] # Nothing => Point(past, db.rev, hearing[t].note)
    /\ Awaited(t)

(* A transaction the tab was not told of is later than what it knows, and  *)
(* there is only one.                                                      *)
OpsPast(past, t) ==
  mode[t] = "indexeddb" =>
    /\ \A o \in Ops : ops[t][o].step = "done" =>
         LET base == ops[t][o].base
         IN base.rev <= db.rev /\ base = past[base.rev] /\ snap[t].rev <= base.rev
    /\ \A o \in Ops, q \in Ops : ops[t][o].step = "done" /\ ops[t][q].step = "done" => o = q

TabPast(past, t) ==
  /\ NewTab(t) /\ SnapPast(past, t) /\ StreamPast(past, t) /\ HeardPast(past, t) /\ OpsPast(past, t)

Agrees(past) == PastOf(past) /\ \A t \in Tabs : TabPast(past, t)

PastInv == \E past \in [Nat -> Snapshot] : Agrees(past)

-------------------------------------------------------------------------------
(* How the workspace in IndexedDB goes from one revision to the next.      *)

Advance(s, n) ==
  /\ n.rev = s.rev + 1
  /\ \/ n.epoch = s.epoch + 1 /\ n.seq = s.seq /\ Len(n.log) = 0
     \/ n.epoch = s.epoch /\ n.seq = s.seq /\ n.log = s.log /\ s.writes \subseteq n.writes
     \/ /\ n.epoch = s.epoch /\ n.seq = s.seq + 1 /\ First(s) <= First(n)
        /\ n.writes = s.writes \cup {n.log[n.seq - First(n)]}
        /\ \A q \in Nat : First(n) < q /\ q <= s.seq => n.log[q - First(n)] = s.log[q - First(s)]

DbMoves ==
  \/ db' = db
  \/ db = Nothing /\ db' # Nothing /\ db'.rev = 0
  \/ db # Nothing /\ db' # Nothing /\ Advance(db, db')

(* The past stays as it was, and is longer.                                *)
Extends(past, next) ==
  db # Nothing => /\ db' # Nothing /\ db'.rev \in Nat /\ db.rev <= db'.rev
                  /\ \A r \in 0..db.rev : next[r] = past[r]

LEMMA SnapshotFields ==
  ASSUME NEW s \in Snapshot
  PROVE  /\ s.rev \in Nat /\ s.epoch \in Nat /\ s.seq \in Nat /\ s.log \in Seq(Nat)
         /\ Len(s.log) \in Nat /\ s.writes \subseteq Nat /\ First(s) \in Int
<1>1. s.rev \in Nat /\ s.epoch \in Nat /\ s.seq \in Nat /\ s.log \in Seq(Nat) /\ s.writes \subseteq Nat
      BY DEF Snapshot
<1>2. QED
      BY <1>1 DEF First

(* The event of a commit is at the end of the log, which keeps the events  *)
(* it has room for where they were.                                        *)
LEMMA MutatedAdvances ==
  ASSUME NEW s \in Known, NEW event \in BOOLEAN, writes \in Nat,
         Len(s.log) <= LogLimit, Len(s.log) <= s.seq
  PROVE  Advance(s, Mutated(s, writes + 1, event))
<1> DEFINE w == writes + 1
           log == IF event THEN Append(s.log, w) ELSE s.log
           kept_log == IF Len(log) > LogLimit THEN Recent(log) ELSE log
           n == Mutated(s, w, event)
<1>1. /\ s.log \in Seq(Nat) /\ s.writes \in SUBSET (1..writes) /\ s.rev \in Nat /\ s.seq \in Nat
      /\ s.epoch \in Nat /\ LogLimit \in Nat /\ LogLimit >= 1 /\ Len(s.log) \in Nat /\ w \in Nat
      BY DemoWorkspaceAssumption DEF Known
<1>2. /\ n.rev = s.rev + 1 /\ n.epoch = s.epoch /\ n.seq = (IF event THEN s.seq + 1 ELSE s.seq)
      /\ n.log = kept_log /\ n.writes = s.writes \cup {w}
  <2>1. n = [s EXCEPT !.rev = s.rev + 1, !.seq = IF event THEN s.seq + 1 ELSE s.seq,
                      !.log = kept_log, !.writes = s.writes \cup {w}]
        BY DEF Mutated
  <2> HIDE DEF n, kept_log
  <2>2. QED
        BY <2>1 DEF Known
<1> HIDE DEF n, w, kept_log
<1>3. CASE ~event
  <2>1. n.log = s.log
        BY <1>1, <1>2, <1>3 DEF kept_log
  <2>2. QED
        BY <1>1, <1>2, <1>3, <2>1 DEF Advance, n, w
<1>4. CASE event
  <2>1. /\ log = Append(s.log, w) /\ log \in Seq(Nat) /\ Len(log) = Len(s.log) + 1
        /\ log[Len(log)] = w /\ \A i \in 1..Len(s.log) : log[i] = s.log[i]
        BY <1>1, <1>4
  <2> HIDE DEF log
  <2> DEFINE Drops(gone) == /\ gone \in Nat /\ gone <= Len(s.log) /\ Len(n.log) = Len(log) - gone
                            /\ \A i \in 1..(Len(log) - gone) : n.log[i] = log[i + gone]
  <2>2. \E gone \in Nat : Drops(gone)
    <3>1. CASE Len(log) > LogLimit
      <4> DEFINE m == Len(log) - LogLimit
      <4>1. m \in Nat /\ m + 1 \in 1..Len(log) /\ m <= Len(s.log)
            BY <1>1, <2>1, <3>1
      <4>2. n.log = SubSeq(log, m + 1, Len(log))
            BY <1>2, <3>1 DEF Recent, kept_log
      <4> HIDE DEF m
      <4>3. /\ Len(SubSeq(log, m + 1, Len(log))) = Len(log) - m
            /\ \A i \in 1..(Len(log) - m) : SubSeq(log, m + 1, Len(log))[i] = log[i + m]
        <5>1. Len(log) \in Nat /\ m + 1 \in Int /\ m + 1 <= Len(log)
              BY <2>1, <4>1
        <5>2. \A i \in m + 1 .. Len(log) : log[i] \in Nat
              BY <2>1, <4>1, <5>1
        <5>3. /\ Len(SubSeq(log, m + 1, Len(log))) = Len(log) - (m + 1) + 1
              /\ \A i \in 1 .. Len(log) - (m + 1) + 1 :
                   SubSeq(log, m + 1, Len(log))[i] = log[m + 1 + i - 1]
              BY <5>1, <5>2, SubSeqProperties
        <5>4. ASSUME NEW i \in 1..(Len(log) - m)
              PROVE  SubSeq(log, m + 1, Len(log))[i] = log[i + m]
          <6>1. i \in 1 .. Len(log) - (m + 1) + 1 /\ m + 1 + i - 1 = i + m
                BY <4>1, <5>1
          <6>2. QED
                BY <5>3, <6>1
        <5>5. QED
              BY <4>1, <5>1, <5>3, <5>4
      <4>4. Drops(m)
            BY <4>1, <4>2, <4>3
      <4>5. QED
            BY <4>1, <4>4
    <3>2. CASE ~(Len(log) > LogLimit)
      <4>1. n.log = log
            BY <1>2, <3>2 DEF kept_log
      <4>2. Drops(0)
            BY <1>1, <2>1, <4>1
      <4>3. QED
            BY <4>2
    <3>3. QED
          BY <3>1, <3>2
  <2>3. PICK gone \in Nat : Drops(gone)
        BY <2>2
  <2>4. /\ gone <= Len(s.log) /\ Len(n.log) = Len(s.log) + 1 - gone /\ n.seq = s.seq + 1
        /\ \A i \in Nat : 1 <= i /\ i <= Len(s.log) + 1 - gone => n.log[i] = log[i + gone]
    <3>1. /\ gone <= Len(s.log) /\ Len(n.log) = Len(log) - gone
          /\ \A i \in 1..(Len(log) - gone) : n.log[i] = log[i + gone]
          BY <2>3
    <3>2. Len(log) - gone = Len(s.log) + 1 - gone /\ Len(log) - gone \in Int
          BY <1>1, <2>1
    <3>3. \A i \in Nat : 1 <= i /\ i <= Len(s.log) + 1 - gone => i \in 1..(Len(log) - gone)
          BY <3>2
    <3>4. n.seq = s.seq + 1
          BY <1>2, <1>4
    <3>5. QED
          BY <3>1, <3>2, <3>3, <3>4
  <2> HIDE DEF Drops
  <2> DEFINE first == s.seq - Len(s.log)
  <2>5. First(s) = first /\ First(n) = first + gone /\ first \in Nat /\ first + Len(s.log) = s.seq
    <3>1. /\ Len(s.log) \in Nat /\ s.seq \in Nat /\ Len(s.log) <= s.seq
          /\ Len(n.log) = Len(s.log) + 1 - gone /\ n.seq = s.seq + 1
          BY <1>1, <2>4
    <3>2. first \in Nat /\ first + Len(s.log) = s.seq
          BY <3>1
    <3>3. s.seq + 1 - (Len(s.log) + 1 - gone) = first + gone
      <4>1. \A a \in Nat, b \in Nat : a + 1 - (b + 1 - gone) = (a - b) + gone
            OBVIOUS
      <4>2. QED
            BY <3>1, <4>1
    <3>4. First(s) = first /\ First(n) = first + gone
          BY <3>1, <3>3 DEF First
    <3>5. QED
          BY <3>2, <3>4
  <2> HIDE DEF first
  <2>6. n.seq - First(n) = Len(n.log) /\ n.log[Len(n.log)] = w
    <3>1. n.seq - First(n) = Len(n.log)
          BY <1>1, <2>4, <2>5
    <3>2. Len(n.log) \in Nat /\ 1 <= Len(n.log) /\ Len(n.log) + gone = Len(log)
          BY <1>1, <2>1, <2>4
    <3>3. n.log[Len(n.log)] = log[Len(n.log) + gone]
      <4> DEFINE k == Len(n.log)
      <4>1. k \in Nat /\ 1 <= k /\ k <= Len(s.log) + 1 - gone
            BY <1>1, <2>4, <3>2
      <4> HIDE DEF k
      <4>2. n.log[k] = log[k + gone]
            BY <2>4, <4>1
      <4>3. QED
            BY <4>2 DEF k
    <3>4. n.log[Len(n.log)] = log[Len(log)]
          BY <3>2, <3>3
    <3>5. log[Len(log)] = w
          BY <2>1
    <3>6. QED
          BY <3>1, <3>4, <3>5
  <2>7. ASSUME NEW q \in Nat, First(n) < q, q <= s.seq
        PROVE  n.log[q - First(n)] = s.log[q - First(s)]
    <3>1. /\ q - First(n) \in Nat /\ 1 <= q - First(n) /\ q - First(n) <= Len(s.log) + 1 - gone
          /\ q - First(s) \in 1..Len(s.log) /\ q - First(n) + gone = q - First(s)
          BY <1>1, <2>4, <2>5, <2>7
    <3>2. QED
          BY <2>1, <2>4, <3>1
  <2>8. n.writes = s.writes \cup {n.log[n.seq - First(n)]} /\ First(s) <= First(n)
        BY <1>2, <2>5, <2>6
  <2>9. Advance(s, n)
        BY <1>2, <1>4, <2>7, <2>8 DEF Advance
  <2>10. QED
        BY <2>9 DEF n, w
<1>5. QED
      BY <1>3, <1>4

LEMMA ReplacementAdvances ==
  ASSUME NEW s \in Known, NEW r \in Releases
  PROVE  Advance(s, Replacement(s, r))
<1>1. Len(<< >>) = 0
      OBVIOUS
<1>2. QED
      BY <1>1 DEF Replacement, Advance

LEMMA BeforeAdvance ==
  ASSUME NEW r \in Snapshot, NEW s \in Snapshot, NEW n \in Snapshot, Advance(s, n)
  PROVE  Before(s, n) /\ (Before(r, s) => Before(r, n))
<1>1. /\ r.epoch \in Nat /\ s.epoch \in Nat /\ n.epoch \in Nat
      /\ r.seq \in Nat /\ s.seq \in Nat /\ n.seq \in Nat
      BY SnapshotFields
<1>2. Before(s, n)
      BY <1>1 DEF Advance, Before
<1>3. QED
      BY <1>1, <1>2 DEF Before

LEMMA LoggedAdvance ==
  ASSUME NEW r \in Snapshot, NEW q \in Snapshot, NEW s \in Snapshot, NEW n \in Snapshot,
         Advance(s, n)
  PROVE  /\ Logged(n, s, n)
         /\ Before(q, s) /\ Logged(s, r, q) => Logged(n, r, q)
<1>1. /\ r.epoch \in Nat /\ q.epoch \in Nat /\ s.epoch \in Nat /\ n.epoch \in Nat
      /\ r.seq \in Nat /\ q.seq \in Nat /\ s.seq \in Nat /\ n.seq \in Nat
      /\ First(s) \in Int /\ First(n) \in Int
      BY SnapshotFields
<1>2. Logged(n, s, n)
      BY <1>1 DEF Logged, Advance
<1>3. ASSUME Before(q, s), Logged(s, r, q) PROVE Logged(n, r, q)
  <2>1. CASE n.epoch = s.epoch + 1
        BY <1>1, <1>3, <2>1 DEF Logged, Before
  <2>2. CASE n.epoch = s.epoch /\ n.seq = s.seq /\ n.log = s.log
        BY <1>1, <1>3, <2>2 DEF Logged, First
  <2>3. CASE /\ n.epoch = s.epoch /\ First(s) <= First(n)
             /\ \A p \in Nat : First(n) < p /\ p <= s.seq => n.log[p - First(n)] = s.log[p - First(s)]
    <3>1. SUFFICES ASSUME q.epoch = n.epoch, q.seq > r.seq, q.seq > First(n)
                   PROVE  q.writes = r.writes \cup {n.log[q.seq - First(n)]}
          BY <1>3 DEF Logged
    <3>2. q.seq <= s.seq /\ q.seq > First(s)
          BY <1>1, <1>3, <2>3, <3>1 DEF Before
    <3>3. q.writes = r.writes \cup {s.log[q.seq - First(s)]}
          BY <1>3, <2>3, <3>1, <3>2 DEF Logged
    <3>4. n.log[q.seq - First(n)] = s.log[q.seq - First(s)]
          BY <1>1, <2>3, <3>1, <3>2
    <3>5. QED
          BY <3>3, <3>4
  <2>4. QED
        BY <2>1, <2>2, <2>3 DEF Advance
<1>4. QED
      BY <1>2, <1>3

LEMMA PastGrows ==
  ASSUME db \in Snapshot \cup {Nothing}, db' \in Snapshot \cup {Nothing}, DbMoves,
         NEW past \in [Nat -> Snapshot], PastOf(past)
  PROVE  \E next \in [Nat -> Snapshot] : PastOf(next)' /\ Extends(past, next)
<1>1. CASE db' = db
  <2>1. PastOf(past)' /\ Extends(past, past)
    <3>1. PastOf(past)'
          BY <1>1 DEF PastOf
    <3>2. db # Nothing => db'.rev \in Nat /\ db.rev <= db'.rev
          BY <1>1, SnapshotFields
    <3>3. QED
          BY <1>1, <3>1, <3>2 DEF Extends
  <2>2. QED
        BY <2>1
<1>2. CASE db = Nothing /\ db' # Nothing /\ db'.rev = 0
  <2>0. PICK next \in [Nat -> Snapshot] : next = [past EXCEPT ![0] = db']
        BY <1>2
  <2>1. next[0] = db'
        BY <2>0
  <2>2. Before(db', db')
        BY <1>2, SnapshotFields DEF Before
  <2>3. \A q \in 0..db'.rev, r \in 0..db'.rev : r <= q => Before(next[r], next[q])
        BY <1>2, <2>1, <2>2
  <2>4. PastOf(next)'
        BY <1>2, <2>1, <2>3 DEF PastOf
  <2>5. QED
        BY <1>2, <2>1, <2>4 DEF Extends
<1>3. CASE db # Nothing /\ db' # Nothing /\ Advance(db, db')
  <2> DEFINE R == db.rev
  <2>0. PICK next \in [Nat -> Snapshot] : next = [past EXCEPT ![R + 1] = db']
        BY <1>3, SnapshotFields
  <2>1. R \in Nat /\ db'.rev = R + 1
        BY <1>3, SnapshotFields DEF Advance
  <2>2. /\ next \in [Nat -> Snapshot] /\ next[R + 1] = db'
        /\ \A r \in 0..R : next[r] = past[r] /\ past[r] \in Snapshot /\ next[r] \in Snapshot
        BY <1>3, <2>0, <2>1
  <2>3. /\ past[R] = db
        /\ \A q \in 0..R, r \in 0..R : r <= q => Before(past[r], past[q])
        /\ \A q \in 1..R : Logged(db, past[q - 1], past[q])
        BY <1>3 DEF PastOf
  <2> HIDE DEF R
  <2>4. ASSUME NEW r \in 0..R PROVE Before(past[r], db) /\ Before(next[r], db')
    <3>1. Before(past[r], past[R])
          BY <2>1, <2>3
    <3>2. QED
          BY <1>3, <2>2, <2>3, <3>1, BeforeAdvance
  <2>5. Before(db', db')
        BY <1>3, SnapshotFields DEF Before
  <2>6. \A q \in 0..(R + 1), r \in 0..(R + 1) : r <= q => Before(next[r], next[q])
    <3> SUFFICES ASSUME NEW q \in 0..(R + 1), NEW r \in 0..(R + 1), r <= q
                 PROVE  Before(next[r], next[q])
        OBVIOUS
    <3>1. CASE q \in 0..R
          BY <2>1, <2>2, <2>3, <3>1
    <3>2. CASE q = R + 1 /\ r \in 0..R
          BY <2>2, <2>4, <3>2
    <3>3. CASE q = R + 1 /\ r = R + 1
          BY <2>2, <2>5, <3>3
    <3>4. QED
          BY <2>1, <3>1, <3>2, <3>3
  <2>7. \A q \in 1..(R + 1) : Logged(db', next[q - 1], next[q])
    <3> SUFFICES ASSUME NEW q \in 1..(R + 1) PROVE Logged(db', next[q - 1], next[q])
        OBVIOUS
    <3>1. CASE q \in 1..R
      <4>1. q \in 0..R /\ q - 1 \in 0..R
            BY <2>1, <3>1
      <4>2. Logged(db, past[q - 1], past[q]) /\ Before(past[q], db)
            BY <2>3, <2>4, <3>1, <4>1
      <4>3. Logged(db', past[q - 1], past[q])
            BY <1>3, <2>2, <4>1, <4>2, LoggedAdvance
      <4>4. QED
            BY <2>2, <4>1, <4>3
    <3>2. CASE q = R + 1
      <4>1. q - 1 = R /\ R \in 0..R
            BY <2>1, <3>2
      <4>2. next[q - 1] = db /\ next[q] = db'
            BY <2>2, <2>3, <3>2, <4>1
      <4>3. QED
            BY <1>3, <4>2, LoggedAdvance
    <3>3. QED
          BY <2>1, <3>1, <3>2
  <2>8. PastOf(next)'
        BY <2>1, <2>2, <2>6, <2>7 DEF PastOf
  <2>9. Extends(past, next)
        BY <1>3, <2>1, <2>2 DEF Extends, R
  <2>10. QED
        BY <2>2, <2>8, <2>9
<1>4. QED
      BY <1>1, <1>2, <1>3 DEF DbMoves

(* What enters finds the workspace, seeds or replaces it.                  *)
LEMMA EnterMoves ==
  ASSUME IInv, NEW t \in Tabs, NEW r \in Releases, Enter(t, r)
  PROVE  DbMoves
<1>1. db' = Initialized(db, r) /\ db \in Known \cup {Nothing} /\ writes \in Nat /\ Nothing \notin Known
      BY KnownIsSnapshot DEF Enter, IInv, DbInv, CountInv
<1>2. db' \in Known
      BY <1>1, InitializedKnown
<1>3. CASE db = Nothing
      BY <1>1, <1>2, <1>3 DEF Initialized, Seed, DbMoves
<1>4. CASE db # Nothing /\ db.release >= r
      BY <1>1, <1>4 DEF Initialized, DbMoves
<1>5. CASE db # Nothing /\ ~(db.release >= r) /\ db.release \in Migrated
  <2>1. db' = [db EXCEPT !.release = r, !.rev = db.rev + 1]
        BY <1>1, <1>5 DEF Initialized
  <2>2. /\ db'.rev = db.rev + 1 /\ db'.epoch = db.epoch /\ db'.seq = db.seq /\ db'.log = db.log
        /\ db'.writes = db.writes
        BY <1>1, <1>5, <2>1 DEF Known
  <2>3. Advance(db, db')
        BY <2>2 DEF Advance
  <2>4. QED
        BY <1>1, <1>2, <1>5, <2>3 DEF DbMoves
<1>6. CASE db # Nothing /\ ~(db.release >= r) /\ db.release \notin Migrated
  <2>1. db' = Replacement(db, r) /\ db \in Known
        BY <1>1, <1>6 DEF Initialized
  <2>2. QED
        BY <1>1, <1>2, <1>6, <2>1, ReplacementAdvances DEF DbMoves
<1>7. QED
      BY <1>3, <1>4, <1>5, <1>6

LEMMA TransactMoves ==
  ASSUME IInv, IInv', NEW t \in Tabs, NEW o \in Ops, Transact(t, o)
  PROVE  DbMoves /\ db # Nothing /\ db' # Nothing /\ Advance(db, db')
<1> DEFINE op == ops[t][o]
<1>1. db # Nothing /\ db \in Known /\ release[t] \in Releases /\ writes \in Nat /\ op \in KnownOp
      /\ Len(db.log) <= LogLimit /\ Len(db.log) <= db.seq
      BY DEF IInv, OpInv, TabInv, DbInv, CountInv, Durable, Ready, InMemory, Transact
<1>2. PICK done \in Transacted(db, t, op) : db' = done.next /\ Counted(done.reset)
      BY DEF Transact
<1> HIDE DEF op
<1>3. Advance(db, db')
  <2>1. CASE \E event \in BOOLEAN : done = [reset |-> FALSE, next |-> Mutated(db, writes + 1, event)]
    <3>1. PICK event \in BOOLEAN : db' = Mutated(db, writes + 1, event)
          BY <1>2, <2>1
    <3>2. QED
          BY <1>1, <3>1, MutatedAdvances
  <2>2. CASE done = [reset |-> TRUE, next |-> Replacement(db, release[t])]
        BY <1>1, <1>2, <2>2, ReplacementAdvances
  <2>3. QED
        BY <2>1, <2>2 DEF Transacted
<1>4. db' # Nothing
      BY <1>1, <1>2, TransactedKnown
<1>5. QED
      BY <1>1, <1>3, <1>4 DEF DbMoves

-------------------------------------------------------------------------------
(* What a step leaves alone.                                               *)

LEMMA TabTypes ==
  ASSUME IInv, NEW t \in Tabs
  PROVE  /\ mark[t].rev \in Nat /\ mark[t].epoch \in Nat
         /\ seen[t].rev \in Nat /\ seen[t].seq \in Nat /\ heard[t] \in Nat
         /\ notices[t] \in Seq(Notice) /\ inbox[t] \subseteq Notice
         /\ hearing[t] # Nothing => hearing[t].note \in Notice
         /\ snap[t] # Nothing => snap[t] \in Snapshot
         /\ db # Nothing => db \in Snapshot /\ db.rev \in Nat
         /\ mode[t] \in {"entering", "replacing", "indexeddb"} => db # Nothing /\ snap[t] # Nothing
         /\ db \in Snapshot \cup {Nothing}
<1>1. Known \subseteq Snapshot
      BY KnownIsSnapshot DEF IInv, CountInv
<1>2. snap[t] # Nothing => snap[t] \in Snapshot
      BY <1>1 DEF IInv, TabInv
<1>3. db \in Snapshot \cup {Nothing} /\ (db # Nothing => db.rev \in Nat)
      BY <1>1, SnapshotFields DEF IInv, DbInv
<1>4. mode[t] \in {"entering", "replacing", "indexeddb"} => db # Nothing /\ snap[t] # Nothing
      BY DEF IInv, TabInv
<1>5. /\ mark[t].rev \in Nat /\ mark[t].epoch \in Nat /\ heard[t] \in Nat /\ inbox[t] \subseteq Notice
      /\ hearing[t] # Nothing => hearing[t].note \in Notice
      BY DEF IInv, HearInv, Hearing
<1>6. seen[t].rev \in Nat /\ seen[t].seq \in Nat /\ notices[t] \in Seq(Notice)
      BY DEF IInv, StreamInv
<1>7. QED
      BY <1>2, <1>3, <1>4, <1>5, <1>6

LEMMA NoticeFields ==
  ASSUME NEW n \in Notice
  PROVE  n.rev \in Nat /\ n.epoch \in Nat /\ n.seq \in Nat
  BY DEF Notice

(* What was so of a revision is so when there are more.                    *)
LEMMA PointExtends ==
  ASSUME NEW past, NEW next, NEW top \in Nat, NEW more \in Nat, top <= more,
         \A r \in 0..top : next[r] = past[r],
         NEW n \in Notice, Point(past, top, n)
  PROVE  Point(next, more, n)
<1>1. n.rev \in 0..top
      BY NoticeFields DEF Point
<1>2. QED
      BY <1>1 DEF Point

LEMMA QueueExtends ==
  ASSUME NEW past, NEW next, NEW top \in Nat, NEW more \in Nat, top <= more,
         \A r \in 0..top : next[r] = past[r],
         NEW q \in Seq(Notice), NEW low, NEW high, Queue(past, top, q, low, high)
  PROVE  Queue(next, more, q, low, high)
<1>1. \A i \in 1..Len(q) : q[i] \in Notice
      OBVIOUS
<1>2. \A i \in 1..Len(q) : Point(next, more, q[i])
      BY <1>1, PointExtends DEF Queue
<1>3. QED
      BY <1>2 DEF Queue

LEMMA SnapStays ==
  ASSUME IInv, NEW past, NEW next, Extends(past, next), NEW u \in Tabs, SnapPast(past, u),
         mode'[u] = mode[u], snap'[u] = snap[u]
  PROVE  SnapPast(next, u)'
<1> SUFFICES ASSUME mode[u] \in {"entering", "replacing", "indexeddb"}
             PROVE  snap[u].rev <= db'.rev /\ snap[u] = next[snap[u].rev]
    BY DEF SnapPast
<1>1. db # Nothing /\ snap[u].rev \in Nat /\ db.rev \in Nat
      BY TabTypes, SnapshotFields
<1>2. snap[u].rev <= db.rev /\ snap[u] = past[snap[u].rev]
      BY DEF SnapPast
<1>3. db'.rev >= db.rev
      BY <1>1 DEF Extends
<1>4. snap[u].rev \in 0..db.rev
      BY <1>1, <1>2
<1>5. next[snap[u].rev] = past[snap[u].rev]
      BY <1>1, <1>4 DEF Extends
<1>6. QED
      BY <1>1, <1>2, <1>3, <1>5 DEF Extends

(* The revisions a tab knows of are not in the future.                     *)
LEMMA TabRevs ==
  ASSUME IInv, NEW past, NEW t \in Tabs, TabPast(past, t), mode[t] = "indexeddb"
  PROVE  /\ db # Nothing /\ db.rev \in Nat
         /\ snap[t] \in Snapshot /\ snap[t].rev \in Nat /\ snap[t].rev <= db.rev
         /\ mark[t].rev \in Nat /\ mark[t].rev <= snap[t].rev /\ mark[t].rev <= db.rev
         /\ seen[t].rev \in Nat /\ seen[t].rev <= mark[t].rev /\ seen[t].rev <= db.rev
<1>1. /\ db # Nothing /\ db.rev \in Nat /\ snap[t] \in Snapshot /\ snap[t].rev \in Nat
      /\ mark[t].rev \in Nat /\ seen[t].rev \in Nat
      BY TabTypes, SnapshotFields
<1>2. snap[t].rev <= db.rev /\ mark[t].rev <= snap[t].rev /\ seen[t].rev <= mark[t].rev
      BY DEF TabPast, SnapPast, StreamPast, StreamAt
<1>3. QED
      BY <1>1, <1>2

LEMMA StreamExtends ==
  ASSUME NEW past, NEW next, NEW top \in Nat, NEW more \in Nat, top <= more,
         \A r \in 0..top : next[r] = past[r],
         NEW m, m.rev \in Nat, m.rev <= top, NEW told, told.rev \in Nat, NEW q \in Seq(Notice),
         NEW open, NEW shown, NEW base, NEW higher, m.rev <= higher,
         StreamAt(past, top, base, m, told, q, open, shown)
  PROVE  StreamAt(next, more, higher, m, told, q, open, shown)
<1>1. told.rev \in 0..top /\ m.rev \in 0..top
      BY DEF StreamAt
<1>2. Queue(next, more, q, told.rev, m.rev)
      BY QueueExtends DEF StreamAt
<1>3. open => \E v \in told.rev..more : shown = next[v].writes
  <2>1. ASSUME open PROVE \E v \in told.rev..more : shown = next[v].writes
    <3>1. PICK v \in told.rev..top : shown = past[v].writes
          BY <2>1 DEF StreamAt
    <3>2. v \in 0..top /\ v \in told.rev..more
          BY <3>1
    <3>3. QED
          BY <3>1, <3>2
  <2>2. QED
        BY <2>1
<1>4. QED
      BY <1>1, <1>2, <1>3 DEF StreamAt

(* The stream of a tab and its watermark, while the snapshot may be read   *)
(* again.                                                                  *)
LEMMA StreamStays ==
  ASSUME IInv, NEW past, NEW next, Extends(past, next), NEW u \in Tabs, TabPast(past, u),
         mode'[u] = mode[u], mark'[u] = mark[u], seen'[u] = seen[u], notices'[u] = notices[u],
         stream'[u] = stream[u], views'[u] = views[u],
         mode[u] = "indexeddb" => snap'[u].rev \in Nat /\ snap[u].rev <= snap'[u].rev
  PROVE  StreamPast(next, u)'
<1> SUFFICES ASSUME mode[u] = "indexeddb"
             PROVE  StreamAt(next, db'.rev, snap'[u].rev, mark[u], seen[u], notices[u], stream[u], views[u])
    BY DEF StreamPast
<1>1. /\ db # Nothing /\ db.rev \in Nat /\ snap[u].rev \in Nat /\ mark[u].rev \in Nat
      /\ mark[u].rev <= snap[u].rev /\ mark[u].rev <= db.rev /\ seen[u].rev \in Nat
      BY TabRevs
<1>2. db'.rev \in Nat /\ db.rev <= db'.rev /\ \A r \in 0..db.rev : next[r] = past[r]
      BY <1>1 DEF Extends
<1>3. notices[u] \in Seq(Notice) /\ mark[u].rev <= snap'[u].rev
      BY <1>1, TabTypes
<1>4. StreamAt(past, db.rev, snap[u].rev, mark[u], seen[u], notices[u], stream[u], views[u])
      BY DEF TabPast, StreamPast
<1> DEFINE top == db.rev
           more == db'.rev
           base == snap[u].rev
           higher == snap'[u].rev
           m == mark[u]
           told == seen[u]
           q == notices[u]
           open == stream[u]
           shown == views[u]
<1>5. /\ top \in Nat /\ more \in Nat /\ top <= more /\ \A r \in 0..top : next[r] = past[r]
      /\ m.rev \in Nat /\ m.rev <= top /\ told.rev \in Nat /\ q \in Seq(Notice) /\ m.rev <= higher
      /\ StreamAt(past, top, base, m, told, q, open, shown)
      BY <1>1, <1>2, <1>3, <1>4
<1>6. StreamAt(next, more, higher, m, told, q, open, shown)
  <2> HIDE DEF top, more, base, higher, m, told, q, open, shown
  <2>1. QED
        BY <1>5, StreamExtends
<1>7. QED
      BY <1>6

(* The announcement that is sent is of the past.                           *)
Sent(next, u) ==
  \/ inbox'[u] = inbox[u] /\ heard'[u] = heard[u]
  \/ /\ mode[u] = "indexeddb"
     /\ \E n \in Notice : /\ Point(next, db'.rev, n) /\ inbox'[u] = inbox[u] \cup {n}
                          /\ heard'[u] = IF n.rev > heard[u] THEN n.rev ELSE heard[u]

(* What the tab was sent before, and what it is sent, while its watermark  *)
(* does not go back.                                                       *)
LEMMA HeardStays ==
  ASSUME IInv, NEW past, NEW next, Extends(past, next), NEW u \in Tabs, TabPast(past, u),
         mode'[u] = mode[u], hearing'[u] = hearing[u], Sent(next, u),
         mode[u] = "indexeddb" => mark'[u].rev \in Nat /\ mark[u].rev <= mark'[u].rev,
         \A o \in Ops : ops[u][o].step = "memory" => ops'[u][o].step = "memory"
  PROVE  HeardPast(next, u)'
<1> SUFFICES ASSUME mode[u] = "indexeddb"
             PROVE  /\ \A n \in inbox'[u] : Point(next, db'.rev, n)
                    /\ hearing[u] # Nothing => Point(next, db'.rev, hearing[u].note)
                    /\ Awaited(u)'
    BY DEF HeardPast
<1>1. /\ db # Nothing /\ db.rev \in Nat /\ mark[u].rev \in Nat /\ heard[u] \in Nat
      /\ inbox[u] \subseteq Notice /\ (hearing[u] # Nothing => hearing[u].note \in Notice)
      BY TabTypes
<1>2. db'.rev \in Nat /\ db.rev <= db'.rev /\ \A r \in 0..db.rev : next[r] = past[r]
      BY <1>1 DEF Extends
<1>3. /\ \A n \in inbox[u] : Point(past, db.rev, n)
      /\ hearing[u] # Nothing => Point(past, db.rev, hearing[u].note)
      /\ Awaited(u)
      BY DEF TabPast, HeardPast
<1>4. /\ \A n \in inbox[u] : Point(next, db'.rev, n)
      /\ hearing[u] # Nothing => Point(next, db'.rev, hearing[u].note)
      BY <1>1, <1>2, <1>3, PointExtends
<1>5. CASE inbox'[u] = inbox[u] /\ heard'[u] = heard[u]
  <2>1. Awaited(u)'
        BY <1>1, <1>3, <1>5 DEF Awaited
  <2>2. QED
        BY <1>4, <1>5, <2>1
<1>6. CASE \E n \in Notice : /\ Point(next, db'.rev, n) /\ inbox'[u] = inbox[u] \cup {n}
                             /\ heard'[u] = IF n.rev > heard[u] THEN n.rev ELSE heard[u]
  <2>1. PICK n \in Notice : /\ Point(next, db'.rev, n) /\ inbox'[u] = inbox[u] \cup {n}
                            /\ heard'[u] = IF n.rev > heard[u] THEN n.rev ELSE heard[u]
        BY <1>6
  <2>2. \A p \in inbox'[u] : Point(next, db'.rev, p)
        BY <1>4, <2>1
  <2>3. Awaited(u)'
    <3>1. CASE heard'[u] = heard[u]
          BY <1>1, <1>3, <2>1, <3>1 DEF Awaited
    <3>2. CASE heard'[u] = n.rev
          BY <2>1, <3>2, NoticeFields DEF Awaited
    <3>3. QED
          BY <2>1, <3>1, <3>2
  <2>4. QED
        BY <1>4, <2>2, <2>3
<1>7. QED
      BY <1>5, <1>6 DEF Sent

LEMMA OpsStay ==
  ASSUME IInv, NEW past, NEW next, Extends(past, next), NEW u \in Tabs, TabPast(past, u),
         mode'[u] = mode[u], snap'[u] = snap[u],
         \A o \in Ops : ops'[u][o].step = "done" => ops'[u][o] = ops[u][o]
  PROVE  OpsPast(next, u)'
<1> SUFFICES ASSUME mode[u] = "indexeddb"
             PROVE  /\ \A o \in Ops : ops'[u][o].step = "done" =>
                         LET base == ops'[u][o].base
                         IN base.rev <= db'.rev /\ base = next[base.rev] /\ snap[u].rev <= base.rev
                    /\ \A o \in Ops, q \in Ops :
                         ops'[u][o].step = "done" /\ ops'[u][q].step = "done" => o = q
    BY DEF OpsPast
<1>1. /\ \A o \in Ops : ops[u][o].step = "done" =>
           LET base == ops[u][o].base
           IN base.rev <= db.rev /\ base = past[base.rev] /\ snap[u].rev <= base.rev
      /\ \A o \in Ops, q \in Ops : ops[u][o].step = "done" /\ ops[u][q].step = "done" => o = q
      BY DEF TabPast, OpsPast
<1>2. db # Nothing /\ db.rev \in Nat
      BY TabTypes
<1>3. db'.rev \in Nat /\ db.rev <= db'.rev /\ \A r \in 0..db.rev : next[r] = past[r]
      BY <1>2 DEF Extends
<1>4. ASSUME NEW o \in Ops, ops'[u][o].step = "done"
      PROVE  LET base == ops'[u][o].base
             IN base.rev <= db'.rev /\ base = next[base.rev] /\ snap[u].rev <= base.rev
  <2> DEFINE base == ops[u][o].base
  <2>1. ops'[u][o] = ops[u][o]
        BY <1>4
  <2>2. base.rev <= db.rev /\ base = past[base.rev] /\ snap[u].rev <= base.rev
        BY <1>1, <1>4, <2>1
  <2>3. base.rev \in Nat
    <3>1. ops[u][o] \in KnownOp /\ base # Nothing
          BY <1>4, <2>1 DEF IInv, OpInv
    <3>2. QED
          BY <3>1 DEF KnownOp, Known
  <2>4. base.rev \in 0..db.rev
        BY <1>2, <2>2, <2>3
  <2>5. QED
        BY <1>2, <1>3, <2>1, <2>2, <2>3, <2>4
<1>5. QED
      BY <1>1, <1>4

(* A tab that takes no step may be sent an announcement.                   *)
Alone(u) ==
  /\ mode'[u] = mode[u] /\ snap'[u] = snap[u] /\ mark'[u] = mark[u] /\ hearing'[u] = hearing[u]
  /\ ops'[u] = ops[u] /\ notices'[u] = notices[u] /\ seen'[u] = seen[u]
  /\ stream'[u] = stream[u] /\ views'[u] = views[u]

LEMMA TabAlone ==
  ASSUME IInv, NEW past, NEW next, Extends(past, next), NEW u \in Tabs, TabPast(past, u),
         Alone(u), Sent(next, u)
  PROVE  TabPast(next, u)'
<1>1. NewTab(u)'
      BY DEF Alone, Sent, TabPast, NewTab
<1>2. SnapPast(next, u)'
      BY SnapStays DEF Alone, TabPast
<1>3. mode[u] = "indexeddb" => snap[u].rev \in Nat /\ mark[u].rev \in Nat
      BY TabRevs
<1>4. StreamPast(next, u)'
      BY <1>3, StreamStays DEF Alone
<1>5. HeardPast(next, u)'
      BY <1>3, HeardStays DEF Alone
<1>6. OpsPast(next, u)'
      BY OpsStay DEF Alone
<1>7. QED
      BY <1>1, <1>2, <1>4, <1>5, <1>6 DEF TabPast

(* One tab takes a step.                                                   *)
LEMMA OneTabSteps ==
  ASSUME IInv, NEW past \in [Nat -> Snapshot], NEW next \in [Nat -> Snapshot],
         Agrees(past), Extends(past, next), PastOf(next)',
         NEW t \in Tabs, TabPast(next, t)',
         \A u \in Tabs \ {t} : Alone(u) /\ Sent(next, u)
  PROVE  PastInv'
<1>1. \A u \in Tabs : TabPast(next, u)'
      BY TabAlone DEF Agrees
<1>2. QED
      BY <1>1 DEF PastInv, Agrees

LEMMA SameDb ==
  ASSUME IInv, NEW past, PastOf(past), db' = db
  PROVE  Extends(past, past) /\ PastOf(past)'
<1>1. db # Nothing => db.rev \in Nat
      BY SnapshotFields, KnownIsSnapshot DEF IInv, DbInv, CountInv
<1>2. Extends(past, past)
      BY <1>1 DEF Extends
<1>3. QED
      BY <1>2 DEF PastOf

LEMMA OneTabStepsOn ==
  ASSUME IInv, NEW past \in [Nat -> Snapshot], Agrees(past), db' = db,
         NEW t \in Tabs, TabPast(past, t)',
         \A u \in Tabs \ {t} : Alone(u) /\ Sent(past, u)
  PROVE  PastInv'
<1>1. Extends(past, past) /\ PastOf(past)'
      BY SameDb DEF Agrees
<1>2. QED
      BY <1>1, OneTabSteps

(* Nothing is claimed of a tab that does not use IndexedDB.                *)
LEMMA Elsewhere ==
  ASSUME NEW next, NEW t \in Tabs, mode'[t] \in {"memory", "full", "upgrade"}
  PROVE  TabPast(next, t)'
  BY DEF TabPast, NewTab, SnapPast, StreamPast, HeardPast, OpsPast

(* What is posted is sent to the other tabs.                               *)
LEMMA PostedSent ==
  ASSUME IInv, NEW next, NEW t \in Tabs, NEW n \in Notice, Posted(t, n),
         mode'[t] = "indexeddb" => Point(next, db'.rev, n)
  PROVE  /\ \A u \in Tabs \ {t} : Sent(next, u)
         /\ inbox'[t] = inbox[t]
         /\ heard'[t] = IF n.rev > heard[t] THEN n.rev ELSE heard[t]
<1> DEFINE hearers == IF mode'[t] = "indexeddb"
                      THEN {u \in Tabs \ {t} : mode[u] = "indexeddb"} ELSE {}
<1>1. /\ inbox' = [u \in Tabs |-> IF u \in hearers THEN inbox[u] \cup {n} ELSE inbox[u]]
      /\ heard' = [u \in Tabs |-> IF u \in hearers \cup {t} /\ n.rev > heard[u] THEN n.rev ELSE heard[u]]
      BY DEF Posted
<1>2. t \notin hearers
      OBVIOUS
<1>3. ASSUME NEW u \in Tabs \ {t} PROVE Sent(next, u)
  <2>1. CASE u \in hearers
    <3>1. mode[u] = "indexeddb" /\ Point(next, db'.rev, n)
          BY <2>1
    <3> HIDE DEF hearers
    <3>2. inbox'[u] = inbox[u] \cup {n} /\ heard'[u] = IF n.rev > heard[u] THEN n.rev ELSE heard[u]
          BY <1>1, <2>1
    <3>3. QED
          BY <3>1, <3>2 DEF Sent
  <2>2. CASE u \notin hearers
    <3> HIDE DEF hearers
    <3>1. inbox'[u] = inbox[u] /\ heard'[u] = heard[u]
          BY <1>1, <2>2
    <3>2. QED
          BY <3>1 DEF Sent
  <2>3. QED
        BY <2>1, <2>2
<1> HIDE DEF hearers
<1>4. QED
      BY <1>1, <1>2, <1>3

LEMMA QueueAppend ==
  ASSUME NEW past, NEW top \in Nat, NEW q \in Seq(Notice), NEW low \in Nat, NEW high \in Nat,
         Queue(past, top, q, low, high), NEW n \in Notice, Point(past, top, n),
         low <= high, high <= n.rev
  PROVE  Queue(past, top, Append(q, n), low, n.rev)
<1> DEFINE p == Append(q, n)
<1>1. /\ Len(p) = Len(q) + 1 /\ p[Len(p)] = n /\ p # << >> /\ Len(q) \in Nat
      /\ \A i \in 1..Len(q) : p[i] = q[i] /\ q[i] \in Notice
      OBVIOUS
<1>2. n.rev \in Nat
      BY NoticeFields
<1>3. /\ \A i \in 1..Len(q) : /\ Point(past, top, q[i]) /\ low <= q[i].rev /\ q[i].rev <= high
                              /\ q[i].rev \in Nat
      /\ \A i \in 1..Len(q), j \in 1..Len(q) : i <= j => q[i].rev <= q[j].rev
      BY <1>1, NoticeFields DEF Queue
<1> HIDE DEF p
<1>4. \A i \in 1..Len(p) : i \in 1..Len(q) \/ i = Len(p)
      BY <1>1
<1>5. ASSUME NEW i \in 1..Len(p)
      PROVE  Point(past, top, p[i]) /\ low <= p[i].rev /\ p[i].rev <= n.rev
  <2>1. CASE i \in 1..Len(q)
        BY <1>1, <1>2, <1>3, <2>1
  <2>2. CASE i = Len(p)
        BY <1>1, <1>2, <2>2
  <2>3. QED
        BY <1>4, <2>1, <2>2
<1>6. ASSUME NEW i \in 1..Len(p), NEW j \in 1..Len(p), i <= j PROVE p[i].rev <= p[j].rev
  <2>1. CASE j \in 1..Len(q)
    <3>1. i \in 1..Len(q)
          BY <1>1, <1>6, <2>1
    <3>2. QED
          BY <1>1, <1>3, <1>6, <2>1, <3>1
  <2>2. CASE j = Len(p)
        BY <1>1, <1>5, <2>2
  <2>3. QED
        BY <1>4, <2>1, <2>2
<1>7. QED
      BY <1>1, <1>5, <1>6 DEF Queue, p

LEMMA QueueTail ==
  ASSUME NEW past, NEW top \in Nat, NEW q \in Seq(Notice), NEW low \in Nat, NEW high \in Nat,
         Queue(past, top, q, low, high), q # << >>
  PROVE  LET n == Head(q)
         IN /\ n \in Notice /\ Point(past, top, n) /\ low <= n.rev /\ n.rev <= high
            /\ Tail(q) \in Seq(Notice)
            /\ Queue(past, top, Tail(q), n.rev, high)
            /\ Queue(past, top, Tail(q), low, high)
            /\ Tail(q) = << >> => n.rev = high
<1> DEFINE n == Head(q)
           p == Tail(q)
<1>1. /\ n = q[1] /\ n \in Notice /\ p \in Seq(Notice) /\ Len(q) \in Nat /\ 1 <= Len(q)
      /\ Len(p) = Len(q) - 1 /\ \A i \in 1..Len(p) : p[i] = q[i + 1]
      /\ p = << >> => Len(q) = 1
      /\ p # << >> => 1 <= Len(p)
  <2>1. /\ n = q[1] /\ n \in Notice /\ p \in Seq(Notice) /\ Len(q) \in Nat /\ 1 <= Len(q)
        /\ Len(p) = Len(q) - 1
        OBVIOUS
  <2>2. \A i \in 1..Len(p) : p[i] = q[i + 1]
        BY HeadTailProperties
  <2> HIDE DEF n, p
  <2>3. (p = << >> => Len(p) = 0) /\ (p # << >> => Len(p) # 0)
        BY <2>1
  <2>4. QED
        BY <2>1, <2>2, <2>3
<1>2. /\ \A i \in 1..Len(q) : Point(past, top, q[i]) /\ low <= q[i].rev /\ q[i].rev <= high
      /\ \A i \in 1..Len(q), j \in 1..Len(q) : i <= j => q[i].rev <= q[j].rev
      /\ q[Len(q)].rev = high
      BY DEF Queue
<1> HIDE DEF n, p
<1>3. ASSUME NEW i \in 1..Len(p) PROVE i + 1 \in 1..Len(q) /\ 1 \in 1..Len(q) /\ 1 <= i + 1 /\ p[i] = q[i + 1]
      BY <1>1
<1>4. \A i \in 1..Len(p) : /\ Point(past, top, p[i]) /\ n.rev <= p[i].rev
                          /\ low <= p[i].rev /\ p[i].rev <= high
      BY <1>1, <1>2, <1>3
<1>5. ASSUME NEW i \in 1..Len(p), NEW j \in 1..Len(p), i <= j PROVE p[i].rev <= p[j].rev
  <2>1. i + 1 <= j + 1
        BY <1>1, <1>5
  <2>2. QED
        BY <1>2, <1>3, <2>1
<1>6. p # << >> => p[Len(p)].rev = high
  <2>1. SUFFICES ASSUME p # << >> PROVE p[Len(p)].rev = high
        OBVIOUS
  <2>2. Len(p) \in 1..Len(p) /\ Len(p) + 1 = Len(q)
        BY <1>1, <2>1
  <2>3. p[Len(p)] = q[Len(q)]
        BY <1>3, <2>2
  <2>4. QED
        BY <1>2, <2>3
<1>7. 1 \in 1..Len(q)
      BY <1>1
<1>8. QED
      BY <1>1, <1>2, <1>4, <1>5, <1>6, <1>7 DEF Queue, n, p

LEMMA TabFunctions ==
  ASSUME IInv
  PROVE  /\ DOMAIN mode = Tabs /\ DOMAIN snap = Tabs /\ DOMAIN mark = Tabs /\ DOMAIN hearing = Tabs
         /\ DOMAIN ops = Tabs /\ DOMAIN notices = Tabs /\ DOMAIN seen = Tabs /\ DOMAIN stream = Tabs
         /\ DOMAIN views = Tabs /\ DOMAIN inbox = Tabs /\ DOMAIN heard = Tabs
         /\ \A t \in Tabs : DOMAIN ops[t] = Ops
<1>1. DOMAIN mode = Tabs /\ DOMAIN snap = Tabs
      BY DEF IInv, TabInv
<1>2. DOMAIN mark = Tabs /\ DOMAIN hearing = Tabs /\ DOMAIN inbox = Tabs /\ DOMAIN heard = Tabs
      BY DEF IInv, HearInv
<1>3. DOMAIN ops = Tabs /\ \A t \in Tabs : DOMAIN ops[t] = Ops
      BY DEF IInv, OpInv
<1>4. DOMAIN notices = Tabs /\ DOMAIN seen = Tabs /\ DOMAIN stream = Tabs /\ DOMAIN views = Tabs
      BY DEF IInv, StreamInv
<1>5. QED
      BY <1>1, <1>2, <1>3, <1>4

-------------------------------------------------------------------------------
(* One lemma for each action.                                              *)

LEMMA EnterPast ==
  ASSUME IInv, IInv', NEW past \in [Nat -> Snapshot], Agrees(past),
         NEW t \in Tabs, NEW r \in Releases, Enter(t, r)
  PROVE  PastInv'
<1>1. db \in Snapshot \cup {Nothing} /\ db' \in Snapshot /\ db' # Nothing
  <2>1. db' \in Known' /\ db' # Nothing
    <3>1. mode'[t] # "closed" /\ mode'[t] \in {"upgrade", "replacing", "entering"}
          BY TabFunctions DEF Enter
    <3>2. db' # Nothing
          BY <3>1 DEF IInv, TabInv
    <3>3. QED
          BY <3>2 DEF IInv, DbInv
  <2>2. Known' \subseteq Snapshot
    <3>1. 1..writes' \subseteq Nat
          OBVIOUS
    <3>2. QED
          BY <3>1 DEF Known, Snapshot
  <2>3. QED
        BY <2>1, <2>2, TabTypes
<1>2. PICK next \in [Nat -> Snapshot] : PastOf(next)' /\ Extends(past, next)
      BY <1>1, EnterMoves, PastGrows DEF Agrees
<1>3. /\ mode'[t] \in {"upgrade", "replacing", "entering"} /\ snap'[t] = db' /\ mode[t] = "closed"
      /\ inbox' = inbox /\ hearing' = hearing /\ notices' = notices /\ heard' = heard /\ ops' = ops
      BY TabFunctions DEF Enter, adapter
<1>4. TabPast(next, t)'
  <2>1. NewTab(t)'
        BY <1>3 DEF Agrees, TabPast, NewTab
  <2>2. SnapPast(next, t)'
    <3>1. db'.rev \in Nat /\ next[db'.rev] = db'
          BY <1>1, <1>2, SnapshotFields DEF PastOf
    <3>2. QED
          BY <1>3, <3>1 DEF SnapPast
  <2>3. QED
        BY <1>3, <2>1, <2>2 DEF TabPast, StreamPast, HeardPast, OpsPast
<1>5. \A u \in Tabs \ {t} : Alone(u) /\ Sent(next, u)
      BY TabFunctions DEF Enter, adapter, Alone, Sent
<1>6. QED
      BY <1>2, <1>4, <1>5, OneTabSteps

LEMMA EnterInMemoryPast ==
  ASSUME IInv, NEW past \in [Nat -> Snapshot], Agrees(past),
         NEW t \in Tabs, NEW r \in Releases, EnterInMemory(t, r)
  PROVE  PastInv'
<1>0. PICK known \in {db, Nothing}, warning \in {"full", "memory"} :
        LET d == IF known # Nothing /\ known.release \in Migrated THEN known
                 ELSE Initialized(known, r)
        IN /\ LeaveFor(t, d, warning)
           /\ seen' = [seen EXCEPT ![t] = [rev |-> d.rev, seq |-> d.seq]]
           /\ views' = [views EXCEPT ![t] = d.writes]
      BY DEF EnterInMemory
<1> DEFINE s == IF known # Nothing /\ known.release \in Migrated THEN known
                ELSE Initialized(known, r)
<1>1. /\ LeaveFor(t, s, warning)
      /\ seen' = [seen EXCEPT ![t] = [rev |-> s.rev, seq |-> s.seq]]
      /\ views' = [views EXCEPT ![t] = s.writes]
      BY <1>0
<1> HIDE DEF s
<1>2. db' = db /\ UNCHANGED <<hearing, ops, notices>> /\ stream' = [stream EXCEPT ![t] = TRUE]
      BY DEF EnterInMemory
<1>3. TabPast(past, t)'
      BY <1>1, TabFunctions, Elsewhere DEF LeaveFor
<1>4. \A u \in Tabs \ {t} : Alone(u) /\ Sent(past, u)
      BY <1>1, <1>2, TabFunctions DEF LeaveFor, Alone, Sent
<1>5. QED
      BY <1>2, <1>3, <1>4, OneTabStepsOn

LEMMA UpgradeRequiredPast ==
  ASSUME IInv, NEW past \in [Nat -> Snapshot], Agrees(past), NEW t \in Tabs, UpgradeRequired(t)
  PROVE  PastInv'
<1>1. TabPast(past, t)'
      BY TabFunctions, Elsewhere DEF UpgradeRequired
<1>2. db' = db /\ \A u \in Tabs \ {t} : Alone(u) /\ Sent(past, u)
      BY TabFunctions DEF UpgradeRequired, adapter, Alone, Sent
<1>3. QED
      BY <1>1, <1>2, OneTabStepsOn

LEMMA SwitchToMemoryPast ==
  ASSUME IInv, NEW past \in [Nat -> Snapshot], Agrees(past),
         NEW t \in Tabs, NEW o \in Ops, SwitchToMemory(t, o)
  PROVE  PastInv'
<1>1. /\ LeaveFor(t, ops[t][o].base, ops[t][o].step) /\ SetOp(t, o, NoOp)
      /\ ops[t][o].step \in {"full", "memory"}
      /\ db' = db /\ UNCHANGED <<hearing, notices, seen, stream, views>>
      BY DEF SwitchToMemory, adapter
<1>2. TabPast(past, t)'
      BY <1>1, TabFunctions, Elsewhere DEF LeaveFor
<1>3. \A u \in Tabs \ {t} : Alone(u) /\ Sent(past, u)
      BY <1>1, TabFunctions DEF LeaveFor, SetOp, Alone, Sent
<1>4. QED
      BY <1>1, <1>2, <1>3, OneTabStepsOn

LEMMA DiesPast ==
  ASSUME IInv, NEW past \in [Nat -> Snapshot], Agrees(past), NEW t \in Tabs, Dies(t)
  PROVE  PastInv'
<1>1. /\ mode'[t] = "closed" /\ inbox'[t] = {} /\ hearing'[t] = Nothing /\ notices'[t] = << >>
      /\ heard'[t] = 0 /\ ops'[t] = [o \in Ops |-> NoOp]
      BY TabFunctions DEF Dies
<1>2. NewTab(t)'
      BY <1>1 DEF NewTab, NoOp
<1>3. TabPast(past, t)'
      BY <1>1, <1>2 DEF TabPast, SnapPast, StreamPast, HeardPast, OpsPast
<1>4. db' = db /\ \A u \in Tabs \ {t} : Alone(u) /\ Sent(past, u)
      BY TabFunctions DEF Dies, Alone, Sent
<1>5. QED
      BY <1>3, <1>4, OneTabStepsOn

LEMMA EnteredPast ==
  ASSUME IInv, NEW past \in [Nat -> Snapshot], Agrees(past), NEW t \in Tabs, Entered(t)
  PROVE  PastInv'
<1>1. /\ mode[t] \in {"entering", "replacing"} /\ mode'[t] = "indexeddb"
      /\ mark'[t] = Watermark(snap[t]) /\ seen'[t] = [rev |-> snap[t].rev, seq |-> snap[t].seq]
      /\ stream'[t] = TRUE /\ views'[t] = snap[t].writes
      /\ db' = db /\ UNCHANGED <<snap, hearing, ops, notices>>
      BY TabFunctions DEF Entered
<1>2. /\ inbox[t] = {} /\ hearing[t] = Nothing /\ notices[t] = << >> /\ heard[t] = 0
      /\ \A o \in Ops : ops[t][o].step = "idle"
      /\ snap[t].rev <= db.rev /\ snap[t] = past[snap[t].rev]
      BY <1>1 DEF Agrees, TabPast, NewTab, SnapPast
<1>3. /\ db # Nothing /\ db.rev \in Nat /\ snap[t] \in Snapshot /\ snap[t].rev \in Nat
      /\ snap[t].epoch \in Nat /\ snap[t].seq \in Nat
      BY <1>1, TabTypes, SnapshotFields
<1>4. /\ inbox'[t] = {} /\ heard'[t] <= snap[t].rev
      /\ \A u \in Tabs \ {t} : Sent(past, u)
  <2>1. CASE Posted(t, NoticeOf("reset", snap[t]))
    <3> DEFINE n == NoticeOf("reset", snap[t])
    <3>1. n \in Notice /\ n.rev = snap[t].rev /\ n.epoch = snap[t].epoch /\ n.seq = snap[t].seq
          BY <1>3 DEF NoticeOf, Notice
    <3>2. Point(past, db'.rev, n)
          BY <1>1, <1>2, <3>1 DEF Point
    <3> HIDE DEF n
    <3>3. Posted(t, n)
          BY <2>1 DEF n
    <3>4. /\ \A u \in Tabs \ {t} : Sent(past, u)
          /\ inbox'[t] = inbox[t]
          /\ heard'[t] = IF n.rev > heard[t] THEN n.rev ELSE heard[t]
          BY <3>1, <3>2, <3>3, PostedSent
    <3>5. QED
          BY <1>2, <1>3, <3>1, <3>4
  <2>2. CASE heard' = [heard EXCEPT ![t] = snap[t].rev] /\ inbox' = inbox
        BY <1>2, <1>3, <2>2, TabFunctions DEF Sent
  <2>3. QED
        BY <2>1, <2>2 DEF Entered
<1>5. \A u \in Tabs \ {t} : Alone(u)
      BY TabFunctions DEF Entered, Alone
<1>6. TabPast(past, t)'
  <2>1. NewTab(t)' /\ SnapPast(past, t)' /\ OpsPast(past, t)'
        BY <1>1, <1>2 DEF NewTab, SnapPast, OpsPast
  <2>2. StreamPast(past, t)'
    <3>1. Queue(past, db.rev, << >>, snap[t].rev, snap[t].rev)
          BY DEF Queue
    <3>2. snap[t].rev \in snap[t].rev..db.rev /\ snap[t].writes = past[snap[t].rev].writes
          BY <1>2, <1>3
    <3>3. StreamAt(past, db.rev, snap[t].rev, Watermark(snap[t]),
                   [rev |-> snap[t].rev, seq |-> snap[t].seq], << >>, TRUE, snap[t].writes)
          BY <1>2, <1>3, <3>1, <3>2 DEF StreamAt, Watermark
    <3>4. QED
          BY <1>1, <1>2, <3>3 DEF StreamPast
  <2>3. HeardPast(past, t)'
        BY <1>1, <1>2, <1>4 DEF HeardPast, Awaited, Watermark
  <2>4. QED
        BY <2>1, <2>2, <2>3 DEF TabPast
<1>7. QED
      BY <1>1, <1>4, <1>5, <1>6, OneTabStepsOn

LEMMA AskPast ==
  ASSUME IInv, NEW past \in [Nat -> Snapshot], Agrees(past),
         NEW t \in Tabs, NEW o \in Ops, Ask(t, o)
  PROVE  PastInv'
<1>1. /\ db' = db /\ UNCHANGED <<mode, mark, inbox, hearing, notices, seen, stream, views, heard>>
      /\ snap'[t] = Stored(t) /\ Told(t) /\ Ready(t)
      /\ ops' = [ops EXCEPT ![t] = [ops[t] EXCEPT ![o] =
                    [NoOp EXCEPT !.step = "asked", !.base = Stored(t), !.durable = mode[t] = "indexeddb"]]]
      BY TabFunctions DEF Ask, adapter, SetOp
<1>2. \A u \in Tabs \ {t} : Alone(u) /\ Sent(past, u)
      BY <1>1, TabFunctions DEF Ask, Alone, Sent
<1>3. /\ ops'[t][o].step = "asked" /\ \A q \in Ops \ {o} : ops'[t][q] = ops[t][q]
      /\ ops[t][o].step = "idle"
      BY <1>1, TabFunctions DEF NoOp, Ask
<1>4. CASE mode[t] = "indexeddb"
  <2>1. Stored(t) = db /\ db # Nothing /\ db.rev \in Nat /\ snap[t].rev <= db.rev /\ mark[t].rev \in Nat
        BY <1>1, <1>4, StoredKnown, TabRevs DEF Agrees
  <2>2. Extends(past, past) /\ TabPast(past, t) /\ PastOf(past)
        BY <1>1, SameDb DEF Agrees
  <2>3. NewTab(t)'
        BY <1>1, <1>4 DEF NewTab
  <2>4. SnapPast(past, t)'
        BY <1>1, <2>1, <2>2 DEF SnapPast, PastOf
  <2>5. StreamPast(past, t)'
        BY <1>1, <2>1, <2>2, StreamStays
  <2>6. HeardPast(past, t)'
    <3>1. \A q \in Ops : ops[t][q].step = "memory" => ops'[t][q].step = "memory"
          BY <1>3
    <3>2. QED
          BY <1>1, <2>1, <2>2, <3>1, HeardStays DEF Sent
  <2>7. OpsPast(past, t)'
    <3>1. \A q \in Ops : ops'[t][q].step # "done"
          BY <1>1, <1>3 DEF Told
    <3>2. QED
          BY <3>1 DEF OpsPast
  <2>8. QED
        BY <1>1, <1>2, <2>3, <2>4, <2>5, <2>6, <2>7, OneTabStepsOn DEF TabPast
<1>5. CASE InMemory(t)
  <2>1. TabPast(past, t)'
        BY <1>1, <1>5, Elsewhere DEF InMemory
  <2>2. QED
        BY <1>1, <1>2, <2>1, OneTabStepsOn
<1>6. QED
      BY <1>1, <1>4, <1>5 DEF Ready

(* A step of one command that leaves the tab and IndexedDB alone.          *)
LEMMA CommandPast ==
  ASSUME IInv, NEW past \in [Nat -> Snapshot], Agrees(past), NEW t \in Tabs, NEW o \in Ops, NEW op,
         UNCHANGED <<db, mode, snap, mark, inbox, hearing, notices, seen, stream, views, heard>>,
         ops' = [ops EXCEPT ![t] = [ops[t] EXCEPT ![o] = op]],
         op.step # "done",
         ops[t][o].step = "memory" => op.step = "memory",
         mode[t] \in {"closed", "entering", "replacing"} => op.step = "idle"
  PROVE  PastInv'
<1>1. ops'[t][o] = op /\ \A q \in Ops \ {o} : ops'[t][q] = ops[t][q]
      BY TabFunctions
<1>2. \A u \in Tabs \ {t} : Alone(u) /\ Sent(past, u)
      BY TabFunctions DEF Alone, Sent
<1>3. Extends(past, past) /\ TabPast(past, t)
      BY SameDb DEF Agrees
<1>4. NewTab(t)'
      BY <1>1, <1>3 DEF NewTab, TabPast
<1>5. SnapPast(past, t)'
      BY <1>3, SnapStays DEF TabPast
<1>6. StreamPast(past, t)'
  <2>1. mode[t] = "indexeddb" => snap[t].rev \in Nat
        BY <1>3, TabRevs
  <2>2. QED
        BY <1>3, <2>1, StreamStays
<1>7. HeardPast(past, t)'
  <2>1. \A q \in Ops : ops[t][q].step = "memory" => ops'[t][q].step = "memory"
        BY <1>1
  <2>2. mode[t] = "indexeddb" => mark[t].rev \in Nat
        BY <1>3, TabRevs
  <2>3. QED
        BY <1>3, <2>1, <2>2, HeardStays DEF Sent
<1>8. OpsPast(past, t)'
  <2>1. \A q \in Ops : ops'[t][q].step = "done" => ops'[t][q] = ops[t][q]
        BY <1>1
  <2>2. QED
        BY <1>3, <2>1, OpsStay
<1>9. QED
      BY <1>2, <1>4, <1>5, <1>6, <1>7, <1>8, OneTabStepsOn DEF TabPast

LEMMA RefusePast ==
  ASSUME IInv, NEW past \in [Nat -> Snapshot], Agrees(past),
         NEW t \in Tabs, NEW o \in Ops, Refuse(t, o)
  PROVE  PastInv'
<1>1. /\ UNCHANGED <<db, mode, snap, mark, inbox, hearing, notices, seen, stream, views, heard>>
      /\ ops' = [ops EXCEPT ![t] = [ops[t] EXCEPT ![o] = NoOp]] /\ ops[t][o].step # "memory"
      /\ NoOp.step = "idle"
      BY DEF Refuse, repository, adapter, SetOp, NoOp
<1>2. QED
      BY <1>1, CommandPast

LEMMA TransactFailsPast ==
  ASSUME IInv, NEW past \in [Nat -> Snapshot], Agrees(past),
         NEW t \in Tabs, NEW o \in Ops, TransactFails(t, o)
  PROVE  PastInv'
<1>1. PICK step \in {"newest", "memory"}, confirmed \in {ops[t][o].base, snap[t]} \ {Nothing} :
        SetOp(t, o, [NoOp EXCEPT !.step = step, !.base = confirmed])
      BY DEF TransactFails
<1> DEFINE op == [NoOp EXCEPT !.step = step, !.base = confirmed]
<1>2. op.step = step
      BY DEF NoOp
<1>3. /\ UNCHANGED <<db, mode, snap, mark, inbox, hearing, notices, seen, stream, views, heard>>
      /\ ops' = [ops EXCEPT ![t] = [ops[t] EXCEPT ![o] = op]] /\ ops[t][o].step # "memory"
      /\ mode[t] \notin {"closed", "entering", "replacing"}
      BY <1>1 DEF TransactFails, repository, adapter, SetOp, Durable, Ready, InMemory
<1> HIDE DEF op
<1>4. QED
      BY <1>2, <1>3, CommandPast

LEMMA ReadNewestPast ==
  ASSUME IInv, NEW past \in [Nat -> Snapshot], Agrees(past),
         NEW t \in Tabs, NEW o \in Ops, ReadNewest(t, o)
  PROVE  PastInv'
<1>1. PICK newest \in {s \in {Stored(t)} : ~Newer(s, t)} \cup {ops[t][o].base} :
        SetOp(t, o, [ops[t][o] EXCEPT !.step = "full", !.base = newest])
      BY DEF ReadNewest
<1> DEFINE op == [ops[t][o] EXCEPT !.step = "full", !.base = newest]
<1>2. op.step = "full"
      BY DEF IInv, OpInv, KnownOp
<1>3. /\ UNCHANGED <<db, mode, snap, mark, inbox, hearing, notices, seen, stream, views, heard>>
      /\ ops' = [ops EXCEPT ![t] = [ops[t] EXCEPT ![o] = op]] /\ ops[t][o].step # "memory"
      /\ mode[t] \notin {"closed", "entering", "replacing"}
      BY <1>1 DEF ReadNewest, repository, adapter, SetOp, Ready, InMemory
<1> HIDE DEF op
<1>4. QED
      BY <1>2, <1>3, CommandPast

(* The announcement that could not be read for may be forgotten: the tab   *)
(* leaves.                                                                 *)
LEMMA ReadFailsPast ==
  ASSUME IInv, NEW past \in [Nat -> Snapshot], Agrees(past),
         NEW t \in Tabs, NEW o \in Ops, ReadFails(t, o)
  PROVE  PastInv'
<1> DEFINE op == [NoOp EXCEPT !.step = "memory", !.base = snap[t]]
<1>1. PICK h \in {hearing[t], Nothing} : hearing' = [hearing EXCEPT ![t] = h]
      BY DEF ReadFails
<1>2. op.step = "memory"
      BY DEF NoOp
<1>3. /\ UNCHANGED <<db, mode, snap, mark, inbox, notices, seen, stream, views, heard>>
      /\ ops' = [ops EXCEPT ![t] = [ops[t] EXCEPT ![o] = op]]
      /\ mode[t] = "indexeddb"
      BY DEF ReadFails, adapter, SetOp
<1> HIDE DEF op
<1>4. /\ ops'[t][o].step = "memory" /\ \A q \in Ops \ {o} : ops'[t][q] = ops[t][q]
      /\ hearing'[t] \in {hearing[t], Nothing}
      BY <1>1, <1>2, <1>3, TabFunctions
<1>5. \A u \in Tabs \ {t} : Alone(u) /\ Sent(past, u)
      BY <1>1, <1>3, TabFunctions DEF Alone, Sent
<1>6. Extends(past, past) /\ TabPast(past, t) /\ snap[t].rev \in Nat
      BY <1>3, SameDb, TabRevs DEF Agrees
<1>7. NewTab(t)'
      BY <1>3 DEF NewTab
<1>8. SnapPast(past, t)' /\ StreamPast(past, t)'
  <2>1. SnapPast(past, t)'
        BY <1>3, <1>6, SnapStays DEF TabPast
  <2>2. StreamPast(past, t)'
        BY <1>3, <1>6, StreamStays
  <2>3. QED
        BY <2>1, <2>2
<1>9. HeardPast(past, t)'
      BY <1>3, <1>4, <1>6 DEF TabPast, HeardPast, Awaited
<1>10. OpsPast(past, t)'
  <2>1. \A q \in Ops : ops'[t][q].step = "done" => ops'[t][q] = ops[t][q]
        BY <1>4
  <2>2. QED
        BY <1>3, <1>6, <2>1, OpsStay
<1>11. QED
      BY <1>3, <1>5, <1>7, <1>8, <1>9, <1>10, OneTabStepsOn DEF TabPast

(* A revision that is told of locally: the watermark is at it, and the     *)
(* stream has it at the end of its queue.                                  *)
LEMMA StreamAppend ==
  ASSUME NEW past, NEW top \in Nat, NEW base, NEW higher, NEW m, m.rev \in Nat,
         NEW told, told.rev \in Nat, NEW q \in Seq(Notice), NEW open, NEW shown,
         StreamAt(past, top, base, m, told, q, open, shown),
         NEW n \in Notice, Point(past, top, n), m.rev <= n.rev, n.rev <= higher,
         NEW w, w.rev = n.rev, w.epoch = n.epoch
  PROVE  StreamAt(past, top, higher, w, told, Append(q, n), open, shown)
<1>1. n.rev \in Nat /\ n.epoch = past[n.rev].epoch
      BY NoticeFields DEF Point
<1>2. told.rev <= m.rev /\ Queue(past, top, q, told.rev, m.rev)
      BY DEF StreamAt
<1>3. Queue(past, top, Append(q, n), told.rev, n.rev)
      BY <1>2, QueueAppend
<1>4. Append(q, n) # << >>
      OBVIOUS
<1>5. told.rev <= n.rev
      BY <1>1, <1>2
<1>6. QED
      BY <1>1, <1>3, <1>4, <1>5 DEF StreamAt

LEMMA TransactPast ==
  ASSUME IInv, IInv', NEW past \in [Nat -> Snapshot], Agrees(past),
         NEW t \in Tabs, NEW o \in Ops, Transact(t, o)
  PROVE  PastInv'
<1>1. DbMoves /\ db # Nothing /\ db' # Nothing /\ Advance(db, db')
      BY TransactMoves
<1>2. db \in Snapshot \cup {Nothing} /\ db' \in Snapshot
  <2>1. db' \in Known'
        BY <1>1 DEF IInv, DbInv
  <2>2. 1..writes' \subseteq Nat
        OBVIOUS
  <2>3. Known' \subseteq Snapshot
        BY <2>2 DEF Known, Snapshot
  <2>4. QED
        BY <2>1, <2>3, TabTypes
<1>3. PICK next \in [Nat -> Snapshot] : PastOf(next)' /\ Extends(past, next)
      BY <1>1, <1>2, PastGrows DEF Agrees
<1>4. PICK done : /\ db' = done.next
                  /\ SetOp(t, o, [ops[t][o] EXCEPT !.step = "done", !.reset = done.reset, !.base = done.next])
      BY DEF Transact
<1> DEFINE op == [ops[t][o] EXCEPT !.step = "done", !.reset = done.reset, !.base = done.next]
<1>5. op.base = db' /\ op.step = "done"
      BY <1>4 DEF IInv, OpInv, KnownOp
<1>6. /\ UNCHANGED <<mode, snap, mark, inbox, hearing, notices, seen, stream, views, heard>>
      /\ ops' = [ops EXCEPT ![t] = [ops[t] EXCEPT ![o] = op]]
      /\ ops[t][o].step \in {"asked", "idle"} /\ Told(t) /\ Ready(t)
      BY <1>4 DEF Transact, repository, adapter, SetOp, Durable, Ready
<1> HIDE DEF op
<1>7. ops'[t][o] = op /\ \A q \in Ops \ {o} : ops'[t][q] = ops[t][q]
      BY <1>6, TabFunctions
<1>8. \A u \in Tabs \ {t} : Alone(u) /\ Sent(next, u)
      BY <1>6, TabFunctions DEF Alone, Sent
<1>9. TabPast(past, t)
      BY DEF Agrees
<1>10. TabPast(next, t)'
  <2>1. CASE mode[t] = "indexeddb"
    <3>1. snap[t].rev \in Nat /\ snap[t].rev <= db.rev /\ mark[t].rev \in Nat /\ db.rev \in Nat
          BY <1>9, <2>1, TabRevs
    <3>2. NewTab(t)' /\ SnapPast(next, t)' /\ StreamPast(next, t)'
      <4>1. NewTab(t)'
            BY <1>6, <2>1 DEF NewTab
      <4>2. SnapPast(next, t)'
            BY <1>3, <1>6, <1>9, SnapStays DEF TabPast
      <4>3. StreamPast(next, t)'
            BY <1>3, <1>6, <1>9, <3>1, StreamStays
      <4>4. QED
            BY <4>1, <4>2, <4>3
    <3>3. HeardPast(next, t)'
      <4>1. \A q \in Ops : ops[t][q].step = "memory" => ops'[t][q].step = "memory"
            BY <1>6, <1>7
      <4>2. QED
            BY <1>3, <1>6, <1>9, <3>1, <4>1, HeardStays DEF Sent
    <3>4. OpsPast(next, t)'
      <4>1. \A q \in Ops : ops'[t][q].step = "done" => q = o
            BY <1>6, <1>7 DEF Told
      <4>2. db'.rev \in Nat /\ db.rev <= db'.rev /\ next[db'.rev] = db'
            BY <1>1, <1>3 DEF Extends, PastOf
      <4>3. snap[t].rev <= db'.rev
            BY <3>1, <4>2
      <4>4. QED
            BY <1>5, <1>6, <1>7, <4>1, <4>2, <4>3 DEF OpsPast
    <3>5. QED
          BY <3>2, <3>3, <3>4 DEF TabPast
  <2>2. CASE InMemory(t)
        BY <1>6, <2>2, Elsewhere DEF InMemory
  <2>3. QED
        BY <1>6, <2>1, <2>2 DEF Ready
<1>11. QED
      BY <1>3, <1>8, <1>10, OneTabSteps

(* A tab is told of its transaction, and tells the others.                 *)
LEMMA CommittedPast ==
  ASSUME IInv, NEW past \in [Nat -> Snapshot], Agrees(past),
         NEW t \in Tabs, NEW o \in Ops, Committed(t, o)
  PROVE  PastInv'
<1> DEFINE s == ops[t][o].base
           n == NoticeOf(IF ops[t][o].reset THEN "reset" ELSE "commit", s)
<1>1. /\ db' = db /\ UNCHANGED <<mode, hearing, seen, stream, views>>
      /\ snap' = [snap EXCEPT ![t] = s] /\ mark' = [mark EXCEPT ![t] = Watermark(s)]
      /\ notices' = [notices EXCEPT ![t] = Append(notices[t], n)]
      /\ Posted(t, n) /\ ops' = [ops EXCEPT ![t] = [ops[t] EXCEPT ![o] = NoOp]]
      /\ ops[t][o].step = "done" /\ Ready(t)
      BY DEF Committed, Publish, SetOp
<1>2. /\ s.rev \in Nat /\ s.epoch \in Nat /\ s.seq \in Nat
      /\ n \in Notice /\ n.rev = s.rev /\ n.epoch = s.epoch /\ n.seq = s.seq
  <2>1. s \in Known
        BY <1>1 DEF IInv, OpInv, KnownOp
  <2>2. QED
        BY <2>1 DEF Known, NoticeOf, Notice
<1>3. /\ snap'[t] = s /\ mark'[t] = Watermark(s) /\ notices'[t] = Append(notices[t], n)
      /\ ops'[t][o] = NoOp /\ \A q \in Ops \ {o} : ops'[t][q] = ops[t][q]
      BY <1>1, TabFunctions
<1>4. \A u \in Tabs \ {t} : Alone(u)
      BY <1>1, TabFunctions DEF Alone
<1> HIDE DEF s, n
<1>5. CASE mode[t] = "indexeddb"
  <2>1. s.rev <= db.rev /\ s = past[s.rev] /\ snap[t].rev <= s.rev
        /\ \A q \in Ops : ops[t][q].step = "done" => q = o
        BY <1>1, <1>5 DEF Agrees, TabPast, OpsPast, s
  <2>2. Point(past, db.rev, n)
        BY <1>2, <2>1 DEF Point
  <2>3. /\ \A u \in Tabs \ {t} : Sent(past, u)
        /\ inbox'[t] = inbox[t]
        /\ heard'[t] = IF n.rev > heard[t] THEN n.rev ELSE heard[t]
        BY <1>1, <1>2, <2>2, PostedSent
  <2>4. /\ db.rev \in Nat /\ snap[t].rev \in Nat /\ mark[t].rev \in Nat /\ seen[t].rev \in Nat
        /\ mark[t].rev <= snap[t].rev /\ heard[t] \in Nat /\ notices[t] \in Seq(Notice)
        BY <1>5, TabRevs, TabTypes DEF Agrees
  <2>5. NewTab(t)' /\ SnapPast(past, t)'
        BY <1>1, <1>3, <1>5, <2>1 DEF NewTab, SnapPast
  <2>6. StreamPast(past, t)'
    <3> DEFINE w == Watermark(s)
               m == mark[t]
               told == seen[t]
    <3>1. w.rev = n.rev /\ w.epoch = n.epoch /\ m.rev <= n.rev /\ n.rev <= s.rev
          BY <1>2, <2>1, <2>4 DEF Watermark
    <3>2. StreamAt(past, db.rev, snap[t].rev, m, told, notices[t], stream[t], views[t])
          BY <1>5 DEF Agrees, TabPast, StreamPast
    <3>3. m.rev \in Nat /\ told.rev \in Nat
          BY <2>4
    <3> HIDE DEF w, m, told
    <3>4. StreamAt(past, db.rev, s.rev, w, told, Append(notices[t], n), stream[t], views[t])
          BY <1>2, <2>2, <2>4, <3>1, <3>2, <3>3, StreamAppend
    <3>5. QED
          BY <1>1, <1>3, <3>4 DEF StreamPast, w, told
  <2>7. HeardPast(past, t)'
    <3>1. /\ \A p \in inbox[t] : Point(past, db.rev, p)
          /\ hearing[t] # Nothing => Point(past, db.rev, hearing[t].note)
          /\ Awaited(t)
          BY <1>5 DEF Agrees, TabPast, HeardPast
    <3>2. mark'[t].rev = n.rev
          BY <1>2, <1>3 DEF Watermark
    <3>3. CASE n.rev > heard[t]
      <4>1. Awaited(t)'
            BY <1>2, <2>3, <3>2, <3>3 DEF Awaited
      <4>2. QED
            BY <1>1, <2>3, <3>1, <4>1 DEF HeardPast
    <3>4. CASE ~(n.rev > heard[t])
      <4>1. \A q \in Ops : ops[t][q].step = "memory" => ops'[t][q].step = "memory"
            BY <1>1, <1>3
      <4>2. heard[t] <= mark[t].rev => heard[t] <= n.rev
            BY <1>2, <2>1, <2>4
      <4>3. Awaited(t)'
            BY <1>1, <2>3, <3>1, <3>2, <3>4, <4>1, <4>2 DEF Awaited
      <4>4. QED
            BY <1>1, <2>3, <3>1, <4>3 DEF HeardPast
    <3>5. QED
          BY <3>3, <3>4
  <2>8. OpsPast(past, t)'
    <3>1. \A q \in Ops : ops'[t][q].step # "done"
          BY <1>3, <2>1 DEF NoOp
    <3>2. QED
          BY <3>1 DEF OpsPast
  <2>9. QED
        BY <1>1, <1>4, <2>3, <2>5, <2>6, <2>7, <2>8, OneTabStepsOn DEF TabPast
<1>6. CASE InMemory(t)
  <2>1. TabPast(past, t)'
        BY <1>1, <1>6, Elsewhere DEF InMemory
  <2>2. mode'[t] # "indexeddb"
        BY <1>1, <1>6 DEF InMemory
  <2>3. \A u \in Tabs \ {t} : Sent(past, u)
        BY <1>1, <1>2, <2>2, PostedSent
  <2>4. QED
        BY <1>1, <1>4, <2>1, <2>3, OneTabStepsOn
<1>7. QED
      BY <1>1, <1>5, <1>6 DEF Ready

LEMMA TransactInMemoryPast ==
  ASSUME IInv, NEW past \in [Nat -> Snapshot], Agrees(past),
         NEW t \in Tabs, NEW o \in Ops, TransactInMemory(t, o)
  PROVE  PastInv'
<1>1. db' = db /\ InMemory(t) /\ ops' = [ops EXCEPT ![t] = [ops[t] EXCEPT ![o] = NoOp]]
      BY DEF TransactInMemory, SetOp
<1>2. ops[t][o] \in KnownOp /\ release[t] \in Releases /\ memory[t] \in Known
      BY <1>1 DEF IInv, OpInv, TabInv, InMemory
<1>3. PICK done \in Transacted(memory[t], t, ops[t][o]) :
        Counted(done.reset) /\ Publish(t, done.reset, done.next)
      BY DEF TransactInMemory
<1>4. done.next \in Known'
      BY <1>2, <1>3, TransactedKnown
<1> DEFINE s == done.next
           n == NoticeOf(IF done.reset THEN "reset" ELSE "commit", s)
<1>5. n \in Notice
      BY <1>4 DEF NoticeOf, Notice, Known
<1>6. /\ UNCHANGED <<mode, hearing, seen, stream, views>>
      /\ snap' = [snap EXCEPT ![t] = s] /\ mark' = [mark EXCEPT ![t] = Watermark(s)]
      /\ notices' = [notices EXCEPT ![t] = Append(notices[t], n)]
      /\ Posted(t, n)
      BY <1>3 DEF Publish
<1> HIDE DEF s, n
<1>7. mode'[t] # "indexeddb" /\ mode'[t] \in {"memory", "full"}
      BY <1>1, <1>6 DEF InMemory
<1>8. \A u \in Tabs \ {t} : Alone(u) /\ Sent(past, u)
  <2>1. \A u \in Tabs \ {t} : Alone(u)
        BY <1>1, <1>6, TabFunctions DEF Alone
  <2>2. \A u \in Tabs \ {t} : Sent(past, u)
        BY <1>5, <1>6, <1>7, PostedSent
  <2>3. QED
        BY <2>1, <2>2
<1>9. QED
      BY <1>1, <1>7, <1>8, Elsewhere, OneTabStepsOn

(* An announcement that is ignored is not later than the watermark.        *)
LEMMA HearsPast ==
  ASSUME IInv, NEW past \in [Nat -> Snapshot], Agrees(past),
         NEW t \in Tabs, NEW n \in inbox[t], Hear(t, n)
  PROVE  PastInv'
<1>1. /\ UNCHANGED <<db, mode, snap, mark, ops, notices, seen, stream, views, heard>>
      /\ mode[t] = "indexeddb" /\ hearing[t] = Nothing
      /\ inbox'[t] = inbox[t] \ {n}
      /\ Old(t, n) => hearing'[t] = Nothing
      /\ ~Old(t, n) => hearing'[t].note = n
      BY TabFunctions DEF Hear, adapter
<1>2. \A u \in Tabs \ {t} : Alone(u) /\ Sent(past, u)
      BY <1>1, TabFunctions DEF Hear, Alone, Sent
<1>3. Extends(past, past) /\ TabPast(past, t) /\ PastOf(past)
      BY <1>1, SameDb DEF Agrees
<1>4. /\ db # Nothing /\ db.rev \in Nat /\ snap[t].rev \in Nat /\ mark[t].rev \in Nat
      /\ mark[t].rev <= db.rev /\ heard[t] \in Nat /\ n \in Notice /\ n.rev \in Nat
      BY <1>1, <1>3, TabRevs, TabTypes, NoticeFields
<1>5. NewTab(t)' /\ SnapPast(past, t)' /\ StreamPast(past, t)' /\ OpsPast(past, t)'
  <2>1. NewTab(t)'
        BY <1>1 DEF NewTab
  <2>2. SnapPast(past, t)'
        BY <1>1, <1>3, SnapStays DEF TabPast
  <2>3. StreamPast(past, t)'
        BY <1>1, <1>3, <1>4, StreamStays
  <2>4. OpsPast(past, t)'
        BY <1>1, <1>3, OpsStay
  <2>5. QED
        BY <2>1, <2>2, <2>3, <2>4
<1>6. /\ \A p \in inbox[t] : Point(past, db.rev, p)
      /\ Awaited(t) /\ mark[t].epoch = past[mark[t].rev].epoch
      BY <1>1, <1>3 DEF TabPast, HeardPast, StreamPast, StreamAt
<1>7. Old(t, n) => n.rev <= mark[t].rev
  <2>1. SUFFICES ASSUME n.epoch < mark[t].epoch, mark[t].rev < n.rev PROVE FALSE
        BY <1>4 DEF Old
  <2>2. mark[t].rev \in 0..db.rev /\ n.rev \in 0..db.rev /\ mark[t].rev <= n.rev
        BY <1>4, <1>6, <2>1 DEF Point
  <2>3. Before(past[mark[t].rev], past[n.rev])
        BY <1>3, <1>4, <2>2 DEF PastOf
  <2>4. mark[t].epoch <= n.epoch
        BY <1>6, <2>3 DEF Before, Point
  <2>5. mark[t].epoch \in Nat /\ n.epoch \in Nat
        BY <1>4, TabTypes, NoticeFields
  <2>6. QED
        BY <2>1, <2>4, <2>5
<1>8. Awaited(t)'
  <2>1. CASE heard[t] <= n.rev
    <3>1. CASE Old(t, n)
      <4>1. heard[t] <= mark[t].rev
            BY <1>4, <1>7, <2>1, <3>1
      <4>2. QED
            BY <1>1, <4>1 DEF Awaited
    <3>2. CASE ~Old(t, n)
      <4>1. hearing'[t] # Nothing
        <5>1. hearing'[t] = [note |-> n, reset |-> n.epoch > mark[t].epoch,
                             gap |-> n.epoch = mark[t].epoch /\ n.rev # mark[t].rev + 1]
              BY <3>2, TabFunctions DEF Hear
        <5>2. (n.epoch > mark[t].epoch) \in BOOLEAN
              /\ (n.epoch = mark[t].epoch /\ n.rev # mark[t].rev + 1) \in BOOLEAN
              OBVIOUS
        <5>3. hearing'[t] \in Hearing
              BY <1>4, <5>1, <5>2 DEF Hearing
        <5>4. QED
              BY <5>3, DemoWorkspaceAssumption
      <4>2. QED
            BY <1>1, <2>1, <3>2, <4>1 DEF Awaited
    <3>3. QED
          BY <3>1, <3>2
  <2>2. CASE ~(heard[t] <= n.rev)
        BY <1>1, <1>6, <2>2 DEF Awaited
  <2>3. QED
        BY <2>1, <2>2
<1>9. HeardPast(past, t)'
      BY <1>1, <1>6, <1>8 DEF HeardPast
<1>10. QED
      BY <1>1, <1>2, <1>5, <1>8, <1>9, OneTabStepsOn DEF TabPast

(* What a tab reads for an announcement is not behind it, and the stream   *)
(* is told of what was read.                                               *)
LEMMA ReadsForIt ==
  ASSUME IInv, NEW past, PastOf(past), db # Nothing, NEW h, h.note \in Notice,
         h \in Hearing, Point(past, db.rev, h.note)
  PROVE  LET n == NoticeFor(h, db)
         IN /\ ~(db.epoch < h.note.epoch \/ db.rev < h.note.rev)
            /\ n \in Notice /\ n.rev = db.rev /\ n.epoch = db.epoch /\ n.seq = db.seq
<1> DEFINE n == h.note
<1>1. /\ db.rev \in Nat /\ db.epoch \in Nat /\ db.seq \in Nat
      /\ n.rev \in Nat /\ n.epoch \in Nat /\ n.seq \in Nat
      BY KnownIsSnapshot, SnapshotFields, NoticeFields DEF IInv, DbInv, CountInv
<1>2. n.rev <= db.rev /\ n.epoch = past[n.rev].epoch /\ n.seq = past[n.rev].seq /\ past[db.rev] = db
      BY DEF Point, PastOf
<1>3. Before(past[n.rev], past[db.rev])
      BY <1>1, <1>2 DEF PastOf
<1>4. n.epoch <= db.epoch /\ n.seq <= db.seq
      BY <1>2, <1>3 DEF Before
<1>5. ~(db.epoch < n.epoch \/ db.rev < n.rev)
      BY <1>1, <1>2, <1>4
<1>6. \A kind \in {"commit", "reset", "resync"} :
        /\ NoticeOf(kind, db) \in Notice /\ NoticeOf(kind, db).rev = db.rev
        /\ NoticeOf(kind, db).epoch = db.epoch /\ NoticeOf(kind, db).seq = db.seq
        /\ [n EXCEPT !.kind = kind] \in Notice /\ [n EXCEPT !.kind = kind].rev = n.rev
        /\ [n EXCEPT !.kind = kind].epoch = n.epoch /\ [n EXCEPT !.kind = kind].seq = n.seq
      BY <1>1 DEF NoticeOf, Notice
<1>7. CASE db.epoch > n.epoch
      BY <1>5, <1>6, <1>7 DEF NoticeFor
<1>8. CASE ~(db.epoch > n.epoch) /\ (db.rev > n.rev \/ db.seq > n.seq)
      BY <1>5, <1>6, <1>8 DEF NoticeFor
<1>9. CASE ~(db.epoch > n.epoch) /\ ~(db.rev > n.rev \/ db.seq > n.seq)
  <2>1. db.epoch = n.epoch /\ db.rev = n.rev /\ db.seq = n.seq
        BY <1>1, <1>2, <1>4, <1>9
  <2>2. PICK kind \in {"commit", "reset", "resync"} : NoticeFor(h, db) = [n EXCEPT !.kind = kind]
        BY <1>9 DEF NoticeFor
  <2>3. QED
        BY <1>5, <1>6, <2>1, <2>2
<1>10. QED
      BY <1>7, <1>8, <1>9

LEMMA RereadPast ==
  ASSUME IInv, NEW past \in [Nat -> Snapshot], Agrees(past), NEW t \in Tabs, Reread(t)
  PROVE  PastInv'
<1> DEFINE h == hearing[t]
           n == NoticeFor(h, db)
           behind == db.epoch < h.note.epoch \/ db.rev < h.note.rev
<1>1. /\ UNCHANGED <<db, mode, inbox, ops, seen, stream, views, heard>>
      /\ h # Nothing /\ Ready(t) /\ Told(t)
      /\ hearing' = [hearing EXCEPT ![t] = Nothing] /\ snap' = [snap EXCEPT ![t] = db]
      /\ \/ UNCHANGED <<mark, notices>>
         \/ /\ mark' = [mark EXCEPT ![t] = [rev |-> n.rev, epoch |-> n.epoch]]
            /\ notices' = [notices EXCEPT ![t] = Append(notices[t], n)]
      /\ ~behind => /\ mark' = [mark EXCEPT ![t] = [rev |-> n.rev, epoch |-> n.epoch]]
                    /\ notices' = [notices EXCEPT ![t] = Append(notices[t], n)]
      BY DEF Reread
<1> HIDE DEF h, n, behind
<1>2. \A u \in Tabs \ {t} : Alone(u) /\ Sent(past, u)
      BY <1>1, TabFunctions DEF Alone, Sent
<1>3. CASE mode[t] = "indexeddb"
  <2>1. Extends(past, past) /\ TabPast(past, t) /\ PastOf(past)
        BY <1>1, SameDb DEF Agrees
  <2>2. /\ db # Nothing /\ db.rev \in Nat /\ mark[t].rev \in Nat /\ mark[t].rev <= db.rev
        /\ seen[t].rev \in Nat /\ heard[t] \in Nat /\ notices[t] \in Seq(Notice)
        /\ past[db.rev] = db
        BY <1>3, <2>1, TabRevs, TabTypes DEF PastOf
  <2>3. h \in Hearing /\ h.note \in Notice /\ Point(past, db.rev, h.note) /\ h.note.rev \in Nat
        BY <1>1, <1>3, <2>1, NoticeFields DEF IInv, HearInv, Hearing, TabPast, HeardPast, h
  <2>4. ~behind /\ n \in Notice /\ n.rev = db.rev /\ n.epoch = db.epoch /\ n.seq = db.seq
        BY <2>1, <2>2, <2>3, ReadsForIt DEF n, behind
  <2>5. /\ mark'[t] = [rev |-> n.rev, epoch |-> n.epoch] /\ notices'[t] = Append(notices[t], n)
        /\ snap'[t] = db /\ hearing'[t] = Nothing
        BY <1>1, <2>4, TabFunctions
  <2>6. NewTab(t)' /\ SnapPast(past, t)'
        BY <1>1, <1>3, <2>2, <2>5 DEF NewTab, SnapPast
  <2>7. StreamPast(past, t)'
    <3> DEFINE w == [rev |-> n.rev, epoch |-> n.epoch]
               m == mark[t]
               told == seen[t]
    <3>1. w.rev = n.rev /\ w.epoch = n.epoch /\ m.rev <= n.rev /\ n.rev <= db.rev
          BY <2>2, <2>4
    <3>2. StreamAt(past, db.rev, snap[t].rev, m, told, notices[t], stream[t], views[t])
          BY <1>3, <2>1 DEF TabPast, StreamPast
    <3>3. m.rev \in Nat /\ told.rev \in Nat /\ Point(past, db.rev, n)
          BY <2>2, <2>4 DEF Point
    <3> HIDE DEF w, m, told
    <3>4. StreamAt(past, db.rev, db.rev, w, told, Append(notices[t], n), stream[t], views[t])
          BY <2>2, <2>4, <3>1, <3>2, <3>3, StreamAppend
    <3>5. QED
          BY <1>1, <2>5, <3>4 DEF StreamPast, w, told
  <2>8. HeardPast(past, t)'
    <3>1. /\ \A p \in inbox[t] : Point(past, db.rev, p) /\ Awaited(t)
          BY <1>3, <2>1 DEF TabPast, HeardPast
    <3>2. \A p \in inbox[t] : Point(past, db.rev, p)
          BY <1>3, <2>1 DEF TabPast, HeardPast
    <3>3. Awaited(t)'
      <4>1. mark'[t].rev = db.rev
            BY <2>4, <2>5
      <4>2. CASE heard[t] <= mark[t].rev \/ heard[t] <= h.note.rev
        <5>1. heard[t] <= db.rev
              BY <2>2, <2>3, <4>2 DEF Point
        <5>2. QED
              BY <1>1, <4>1, <5>1 DEF Awaited
      <4>3. CASE (\E p \in inbox[t] : heard[t] <= p.rev) \/ \E o \in Ops : ops[t][o].step = "memory"
            BY <1>1, <4>3 DEF Awaited
      <4>4. Awaited(t)
            BY <1>3, <2>1 DEF TabPast, HeardPast
      <4>5. QED
            BY <4>2, <4>3, <4>4 DEF Awaited, h
    <3>4. QED
          BY <1>1, <2>5, <3>2, <3>3 DEF HeardPast
  <2>9. OpsPast(past, t)'
        BY <1>1 DEF Told, OpsPast
  <2>10. QED
        BY <1>1, <1>2, <2>6, <2>7, <2>8, <2>9, OneTabStepsOn DEF TabPast
<1>4. CASE InMemory(t)
  <2>1. TabPast(past, t)'
        BY <1>1, <1>4, Elsewhere DEF InMemory
  <2>2. QED
        BY <1>1, <1>2, <2>1, OneTabStepsOn
<1>5. QED
      BY <1>1, <1>3, <1>4 DEF Ready

(* The event between two successive revisions is the write they differ by. *)
LEMMA EventsBetween ==
  ASSUME NEW past \in [Nat -> Snapshot], PastOf(past), db \in Snapshot, db # Nothing,
         NEW e \in Nat, NEW n \in Notice, Point(past, db.rev, n), n.rev = e + 1,
         NEW after \in Nat, after = past[e].seq, n.seq > after, Held(db, n, after)
  PROVE  past[n.rev].writes = past[e].writes \cup Events(db, n, after)
<1>1. /\ n.rev \in Nat /\ n.seq \in Nat /\ n.epoch \in Nat /\ db.rev \in Nat /\ db.seq \in Nat
      /\ Len(db.log) \in Nat /\ First(db) = db.seq - Len(db.log) /\ First(db) \in Int
      BY NoticeFields, SnapshotFields DEF First
<1>2. n.rev \in 1..db.rev /\ n.rev - 1 = e
      BY <1>1 DEF Point
<1>3. Logged(db, past[e], past[n.rev])
      BY <1>2 DEF PastOf
<1>4. /\ past[n.rev].seq = n.seq /\ past[n.rev].epoch = db.epoch /\ n.seq = after + 1
      /\ First(db) <= after
  <2>1. past[n.rev].seq = n.seq /\ past[n.rev].epoch = db.epoch /\ First(db) <= after
        BY <1>1 DEF Point, Held
  <2>2. n.seq <= after + 1
        BY <1>3, <2>1 DEF Logged
  <2>3. QED
        BY <1>1, <2>1, <2>2
<1>5. past[n.rev].writes = past[e].writes \cup {db.log[n.seq - First(db)]}
      BY <1>1, <1>3, <1>4 DEF Logged
<1>6. Events(db, n, after) = {db.log[n.seq - First(db)]}
  <2> DEFINE f == First(db)
             k == n.seq - f
  <2>1. f \in Int /\ k \in Int /\ after - f + 1 = k
        BY <1>1, <1>4
  <2>2. Events(db, n, after) = {db.log[i] : i \in (after - f + 1)..k}
        BY DEF Events, First
  <2> HIDE DEF f, k
  <2>3. \A i : i \in (after - f + 1)..k <=> i = k
        BY <2>1
  <2>4. Events(db, n, after) = {db.log[k]}
        BY <2>2, <2>3
  <2>5. QED
        BY <2>4 DEF k, f
<1>7. QED
      BY <1>5, <1>6

(* The next notice of the queue, of a tab that uses IndexedDB.             *)
LEMMA NextNotice ==
  ASSUME IInv, NEW past \in [Nat -> Snapshot], Agrees(past), NEW t \in Tabs,
         mode[t] = "indexeddb", notices[t] # << >>
  PROVE  LET n == Head(notices[t])
         IN /\ n \in Notice /\ Point(past, db.rev, n) /\ seen[t].rev <= n.rev /\ n.rev <= mark[t].rev
            /\ Queue(past, db.rev, Tail(notices[t]), n.rev, mark[t].rev)
            /\ Queue(past, db.rev, Tail(notices[t]), seen[t].rev, mark[t].rev)
            /\ Tail(notices[t]) = << >> => n.rev = mark[t].rev
<1> DEFINE q == notices[t]
           low == seen[t].rev
           high == mark[t].rev
           top == db.rev
<1>1. q \in Seq(Notice) /\ low \in Nat /\ high \in Nat /\ top \in Nat /\ q # << >>
      BY TabTypes
<1>2. Queue(past, top, q, low, high)
      BY DEF Agrees, TabPast, StreamPast, StreamAt
<1> HIDE DEF q, low, high, top
<1>3. LET n == Head(q)
      IN /\ n \in Notice /\ Point(past, top, n) /\ low <= n.rev /\ n.rev <= high
         /\ Queue(past, top, Tail(q), n.rev, high)
         /\ Queue(past, top, Tail(q), low, high)
         /\ Tail(q) = << >> => n.rev = high
      BY <1>1, <1>2, QueueTail
<1>4. QED
      BY <1>3 DEF q, low, high, top

(* The sequence that was delivered is the one of the notice.               *)
LEMMA DeliveredSeq ==
  ASSUME IInv, NEW past \in [Nat -> Snapshot], Agrees(past), NEW t \in Tabs, mode[t] = "indexeddb",
         NEW n \in Notice, Point(past, db.rev, n), seen[t].rev <= n.rev, Delivered(t, n)
  PROVE  seen'[t].rev = n.rev /\ seen'[t].seq = past[n.rev].seq
<1>1. /\ db # Nothing /\ db.rev \in Nat /\ seen[t].rev \in Nat /\ seen[t].seq \in Nat
      /\ n.rev \in Nat /\ n.seq \in Nat /\ seen[t].rev <= db.rev
      BY TabTypes, TabRevs, NoticeFields DEF Agrees
<1>2. seen[t].seq = past[seen[t].rev].seq /\ n.seq = past[n.rev].seq /\ n.rev <= db.rev
      BY DEF Agrees, TabPast, StreamPast, StreamAt, Point
<1>3. seen[t].rev \in 0..db.rev /\ n.rev \in 0..db.rev
      BY <1>1, <1>2
<1>4. seen[t].seq <= n.seq
  <2>1. Before(past[seen[t].rev], past[n.rev])
        BY <1>1, <1>3 DEF Agrees, PastOf
  <2>2. QED
        BY <1>2, <2>1 DEF Before
<1>5. seen'[t] = [rev |-> n.rev, seq |-> IF Successive(t, n) /\ ~Adjacent(t, n) THEN seen[t].seq ELSE n.seq]
      BY TabFunctions DEF Delivered
<1>6. Successive(t, n) /\ ~Adjacent(t, n) => seen[t].seq = n.seq
      BY <1>1, <1>4 DEF Adjacent
<1>7. QED
      BY <1>2, <1>5, <1>6

LEMMA DrainPast ==
  ASSUME IInv, NEW past \in [Nat -> Snapshot], Agrees(past), NEW t \in Tabs, Drain(t)
  PROVE  PastInv'
<1> DEFINE n == Head(notices[t])
           fresh == [snap EXCEPT ![t] = Stored(t)]
           added == [views EXCEPT ![t] = @ \cup Events(Stored(t), n, seen[t].seq)]
<1>1. /\ UNCHANGED <<db, mode, mark, inbox, hearing, ops, heard>>
      /\ Ready(t) /\ notices[t] # << >> /\ notices' = [notices EXCEPT ![t] = Tail(notices[t])]
      BY DEF Drain
<1>2. \/ Repeated(t, n) /\ UNCHANGED <<snap, seen, stream, views>>
      \/ /\ ~Repeated(t, n) /\ Delivered(t, n) /\ Adjacent(t, n) /\ Told(t) /\ snap' = fresh
         /\ \/ Held(Stored(t), n, seen[t].seq) /\ views' = added /\ stream' = stream
            \/ Cycled(t)
      \/ ~Repeated(t, n) /\ Delivered(t, n) /\ ~Adjacent(t, n) /\ snap' = snap /\ Cycled(t)
      BY DEF Drain
<1>3. \A u \in Tabs \ {t} : Alone(u) /\ Sent(past, u)
  <2>1. ASSUME NEW u \in Tabs \ {t}
        PROVE  /\ mode'[u] = mode[u] /\ mark'[u] = mark[u] /\ hearing'[u] = hearing[u]
               /\ ops'[u] = ops[u] /\ notices'[u] = notices[u] /\ Sent(past, u)
        BY <1>1, TabFunctions DEF Sent
  <2>2. ASSUME NEW u \in Tabs \ {t}
        PROVE  snap'[u] = snap[u] /\ seen'[u] = seen[u] /\ stream'[u] = stream[u] /\ views'[u] = views[u]
        BY <1>2, TabFunctions DEF Delivered, Cycled
  <2>3. QED
        BY <2>1, <2>2 DEF Alone
<1>4. CASE mode[t] = "indexeddb"
  <2> HIDE DEF n
  <2>1. Extends(past, past) /\ TabPast(past, t) /\ PastOf(past) /\ Stored(t) = db
        BY <1>1, <1>4, SameDb, StoredKnown DEF Agrees
  <2>2. /\ db # Nothing /\ db \in Snapshot /\ db.rev \in Nat /\ past[db.rev] = db
        /\ snap[t].rev \in Nat /\ snap[t].rev <= db.rev /\ snap[t] = past[snap[t].rev]
        /\ mark[t].rev \in Nat /\ mark[t].rev <= snap[t].rev /\ mark[t].rev <= db.rev
        /\ seen[t].rev \in Nat /\ seen[t].seq \in Nat /\ seen[t].rev <= mark[t].rev
        BY <1>4, <2>1, TabRevs, TabTypes DEF PastOf, TabPast, SnapPast
  <2>3. /\ n \in Notice /\ Point(past, db.rev, n) /\ seen[t].rev <= n.rev /\ n.rev <= mark[t].rev
        /\ Queue(past, db.rev, Tail(notices[t]), n.rev, mark[t].rev)
        /\ Queue(past, db.rev, Tail(notices[t]), seen[t].rev, mark[t].rev)
        /\ Tail(notices[t]) = << >> => n.rev = mark[t].rev
        BY <1>1, <1>4, NextNotice DEF n
  <2>4. n.rev \in Nat /\ n.seq \in Nat
        BY <2>3, NoticeFields
  <2>5. /\ mark[t].epoch = past[mark[t].rev].epoch /\ seen[t].seq = past[seen[t].rev].seq
        /\ stream[t] => \E v \in seen[t].rev..db.rev : views[t] = past[v].writes
        BY <1>4, <2>1 DEF TabPast, StreamPast, StreamAt
  <2>6. /\ snap'[t] = snap[t] \/ (snap'[t] = db /\ Told(t))
        /\ notices'[t] = Tail(notices[t]) /\ mark'[t] = mark[t]
    <3>1. notices'[t] = Tail(notices[t]) /\ mark'[t] = mark[t]
          BY <1>1, TabFunctions
    <3>2. fresh[t] = db
          BY <2>1, TabFunctions
    <3> HIDE DEF fresh, added
    <3>3. snap' = snap \/ (snap' = fresh /\ Told(t))
          BY <1>2
    <3>4. QED
          BY <3>1, <3>2, <3>3
  <2>7. snap'[t].rev \in Nat /\ snap[t].rev <= snap'[t].rev /\ snap'[t].rev <= db.rev
        /\ snap'[t] = past[snap'[t].rev]
        BY <2>2, <2>6
  <2>8. NewTab(t)' /\ SnapPast(past, t)'
        BY <1>1, <1>4, <2>7 DEF NewTab, SnapPast
  <2>9. HeardPast(past, t)'
        BY <1>1, <2>1, <2>2, HeardStays DEF Sent
  <2>10. OpsPast(past, t)'
    <3>1. CASE snap'[t] = snap[t]
          BY <1>1, <2>1, <3>1, OpsStay
    <3>2. CASE Told(t)
          BY <1>1, <3>2 DEF Told, OpsPast
    <3>3. QED
          BY <2>6, <3>1, <3>2
  <2>11. mark[t].rev <= snap'[t].rev /\ n.rev <= snap'[t].rev
         BY <2>2, <2>3, <2>4, <2>7
  <2>12. StreamPast(past, t)'
    <3> SUFFICES StreamAt(past, db.rev, snap'[t].rev, mark[t], seen'[t], Tail(notices[t]), stream'[t], views'[t])
        BY <1>1, <2>6 DEF StreamPast
    <3>1. CASE Repeated(t, n) /\ UNCHANGED <<snap, seen, stream, views>>
      <4>1. n.rev = seen[t].rev
            BY <2>2, <2>3, <2>4, <3>1 DEF Repeated
      <4>2. QED
            BY <2>2, <2>3, <2>5, <2>11, <3>1, <4>1 DEF StreamAt
    <3>2. CASE ~Repeated(t, n) /\ Delivered(t, n)
      <4>1. seen'[t].rev = n.rev /\ seen'[t].seq = past[n.rev].seq
            BY <1>4, <2>3, <3>2, DeliveredSeq
      <4>2. stream'[t] => \E v \in n.rev..db.rev : views'[t] = past[v].writes
        <5>1. CASE Cycled(t)
          <6>1. views'[t] = snap'[t].writes
                BY <5>1, TabFunctions DEF Cycled
          <6>2. snap'[t].rev \in n.rev..db.rev /\ views'[t] = past[snap'[t].rev].writes
                BY <2>4, <2>2, <2>7, <2>11, <6>1
          <6>3. QED
                BY <6>2
        <5>2. CASE /\ Adjacent(t, n) /\ Held(db, n, seen[t].seq)
                   /\ views'[t] = views[t] \cup Events(db, n, seen[t].seq) /\ stream'[t] = stream[t]
          <6> SUFFICES ASSUME stream[t] PROVE \E v \in n.rev..db.rev : views'[t] = past[v].writes
              BY <5>2
          <6> DEFINE e == seen[t].rev
                     after == seen[t].seq
          <6>1. PICK v \in e..db.rev : views[t] = past[v].writes
                BY <2>5
          <6>2. /\ n.rev = e + 1 /\ n.seq > after /\ after = past[e].seq
                /\ e \in Nat /\ after \in Nat /\ v \in Nat /\ v \in 0..db.rev /\ n.rev \in 0..db.rev
                BY <2>2, <2>4, <2>5, <2>3, <5>2 DEF Adjacent, Successive, Point
          <6>3. Held(db, n, after) /\ views'[t] = views[t] \cup Events(db, n, after)
                BY <5>2
          <6> HIDE DEF e, after
          <6>4. past[n.rev].writes = past[e].writes \cup Events(db, n, after)
            <7>1. /\ PastOf(past) /\ db \in Snapshot /\ db # Nothing /\ n \in Notice
                  /\ Point(past, db.rev, n)
                  BY <2>1, <2>2, <2>3
            <7>2. QED
                  BY <6>2, <6>3, <7>1, EventsBetween
          <6>5. CASE v = e
            <7>1. views'[t] = past[n.rev].writes
                  BY <6>1, <6>3, <6>4, <6>5
            <7>2. n.rev \in n.rev..db.rev
                  BY <2>2, <2>4, <6>2
            <7>3. QED
                  BY <7>1, <7>2
          <6>6. CASE v # e
            <7>1. n.rev <= v /\ v \in n.rev..db.rev
                  BY <2>2, <2>4, <6>1, <6>2, <6>6
            <7>2. Before(past[n.rev], past[v]) /\ Before(past[v], past[db.rev])
                  BY <2>1, <2>2, <6>2, <7>1 DEF PastOf
            <7>3. past[n.rev].epoch = db.epoch
                  BY <2>3, <6>3 DEF Point, Held
            <7>4. past[n.rev].epoch \in Nat /\ past[v].epoch \in Nat
                  BY <2>4, <6>2, SnapshotFields
            <7>5. past[n.rev].epoch = past[v].epoch
                  BY <2>2, <7>2, <7>3, <7>4 DEF Before
            <7>6. past[n.rev].writes \subseteq past[v].writes
                  BY <7>2, <7>5 DEF Before
            <7>7. views'[t] = past[v].writes
                  BY <6>1, <6>3, <6>4, <7>6
            <7>8. QED
                  BY <7>1, <7>7
          <6>7. QED
                BY <6>5, <6>6
        <5>3. Cycled(t) \/ /\ Adjacent(t, n) /\ Held(db, n, seen[t].seq)
                           /\ views'[t] = views[t] \cup Events(db, n, seen[t].seq) /\ stream'[t] = stream[t]
              BY <1>2, <2>1, <3>2, TabFunctions
        <5>4. QED
              BY <5>1, <5>2, <5>3
      <4>3. QED
            BY <2>2, <2>3, <2>5, <2>11, <4>1, <4>2 DEF StreamAt
    <3>3. QED
          BY <1>2, <3>1, <3>2
  <2>13. QED
         BY <1>1, <1>3, <2>8, <2>9, <2>10, <2>12, OneTabStepsOn DEF TabPast
<1>5. CASE InMemory(t)
  <2>1. TabPast(past, t)'
        BY <1>1, <1>5, Elsewhere DEF InMemory
  <2>2. QED
        BY <1>1, <1>3, <2>1, OneTabStepsOn
<1>6. QED
      BY <1>1, <1>4, <1>5 DEF Ready

(* The stream is closed with a notice it has not delivered.                *)
LEMMA DrainFailsPast ==
  ASSUME IInv, NEW past \in [Nat -> Snapshot], Agrees(past), NEW t \in Tabs, DrainFails(t)
  PROVE  PastInv'
<1>1. /\ UNCHANGED <<db, mode, snap, mark, inbox, hearing, ops, seen, views, heard>>
      /\ notices[t] # << >> /\ mode[t] = "indexeddb"
      /\ notices' = [notices EXCEPT ![t] = Tail(notices[t])] /\ stream' = [stream EXCEPT ![t] = FALSE]
      BY DEF DrainFails, repository
<1>2. notices'[t] = Tail(notices[t]) /\ stream'[t] = FALSE
      BY <1>1, TabFunctions
<1>3. \A u \in Tabs \ {t} : Alone(u) /\ Sent(past, u)
      BY <1>1, TabFunctions DEF Alone, Sent
<1>4. Extends(past, past) /\ TabPast(past, t) /\ snap[t].rev \in Nat /\ mark[t].rev \in Nat
      BY <1>1, SameDb, TabRevs DEF Agrees
<1>5. NewTab(t)'
      BY <1>1 DEF NewTab
<1>6. SnapPast(past, t)' /\ HeardPast(past, t)' /\ OpsPast(past, t)'
  <2>1. SnapPast(past, t)'
        BY <1>1, <1>4, SnapStays DEF TabPast
  <2>2. HeardPast(past, t)'
        BY <1>1, <1>4, HeardStays DEF Sent
  <2>3. OpsPast(past, t)'
        BY <1>1, <1>4, OpsStay
  <2>4. QED
        BY <2>1, <2>2, <2>3
<1>7. StreamPast(past, t)'
  <2>1. Queue(past, db.rev, Tail(notices[t]), seen[t].rev, mark[t].rev)
        BY <1>1, NextNotice
  <2>2. StreamAt(past, db.rev, snap[t].rev, mark[t], seen[t], notices[t], stream[t], views[t])
        BY <1>1, <1>4 DEF TabPast, StreamPast
  <2>3. StreamAt(past, db.rev, snap[t].rev, mark[t], seen[t], Tail(notices[t]), FALSE, views[t])
        BY <2>1, <2>2 DEF StreamAt
  <2>4. QED
        BY <1>1, <1>2, <2>3 DEF StreamPast
<1>8. QED
      BY <1>1, <1>3, <1>5, <1>6, <1>7, OneTabStepsOn DEF TabPast

-------------------------------------------------------------------------------
(* At first there is no workspace, and every past will do.                 *)
LEMMA InitPast == Init => PastInv
<1> SUFFICES ASSUME Init PROVE PastInv
    OBVIOUS
<1>1. PICK r : r \in Releases
      BY DemoWorkspaceAssumption
<1>2. Seed(r) \in Snapshot
  <2>1. << >> \in Seq(Nat) /\ {} \in SUBSET Nat /\ 0 \in Nat
        OBVIOUS
  <2>2. QED
        BY <1>1, <2>1 DEF Seed, Snapshot
<1> DEFINE past == [n \in Nat |-> Seed(r)]
<1>3. past \in [Nat -> Snapshot]
      BY <1>2
<1> HIDE DEF past
<1>4. PastOf(past)
      BY DEF Init, PastOf
<1>5. ASSUME NEW t \in Tabs PROVE TabPast(past, t)
  <2>1. /\ mode[t] = "closed" /\ inbox[t] = {} /\ hearing[t] = Nothing /\ notices[t] = << >>
        /\ heard[t] = 0 /\ \A o \in Ops : ops[t][o].step = "idle"
        BY DEF Init, NoOp
  <2>2. QED
        BY <2>1 DEF TabPast, NewTab, SnapPast, StreamPast, HeardPast, OpsPast
<1>6. QED
      BY <1>3, <1>4, <1>5 DEF PastInv, Agrees

LEMMA StepPast == IInv /\ IInv' /\ PastInv /\ [Next]_vars => PastInv'
<1> SUFFICES ASSUME IInv, IInv', PastInv, [Next]_vars PROVE PastInv'
    OBVIOUS
<1>0. PICK past \in [Nat -> Snapshot] : Agrees(past)
      BY DEF PastInv
<1>1. CASE UNCHANGED vars
  <2>1. /\ PastOf(past)' <=> PastOf(past)
        /\ \A t \in Tabs : TabPast(past, t)' <=> TabPast(past, t)
        BY <1>1 DEF vars, repository, adapter, counters, PastOf, TabPast, NewTab, SnapPast, StreamPast,
                    HeardPast, Awaited, OpsPast
  <2>2. QED
        BY <1>0, <2>1 DEF PastInv, Agrees
<1>2. ASSUME NEW t \in Tabs, TabStep(t) PROVE PastInv'
  <2>1. CASE \E r \in Releases : Enter(t, r) \/ EnterInMemory(t, r)
        BY <1>0, <2>1, EnterPast, EnterInMemoryPast
  <2>2. CASE Entered(t)
        BY <1>0, <2>2, EnteredPast
  <2>3. CASE UpgradeRequired(t)
        BY <1>0, <2>3, UpgradeRequiredPast
  <2>4. CASE Reread(t)
        BY <1>0, <2>4, RereadPast
  <2>5. CASE Drain(t)
        BY <1>0, <2>5, DrainPast
  <2>6. CASE DrainFails(t)
        BY <1>0, <2>6, DrainFailsPast
  <2>7. CASE Dies(t)
        BY <1>0, <2>7, DiesPast
  <2>8. CASE \E n \in inbox[t] : Hear(t, n)
        BY <1>0, <2>8, HearsPast
  <2>9. QED
        BY <1>2, <2>1, <2>2, <2>3, <2>4, <2>5, <2>6, <2>7, <2>8 DEF TabStep
<1>3. ASSUME NEW t \in Tabs, NEW o \in Ops, OpStep(t, o) PROVE PastInv'
  <2>1. CASE Ask(t, o)
        BY <1>0, <2>1, AskPast
  <2>2. CASE Transact(t, o)
        BY <1>0, <2>2, TransactPast
  <2>3. CASE Refuse(t, o)
        BY <1>0, <2>3, RefusePast
  <2>4. CASE Committed(t, o)
        BY <1>0, <2>4, CommittedPast
  <2>5. CASE TransactInMemory(t, o)
        BY <1>0, <2>5, TransactInMemoryPast
  <2>6. CASE TransactFails(t, o)
        BY <1>0, <2>6, TransactFailsPast
  <2>7. CASE ReadFails(t, o)
        BY <1>0, <2>7, ReadFailsPast
  <2>8. CASE ReadNewest(t, o)
        BY <1>0, <2>8, ReadNewestPast
  <2>9. CASE SwitchToMemory(t, o)
        BY <1>0, <2>9, SwitchToMemoryPast
  <2>10. QED
        BY <1>3, <2>1, <2>2, <2>3, <2>4, <2>5, <2>6, <2>7, <2>8, <2>9 DEF OpStep
<1>4. QED
      BY <1>1, <1>2, <1>3 DEF Next

(* In every reachable state there is a past with which all tabs agree: all *)
(* they hold of the workspace, in the snapshot they adopted, the           *)
(* announcements they were sent, the queue of their stream and their       *)
(* views, is the workspace as it was at some revision.                     *)
THEOREM PastInvariant == Spec => []PastInv
<1>1. QED
      BY InitPast, StepPast, Invariant, PTL DEF Spec

(* The tabs are coherent, whatever order the announcements come in: a tab  *)
(* on IndexedDB whose stream is open, which has heard of the last revision *)
(* and has nothing left to do for it, shows the writes of the workspace,   *)
(* and no other.                                                           *)
THEOREM CoherentHolds == Spec => []Coherent
<1>1. IInv /\ PastInv => Coherent
  <2> SUFFICES ASSUME IInv, PastInv, NEW t \in Tabs, mode[t] = "indexeddb", Quiet(t), stream[t],
                      heard[t] = db.rev
               PROVE  views[t] = db.writes
      BY DEF Coherent
  <2>1. PICK past \in [Nat -> Snapshot] : Agrees(past)
        BY DEF PastInv
  <2>2. PastOf(past) /\ TabPast(past, t)
        BY <2>1 DEF Agrees
  <2>3. /\ db # Nothing /\ db.rev \in Nat /\ mark[t].rev \in Nat /\ mark[t].rev <= db.rev
        /\ past[db.rev] = db
        BY <2>2, TabRevs DEF PastOf
  <2>4. heard[t] <= mark[t].rev
        BY <2>2 DEF TabPast, HeardPast, Awaited, Quiet
  <2>5. mark[t].rev = db.rev
        BY <2>3, <2>4
  <2>6. seen[t].rev = db.rev /\ \E v \in seen[t].rev..db.rev : views[t] = past[v].writes
        BY <2>2, <2>5 DEF TabPast, StreamPast, StreamAt, Quiet
  <2>7. PICK v \in db.rev..db.rev : views[t] = past[v].writes
        BY <2>6
  <2>8. v = db.rev
        BY <2>3
  <2>9. QED
        BY <2>3, <2>7, <2>8
<1>2. QED
      BY <1>1, Invariant, PastInvariant, PTL

(* What a tab shows, was told of and has delivered, from step to step.     *)
Unmoved(t) == snap'[t] = snap[t] /\ seen'[t] = seen[t] /\ mark'[t] = mark[t]
Forward(t) == snap'[t].rev >= snap[t].rev /\ seen'[t].rev >= seen[t].rev /\ mark'[t].rev >= mark[t].rev

(* A tab only moves itself.                                                *)
LEMMA OthersStay ==
  ASSUME IInv, NEW u \in Tabs, TabStep(u) \/ \E o \in Ops : OpStep(u, o), NEW t \in Tabs \ {u}
  PROVE  Unmoved(t)
<1>1. CASE \E r \in Releases : Enter(u, r)
      BY <1>1, TabFunctions DEF Enter, adapter, Unmoved
<1>2. CASE \E r \in Releases : EnterInMemory(u, r)
      BY <1>2, TabFunctions DEF EnterInMemory, LeaveFor, Unmoved
<1>3. CASE Entered(u)
      BY <1>3, TabFunctions DEF Entered, Unmoved
<1>4. CASE UpgradeRequired(u) \/ (\E n \in inbox[u] : Hear(u, n)) \/ DrainFails(u)
      BY <1>4 DEF UpgradeRequired, Hear, DrainFails, repository, adapter, Unmoved
<1>5. CASE Reread(u)
      BY <1>5, TabFunctions DEF Reread, Unmoved
<1>6. CASE Drain(u)
      BY <1>6, TabFunctions DEF Drain, Delivered, Unmoved
<1>7. CASE Dies(u)
      BY <1>7, TabFunctions DEF Dies, Unmoved
<1>8. ASSUME NEW o \in Ops, OpStep(u, o) PROVE Unmoved(t)
  <2>1. CASE Ask(u, o)
        BY <2>1, TabFunctions DEF Ask, adapter, Unmoved
  <2>2. CASE Committed(u, o)
        BY <2>2, TabFunctions DEF Committed, Publish, Unmoved
  <2>3. CASE TransactInMemory(u, o)
        BY <2>3, TabFunctions DEF TransactInMemory, Publish, Unmoved
  <2>4. CASE SwitchToMemory(u, o)
        BY <2>4, TabFunctions DEF SwitchToMemory, LeaveFor, adapter, Unmoved
  <2>5. CASE Transact(u, o) \/ Refuse(u, o) \/ TransactFails(u, o) \/ ReadFails(u, o) \/ ReadNewest(u, o)
        BY <2>5 DEF Transact, Refuse, TransactFails, ReadFails, ReadNewest, repository, adapter, Unmoved
  <2>6. QED
        BY <1>8, <2>1, <2>2, <2>3, <2>4, <2>5 DEF OpStep
<1>9. QED
      BY <1>1, <1>2, <1>3, <1>4, <1>5, <1>6, <1>7, <1>8 DEF TabStep

(* A tab that uses IndexedDB before and after a step of its own moves to   *)
(* what is in IndexedDB, to its own commit, which is later than what it    *)
(* has, or to the next notice.                                             *)
LEMMA OwnForward ==
  ASSUME IInv, IInv', NEW past \in [Nat -> Snapshot], Agrees(past), NEW t \in Tabs,
         TabStep(t) \/ \E o \in Ops : OpStep(t, o), mode[t] = "indexeddb", mode'[t] = "indexeddb"
  PROVE  Forward(t)
<1>1. /\ PastOf(past) /\ TabPast(past, t) /\ db # Nothing /\ db.rev \in Nat /\ ~InMemory(t)
      /\ snap[t].rev \in Nat /\ snap[t].rev <= db.rev /\ mark[t].rev \in Nat /\ mark[t].rev <= snap[t].rev
      /\ mark[t].rev <= db.rev /\ seen[t].rev \in Nat
      BY TabRevs DEF Agrees, InMemory
<1>2. Unmoved(t) => Forward(t)
      BY <1>1 DEF Unmoved, Forward
<1>3. ASSUME snap'[t] = snap[t] \/ snap'[t] = db, mark'[t] = mark[t], seen'[t] = seen[t]
      PROVE  Forward(t)
      BY <1>1, <1>3 DEF Forward
<1>4. CASE \E r \in Releases : Enter(t, r) \/ EnterInMemory(t, r)
      BY <1>4 DEF Enter, EnterInMemory
<1>5. CASE Entered(t)
      BY <1>5 DEF Entered
<1>6. CASE UpgradeRequired(t) \/ (\E n \in inbox[t] : Hear(t, n)) \/ DrainFails(t)
      BY <1>2, <1>6 DEF UpgradeRequired, Hear, DrainFails, repository, adapter, Unmoved
<1>7. CASE Dies(t)
      BY <1>7, TabFunctions DEF Dies
<1>8. CASE Reread(t)
  <2> DEFINE n == NoticeFor(hearing[t], db)
  <2>1. /\ snap'[t] = db /\ seen'[t] = seen[t]
        /\ mark'[t] = mark[t] \/ mark'[t] = [rev |-> n.rev, epoch |-> n.epoch]
        BY <1>8, TabFunctions DEF Reread
  <2>2. hearing[t] # Nothing /\ hearing[t] \in Hearing /\ hearing[t].note \in Notice
        /\ Point(past, db.rev, hearing[t].note)
        BY <1>1, <1>8 DEF Reread, IInv, HearInv, Hearing, TabPast, HeardPast
  <2>3. n.rev = db.rev
        BY <1>1, <2>2, ReadsForIt
  <2> HIDE DEF n
  <2>4. QED
        BY <1>1, <2>1, <2>3 DEF Forward
<1>9. CASE Drain(t)
  <2> DEFINE n == Head(notices[t])
  <2>1. Stored(t) = db /\ notices[t] # << >>
        BY <1>1, <1>9 DEF Stored, Drain
  <2>2. n \in Notice /\ Point(past, db.rev, n) /\ seen[t].rev <= n.rev /\ n.rev \in Nat
        BY <2>1, NextNotice, NoticeFields
  <2>3. (snap'[t] = snap[t] \/ snap'[t] = db) /\ mark'[t] = mark[t] /\ (seen'[t] = seen[t] \/ Delivered(t, n))
        BY <1>9, <2>1, TabFunctions DEF Drain
  <2> HIDE DEF n
  <2>4. seen'[t] = seen[t] \/ seen'[t].rev = n.rev
        BY <2>2, <2>3, DeliveredSeq
  <2>5. QED
        BY <1>1, <2>2, <2>3, <2>4 DEF Forward
<1>10. ASSUME NEW o \in Ops, OpStep(t, o) PROVE Forward(t)
  <2>1. CASE Ask(t, o)
        BY <1>1, <1>3, <2>1, TabFunctions DEF Ask, adapter, Stored
  <2>2. CASE Committed(t, o)
    <3> DEFINE s == ops[t][o].base
    <3>1. snap'[t] = s /\ mark'[t] = Watermark(s) /\ seen'[t] = seen[t] /\ ops[t][o].step = "done"
          BY <2>2, TabFunctions DEF Committed, Publish
    <3>2. snap[t].rev <= s.rev
          BY <1>1, <3>1 DEF TabPast, OpsPast
    <3>3. s.rev \in Nat
          BY <3>1 DEF IInv, OpInv, KnownOp, Known
    <3> HIDE DEF s
    <3>4. QED
          BY <1>1, <3>1, <3>2, <3>3 DEF Forward, Watermark
  <2>3. CASE TransactInMemory(t, o)
        BY <1>1, <2>3 DEF TransactInMemory
  <2>4. CASE SwitchToMemory(t, o)
    <3>1. mode'[t] = ops[t][o].step /\ ops[t][o].step \in {"full", "memory"}
          BY <2>4, TabFunctions DEF SwitchToMemory, LeaveFor
    <3>2. QED
          BY <3>1
  <2>5. CASE Transact(t, o) \/ Refuse(t, o) \/ TransactFails(t, o) \/ ReadFails(t, o) \/ ReadNewest(t, o)
        BY <1>2, <2>5 DEF Transact, Refuse, TransactFails, ReadFails, ReadNewest, repository, adapter, Unmoved
  <2>6. QED
        BY <1>10, <2>1, <2>2, <2>3, <2>4, <2>5 DEF OpStep
<1>11. QED
       BY <1>4, <1>5, <1>6, <1>7, <1>8, <1>9, <1>10 DEF TabStep

(* A tab on IndexedDB never goes back to an earlier revision: not in the   *)
(* snapshot it adopted, nor in what its stream delivered, nor in its       *)
(* watermark, whatever order its reads, commits and announcements come in. *)
THEOREM NeverBack == Spec => NeverGoesBack
<1>1. ASSUME IInv, IInv', PastInv, [Next]_vars, NEW t \in Tabs, mode[t] = "indexeddb", mode'[t] = "indexeddb"
      PROVE  UNCHANGED vars \/ Forward(t)
  <2>1. PICK past \in [Nat -> Snapshot] : Agrees(past)
        BY <1>1 DEF PastInv
  <2>2. ASSUME NEW u \in Tabs, TabStep(u) \/ \E o \in Ops : OpStep(u, o) PROVE Forward(t)
    <3>1. CASE u = t
          BY <1>1, <2>1, <2>2, <3>1, OwnForward
    <3>2. CASE u # t
      <4>1. Unmoved(t)
            BY <1>1, <2>2, <3>2, OthersStay
      <4>2. snap[t].rev \in Nat /\ seen[t].rev \in Nat /\ mark[t].rev \in Nat
            BY <1>1, <2>1, TabRevs DEF Agrees
      <4>3. QED
            BY <4>1, <4>2 DEF Unmoved, Forward
    <3>3. QED
          BY <3>1, <3>2
  <2>3. QED
        BY <1>1, <2>2 DEF Next
<1>2. IInv /\ IInv' /\ PastInv /\ [Next]_vars =>
        [\A t \in Tabs : mode[t] = "indexeddb" /\ mode'[t] = "indexeddb" =>
           snap'[t].rev >= snap[t].rev /\ seen'[t].rev >= seen[t].rev
           /\ mark'[t].rev >= mark[t].rev]_vars
      BY <1>1 DEF Forward
<1>3. QED
      BY <1>2, Invariant, PastInvariant, PTL DEF Spec, NeverGoesBack

===============================================================================
