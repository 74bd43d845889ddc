------------------------------ MODULE DemoWorkspace ------------------------------
(***************************************************************************)
(* The workspace of the browser demo, shared by the tabs of one browser    *)
(* profile: the snapshot and the bounded log of events in IndexedDB, the   *)
(* repository of each tab over it (DemoWorkspaceRepository.ts, storage.ts),*)
(* the watermarks the tabs broadcast (channel.ts), and the stream by which *)
(* a tab's views are refreshed (DemoWorkspaceEventStreamAdapter.ts).       *)
(* Tabs of different releases open and die at any step, announcements are  *)
(* delayed, reordered or never made, storage fails, and a tab that cannot  *)
(* use it goes on in memory.                                               *)
(*                                                                         *)
(* A workspace is known by its reset epoch, and what it contains by the    *)
(* writes since then.                                                      *)
(*                                                                         *)
(* A definition whose name ends in "Mutant" is not part of the             *)
(* specification: it is the named definition with one plausible bug.       *)
(***************************************************************************)
EXTENDS Naturals, Sequences, FiniteSets, SequencesExt

CONSTANTS
  Tabs,
  Ops,           \* the mutations a tab has under way at a time
  Releases,      \* of the demo: a tab loads one of them, and may reload another
  Migrated,      \* releases whose workspace a later one keeps
  LogLimit,      \* DEMO_WORKSPACE_EVENT_LOG_LIMIT
  MaxWrites,     \* bound: mutations that are committed
  MaxOthers,     \* bound: resets, failures of the storage, tabs that are closed
  Nothing

(* Of a workspace: the release, the reset epoch, the revision, the sequence*)
(* and the log of its events.                                              *)
Snapshot == [release : Releases, epoch : Nat, rev : Nat, seq : Nat, log : Seq(Nat), writes : SUBSET Nat]

(* An announcement, and one for which the workspace is read again, because *)
(* of a reset or after a gap.                                              *)
Notice == [kind : {"commit", "reset", "resync"}, rev : Nat, epoch : Nat, seq : Nat]
Hearing == [note : Notice, reset : BOOLEAN, gap : BOOLEAN]

ASSUME DemoWorkspaceAssumption ==
  /\ Nothing \notin Snapshot /\ Nothing \notin Hearing
  /\ Releases \subseteq Nat /\ Releases # {} /\ Migrated \subseteq Releases
  /\ LogLimit \in Nat \ {0}
  /\ {MaxWrites, MaxOthers} \subseteq Nat

VARIABLES
  db,         \* the snapshot in IndexedDB, or Nothing
  memory,     \* the snapshot in the memory store of each tab
  release,    \* the release each tab has loaded
  mode,       \* where each repository is, and which store it has
  snap,       \* authoritativeSnapshot
  mark,       \* notificationWatermark
  inbox,      \* announcements the channel has not handed over
  hearing,    \* the announcement for which the snapshot is being read again
  ops,        \* mutate() and reset() calls under way
  notices,    \* notificationQueue of the stream
  seen,       \* lastDeliveredRevision, lastDeliveredSequence
  stream,     \* its status
  views,      \* the writes the tab's views were refreshed with
  kept,       \* writes that were confirmed to a tab's callers; to nobody, once it is closed
  heard,      \* the last revision a tab has made or been sent
  writes,     \* mutations that were committed so far
  others      \* resets, failures and closed tabs so far

repository == <<release, mode, snap, mark, inbox, hearing>>
adapter == <<notices, seen, stream, views>>
counters == <<writes, others>>
vars == <<db, memory, repository, ops, adapter, kept, heard, counters>>

Op == [step : {"idle", "asked", "done", "newest", "full", "memory"}, reset : BOOLEAN,
       durable : BOOLEAN, base : Snapshot \cup {Nothing}]

(* A tab works with the store in memory for the reason it warns of:        *)
(* "full" for quota_exceeded, "memory" for indexeddb_unavailable.          *)
InMemory(t) == mode[t] \in {"memory", "full"}
Ready(t) == mode[t] = "indexeddb" \/ InMemory(t)

(* Type correctness.  The log never exceeds its limit, or the sequence;    *)
(* a tab that works has a snapshot; a memory store is only used by the tab *)
(* that has left IndexedDB.                                                *)
TypeOK ==
  /\ db \in Snapshot \cup {Nothing}
  /\ memory \in [Tabs -> Snapshot \cup {Nothing}] /\ snap \in [Tabs -> Snapshot \cup {Nothing}]
  /\ release \in [Tabs -> Releases \cup {Nothing}]
  /\ mode \in [Tabs -> {"closed", "entering", "replacing", "indexeddb", "memory", "full",
                    "upgrade"}]
  /\ mark \in [Tabs -> [rev : Nat, epoch : Nat]]
  /\ inbox \in [Tabs -> SUBSET Notice]
  /\ hearing \in [Tabs -> Hearing \cup {Nothing}]
  /\ ops \in [Tabs -> [Ops -> Op]]
  /\ notices \in [Tabs -> Seq(Notice)]
  /\ seen \in [Tabs -> [rev : Nat, seq : Nat]]
  /\ stream \in [Tabs -> BOOLEAN]
  /\ views \in [Tabs -> SUBSET Nat]
  /\ kept \subseteq [tab : Tabs \cup {Nothing}, write : Nat, epoch : Nat, durable : BOOLEAN]
  /\ heard \in [Tabs -> Nat]
  /\ writes \in 0..MaxWrites /\ others \in 0..MaxOthers
  /\ db # Nothing => Len(db.log) <= LogLimit /\ Len(db.log) <= db.seq
  /\ \A t \in Tabs : /\ Ready(t) => db # Nothing \/ InMemory(t)
                     /\ Ready(t) => snap[t] # Nothing
                     /\ InMemory(t) <=> memory[t] # Nothing

NoOp == [step |-> "idle", reset |-> FALSE, durable |-> FALSE, base |-> Nothing]

Init ==
  /\ db = Nothing
  /\ memory = [t \in Tabs |-> Nothing]
  /\ release = [t \in Tabs |-> Nothing]
  /\ mode = [t \in Tabs |-> "closed"]
  /\ snap = [t \in Tabs |-> Nothing]
  /\ mark = [t \in Tabs |-> [rev |-> 0, epoch |-> 0]]
  /\ inbox = [t \in Tabs |-> {}] /\ hearing = [t \in Tabs |-> Nothing]
  /\ ops = [t \in Tabs |-> [o \in Ops |-> NoOp]]
  /\ notices = [t \in Tabs |-> << >>]
  /\ seen = [t \in Tabs |-> [rev |-> 0, seq |-> 0]]
  /\ stream = [t \in Tabs |-> FALSE] /\ views = [t \in Tabs |-> {}]
  /\ kept = {} /\ heard = [t \in Tabs |-> 0]
  /\ writes = 0 /\ others = 0

-------------------------------------------------------------------------------
(* Snapshots.                                                              *)

(* makeSeedSnapshot of a workspace that did not exist                      *)
Seed(r) == [release |-> r, epoch |-> 0, rev |-> 0, seq |-> 0, log |-> << >>, writes |-> {}]

ReplacementMutant(s, r) ==
  [release |-> r, epoch |-> s.epoch + 1, rev |-> 0, seq |-> s.seq, log |-> << >>, writes |-> {}]

(* makeReplacementSeedSnapshot                                             *)
Replacement(s, r) ==
  [release |-> r, epoch |-> s.epoch + 1, rev |-> s.rev + 1, seq |-> s.seq,
   log |-> << >>, writes |-> {}]

RecentMutant(log) == SubSeq(log, Len(log) - LogLimit, Len(log))

Recent(log) == SubSeq(log, Len(log) - LogLimit + 1, Len(log))

(* What the transaction of mutate makes of the stored snapshot: write w,   *)
(* with or without an event in the log.                                    *)
Mutated(s, w, event) ==
  LET log == IF event THEN Append(s.log, w) ELSE s.log
  IN [s EXCEPT !.rev = @ + 1,
               !.seq = IF event THEN @ + 1 ELSE @,
               !.log = IF Len(log) > LogLimit THEN Recent(log) ELSE log,
               !.writes = @ \cup {w}]

(* workspaceUpgrade and classifyDemoSeedVersion                            *)
Newer(s, t) == s.release > release[t]

Stored(t) == IF InMemory(t) THEN memory[t] ELSE db

Watermark(s) == [rev |-> s.rev, epoch |-> s.epoch]
NoticeOf(kind, s) == [kind |-> kind, rev |-> s.rev, epoch |-> s.epoch, seq |-> s.seq]

(* publishLocal posts to the tabs that listen; a tab in memory posts       *)
(* nothing.                                                                *)
Posted(t, n) ==
  LET hearers == IF mode'[t] = "indexeddb"
                 THEN {u \in Tabs \ {t} : mode[u] = "indexeddb"} ELSE {}
  IN /\ inbox' = [u \in Tabs |-> IF u \in hearers THEN inbox[u] \cup {n} ELSE inbox[u]]
     /\ heard' = [u \in Tabs |-> IF u \in hearers \cup {t} /\ n.rev > heard[u] THEN n.rev ELSE heard[u]]

(* A tab whose transactions were committed in IndexedDB is told so in      *)
(* their order, and before what it reads after them.                       *)
Told(t) == \A o \in Ops : ops[t][o].step # "done"

SetOp(t, o, op) == ops' = [ops EXCEPT ![t] = [@ EXCEPT ![o] = op]]

-------------------------------------------------------------------------------
(* initialize: the workspace is seeded, replaced, migrated or read in one  *)
(* transaction; the channel is installed when the tab is told of it.       *)

Initialized(s, r) ==
  IF s = Nothing THEN Seed(r)
  ELSE IF s.release >= r THEN s
  ELSE IF s.release \in Migrated THEN [s EXCEPT !.release = r, !.rev = @ + 1]
  ELSE Replacement(s, r)

Enter(t, r) ==
  /\ mode[t] = "closed"
  /\ release' = [release EXCEPT ![t] = r]
  /\ db' = Initialized(db, r)
  /\ snap' = [snap EXCEPT ![t] = db']
  /\ mode' = [mode EXCEPT ![t] =
       IF db'.release > r THEN "upgrade"
       ELSE IF db # Nothing /\ db'.epoch > db.epoch THEN "replacing" ELSE "entering"]
  /\ UNCHANGED <<memory, mark, inbox, hearing, ops, adapter, kept, heard, counters>>

(* setReady, and the stream is opened with what the views read first.  A   *)
(* replacement is announced; a migration would be, but the channel is not  *)
(* installed yet.                                                          *)
Entered(t) ==
  /\ mode[t] \in {"entering", "replacing"}
  /\ mode' = [mode EXCEPT ![t] = "indexeddb"]
  /\ mark' = [mark EXCEPT ![t] = Watermark(snap[t])]
  /\ seen' = [seen EXCEPT ![t] = [rev |-> snap[t].rev, seq |-> snap[t].seq]]
  /\ stream' = [stream EXCEPT ![t] = TRUE]
  /\ views' = [views EXCEPT ![t] = snap[t].writes]
  /\ IF mode[t] = "replacing" THEN Posted(t, NoticeOf("reset", snap[t]))
     ELSE heard' = [heard EXCEPT ![t] = snap[t].rev] /\ UNCHANGED inbox
  /\ UNCHANGED <<db, memory, release, snap, hearing, ops, notices, kept, counters>>

-------------------------------------------------------------------------------
(* Memory.  The tab leaves the channel, and goes on with a snapshot it had.*)

LeaveFor(t, s, warning) ==
  /\ mode' = [mode EXCEPT ![t] = warning]
  /\ memory' = [memory EXCEPT ![t] = s]
  /\ snap' = [snap EXCEPT ![t] = s]
  /\ mark' = [mark EXCEPT ![t] = Watermark(s)]
  /\ inbox' = [inbox EXCEPT ![t] = {}]
  /\ heard' = [heard EXCEPT ![t] = 0]

Another == others < MaxOthers /\ others' = others + 1
Fails == Another /\ UNCHANGED writes

(* fallbackFromUnavailable and fallbackFromQuota before the tab was ready, *)
(* with what it could read; a workspace it would migrate is kept as it is. *)
EnterInMemory(t, r) ==
  /\ mode[t] = "closed" /\ Fails
  /\ release' = [release EXCEPT ![t] = r]
  /\ \E known \in {db, Nothing}, warning \in {"full", "memory"} :
       LET s == IF known # Nothing /\ known.release \in Migrated THEN known
                ELSE Initialized(known, r)
       IN /\ s.release <= r
          /\ LeaveFor(t, s, warning)
          /\ seen' = [seen EXCEPT ![t] = [rev |-> s.rev, seq |-> s.seq]]
          /\ views' = [views EXCEPT ![t] = s.writes]
  /\ stream' = [stream EXCEPT ![t] = TRUE]
  /\ UNCHANGED <<db, hearing, ops, notices, kept>>

(* A read fails, of a command or for an announcement: the tab will go on   *)
(* with what it read last.                                                 *)
ReadFails(t, o) ==
  /\ mode[t] = "indexeddb" /\ ops[t][o] = NoOp /\ Fails
  /\ SetOp(t, o, [NoOp EXCEPT !.step = "memory", !.base = snap[t]])
  /\ \E h \in {hearing[t], Nothing} : hearing' = [hearing EXCEPT ![t] = h]
  /\ UNCHANGED <<db, memory, release, mode, snap, mark, inbox, adapter, kept, heard>>

-------------------------------------------------------------------------------
(* mutate and reset.                                                       *)

(* A command that reads the workspace first, by snapshot(), is fenced by   *)
(* the epoch it read.                                                      *)
Ask(t, o) ==
  /\ Ready(t) /\ ops[t][o].step = "idle" /\ Told(t) /\ ~Newer(Stored(t), t)
  /\ snap' = [snap EXCEPT ![t] = Stored(t)]
  /\ SetOp(t, o, [NoOp EXCEPT !.step = "asked", !.base = Stored(t),
                              !.durable = mode[t] = "indexeddb"])
  /\ UNCHANGED <<db, memory, release, mode, mark, inbox, hearing, adapter, kept, heard, counters>>

(* A transaction goes to the store the repository had when it was called,  *)
(* of a fenced command or of a rehearsal or reset, which are not.          *)
Durable(t, op) ==
  \/ Ready(t) /\ op.step = "asked" /\ op.durable
  \/ mode[t] = "indexeddb" /\ op.step = "idle"

TransactedMutant(s, t, op) ==
  {[reset |-> FALSE, next |-> Mutated(snap[t], writes + 1, event)] : event \in BOOLEAN}

(* What a transaction may leave in a store that held s.                    *)
Transacted(s, t, op) ==
  {[reset |-> FALSE, next |-> Mutated(s, writes + 1, event)] : event \in BOOLEAN}
    \cup (IF op.base = Nothing THEN {[reset |-> TRUE, next |-> Replacement(s, release[t])]} ELSE {})

Counted(reset) ==
  IF reset THEN Another /\ UNCHANGED writes
  ELSE writes < MaxWrites /\ writes' = writes + 1 /\ UNCHANGED others

Stale(op, s) == op.base # Nothing /\ s.epoch # op.base.epoch

(* The transaction in IndexedDB.                                           *)
Transact(t, o) ==
  LET op == ops[t][o]
  IN /\ Durable(t, op) /\ Told(t)
     /\ ~Newer(db, t) /\ ~Stale(op, db)
     /\ \E done \in Transacted(db, t, op) :
          /\ Counted(done.reset)
          /\ db' = done.next
          /\ SetOp(t, o, [op EXCEPT !.step = "done", !.reset = done.reset, !.base = done.next])
     /\ UNCHANGED <<memory, repository, adapter, kept, heard>>

(* A stale epoch, a newer workspace, or the mutation itself, throws.       *)
Refuse(t, o) ==
  /\ \/ ops[t][o].step = "asked"
     \/ ops[t][o].step = "newest" /\ Newer(db, t)
  /\ SetOp(t, o, NoOp)
  /\ UNCHANGED <<db, memory, repository, adapter, kept, heard, counters>>

(* throwIfFutureWorkspace, and a read that finds the workspace newer.      *)
UpgradeRequired(t) ==
  /\ mode[t] = "indexeddb" /\ Newer(db, t) /\ Told(t)
  /\ mode' = [mode EXCEPT ![t] = "upgrade"]
  /\ hearing' = [hearing EXCEPT ![t] = Nothing]
  /\ UNCHANGED <<db, memory, release, snap, mark, inbox, ops, adapter, kept, heard, counters>>

(* The local part of a commit: it is adopted and published.                *)
Publish(t, reset, s) ==
  LET n == NoticeOf(IF reset THEN "reset" ELSE "commit", s)
  IN /\ snap' = [snap EXCEPT ![t] = s]
     /\ mark' = [mark EXCEPT ![t] = Watermark(s)]
     /\ notices' = [notices EXCEPT ![t] = Append(@, n)]
     /\ UNCHANGED <<release, mode, hearing, seen, stream, views>>
     /\ Posted(t, n)

(* The caller is told of its write, the last one of the snapshot.          *)
Confirmed(t, reset, s, durable) ==
  kept' = IF reset THEN kept
          ELSE kept \cup {[tab |-> t, write |-> Max(s.writes), epoch |-> s.epoch,
                           durable |-> durable]}

(* The tab is told that its transaction is complete.                       *)
Committed(t, o) ==
  LET op == ops[t][o]
  IN /\ Ready(t) /\ op.step = "done"
     /\ Publish(t, op.reset, op.base)
     /\ SetOp(t, o, NoOp)
     /\ Confirmed(t, op.reset, op.base, TRUE)
     /\ UNCHANGED <<db, memory, counters>>

(* In memory it is complete at once.                                       *)
TransactInMemory(t, o) ==
  LET op == ops[t][o]
  IN /\ InMemory(t) /\ op.step \in {"idle", "asked"} /\ ~Stale(op, memory[t])
     /\ \E done \in Transacted(memory[t], t, op) :
          /\ Counted(done.reset)
          /\ memory' = [memory EXCEPT ![t] = done.next]
          /\ Publish(t, done.reset, done.next)
          /\ Confirmed(t, done.reset, done.next, FALSE)
     /\ SetOp(t, o, NoOp)
     /\ UNCHANGED db

(* handleCommitStorageFailure: for want of space, after which the newest   *)
(* durable snapshot is read, or for any other reason.                      *)
TransactFails(t, o) ==
  /\ Durable(t, ops[t][o]) /\ Told(t) /\ Fails
  /\ \E step \in {"newest", "memory"}, confirmed \in {ops[t][o].base, snap[t]} \ {Nothing} :
       SetOp(t, o, [NoOp EXCEPT !.step = step, !.base = confirmed])
  /\ UNCHANGED <<db, memory, repository, adapter, kept, heard>>

(* readNewestDurableSnapshot: when it fails, the confirmed one has to do.  *)
ReadNewest(t, o) ==
  /\ Ready(t) /\ ops[t][o].step = "newest" /\ Told(t)
  /\ \E newest \in {s \in {Stored(t)} : ~Newer(s, t)} \cup {ops[t][o].base} :
       SetOp(t, o, [ops[t][o] EXCEPT !.step = "full", !.base = newest])
  /\ UNCHANGED <<db, memory, repository, adapter, kept, heard, counters>>

(* switchToMemory, when the blobs have been read: the caller is warned.    *)
SwitchToMemory(t, o) ==
  /\ Ready(t) \/ mode[t] = "upgrade"
  /\ ops[t][o].step \in {"full", "memory"} /\ Told(t)
  /\ LeaveFor(t, ops[t][o].base, ops[t][o].step)
  /\ SetOp(t, o, NoOp)
  /\ UNCHANGED <<db, release, hearing, adapter, kept, counters>>

-------------------------------------------------------------------------------
(* Announcements of other tabs, one at a time.                             *)

(* What handleExternalNotification ignores before it reads.                *)
Old(t, n) ==
  \/ n.epoch < mark[t].epoch
  \/ n.epoch = mark[t].epoch /\ n.rev <= mark[t].rev

Hear(t, n) ==
  /\ mode[t] = "indexeddb" /\ n \in inbox[t] /\ hearing[t] = Nothing
  /\ inbox' = [inbox EXCEPT ![t] = @ \ {n}]
  /\ hearing' = [hearing EXCEPT ![t] =
       IF Old(t, n) THEN Nothing
       ELSE [note |-> n, reset |-> n.epoch > mark[t].epoch,
             gap |-> n.epoch = mark[t].epoch /\ n.rev # mark[t].rev + 1]]
  /\ UNCHANGED <<db, memory, release, mode, snap, mark, ops, adapter, kept, heard, counters>>

(* What the listeners are told when the snapshot has been read again.      *)
NoticeFor(h, s) ==
  LET n == h.note
  IN IF s.epoch > n.epoch THEN NoticeOf("reset", s)
     ELSE IF s.rev > n.rev \/ s.seq > n.seq THEN NoticeOf("resync", s)
     ELSE [n EXCEPT !.kind = IF h.reset \/ n.kind = "reset" THEN "reset"
                             ELSE IF h.gap THEN "resync" ELSE "commit"]

(* The snapshot is adopted; the watermark moves, and the stream is told,   *)
(* unless the snapshot is behind the announcement.                         *)
Reread(t) ==
  LET h == hearing[t]
      behind == db.epoch < h.note.epoch \/ db.rev < h.note.rev
  IN /\ h # Nothing /\ Ready(t) /\ Told(t) /\ ~Newer(db, t)
     /\ hearing' = [hearing EXCEPT ![t] = Nothing]
     /\ snap' = [snap EXCEPT ![t] = db]
     /\ IF behind THEN UNCHANGED <<mark, notices>>
        ELSE LET n == NoticeFor(h, db)
             IN /\ mark' = [mark EXCEPT ![t] = [rev |-> n.rev, epoch |-> n.epoch]]
                /\ notices' = [notices EXCEPT ![t] = Append(@, n)]
     /\ UNCHANGED <<db, memory, release, mode, inbox, ops, seen, stream, views, kept, heard, counters>>

-------------------------------------------------------------------------------
(* The stream of a tab: handleNotification, one notice after another.      *)

(* cycleConnection, on which all views are read again.                     *)
Cycled(t) ==
  /\ stream' = [stream EXCEPT ![t] = TRUE]
  /\ views' = [views EXCEPT ![t] = snap'[t].writes]

(* readEventsForNotification: the events after `after`, if the log still   *)
(* has them all.                                                           *)
Held(s, n, after) == s.epoch = n.epoch /\ s.seq - Len(s.log) <= after /\ n.seq <= s.seq

Events(s, n, after) ==
  LET first == s.seq - Len(s.log)
  IN {s.log[i] : i \in (after - first + 1)..(n.seq - first)}

Successive(t, n) == n.kind = "commit" /\ n.rev = seen[t].rev + 1
AdjacentMutant(t, n) == n.kind = "commit" /\ n.seq > seen[t].seq
Adjacent(t, n) == Successive(t, n) /\ n.seq > seen[t].seq

(* Without events of its own, a commit leaves the sequence alone.          *)
Delivered(t, n) ==
  seen' = [seen EXCEPT ![t] =
    [rev |-> n.rev, seq |-> IF Successive(t, n) /\ ~Adjacent(t, n) THEN @.seq ELSE n.seq]]

(* A commit that was delivered before.                                     *)
Repeated(t, n) == n.kind = "commit" /\ n.rev <= seen[t].rev

Drain(t) ==
  /\ Ready(t) /\ notices[t] # << >>
  /\ notices' = [notices EXCEPT ![t] = Tail(@)]
  /\ LET n == Head(notices[t]) IN
     IF Repeated(t, n) THEN UNCHANGED <<snap, seen, stream, views>>
     ELSE /\ Delivered(t, n)
          /\ IF Adjacent(t, n)
             THEN /\ Told(t) /\ ~Newer(Stored(t), t)
                  /\ snap' = [snap EXCEPT ![t] = Stored(t)]
                  /\ IF Held(Stored(t), n, seen[t].seq)
                     THEN /\ views' = [views EXCEPT ![t] =
                                        @ \cup Events(Stored(t), n, seen[t].seq)]
                          /\ UNCHANGED stream
                     ELSE Cycled(t)
             ELSE UNCHANGED snap /\ Cycled(t)
  /\ UNCHANGED <<db, memory, release, mode, mark, inbox, hearing, ops, kept, heard, counters>>

(* The read fails: the stream is closed until a later notice opens it.     *)
DrainFails(t) ==
  /\ mode[t] = "indexeddb" /\ notices[t] # << >> /\ Adjacent(t, Head(notices[t]))
  /\ Fails
  /\ notices' = [notices EXCEPT ![t] = Tail(@)]
  /\ stream' = [stream EXCEPT ![t] = FALSE]
  /\ UNCHANGED <<db, memory, repository, ops, seen, views, kept, heard>>

(* The tab is closed, reloaded or crashes.                                 *)
Dies(t) ==
  /\ mode[t] # "closed" /\ Another
  /\ mode' = [mode EXCEPT ![t] = "closed"] /\ release' = [release EXCEPT ![t] = Nothing]
  /\ memory' = [memory EXCEPT ![t] = Nothing] /\ snap' = [snap EXCEPT ![t] = Nothing]
  /\ mark' = [mark EXCEPT ![t] = [rev |-> 0, epoch |-> 0]]
  /\ inbox' = [inbox EXCEPT ![t] = {}] /\ hearing' = [hearing EXCEPT ![t] = Nothing]
  /\ ops' = [ops EXCEPT ![t] = [o \in Ops |-> NoOp]]
  /\ notices' = [notices EXCEPT ![t] = << >>]
  /\ seen' = [seen EXCEPT ![t] = [rev |-> 0, seq |-> 0]]
  /\ stream' = [stream EXCEPT ![t] = FALSE] /\ views' = [views EXCEPT ![t] = {}]
  /\ heard' = [heard EXCEPT ![t] = 0]
  /\ kept' = {IF k.tab = t THEN [k EXCEPT !.tab = Nothing] ELSE k :
                k \in {k \in kept : k.tab = t => k.durable}}
  /\ UNCHANGED <<db, writes>>

-------------------------------------------------------------------------------
TabStep(t) ==
  \/ \E r \in Releases : Enter(t, r) \/ EnterInMemory(t, r)
  \/ Entered(t) \/ UpgradeRequired(t)
  \/ Reread(t) \/ Drain(t) \/ DrainFails(t) \/ Dies(t)
  \/ \E n \in inbox[t] : Hear(t, n)

OpStep(t, o) ==
  \/ Ask(t, o) \/ Transact(t, o) \/ Refuse(t, o) \/ Committed(t, o)
  \/ TransactInMemory(t, o) \/ TransactFails(t, o) \/ ReadFails(t, o) \/ ReadNewest(t, o) \/ SwitchToMemory(t, o)

Next == \E t \in Tabs : TabStep(t) \/ \E o \in Ops : OpStep(t, o)

Spec == Init /\ [][Next]_vars

-------------------------------------------------------------------------------
(* Properties.                                                             *)

(* Nothing is pending in a tab of what it has done and been sent.          *)
Quiet(t) ==
  /\ inbox[t] = {} /\ hearing[t] = Nothing /\ notices[t] = << >>
  /\ \A o \in Ops : ops[t][o].step \in {"idle", "asked"}

(* A tab that has heard of the newest commit shows all of them: also those *)
(* whose announcements were overtaken, were never made, or whose events    *)
(* have left the log, and nothing from before a reset.  Its stream must be *)
(* open: after events that could not be read it is closed until the next   *)
(* notice, and the tab may be behind until then.                           *)
Coherent ==
  \A t \in Tabs :
    mode[t] = "indexeddb" /\ Quiet(t) /\ stream[t] /\ heard[t] = db.rev
      => views[t] = db.writes

(* A write that was confirmed to any tab stays in the workspace until a    *)
(* reset, whatever the other tabs commit from what they last read.         *)
NothingLost ==
  \A k \in kept : k.durable /\ k.epoch = db.epoch => k.write \in db.writes

(* A tab on IndexedDB never goes back: not in what it shows as the         *)
(* workspace, nor in what its stream has delivered.                        *)
NeverGoesBack ==
  [][\A t \in Tabs : mode[t] = "indexeddb" /\ mode'[t] = "indexeddb" =>
       snap'[t].rev >= snap[t].rev /\ seen'[t].rev >= seen[t].rev
       /\ mark'[t].rev >= mark[t].rev]_vars

(* src/apps/web/src/demo/workspace/contracts.ts:123: "Browser storage is   *)
(* full; this tab preserved the last confirmed demo state in memory only." *)
(* A tab that goes on in memory for want of space has every write that was *)
(* confirmed to it since the last reset.                                   *)
PreservesConfirmed ==
  \A t \in Tabs : mode[t] = "full" =>
    \A k \in kept : k.tab = t /\ k.epoch = memory[t].epoch => k.write \in memory[t].writes

=============================================================================
