----------------------------- MODULE OptimisticCache -----------------------------
(***************************************************************************)
(* The web application's cache of server reads, with the edits it shows    *)
(* before the server has confirmed them: createOptimisticMutation.ts over  *)
(* the query cache of TanStack Query.  Reads are in flight while edits are *)
(* published, confirmed, refused or lost, and the committed events of      *)
(* everybody's writes arrive in any order between these steps.             *)
(*                                                                         *)
(* What a query shows is the sequence of the writes it includes, ordered   *)
(* by who wrote last: a patch is a pure function of what it is applied to, *)
(* and nothing more is known of it.                                        *)
(*                                                                         *)
(* A definition whose name ends in "Mutant" is not part of the             *)
(* specification: it is the named definition with one plausible bug.       *)
(***************************************************************************)
EXTENDS Naturals, Sequences, SequencesExt

CONSTANTS
  Queries,
  Mutations,   \* calls of mutate() of this tab, each with a write of its own
  Others,      \* writes of anyone else
  Affects,     \* the queries of which a write changes the content
  Targets,     \* optimisticUpdates: the queries a mutation patches
  Settles,     \* settle: the queries a mutation reconciles when it ends
  Answers,     \* the queries in which its answer is merged
  Relevant,    \* mutations with isRelevant: they leave an unread query alone
  Declining,   \* mutations whose caller's onError may decline the rollback
  Fenced,      \* queries whose reads are fenced by retainLaterQueryPublication
  Watched      \* queries some mounted component always observes

Writes == Mutations \cup Others

(* Every caller of the source settles what it patches or merges into, and  *)
(* patches what its write is about.                                        *)
ASSUME OptimisticCacheAssumption ==
  /\ Mutations \cap Others = {}
  /\ Affects \in [Writes -> SUBSET Queries]
  /\ {Targets, Settles, Answers} \subseteq [Mutations -> SUBSET Queries]
  /\ \A m \in Mutations : Targets[m] \cup Answers[m] \subseteq Settles[m] \cap Affects[m]
  /\ Relevant \subseteq Mutations /\ Declining \subseteq Mutations
  /\ Fenced \subseteq Queries /\ Watched \subseteq Queries

VARIABLES
  server,   \* the writes the server has committed, in their order
  events,   \* committed events the stream has not handed to this tab
  cache,    \* the query cache and the ownership ledger of each query
  stage,    \* where the lifecycle of each mutation is
  request   \* what has become of its request at the server

vars == <<server, events, cache, stage, request>>

Metadata == [failed : BOOLEAN, invalidated : BOOLEAN]
Entry == [op : Mutations, settled : BOOLEAN]

(* `loaded` is data # undefined, `failed` is status = "error".  The query  *)
(* is owned while `entries` is not empty.  `overtaken`: something has been *)
(* published since the read began; `again`: a reconciliation waits for it; *)
(* `revert`: what cancelling it restores.                                  *)
Query == [loaded : BOOLEAN, data : Seq(Writes), failed : BOOLEAN,
          invalidated : BOOLEAN, observed : BOOLEAN,
          read : {"none", "started", "answered"}, sample : Seq(Writes),
          overtaken : BOOLEAN, again : BOOLEAN, revert : Metadata,
          baseline : Seq(Writes), entries : Seq(Entry), deferred : BOOLEAN,
          snapshots : SUBSET Mutations]

Pending(c) == \E i \in DOMAIN c.entries : ~c.entries[i].settled
Owns(c, m) == \E i \in DOMAIN c.entries : c.entries[i].op = m

(* Type correctness.  An ownership lasts only while some edit of it has    *)
(* not settled, and an invalidation is deferred only by an ownership.      *)
TypeOK ==
  /\ server \in Seq(Writes)
  /\ events \subseteq Writes
  /\ cache \in [Queries -> Query]
  /\ \A q \in Queries : cache[q].entries # << >> \/ cache[q].deferred => Pending(cache[q])
  /\ stage \in [Mutations -> {"idle", "starting", "sent", "succeeded", "failed", "over"}]
  /\ request \in [Mutations -> {"none", "pending", "committed", "refused"}]

Fine == [failed |-> FALSE, invalidated |-> FALSE]

Blank == [loaded |-> FALSE, data |-> << >>, failed |-> FALSE, invalidated |-> FALSE,
          observed |-> FALSE, read |-> "none", sample |-> << >>, overtaken |-> FALSE,
          again |-> FALSE, revert |-> Fine, baseline |-> << >>, entries |-> << >>,
          deferred |-> FALSE, snapshots |-> {}]

(* The elements of s that are in S, in their order.                        *)
Kept(s, S) ==
  LET upto[i \in 0..Len(s)] ==
        IF i = 0 THEN << >> ELSE IF s[i] \in S THEN Append(upto[i - 1], s[i]) ELSE upto[i - 1]
  IN upto[Len(s)]

Canonical(q) == Kept(server, {w \in Writes : q \in Affects[w]})

-------------------------------------------------------------------------------
(* The query cache itself, which is outside of the repository.             *)

StartedRead(c) ==
  [c EXCEPT !.read = "started", !.sample = << >>, !.overtaken = FALSE, !.again = FALSE,
            !.revert = [failed |-> c.failed, invalidated |-> c.invalidated]]

EndedRead(c) ==
  [c EXCEPT !.read = "none", !.sample = << >>, !.overtaken = FALSE, !.again = FALSE,
            !.revert = Fine]

(* invalidateQueries: an observed query is read again.  A read in flight   *)
(* is dropped for it, but the first read of a query is joined.             *)
Refetched(c) ==
  LET marked == [c EXCEPT !.invalidated = TRUE]
  IN IF c.observed /\ (c.loaded \/ c.read = "none") THEN StartedRead(marked) ELSE marked

-------------------------------------------------------------------------------
(* Ownership: the edits a query shows, over what it showed before them.    *)

ApplyPatch(data, w) == Append(Kept(data, Writes \ {w}), w)

Replay(entries, baseline) ==
  LET upto[i \in 0..Len(entries)] ==
        IF i = 0 THEN baseline ELSE ApplyPatch(upto[i - 1], entries[i].op)
  IN upto[Len(entries)]

Without(entries, m) == Kept(entries, {e \in Entry : e.op # m})

Released(c) == [c EXCEPT !.baseline = << >>, !.entries = << >>, !.deferred = FALSE]

(* release(ownership, true) *)
Reconciled(c) == IF c.deferred THEN Refetched(Released(c)) ELSE Released(c)

ReleaseIfSettledMutant(c) == Reconciled(c)

ReleaseIfSettled(c) == IF Pending(c) THEN c ELSE Reconciled(c)

(* publish: a local write looks to the cache like a successful read.  The  *)
(* status a failed refresh left, and the mark of a deferred invalidation,  *)
(* are put back.  Nothing is written into a query that was never read.     *)
Publish(c, data) ==
  IF ~c.loaded THEN [c EXCEPT !.invalidated = @ \/ c.deferred]
  ELSE [c EXCEPT !.data = data,
                 !.invalidated = (c.failed /\ c.invalidated) \/ c.deferred,
                 !.overtaken = c.read # "none",
                 !.revert = Fine]

(* applyPartialQueryPatch: what is known of one write, kept in order with  *)
(* the edits that are pending.                                             *)
ApplyPartialQueryPatch(c, m) ==
  IF ~c.loaded THEN c
  ELSE Publish([c EXCEPT !.entries = IF c.entries = << >> THEN << >>
                                     ELSE Append(@, [op |-> m, settled |-> TRUE])],
               ApplyPatch(c.data, m))

InvalidateJoinsMutant(c) ==
  IF Pending(c) THEN [c EXCEPT !.invalidated = TRUE, !.deferred = TRUE] ELSE Refetched(c)

(* invalidateQueriesWithOptimisticOwnership *)
Invalidate(c) ==
  LET told == [c EXCEPT !.again = @ \/ (~c.loaded /\ c.read # "none")]
  IN IF Pending(c) THEN [told EXCEPT !.invalidated = TRUE, !.deferred = TRUE]
     ELSE Refetched(told)

(* The follow-up of a first read that was in flight at a reconciliation.   *)
AfterRead(c, ended) == IF c.again THEN Invalidate(ended) ELSE ended

(* cancelQueriesWithOptimisticOwnership: the read's saved state comes back,*)
(* but not a success that a local write saved over a failed refresh.       *)
CancelQuery(c) ==
  LET kept == IF c.loaded /\ c.failed /\ ~c.revert.failed
              THEN [failed |-> TRUE, invalidated |-> c.invalidated] ELSE c.revert
  IN IF c.read = "none" THEN c
     ELSE AfterRead(c, [EndedRead(c) EXCEPT !.failed = kept.failed,
                                            !.invalidated = kept.invalidated])

(* The patch of onMutate, which takes ownership of the query.              *)
Patch(c, m) ==
  Publish([c EXCEPT !.baseline = IF c.entries = << >> THEN c.data ELSE @,
                    !.entries = Append(@, [op |-> m, settled |-> FALSE])],
          IF c.loaded THEN ApplyPatch(c.data, m) ELSE << >>)

RollbackMissesMutant(c, m) ==
  IF ~Owns(c, m) THEN c
  ELSE ReleaseIfSettled(
         Publish([c EXCEPT !.entries = Without(@, m)], c.data))

(* rollback: the other edits are replayed over what the query showed       *)
(* before any of them.                                                     *)
Rollback(c, m) ==
  LET retained == Without(c.entries, m)
  IN IF ~Owns(c, m) THEN c
     ELSE ReleaseIfSettled(Publish([c EXCEPT !.entries = retained],
                                   IF c.loaded THEN Replay(retained, c.baseline) ELSE << >>))

SettleKeepsMutant(c, m) ==
  [c EXCEPT !.entries = [i \in DOMAIN @ |->
                           IF @[i].op = m THEN [@[i] EXCEPT !.settled = TRUE] ELSE @[i]]]

(* onSettled, of an operation that was confirmed or rolled back.           *)
Settle(c, m) ==
  IF ~Owns(c, m) THEN c
  ELSE ReleaseIfSettled(
         [c EXCEPT !.entries = [i \in DOMAIN @ |->
                                  IF @[i].op = m THEN [@[i] EXCEPT !.settled = TRUE] ELSE @[i]]])

(* A read succeeds.  It takes the query from every pending edit, unless    *)
(* its fence found that something was published after it began.            *)
CommitRead(c, fenced) ==
  LET ended == EndedRead(c)
  IN AfterRead(c,
       IF fenced /\ c.overtaken /\ c.loaded
       THEN [ended EXCEPT !.invalidated = c.failed /\ c.invalidated]
       ELSE Released([ended EXCEPT !.loaded = TRUE, !.data = c.sample, !.failed = FALSE,
                                   !.invalidated = FALSE, !.snapshots = {}]))

FailRead(c) == AfterRead(c, [EndedRead(c) EXCEPT !.failed = TRUE, !.invalidated = TRUE])

-------------------------------------------------------------------------------
(* The page: components come and go, and read what they find stale.        *)

(* A query has been read before, or its first read begins with its         *)
(* component.                                                              *)
Init ==
  /\ server = << >>
  /\ events = {}
  /\ cache \in [Queries -> {[Blank EXCEPT !.loaded = TRUE, !.observed = TRUE],
                            StartedRead([Blank EXCEPT !.observed = TRUE])}]
  /\ stage = [m \in Mutations |-> "idle"]
  /\ request = [m \in Mutations |-> "none"]

(* On focus, reconnection, navigation or a component's own request.        *)
StartRead(q) ==
  /\ cache[q].read = "none"
  /\ cache' = [cache EXCEPT ![q] = StartedRead(@)]
  /\ UNCHANGED <<server, events, stage, request>>

AnswerRead(q) ==
  /\ cache[q].read = "started"
  /\ cache' = [cache EXCEPT ![q] = [@ EXCEPT !.read = "answered", !.sample = Canonical(q)]]
  /\ UNCHANGED <<server, events, stage, request>>

ReadSucceeds(q) ==
  /\ cache[q].read = "answered"
  /\ cache' = [cache EXCEPT ![q] = CommitRead(@, q \in Fenced)]
  /\ UNCHANGED <<server, events, stage, request>>

ReadFails(q) ==
  /\ cache[q].read # "none"
  /\ cache' = [cache EXCEPT ![q] = FailRead(@)]
  /\ UNCHANGED <<server, events, stage, request>>

Mount(q) ==
  /\ ~cache[q].observed
  /\ LET seen == [cache[q] EXCEPT !.observed = TRUE]
     IN cache' = [cache EXCEPT ![q] =
                    IF seen.read = "none" /\ (~seen.loaded \/ seen.invalidated)
                    THEN StartedRead(seen) ELSE seen]
  /\ UNCHANGED <<server, events, stage, request>>

Unmount(q) ==
  /\ q \notin Watched
  /\ cache[q].observed
  /\ cache' = [cache EXCEPT ![q].observed = FALSE]
  /\ UNCHANGED <<server, events, stage, request>>

(* The cache drops a query nobody has observed for a while.                *)
Removed(q) ==
  /\ ~cache[q].observed
  /\ cache[q].read = "none"
  /\ cache[q] # Blank
  /\ cache' = [cache EXCEPT ![q] = Blank]
  /\ UNCHANGED <<server, events, stage, request>>

-------------------------------------------------------------------------------
(* The lifecycle of a mutation.                                            *)

Concerns(m, q) == q \in Targets[m] /\ (m \in Relevant => cache[q].loaded)

(* onMutate up to its await: reads in flight are cancelled.                *)
Begin(m) ==
  /\ stage[m] = "idle"
  /\ stage' = [stage EXCEPT ![m] = "starting"]
  /\ cache' = [q \in Queries |->
       LET c == IF q \in Answers[m] \ Targets[m]
                THEN [cache[q] EXCEPT !.snapshots = @ \cup {m}] ELSE cache[q]
       IN IF Concerns(m, q) THEN CancelQuery(c) ELSE c]
  /\ UNCHANGED <<server, events, request>>

(* The rest of onMutate; the request goes out.                             *)
PublishPatches(m) ==
  /\ stage[m] = "starting"
  /\ cache' = [q \in Queries |-> IF Concerns(m, q) THEN Patch(cache[q], m) ELSE cache[q]]
  /\ stage' = [stage EXCEPT ![m] = "sent"]
  /\ request' = [request EXCEPT ![m] = "pending"]
  /\ UNCHANGED <<server, events>>

(* A patch throws: the queries patched before it are rolled back.          *)
PatchThrows(m) ==
  /\ stage[m] = "starting"
  /\ \E patched \in SUBSET {q \in Queries : Concerns(m, q)} :
       cache' = [q \in Queries |->
                   IF q \in patched THEN Rollback(Patch(cache[q], m), m) ELSE cache[q]]
  /\ stage' = [stage EXCEPT ![m] = "failed"]
  /\ UNCHANGED <<server, events, request>>

CommitWrite(m) ==
  /\ request[m] = "pending"
  /\ request' = [request EXCEPT ![m] = "committed"]
  /\ server' = Append(server, m)
  /\ events' = events \cup {m}
  /\ UNCHANGED <<cache, stage>>

RefuseWrite(m) ==
  /\ request[m] = "pending"
  /\ request' = [request EXCEPT ![m] = "refused"]
  /\ UNCHANGED <<server, events, cache, stage>>

(* onSuccess: the answer is merged where nothing newer was published since *)
(* the mutation began, or in place of the row it added itself.             *)
Succeed(m) ==
  /\ stage[m] = "sent"
  /\ request[m] = "committed"
  /\ stage' = [stage EXCEPT ![m] = "succeeded"]
  /\ cache' = [q \in Queries |->
       IF q \in Answers[m] /\ (m \in cache[q].snapshots \/ Owns(cache[q], m))
       THEN ApplyPartialQueryPatch(cache[q], m) ELSE cache[q]]
  /\ UNCHANGED <<server, events, request>>

(* onError.  The request was refused, its answer was lost, or the client   *)
(* gave up on it before the server had decided.  A caller may decline the  *)
(* rollback when a later edit is on top of its own.                        *)
Fail(m) ==
  /\ stage[m] = "sent"
  /\ stage' = [stage EXCEPT ![m] = "failed"]
  /\ cache' = [q \in Queries |->
       IF m \in Declining /\ cache[q].loaded /\ ~(cache[q].data # << >> /\ Last(cache[q].data) = m)
       THEN cache[q] ELSE Rollback(cache[q], m)]
  /\ UNCHANGED <<server, events, request>>

SettledMutant(m, q) ==
  IF stage[m] = "failed" /\ Owns(cache[q], m) THEN Released(cache[q])
  ELSE [Settle(cache[q], m) EXCEPT !.snapshots = @ \ {m}]

(* What onSettled makes of a query: a rollback that was declined gives the *)
(* ledger up; then the affected reads are reconciled.                      *)
Settled(m, q) ==
  LET c == [cache[q] EXCEPT !.snapshots = @ \ {m}]
      left == IF stage[m] = "failed" /\ Owns(c, m) THEN Released(c) ELSE Settle(c, m)
  IN IF q \in Settles[m] THEN Invalidate(left) ELSE left

End(m) ==
  /\ stage[m] \in {"succeeded", "failed"}
  /\ stage' = [stage EXCEPT ![m] = "over"]
  /\ cache' = [q \in Queries |-> Settled(m, q)]
  /\ UNCHANGED <<server, events, request>>

-------------------------------------------------------------------------------
(* Everybody's writes, and the stream of committed events.                 *)

OtherWrite(w) ==
  /\ \A i \in DOMAIN server : server[i] # w
  /\ server' = Append(server, w)
  /\ events' = events \cup {w}
  /\ UNCHANGED <<cache, stage, request>>

(* The handlers of the event's features invalidate the reads it changes.   *)
DeliverEvent(w) ==
  /\ w \in events
  /\ events' = events \ {w}
  /\ cache' = [q \in Queries |-> IF q \in Affects[w] THEN Invalidate(cache[q]) ELSE cache[q]]
  /\ UNCHANGED <<server, stage, request>>

(* The stream reopens, or a frame of it cannot be read: what was missed is *)
(* unknown, so that everything is reconciled.                              *)
Reconcile ==
  /\ events' = {}
  /\ cache' = [q \in Queries |-> Invalidate(cache[q])]
  /\ UNCHANGED <<server, stage, request>>

-------------------------------------------------------------------------------
ReadStep(q) ==
  \/ StartRead(q) \/ AnswerRead(q) \/ ReadSucceeds(q) \/ ReadFails(q)
  \/ Mount(q) \/ Unmount(q) \/ Removed(q)

MutationStep(m) ==
  \/ Begin(m) \/ PublishPatches(m) \/ PatchThrows(m) \/ Succeed(m) \/ Fail(m) \/ End(m)
  \/ CommitWrite(m) \/ RefuseWrite(m)

Next ==
  \/ \E q \in Queries : ReadStep(q)
  \/ \E m \in Mutations : MutationStep(m)
  \/ \E w \in Others : OtherWrite(w)
  \/ \E w \in Writes : DeliverEvent(w)
  \/ Reconcile

Spec == Init /\ [][Next]_vars

(* Reads and requests end, by a failure at the latest; what has begun in   *)
(* the page is finished, and the stream delivers what it holds.            *)
Fairness ==
  /\ \A q \in Queries : WF_vars(AnswerRead(q)) /\ WF_vars(ReadSucceeds(q) \/ ReadFails(q))
  /\ \A m \in Mutations : /\ WF_vars(PublishPatches(m) \/ PatchThrows(m))
                          /\ WF_vars(Succeed(m) \/ Fail(m))
                          /\ WF_vars(CommitWrite(m) \/ RefuseWrite(m))
                          /\ WF_vars(End(m))
  /\ \A w \in Writes : WF_vars(DeliverEvent(w))

FairSpec == Spec /\ Fairness

-------------------------------------------------------------------------------
(* Properties.                                                             *)

Running(m) == stage[m] \notin {"idle", "over"}

(* What a query shows is always explained by its ledger: the edits that    *)
(* own it, replayed over what it showed before the first of them.          *)
LedgerExplains ==
  \A q \in Queries :
    cache[q].entries # << >> /\ cache[q].loaded =>
      cache[q].data = Replay(cache[q].entries, cache[q].baseline)

(* A refused write leaves nothing behind: once its mutation is over, no    *)
(* query shows it, whatever edits, reads and events came between.          *)
RefusedLeavesNothing ==
  \A m \in Mutations, q \in Queries :
    /\ stage[m] = "over" /\ request[m] = "refused"
    /\ \A d \in Declining : q \notin Targets[d]
    => \A i \in DOMAIN cache[q].data : cache[q].data[i] # m

(* The ledger is true: it explains what is shown, and what it took back is *)
(* not shown any more.                                                     *)
LedgerHolds == LedgerExplains /\ RefusedLeavesNothing

Explained(q) ==
  \/ ~cache[q].loaded
  \/ cache[q].data = Canonical(q)
  \/ cache[q].invalidated
  \/ cache[q].read # "none"
  \/ \E m \in Mutations : Running(m) /\ q \in Settles[m]
  \/ \E w \in events : q \in Affects[w]

(* Nothing stale is shown as current: a query that differs from the server *)
(* is marked, being read, or about to be reconciled by a running mutation  *)
(* or an undelivered event.  Of the queries a component always observes.   *)
Coherent == \A q \in Watched : Explained(q)

(* src/docs/architecture/frontend/realtime.md:15 and 19: reconciliation    *)
(* includes "reads that were already in flight" and "must not leave stale  *)
(* data presented as current".  Of every query.                            *)
NothingStaleAsCurrent == \A q \in Queries : Explained(q)

(* In the end the page shows the server's content, or that its refresh     *)
(* failed.                                                                 *)
Converges ==
  \A q \in Watched : <>[](cache[q].failed \/ (cache[q].loaded /\ cache[q].data = Canonical(q)))

=============================================================================
