------------------------------ MODULE CaptureQueue ------------------------------
(***************************************************************************)
(* The captures of the browser extension: its durable queue (queue.ts),    *)
(* the flushes that post it (local-api.ts), and the idempotent ingest of   *)
(* JobCtrl (extension_transport.py, the receipt of features/jobs).  The    *)
(* service worker and the server die at any step, requests are lost or     *)
(* answered after their sender has given up, a lease runs out while its    *)
(* importer works on, and the extension is paired again in between.        *)
(*                                                                         *)
(* A definition whose name ends in "Mutant" is not part of the             *)
(* specification: it is the named definition with one plausible bug.       *)
(***************************************************************************)
EXTENDS Naturals, Sequences, FiniteSets, SequencesExt

CONSTANTS
  Captures,     \* pages the user may capture, by the id of their queue item
  Legacy,       \* those in the queue of a version that stored no captureId
  MaxQueue,     \* MAX_CAPTURE_QUEUE_SIZE
  MaxTokens,    \* bound: pairing tokens issued
  MaxForms,     \* bound: ways versions of the extension serialise a capture
  MaxSends,     \* bound: requests sent
  MaxWaiting    \* bound: flushes chained behind the running one

ASSUME CaptureQueueAssumption ==
  /\ IsFiniteSet(Captures) /\ Legacy \subseteq Captures
  /\ MaxQueue \in Nat \ {0} /\ Cardinality(Legacy) <= MaxQueue
  /\ {MaxTokens, MaxForms, MaxSends, MaxWaiting} \subseteq Nat \ {0}

Tokens == 1..MaxTokens
Forms == 1..MaxForms
Sends == 1..MaxSends

(* A captureId: the n-th minted for a capture.                             *)
Keys == Captures \X (1..MaxSends)

VARIABLES
  queue,      \* the stored queue, by queuedAt
  minted,     \* captureIds made for each capture
  taken,      \* captures an acknowledgement has let go
  discarded,  \* captures the user has discarded
  held,       \* the token the extension holds
  form,       \* how the installed extension serialises a capture
  flush,      \* the running flush
  waiting,    \* the tokens of the flushes chained behind it
  sends,      \* the requests, each with the handler that serves it
  receipts,   \* extension_capture_receipts
  written,    \* captureIds with a receipt in jobs_observations
  imports,    \* how often the posting of each capture was written
  pairing     \* the token JobCtrl accepts

client == <<queue, minted, taken, discarded, held, form, flush, waiting>>
server == <<receipts, written, imports, pairing>>
vars == <<client, sends, server>>

(* `n` = 0: no captureId is stored.                                        *)
Item == [id : Captures, n : 0..MaxSends, superseded : BOOLEAN]

(* `passed`: the items of its snapshot the loop is done with.              *)
Flush == [phase : {"idle", "starting", "running", "sending"}, token : 0..MaxTokens,
          todo : Seq(Captures), passed : SUBSET Captures]

(* `at` is where its handler is, and `answer` the response, until the      *)
(* extension reads it.                                                     *)
Send == [key : Keys, token : Tokens, form : Forms,
         at : {"sent", "claimed", "imported", "done"},
         answer : {"none", "acknowledged", "superseded", "error"}]

Receipt == [state : {"none", "importing", "accepted", "failed"},
            owner : 0..MaxSends, form : 0..MaxForms, leased : BOOLEAN]

Held == {queue[i].id : i \in DOMAIN queue}

(* Type correctness.  Item ids are unique, and no flush is chained behind  *)
(* one with the same token.                                                *)
TypeOK ==
  /\ queue \in Seq(Item) /\ Len(queue) <= MaxQueue
  /\ \A i, j \in DOMAIN queue : queue[i].id = queue[j].id => i = j
  /\ minted \in [Captures -> 0..MaxSends]
  /\ taken \subseteq Captures /\ discarded \subseteq Captures
  /\ held \in Tokens /\ form \in Forms
  /\ flush \in Flush
  /\ flush.phase = "sending" => sends # << >> /\ flush.todo # << >>
  /\ waiting \in Seq(Tokens) /\ Len(waiting) <= MaxWaiting
  /\ \A i \in DOMAIN waiting : waiting[i] # (<<flush.token>> \o waiting)[i]
  /\ sends \in Seq(Send) /\ Len(sends) <= MaxSends
  /\ receipts \in [Keys -> Receipt]
  /\ written \subseteq Keys
  /\ imports \in [Captures -> Nat]
  /\ pairing \in Tokens

-------------------------------------------------------------------------------
(* The queue.  Each operation reads and rewrites it under withQueueLock.   *)

Idle == [phase |-> "idle", token |-> 0, todo |-> << >>, passed |-> {}]
Starting(t) == [phase |-> "starting", token |-> t, todo |-> << >>, passed |-> {}]

Init ==
  /\ queue \in {[i \in 1..Cardinality(Legacy) |->
                   [id |-> s[i], n |-> 0, superseded |-> FALSE]] : s \in SetToSeqs(Legacy)}
  /\ minted = [c \in Captures |-> 0]
  /\ taken = {} /\ discarded = {}
  /\ held = 1 /\ pairing = 1 /\ form = 1
  /\ flush = Idle /\ waiting = << >>
  /\ sends = << >>
  /\ receipts = [k \in Keys |-> [state |-> "none", owner |-> 0, form |-> 0, leased |-> FALSE]]
  /\ written = {} /\ imports = [c \in Captures |-> 0]

At(c) == CHOOSE i \in DOMAIN queue : queue[i].id = c

Without(c) == IF c \in Held THEN RemoveAt(queue, At(c)) ELSE queue

(* enqueueCapture.  The captureId is made with the item.                   *)
Capture(c) ==
  /\ c \notin Held \cup taken \cup discarded
  /\ Len(queue) < MaxQueue
  /\ queue' = Append(queue, [id |-> c, n |-> 1, superseded |-> FALSE])
  /\ minted' = [minted EXCEPT ![c] = 1]
  /\ UNCHANGED <<taken, discarded, held, form, flush, waiting, sends, server>>

DiscardQueuedCapture(c) ==
  /\ c \in Held
  /\ queue' = Without(c)
  /\ discarded' = discarded \cup {c}
  /\ UNCHANGED <<minted, taken, held, form, flush, waiting, sends, server>>

ClearCaptureQueue ==
  /\ queue # << >>
  /\ queue' = << >>
  /\ discarded' = discarded \cup Held
  /\ UNCHANGED <<minted, taken, held, form, flush, waiting, sends, server>>

-------------------------------------------------------------------------------
(* Flushes.                                                                *)

FlushCaptureQueueMutant(t) ==
  /\ t <= held
  /\ IF flush.phase = "idle"
     THEN flush' = Starting(t) /\ UNCHANGED waiting
     ELSE /\ Len(waiting) < MaxWaiting
          /\ waiting' = Append(waiting, t)
          /\ UNCHANGED flush
  /\ UNCHANGED <<queue, minted, taken, discarded, held, form, sends, server>>

(* After a capture or by retryQueue, with a token that was read before     *)
(* other awaits.  The newest flush is joined when it has the same token.   *)
FlushCaptureQueue(t) ==
  /\ t <= held
  /\ IF flush.phase = "idle"
     THEN flush' = Starting(t) /\ UNCHANGED waiting
     ELSE LET newest == IF waiting = << >> THEN flush.token ELSE Last(waiting)
          IN /\ newest # t /\ Len(waiting) < MaxWaiting
             /\ waiting' = Append(waiting, t)
             /\ UNCHANGED flush
  /\ UNCHANGED <<queue, minted, taken, discarded, held, form, sends, server>>

Chained ==
  IF waiting = << >> THEN flush' = Idle /\ UNCHANGED waiting
  ELSE flush' = Starting(Head(waiting)) /\ waiting' = Tail(waiting)

(* flushSnapshot reads what is queued.                                     *)
BeginFlush ==
  /\ flush.phase = "starting"
  /\ flush' = [flush EXCEPT !.phase = "running", !.todo = [i \in DOMAIN queue |-> queue[i].id]]
  /\ UNCHANGED <<queue, minted, taken, discarded, held, form, waiting, sends, server>>

Passed(f) == [f EXCEPT !.phase = "running", !.todo = Tail(f.todo),
                      !.passed = f.passed \cup {Head(f.todo)}]

(* An item discarded since the snapshot, or superseded, is passed over.    *)
SkipItem ==
  /\ flush.phase = "running" /\ flush.todo # << >>
  /\ LET c == Head(flush.todo) IN c \in Held => queue[At(c)].superseded
  /\ flush' = Passed(flush)
  /\ UNCHANGED <<queue, minted, taken, discarded, held, form, waiting, sends, server>>

(* An item without a captureId is given one, which is stored before it is  *)
(* sent, so that a retry has the same.                                     *)
Identified(item) == IF item.n = 0 THEN [item EXCEPT !.n = minted[item.id] + 1] ELSE item

SendItem ==
  /\ flush.phase = "running" /\ flush.todo # << >>
  /\ Len(sends) < MaxSends
  /\ LET c == Head(flush.todo)
         item == Identified(queue[At(c)])
     IN /\ c \in Held /\ ~queue[At(c)].superseded
        /\ queue' = [queue EXCEPT ![At(c)] = item]
        /\ minted' = [minted EXCEPT ![c] = item.n]
        /\ sends' = Append(sends, [key |-> <<c, item.n>>, token |-> flush.token, form |-> form,
                                   at |-> "sent", answer |-> "none"])
  /\ flush' = [flush EXCEPT !.phase = "sending"]
  /\ UNCHANGED <<taken, discarded, held, form, waiting, server>>

Response == Last(sends).answer

(* The response is read, or will not be.                                   *)
Read == sends' = [sends EXCEPT ![Len(sends)].answer = "none"]

IsCaptureAcknowledgementMutant(answer) == answer \in {"acknowledged", "error"}

(* isCaptureAcknowledgement, and no other response, lets an item go.       *)
IsCaptureAcknowledgement(answer) == answer = "acknowledged"

Acknowledged ==
  /\ flush.phase = "sending" /\ IsCaptureAcknowledgement(Response)
  /\ LET c == Head(flush.todo) IN
     /\ queue' = Without(c)
     /\ taken' = taken \cup ({c} \cap Held)
  /\ flush' = Passed(flush)
  /\ Read
  /\ UNCHANGED <<minted, discarded, held, form, waiting, server>>

SupersededMutant ==
  /\ flush.phase = "sending" /\ Response = "superseded"
  /\ flush' = Passed(flush)
  /\ Read
  /\ UNCHANGED <<queue, minted, taken, discarded, held, form, waiting, server>>

(* The captureId is bound to other content: the item is kept for the       *)
(* user's review, and the flush goes on.                                   *)
Superseded ==
  /\ flush.phase = "sending" /\ Response = "superseded"
  /\ LET c == Head(flush.todo) IN
     queue' = IF c \in Held THEN [queue EXCEPT ![At(c)].superseded = TRUE] ELSE queue
  /\ flush' = Passed(flush)
  /\ Read
  /\ UNCHANGED <<minted, taken, discarded, held, form, waiting, server>>

(* Any other response, no connection, a lost response, none in time, or a  *)
(* storage area that fails when the response is recorded: the flush stops. *)
SendFails ==
  /\ flush.phase = "sending"
  /\ Chained
  /\ Read
  /\ UNCHANGED <<queue, minted, taken, discarded, held, form, server>>

EndFlush ==
  /\ flush.phase = "running" /\ flush.todo = << >>
  /\ Chained
  /\ UNCHANGED <<queue, minted, taken, discarded, held, form, sends, server>>

(* The storage area cannot be read or written: the flush rejects, the      *)
(* next one runs all the same.                                             *)
FlushRejects ==
  /\ flush.phase \in {"starting", "running"}
  /\ Chained
  /\ UNCHANGED <<queue, minted, taken, discarded, held, form, sends, server>>

(* saveToken: the new token has just been accepted by JobCtrl.             *)
SaveToken ==
  /\ held # pairing
  /\ held' = pairing
  /\ UNCHANGED <<queue, minted, taken, discarded, form, flush, waiting, sends, server>>

(* The service worker dies, perhaps to be replaced by another version.     *)
WorkerDies ==
  /\ form' \in {form, form + 1} \cap Forms
  /\ flush' = Idle /\ waiting' = << >>
  /\ IF flush.phase = "sending" THEN Read ELSE UNCHANGED sends
  /\ UNCHANGED <<queue, minted, taken, discarded, held, server>>

-------------------------------------------------------------------------------
(* JobCtrl.                                                                *)

(* A response to a sender that has given up is dropped.                    *)
Awaited(s) == flush.phase = "sending" /\ s = Len(sends)

Answered(s, answer) ==
  [sends EXCEPT ![s].at = "done", ![s].answer = IF Awaited(s) THEN answer ELSE "none"]

(* What a request is answered at once; "none" when it has to import.       *)
Reply(s) ==
  LET receipt == receipts[sends[s].key]
  IN IF sends[s].token # pairing THEN "error"
     ELSE IF receipt.state # "none" /\ receipt.form # sends[s].form THEN "superseded"
     ELSE IF receipt.state = "accepted" THEN "acknowledged"
     ELSE IF receipt.state = "importing" /\ receipt.leased THEN "error"
     ELSE "none"

ReplyCapture(s) ==
  /\ sends[s].at = "sent" /\ Reply(s) # "none"
  /\ sends' = Answered(s, Reply(s))
  /\ UNCHANGED <<client, server>>

(* The receipt of a new captureId is bound to the content it came with; a  *)
(* failed import, or one whose lease ran out, is taken over.               *)
ClaimReceipt(s) ==
  /\ sends[s].at = "sent" /\ Reply(s) = "none"
  /\ receipts' = [receipts EXCEPT ![sends[s].key] =
       [state |-> "importing", owner |-> s, form |-> sends[s].form, leased |-> TRUE]]
  /\ sends' = [sends EXCEPT ![s].at = "claimed"]
  /\ UNCHANGED <<client, written, imports, pairing>>

Owns(s) == LET receipt == receipts[sends[s].key]
           IN receipt.state = "importing" /\ receipt.owner = s

Write(k) ==
  /\ written' = written \cup {k}
  /\ imports' = [imports EXCEPT ![k[1]] = imports[k[1]] + 1]

(* repository.capture, in one transaction: guard, then the receipt of an   *)
(* earlier import, then the posting.                                       *)
Written(s) ==
  \/ sends[s].key \in written /\ UNCHANGED <<written, imports>>
  \/ sends[s].key \notin written /\ Owns(s) /\ Write(sends[s].key)

ImportCapture(s) ==
  /\ sends[s].at = "claimed"
  /\ Written(s)
  /\ sends' = [sends EXCEPT ![s].at = "imported"]
  /\ UNCHANGED <<client, receipts, pairing>>

AcceptReceipt(s) ==
  /\ sends[s].at = "imported" /\ Owns(s)
  /\ receipts' = [receipts EXCEPT ![sends[s].key].state = "accepted"]
  /\ sends' = Answered(s, "acknowledged")
  /\ UNCHANGED <<client, written, imports, pairing>>

FailedReceiptMutant(s) ==
  [receipts EXCEPT ![sends[s].key].state = "failed", ![sends[s].key].leased = FALSE]

(* Only its owner may fail a receipt, and only while it is importing.      *)
FailedReceipt(s) ==
  IF Owns(s)
  THEN [receipts EXCEPT ![sends[s].key].state = "failed", ![sends[s].key].leased = FALSE]
  ELSE receipts

(* The posting cannot be acquired or is quarantined, a newer attempt owns  *)
(* the receipt, or the request is cancelled.                               *)
FailCapture(s) ==
  /\ sends[s].at \in {"claimed", "imported"}
  /\ receipts' = FailedReceipt(s)
  /\ sends' = Answered(s, "error")
  /\ UNCHANGED <<client, written, imports, pairing>>

LeaseExpires(k) ==
  /\ receipts[k].state = "importing" /\ receipts[k].leased
  /\ receipts' = [receipts EXCEPT ![k].leased = FALSE]
  /\ UNCHANGED <<client, sends, written, imports, pairing>>

(* Requests that were being served end without a trace in the database.    *)
ServerDies ==
  /\ \E s \in DOMAIN sends : sends[s].at # "done"
  /\ sends' = [s \in DOMAIN sends |->
                 IF sends[s].at = "done" THEN sends[s]
                 ELSE Answered(s, "error")[s]]
  /\ UNCHANGED <<client, server>>

RotateToken ==
  /\ pairing < MaxTokens
  /\ pairing' = pairing + 1
  /\ UNCHANGED <<client, sends, receipts, written, imports>>

-------------------------------------------------------------------------------
Extension ==
  \/ \E c \in Captures : Capture(c) \/ DiscardQueuedCapture(c)
  \/ ClearCaptureQueue
  \/ \E t \in Tokens : FlushCaptureQueue(t)
  \/ BeginFlush \/ SkipItem \/ SendItem
  \/ Acknowledged \/ Superseded \/ SendFails
  \/ EndFlush \/ FlushRejects
  \/ SaveToken \/ WorkerDies

Server ==
  \/ \E s \in DOMAIN sends :
       \/ ReplyCapture(s) \/ ClaimReceipt(s)
       \/ ImportCapture(s) \/ AcceptReceipt(s) \/ FailCapture(s)
  \/ \E k \in Keys : LeaseExpires(k)
  \/ ServerDies \/ RotateToken

Next == Extension \/ Server

Spec == Init /\ [][Next]_vars

-------------------------------------------------------------------------------
(* Properties.                                                             *)

(* The extension and JobCtrl keep what they promise of a capture: it       *)
(* leaves the queue only by an acknowledgement of an import that was       *)
(* written, or by the user's discard, and it is written once however often *)
(* it is sent.  CaptureOnce states it; the queue, the flushes and the      *)
(* receipts implement it.                                                  *)
Once == INSTANCE CaptureOnce WITH kept <- Held, acknowledged <- taken

KeepsPromise == Once!Spec

(* A receipt is accepted only when the posting has been written, also when *)
(* the importer that wrote it had lost its lease or died before accepting. *)
AcceptedIsImported ==
  \A k \in Keys : receipts[k].state = "accepted" => k \in written

(* An acknowledgement can be repeated for ever: an importer that was       *)
(* overtaken, and fails late, does not fail a receipt another has accepted.*)
AcceptedStands ==
  [][\A k \in Keys : receipts[k].state = "accepted" => receipts'[k].state = "accepted"]_vars

(* A flush goes past a capture it leaves in the queue only when that is    *)
(* labelled superseded, for the user to review.                            *)
PassedAreLabelled ==
  \A i \in DOMAIN queue : queue[i].id \in flush.passed => queue[i].superseded

===============================================================================
