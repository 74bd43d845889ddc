---------------------------- MODULE CaptureQueueProofs ----------------------------
(***************************************************************************)
(* Theorems about CaptureQueue: with any number of captures, requests,     *)
(* tokens and versions of the extension, and whatever dies or is lost, a   *)
(* capture is imported once and let go only when it has been.              *)
(***************************************************************************)
EXTENDS CaptureQueue, SequenceTheorems, FiniteSetTheorems, TLAPS

(* The captures that were ever in the queue.                               *)
Known == Held \cup taken \cup discarded

Unique(q) == \A i, j \in DOMAIN q : q[i].id = q[j].id => i = j

(* A stored captureId is the only one made for its capture.                *)
QueueInv ==
  /\ queue \in Seq(Item) /\ Len(queue) <= MaxQueue /\ Unique(queue)
  /\ \A i \in DOMAIN queue : /\ queue[i].n \in {0, 1}
                             /\ minted[queue[i].id] = queue[i].n

LetGoInv ==
  /\ minted \in [Captures -> {0, 1}]
  /\ taken \subseteq Captures /\ discarded \subseteq Captures
  /\ held \in Tokens /\ form \in Forms
  /\ \A c \in taken : <<c, 1>> \in written

FlushInv ==
  /\ flush \in Flush
  /\ flush.phase = "idle" => waiting = << >>
  /\ flush.phase # "idle" => flush.token \in Tokens
  /\ flush.phase = "sending" => /\ sends # << >> /\ flush.todo # << >>
                                /\ sends[Len(sends)].key[1] = Head(flush.todo)
  /\ \A i \in DOMAIN flush.todo : flush.todo[i] \in Known
  /\ flush.passed \subseteq Known

WaitingInv ==
  /\ waiting \in Seq(Tokens) /\ Len(waiting) <= MaxWaiting
  /\ \A i \in DOMAIN waiting : waiting[i] # IF i = 1 THEN flush.token ELSE waiting[i - 1]

SendsInv ==
  /\ sends \in Seq(Send) /\ Len(sends) <= MaxSends
  /\ \A s \in DOMAIN sends :
       /\ sends[s].key[1] \in Known /\ sends[s].key[2] = 1
       /\ sends[s].at = "imported" => sends[s].key \in written
       /\ sends[s].answer = "acknowledged" => sends[s].key \in written

ReceiptsInv ==
  /\ receipts \in [Keys -> Receipt] /\ pairing \in Tokens
  /\ \A k \in Keys : receipts[k].state = "accepted" => k \in written

ImportsInv ==
  /\ written \subseteq Keys /\ \A k \in written : k[2] = 1
  /\ imports \in [Captures -> Nat]
  /\ \A c \in Captures : imports[c] = IF <<c, 1>> \in written THEN 1 ELSE 0

IInv ==
  /\ QueueInv /\ LetGoInv /\ FlushInv /\ WaitingInv /\ SendsInv /\ ReceiptsInv /\ ImportsInv
  /\ PassedAreLabelled

-------------------------------------------------------------------------------
LEMMA SendType ==
  ASSUME sends \in Seq(Send), NEW s \in DOMAIN sends
  PROVE  sends[s] \in Send /\ sends[s].key \in Keys
<1>1. sends[s] \in Send
      OBVIOUS
<1>2. QED
      BY <1>1 DEF Send

LEMMA ItemType ==
  ASSUME queue \in Seq(Item)
  PROVE  /\ \A i \in DOMAIN queue : queue[i] \in Item /\ queue[i].id \in Captures
         /\ Held \subseteq Captures
<1>1. \A i \in DOMAIN queue : queue[i] \in Item
      OBVIOUS
<1>2. QED
      BY <1>1 DEF Held, Item

(* The queue.                                                              *)

LEMMA HeldAt ==
  ASSUME NEW c \in Held
  PROVE  At(c) \in DOMAIN queue /\ queue[At(c)].id = c
  BY DEF Held, At

LEMMA Removed ==
  ASSUME queue \in Seq(Item), Unique(queue), NEW n \in DOMAIN queue
  PROVE  /\ RemoveAt(queue, n) \in Seq(Item)
         /\ Len(RemoveAt(queue, n)) = Len(queue) - 1
         /\ \A i \in DOMAIN RemoveAt(queue, n) :
              RemoveAt(queue, n)[i] = IF i < n THEN queue[i] ELSE queue[i + 1]
<1> DEFINE front == SubSeq(queue, 1, n - 1)
           back == SubSeq(queue, n + 1, Len(queue))
<1>1. n \in 1..Len(queue) /\ Len(queue) \in Nat /\ \A i \in 1..Len(queue) : queue[i] \in Item
      OBVIOUS
<1>2. /\ front \in Seq(Item) /\ Len(front) = n - 1
      /\ \A i \in 1..(n - 1) : front[i] = queue[i]
      BY <1>1, SubSeqProperties, Z3
<1>3. /\ back \in Seq(Item) /\ Len(back) = Len(queue) - n
      /\ \A i \in 1..(Len(queue) - n) : back[i] = queue[n + i]
      BY <1>1, SubSeqProperties, Z3
<1>4. RemoveAt(queue, n) = front \o back
      BY DEF RemoveAt
<1> HIDE DEF front, back
<1>5. /\ front \o back \in Seq(Item) /\ Len(front \o back) = Len(queue) - 1
      /\ \A i \in 1..(Len(queue) - 1) :
           (front \o back)[i] = IF i <= n - 1 THEN front[i] ELSE back[i - (n - 1)]
      BY <1>1, <1>2, <1>3, ConcatProperties
<1>6. ASSUME NEW i \in 1..(Len(queue) - 1)
      PROVE  (front \o back)[i] = IF i < n THEN queue[i] ELSE queue[i + 1]
  <2>1. CASE i < n
        BY <1>1, <1>2, <1>5, <2>1
  <2>2. CASE ~(i < n)
    <3>1. (front \o back)[i] = back[i - (n - 1)] /\ i - (n - 1) \in 1..(Len(queue) - n)
          BY <1>1, <1>5, <2>2
    <3>2. back[i - (n - 1)] = queue[n + (i - (n - 1))] /\ n + (i - (n - 1)) = i + 1
          BY <1>1, <1>3, <3>1
    <3>3. QED
          BY <2>2, <3>1, <3>2
  <2>3. QED
        BY <2>1, <2>2
<1>7. DOMAIN (front \o back) = 1..(Len(queue) - 1)
      BY <1>5
<1>8. QED
      BY <1>4, <1>5, <1>6, <1>7

(* Without(c) is the queue without c, and nothing else changes in it.      *)
LEMMA WithoutOne ==
  ASSUME queue \in Seq(Item), Unique(queue), NEW c, queue' = Without(c)
  PROVE  /\ queue' \in Seq(Item) /\ Unique(queue') /\ Len(queue') <= Len(queue)
         /\ Held' = Held \ {c}
         /\ \A i \in DOMAIN queue' : \E j \in DOMAIN queue : queue'[i] = queue[j]
<1>1. CASE c \notin Held
  <2>1. queue' = queue
        BY <1>1 DEF Without
  <2>2. QED
        BY <1>1, <2>1 DEF Held
<1>2. CASE c \in Held
  <2> DEFINE n == At(c)
  <2>1. n \in DOMAIN queue /\ queue[n].id = c /\ queue' = RemoveAt(queue, n)
        BY <1>2, HeldAt DEF Without
  <2> HIDE DEF n
  <2>2. /\ queue' \in Seq(Item) /\ Len(queue') = Len(queue) - 1
        /\ \A i \in DOMAIN queue' : queue'[i] = IF i < n THEN queue[i] ELSE queue[i + 1]
        BY <2>1, Removed
  <2>3. \A i \in DOMAIN queue' : \E j \in DOMAIN queue : j # n /\ queue'[i] = queue[j]
        BY <2>1, <2>2
  <2>4. \A j \in DOMAIN queue : j # n => \E i \in DOMAIN queue' : queue'[i] = queue[j]
    <3>1. ASSUME NEW j \in DOMAIN queue, j < n PROVE j \in DOMAIN queue' /\ queue'[j] = queue[j]
          BY <2>1, <2>2, <3>1
    <3>2. ASSUME NEW j \in DOMAIN queue, j > n PROVE j - 1 \in DOMAIN queue' /\ queue'[j - 1] = queue[j]
          BY <2>1, <2>2, <3>2
    <3>3. QED
          BY <2>1, <3>1, <3>2
  <2>5. Unique(queue')
        BY <2>1, <2>2 DEF Unique
  <2>6. Held' = Held \ {c}
    <3>1. \A d \in Held' : d \in Held \ {c}
          BY <2>1, <2>3 DEF Held, Unique
    <3>2. \A d \in Held \ {c} : d \in Held'
          BY <2>1, <2>4 DEF Held
    <3>3. QED
          BY <3>1, <3>2
  <2>7. QED
        BY <2>2, <2>3, <2>5, <2>6
<1>3. QED
      BY <1>1, <1>2

(* An item that is stored again keeps its place.                           *)
LEMMA StoredAgain ==
  ASSUME queue \in Seq(Item), Unique(queue), NEW c \in Held, NEW item \in Item, item.id = c,
         queue' = [queue EXCEPT ![At(c)] = item]
  PROVE  /\ queue' \in Seq(Item) /\ Unique(queue') /\ Len(queue') = Len(queue)
         /\ Held' = Held
         /\ \A i \in DOMAIN queue' : queue'[i] = IF queue[i].id = c THEN item ELSE queue[i]
<1> DEFINE n == At(c)
<1>1. n \in DOMAIN queue /\ queue[n].id = c
      BY HeldAt
<1>2. queue' = [queue EXCEPT ![n] = item]
      OBVIOUS
<1> HIDE DEF n
<1>3. queue' \in Seq(Item) /\ Len(queue') = Len(queue) /\ DOMAIN queue' = DOMAIN queue
  <2>1. n \in 1..Len(queue)
        BY <1>1
  <2>2. [queue EXCEPT ![n] = item] \in Seq(Item) /\ Len([queue EXCEPT ![n] = item]) = Len(queue)
        BY <2>1, ExceptSeq
  <2>3. QED
        BY <1>2, <2>2
<1>4. \A i \in DOMAIN queue' : queue'[i] = IF queue[i].id = c THEN item ELSE queue[i]
      BY <1>1, <1>2, <1>3 DEF Unique
<1>5. \A i \in DOMAIN queue' : queue'[i].id = queue[i].id
      BY <1>4
<1>6. Unique(queue') /\ Held' = Held
      BY <1>3, <1>5 DEF Unique, Held
<1>7. QED
      BY <1>3, <1>4, <1>6

LEMMA Appended ==
  ASSUME queue \in Seq(Item), Unique(queue), NEW item \in Item, item.id \notin Held,
         queue' = Append(queue, item)
  PROVE  /\ queue' \in Seq(Item) /\ Unique(queue') /\ Len(queue') = Len(queue) + 1
         /\ Held' = Held \cup {item.id}
         /\ \A i \in DOMAIN queue' : queue'[i] = IF i = Len(queue') THEN item ELSE queue[i]
<1>1. /\ queue' \in Seq(Item) /\ Len(queue') = Len(queue) + 1
      /\ \A i \in DOMAIN queue' : queue'[i] = IF i = Len(queue') THEN item ELSE queue[i]
      OBVIOUS
<1>2. \A i \in DOMAIN queue : queue[i].id # item.id
      BY DEF Held
<1>3. Unique(queue')
      BY <1>1, <1>2 DEF Unique
<1>4. Held' = Held \cup {item.id}
  <2>1. \A d \in Held' : d \in Held \cup {item.id}
        BY <1>1 DEF Held
  <2>2. \A i \in DOMAIN queue : i \in DOMAIN queue' /\ queue'[i] = queue[i]
        BY <1>1
  <2>3. Len(queue') \in DOMAIN queue' /\ queue'[Len(queue')] = item
        BY <1>1
  <2>4. QED
        BY <2>1, <2>2, <2>3 DEF Held
<1>5. QED
      BY <1>1, <1>3, <1>4

-------------------------------------------------------------------------------
(* JobCtrl.                                                                *)

(* A request goes on, and is answered or not.                              *)
LEMMA SendMoves ==
  ASSUME sends \in Seq(Send), NEW s \in DOMAIN sends,
         NEW at \in {"sent", "claimed", "imported", "done"},
         NEW answer \in {"none", "acknowledged", "superseded", "error"},
         sends' = [sends EXCEPT ![s] = [sends[s] EXCEPT !.at = at, !.answer = answer]]
  PROVE  /\ sends' \in Seq(Send) /\ Len(sends') = Len(sends) /\ DOMAIN sends' = DOMAIN sends
         /\ \A r \in DOMAIN sends : /\ sends'[r].key = sends[r].key
                                    /\ r # s => sends'[r] = sends[r]
         /\ sends'[s].at = at /\ sends'[s].answer = answer
<1> DEFINE moved == [sends[s] EXCEPT !.at = at, !.answer = answer]
<1>1. sends[s] \in Send /\ s \in 1..Len(sends)
      OBVIOUS
<1>2. moved \in Send /\ moved.key = sends[s].key /\ moved.at = at /\ moved.answer = answer
      BY <1>1 DEF Send
<1>3. sends' = [sends EXCEPT ![s] = moved]
      OBVIOUS
<1> HIDE DEF moved
<1>4. [sends EXCEPT ![s] = moved] \in Seq(Send) /\ Len([sends EXCEPT ![s] = moved]) = Len(sends)
      BY <1>1, <1>2, ExceptSeq
<1>5. QED
      BY <1>1, <1>2, <1>3, <1>4

(* What a handler does, the extension sees only in its answer.             *)
LEMMA ServerStep ==
  ASSUME IInv, UNCHANGED client, sends' \in Seq(Send), Len(sends') = Len(sends),
         \A s \in DOMAIN sends : sends'[s].key = sends[s].key,
         \A s \in DOMAIN sends :
           /\ sends'[s].at = "imported" => sends[s].key \in written'
           /\ sends'[s].answer = "acknowledged" => sends[s].key \in written',
         written \subseteq written', ReceiptsInv', ImportsInv'
  PROVE  IInv'
<1> USE DEF client
<1>1. Held' = Held /\ Known' = Known
      BY DEF Held, Known
<1>2. QueueInv' /\ WaitingInv' /\ PassedAreLabelled'
      BY DEF IInv, QueueInv, Unique, WaitingInv, PassedAreLabelled
<1>3. LetGoInv'
      BY DEF IInv, LetGoInv
<1>4. DOMAIN sends' = DOMAIN sends /\ (sends # << >> <=> sends' # << >>)
      BY DEF IInv, SendsInv
<1>5. SendsInv'
      BY <1>1, <1>4 DEF IInv, SendsInv
<1>6. FlushInv'
  <2>1. flush.phase = "sending" => sends'[Len(sends')].key = sends[Len(sends)].key
        BY DEF IInv, FlushInv, SendsInv
  <2>2. QED
        BY <1>1, <1>4, <2>1 DEF IInv, FlushInv
<1>7. QED
      BY <1>2, <1>3, <1>5, <1>6 DEF IInv

LEMMA ReplyInv ==
  ASSUME IInv, NEW s \in DOMAIN sends, ReplyCapture(s)
  PROVE  IInv'
<1>1. sends \in Seq(Send) /\ sends[s] \in Send
      BY DEF IInv, SendsInv
<1>2. PICK answer \in {"none", "acknowledged", "superseded", "error"} :
        /\ sends' = [sends EXCEPT ![s] = [sends[s] EXCEPT !.at = "done", !.answer = answer]]
        /\ answer = "acknowledged" => Reply(s) = "acknowledged"
      BY <1>1 DEF ReplyCapture, Answered, Reply
<1>3. Reply(s) = "acknowledged" => sends[s].key \in written
      BY <1>1 DEF Reply, IInv, ReceiptsInv, Send
<1>4. UNCHANGED <<client, receipts, written, imports, pairing>>
      BY DEF ReplyCapture, server
<1>5. ReceiptsInv' /\ ImportsInv'
      BY <1>4 DEF IInv, ReceiptsInv, ImportsInv
<1>6. QED
      BY <1>1, <1>2, <1>3, <1>4, <1>5, SendMoves, ServerStep DEF IInv, SendsInv

LEMMA ClaimInv ==
  ASSUME IInv, NEW s \in DOMAIN sends, ClaimReceipt(s)
  PROVE  IInv'
<1>1. sends \in Seq(Send) /\ sends[s] \in Send /\ s \in 0..MaxSends
  <2>1. sends \in Seq(Send) /\ Len(sends) <= MaxSends
        BY DEF IInv, SendsInv
  <2>2. QED
        BY <2>1, CaptureQueueAssumption
<1>2. sends' = [sends EXCEPT ![s] = [sends[s] EXCEPT !.at = "claimed", !.answer = sends[s].answer]]
      BY <1>1 DEF ClaimReceipt, Send
<1>3. UNCHANGED <<client, written, imports, pairing>>
      BY DEF ClaimReceipt
<1>4. ReceiptsInv'
  <2>1. [state |-> "importing", owner |-> s, form |-> sends[s].form, leased |-> TRUE] \in Receipt
        BY <1>1 DEF Receipt, Send, Forms
  <2>2. QED
        BY <1>3, <2>1 DEF ClaimReceipt, IInv, ReceiptsInv
<1>5. ImportsInv'
      BY <1>3 DEF IInv, ImportsInv
<1>6. sends[s].answer \in {"none", "acknowledged", "superseded", "error"}
      BY <1>1 DEF Send
<1>7. QED
      BY <1>1, <1>2, <1>3, <1>4, <1>5, <1>6, SendMoves, ServerStep DEF IInv, SendsInv

(* What a handler that imports does to the rows of the Jobs feature.       *)
LEMMA WrittenRows ==
  ASSUME IInv, NEW s \in DOMAIN sends, Written(s), UNCHANGED <<receipts, pairing>>
  PROVE  /\ written' = written \cup {sends[s].key}
         /\ ReceiptsInv' /\ ImportsInv'
         /\ \/ UNCHANGED imports
            \/ /\ sends[s].key \notin written /\ imports[sends[s].key[1]] = 0
               /\ imports' = [imports EXCEPT ![sends[s].key[1]] = 1]
<1>1. PICK c \in Captures : sends[s].key = <<c, 1>> /\ <<c, 1>> \in Keys
  <2>1. sends[s] \in Send /\ sends[s].key[2] = 1
        BY DEF IInv, SendsInv
  <2>2. QED
        BY <2>1 DEF Send, Keys
<1>2. written' = written \cup {<<c, 1>>} /\ written' \subseteq Keys
      BY <1>1 DEF Written, Write, IInv, ImportsInv
<1>3. ReceiptsInv'
      BY <1>2 DEF IInv, ReceiptsInv
<1>4. CASE <<c, 1>> \in written
      BY <1>1, <1>2, <1>3, <1>4 DEF Written, IInv, ImportsInv
<1>5. CASE <<c, 1>> \notin written
  <2>1. imports[c] = 0 /\ imports' = [imports EXCEPT ![c] = 1]
        BY <1>1, <1>5 DEF Written, Write, IInv, ImportsInv
  <2>2. \A d \in Captures : imports'[d] = IF <<d, 1>> \in written' THEN 1 ELSE 0
        BY <1>2, <2>1 DEF IInv, ImportsInv
  <2>3. ImportsInv'
        BY <1>2, <2>1, <2>2 DEF IInv, ImportsInv
  <2>4. QED
        BY <1>1, <1>2, <1>3, <2>1, <2>3, <1>5
<1>6. QED
      BY <1>4, <1>5

LEMMA ImportInv ==
  ASSUME IInv, NEW s \in DOMAIN sends, ImportCapture(s)
  PROVE  IInv'
<1>1. sends \in Seq(Send) /\ sends[s] \in Send
      BY DEF IInv, SendsInv
<1>2. sends' = [sends EXCEPT ![s] = [sends[s] EXCEPT !.at = "imported", !.answer = sends[s].answer]]
      BY <1>1 DEF ImportCapture, Send
<1>3. sends[s].answer \in {"none", "acknowledged", "superseded", "error"}
      BY <1>1 DEF Send
<1>4. UNCHANGED client /\ written' = written \cup {sends[s].key} /\ ReceiptsInv' /\ ImportsInv'
      BY WrittenRows DEF ImportCapture
<1>5. QED
      BY <1>1, <1>2, <1>3, <1>4, SendMoves, ServerStep DEF IInv, SendsInv

LEMMA AcceptInv ==
  ASSUME IInv, NEW s \in DOMAIN sends, AcceptReceipt(s)
  PROVE  IInv'
<1>1. sends \in Seq(Send) /\ sends[s] \in Send /\ sends[s].key \in Keys /\ sends[s].key \in written
  <2>1. sends \in Seq(Send)
        BY DEF IInv, SendsInv
  <2>2. sends[s] \in Send /\ sends[s].key \in Keys
        BY <2>1, SendType
  <2>3. sends[s].key \in written
        BY DEF IInv, SendsInv, AcceptReceipt
  <2>4. QED
        BY <2>1, <2>2, <2>3
<1>2. PICK answer \in {"none", "acknowledged", "superseded", "error"} :
        sends' = [sends EXCEPT ![s] = [sends[s] EXCEPT !.at = "done", !.answer = answer]]
      BY <1>1 DEF AcceptReceipt, Answered
<1>3. UNCHANGED <<client, written, imports, pairing>>
      BY DEF AcceptReceipt
<1>4. ReceiptsInv'
  <2>1. receipts' = [receipts EXCEPT ![sends[s].key] = [receipts[sends[s].key] EXCEPT !.state = "accepted"]]
        BY DEF AcceptReceipt
  <2>2. [receipts[sends[s].key] EXCEPT !.state = "accepted"] \in Receipt
        BY <1>1 DEF IInv, ReceiptsInv, Receipt
  <2>3. QED
        BY <1>1, <1>3, <2>1, <2>2 DEF IInv, ReceiptsInv
<1>5. ImportsInv'
      BY <1>3 DEF IInv, ImportsInv
<1>6. QED
      BY <1>1, <1>2, <1>3, <1>4, <1>5, SendMoves, ServerStep DEF IInv, SendsInv

LEMMA FailInv ==
  ASSUME IInv, NEW s \in DOMAIN sends, FailCapture(s)
  PROVE  IInv'
<1>1. sends \in Seq(Send) /\ sends[s] \in Send /\ sends[s].key \in Keys
  <2>1. sends \in Seq(Send)
        BY DEF IInv, SendsInv
  <2>2. QED
        BY <2>1, SendType
<1>2. PICK answer \in {"none", "error"} :
        sends' = [sends EXCEPT ![s] = [sends[s] EXCEPT !.at = "done", !.answer = answer]]
      BY <1>1 DEF FailCapture, Answered
<1>3. UNCHANGED <<client, written, imports, pairing>> /\ receipts' = FailedReceipt(s)
      BY DEF FailCapture
<1>4. ReceiptsInv'
  <2>1. CASE ~Owns(s)
        BY <1>3, <2>1 DEF FailedReceipt, IInv, ReceiptsInv
  <2>2. CASE Owns(s)
    <3>1. receipts' = [receipts EXCEPT ![sends[s].key] =
                         [receipts[sends[s].key] EXCEPT !.state = "failed", !.leased = FALSE]]
          BY <1>3, <2>2 DEF FailedReceipt
    <3>2. [receipts[sends[s].key] EXCEPT !.state = "failed", !.leased = FALSE] \in Receipt
          BY <1>1 DEF IInv, ReceiptsInv, Receipt
    <3>3. [receipts[sends[s].key] EXCEPT !.state = "failed", !.leased = FALSE].state = "failed"
          BY <1>1 DEF IInv, ReceiptsInv, Receipt
    <3>4. QED
          BY <1>1, <1>3, <3>1, <3>2, <3>3 DEF IInv, ReceiptsInv
  <2>3. QED
        BY <2>1, <2>2
<1>5. ImportsInv'
      BY <1>3 DEF IInv, ImportsInv
<1>6. QED
      BY <1>1, <1>2, <1>3, <1>4, <1>5, SendMoves, ServerStep DEF IInv, SendsInv

LEMMA OtherServerInv ==
  ASSUME IInv, (\E k \in Keys : LeaseExpires(k)) \/ ServerDies \/ RotateToken
  PROVE  IInv'
<1>0. sends \in Seq(Send)
      BY DEF IInv, SendsInv
<1>1. ASSUME NEW k \in Keys, LeaseExpires(k) PROVE IInv'
  <2>1. UNCHANGED <<client, sends, written, imports, pairing>>
        BY <1>1 DEF LeaseExpires
  <2>2. ReceiptsInv'
    <3>1. receipts' = [receipts EXCEPT ![k] = [receipts[k] EXCEPT !.leased = FALSE]]
          BY <1>1 DEF LeaseExpires
    <3>2. [receipts[k] EXCEPT !.leased = FALSE] \in Receipt
          BY DEF IInv, ReceiptsInv, Receipt
    <3>3. [receipts[k] EXCEPT !.leased = FALSE].state = receipts[k].state
          BY DEF IInv, ReceiptsInv, Receipt
    <3>4. QED
          BY <2>1, <3>1, <3>2, <3>3 DEF IInv, ReceiptsInv
  <2>3. ImportsInv'
        BY <2>1 DEF IInv, ImportsInv
  <2>4. QED
        BY <1>0, <2>1, <2>2, <2>3, ServerStep DEF IInv, SendsInv
<1>2. CASE ServerDies
  <2>1. UNCHANGED <<client, receipts, written, imports, pairing>>
        BY <1>2 DEF ServerDies, server
  <2>2. \A s \in DOMAIN sends : /\ Answered(s, "error")[s] \in Send
                                /\ Answered(s, "error")[s].key = sends[s].key
                                /\ Answered(s, "error")[s].at = "done"
                                /\ Answered(s, "error")[s].answer \in {"none", "error"}
    <3>1. ASSUME NEW s \in DOMAIN sends
          PROVE  \E answer \in {"none", "error"} :
                   Answered(s, "error")[s] = [sends[s] EXCEPT !.at = "done", !.answer = answer]
          BY <1>0 DEF Answered
    <3>2. \A s \in DOMAIN sends : sends[s] \in Send
          BY <1>0
    <3>3. QED
          BY <3>1, <3>2 DEF Send
  <2>3. /\ sends' \in Seq(Send) /\ Len(sends') = Len(sends)
        /\ \A s \in DOMAIN sends :
             sends'[s] = IF sends[s].at = "done" THEN sends[s] ELSE Answered(s, "error")[s]
        BY <1>0, <1>2, <2>2 DEF ServerDies
  <2>4. \A s \in DOMAIN sends :
          /\ sends'[s].key = sends[s].key
          /\ sends'[s].at = "imported" => sends[s].key \in written'
          /\ sends'[s].answer = "acknowledged" => sends[s].key \in written'
        BY <2>1, <2>2, <2>3 DEF IInv, SendsInv
  <2>5. ReceiptsInv' /\ ImportsInv'
        BY <2>1 DEF IInv, ReceiptsInv, ImportsInv
  <2>6. QED
        BY <2>1, <2>3, <2>4, <2>5, ServerStep
<1>3. CASE RotateToken
  <2>1. UNCHANGED <<client, sends, receipts, written, imports>> /\ pairing' \in Tokens
        BY <1>3, CaptureQueueAssumption DEF RotateToken, IInv, ReceiptsInv, Tokens
  <2>2. ReceiptsInv' /\ ImportsInv'
        BY <2>1 DEF IInv, ReceiptsInv, ImportsInv
  <2>3. QED
        BY <1>0, <2>1, <2>2, ServerStep DEF IInv, SendsInv
<1>4. QED
      BY <1>1, <1>2, <1>3

-------------------------------------------------------------------------------
(* The extension.                                                          *)

(* Whatever the extension does, JobCtrl's rows stay, and no capture is     *)
(* forgotten.                                                              *)
LEMMA ClientStep ==
  ASSUME IInv, UNCHANGED server, QueueInv', LetGoInv', FlushInv', WaitingInv', PassedAreLabelled',
         UNCHANGED sends, Known \subseteq Known'
  PROVE  IInv'
<1>1. ReceiptsInv' /\ ImportsInv'
      BY DEF server, IInv, ReceiptsInv, ImportsInv
<1>2. SendsInv'
      BY DEF server, IInv, SendsInv
<1>3. QED
      BY <1>1, <1>2 DEF IInv

LEMMA CaptureInv ==
  ASSUME IInv, NEW c \in Captures, Capture(c)
  PROVE  /\ IInv'
         /\ Held' = Held \cup {c} /\ c \notin Held \cup taken \cup discarded
<1> DEFINE item == [id |-> c, n |-> 1, superseded |-> FALSE]
<1>1. item \in Item /\ item.id = c /\ item.n = 1 /\ c \notin Held /\ queue' = Append(queue, item)
      BY CaptureQueueAssumption DEF Capture, Item
<1> HIDE DEF item
<1>2. queue \in Seq(Item) /\ Unique(queue) /\ minted \in [Captures -> {0, 1}]
      BY DEF IInv, QueueInv, LetGoInv
<1>3. /\ queue' \in Seq(Item) /\ Unique(queue') /\ Len(queue') = Len(queue) + 1
      /\ Held' = Held \cup {c}
      /\ \A i \in DOMAIN queue' : queue'[i] = IF i = Len(queue') THEN item ELSE queue[i]
      BY <1>1, <1>2, Appended
<1>4. /\ minted' = [minted EXCEPT ![c] = 1]
      /\ UNCHANGED <<taken, discarded, held, form, flush, waiting, sends, server>>
      BY DEF Capture
<1>5. QueueInv'
  <2>1. Len(queue') <= MaxQueue
        BY <1>2, <1>3, CaptureQueueAssumption DEF Capture
  <2>2. \A i \in DOMAIN queue' : \/ queue'[i] = item
                                 \/ i \in DOMAIN queue /\ queue'[i] = queue[i] /\ queue[i].id # c
        BY <1>1, <1>2, <1>3 DEF Held
  <2>3. \A i \in DOMAIN queue : queue[i].id \in Captures
        BY <1>2, ItemType
  <2>4. \A i \in DOMAIN queue' : queue'[i].n \in {0, 1} /\ minted'[queue'[i].id] = queue'[i].n
        BY <1>1, <1>2, <1>4, <2>2, <2>3 DEF IInv, QueueInv
  <2>5. QED
        BY <1>3, <2>1, <2>4 DEF QueueInv
<1>6. LetGoInv'
      BY <1>2, <1>4 DEF IInv, LetGoInv, server
<1>7. Known \subseteq Known'
      BY <1>3, <1>4 DEF Known
<1>8. FlushInv' /\ WaitingInv'
      BY <1>4, <1>7 DEF IInv, FlushInv, WaitingInv
<1>9. PassedAreLabelled'
  <2>1. c \notin flush.passed
        BY DEF Capture, IInv, FlushInv, Known
  <2>2. QED
        BY <1>1, <1>2, <1>3, <1>4, <2>1 DEF IInv, PassedAreLabelled
<1>10. QED
       BY <1>3, <1>4, <1>5, <1>6, <1>7, <1>8, <1>9, ClientStep DEF Capture

(* Items leave the queue: what is left was there before.                   *)
LEMMA FewerInv ==
  ASSUME IInv, queue' \in Seq(Item), Len(queue') <= Len(queue), Unique(queue'),
         \A i \in DOMAIN queue' : \E j \in DOMAIN queue : queue'[i] = queue[j],
         UNCHANGED minted
  PROVE  /\ QueueInv'
         /\ \A i \in DOMAIN queue' : queue'[i].id \in flush.passed => queue'[i].superseded
<1>1. Len(queue') <= MaxQueue
      BY CaptureQueueAssumption DEF IInv, QueueInv
<1>2. \A i \in DOMAIN queue' : queue'[i].n \in {0, 1} /\ minted'[queue'[i].id] = queue'[i].n
      BY DEF IInv, QueueInv
<1>3. QED
      BY <1>1, <1>2 DEF IInv, QueueInv, PassedAreLabelled

LEMMA DiscardInv ==
  ASSUME IInv, NEW c \in Captures, DiscardQueuedCapture(c)
  PROVE  IInv' /\ Held' = Held \ {c}
<1>1. /\ queue' \in Seq(Item) /\ Len(queue') <= Len(queue) /\ Unique(queue')
      /\ Held' = Held \ {c}
      /\ \A i \in DOMAIN queue' : \E j \in DOMAIN queue : queue'[i] = queue[j]
      BY WithoutOne DEF DiscardQueuedCapture, IInv, QueueInv
<1>2. /\ discarded' = discarded \cup {c}
      /\ UNCHANGED <<minted, taken, held, form, flush, waiting, sends, server>>
      BY DEF DiscardQueuedCapture
<1>3. QueueInv' /\ PassedAreLabelled'
      BY <1>1, <1>2, FewerInv DEF PassedAreLabelled
<1>4. Known \subseteq Known'
      BY <1>1, <1>2 DEF Known
<1>5. LetGoInv' /\ FlushInv' /\ WaitingInv'
      BY <1>2, <1>4 DEF IInv, LetGoInv, FlushInv, WaitingInv, server
<1>6. QED
      BY <1>1, <1>2, <1>3, <1>4, <1>5, ClientStep

LEMMA ClearInv ==
  ASSUME IInv, ClearCaptureQueue
  PROVE  IInv' /\ Held' = {}
<1>1. /\ queue' = << >> /\ discarded' = discarded \cup Held
      /\ UNCHANGED <<minted, taken, held, form, flush, waiting, sends, server>>
      BY DEF ClearCaptureQueue
<1>2. Held' = {} /\ Held \subseteq Captures
      BY <1>1, ItemType DEF Held, IInv, QueueInv
<1>3. QueueInv' /\ PassedAreLabelled'
      BY <1>1, CaptureQueueAssumption DEF QueueInv, Unique, PassedAreLabelled
<1>4. Known \subseteq Known'
      BY <1>1, <1>2 DEF Known
<1>5. LetGoInv' /\ FlushInv' /\ WaitingInv'
      BY <1>1, <1>2, <1>4 DEF IInv, LetGoInv, FlushInv, WaitingInv, server
<1>6. QED
      BY <1>1, <1>2, <1>3, <1>4, <1>5, ClientStep

-------------------------------------------------------------------------------
(* Flushes.                                                                *)

(* The flush that runs next, if there is one.                              *)
LEMMA ChainedInv ==
  ASSUME IInv, Chained
  PROVE  /\ flush' \in Flush /\ flush'.phase # "sending"
         /\ flush'.phase = "idle" => waiting' = << >>
         /\ flush'.phase # "idle" => flush'.token \in Tokens
         /\ flush'.todo = << >> /\ flush'.passed = {}
         /\ WaitingInv'
<1>1. waiting \in Seq(Tokens)
      BY DEF IInv, WaitingInv
<1>2. CASE waiting = << >>
  <2>1. flush' = Idle /\ waiting' = << >>
        BY <1>2 DEF Chained
  <2>2. QED
        BY <2>1, CaptureQueueAssumption DEF Idle, Flush, WaitingInv
<1>3. CASE waiting # << >>
  <2>1. flush' = Starting(Head(waiting)) /\ waiting' = Tail(waiting) /\ Head(waiting) \in Tokens
        BY <1>1, <1>3 DEF Chained
  <2>2. /\ flush' \in Flush /\ flush'.phase = "starting" /\ flush'.token = Head(waiting)
        /\ flush'.todo = << >> /\ flush'.passed = {}
        BY <2>1, CaptureQueueAssumption DEF Starting, Idle, Flush, Tokens
  <2>3. /\ waiting' \in Seq(Tokens) /\ Len(waiting') = Len(waiting) - 1
        /\ \A i \in DOMAIN waiting' : waiting'[i] = waiting[i + 1] /\ i + 1 \in DOMAIN waiting
        BY <1>1, <1>3, <2>1
  <2>4. \A i \in DOMAIN waiting' : waiting'[i] # IF i = 1 THEN flush'.token ELSE waiting'[i - 1]
    <3>1. Head(waiting) = waiting[1]
          BY <1>1, <1>3
    <3>2. ASSUME NEW i \in DOMAIN waiting', i # 1 PROVE waiting'[i] # waiting'[i - 1]
      <4>1. i - 1 \in DOMAIN waiting' /\ waiting'[i - 1] = waiting[i] /\ waiting'[i] = waiting[i + 1]
            BY <2>3, <3>2
      <4>2. waiting[i + 1] # waiting[i]
            BY <1>1, <2>3, <3>2 DEF IInv, WaitingInv
      <4>3. QED
            BY <4>1, <4>2
    <3>3. ASSUME 1 \in DOMAIN waiting' PROVE waiting'[1] # flush'.token
      <4>1. waiting'[1] = waiting[2] /\ 2 \in DOMAIN waiting
            BY <2>3, <3>3
      <4>2. waiting[2] # IF 2 = 1 THEN flush.token ELSE waiting[2 - 1]
            BY <4>1 DEF IInv, WaitingInv
      <4>3. QED
            BY <2>2, <3>1, <4>1, <4>2
    <3>4. QED
          BY <2>3, <3>2, <3>3
  <2>5. Len(waiting') <= MaxWaiting
        BY <1>1, <2>3, CaptureQueueAssumption DEF IInv, WaitingInv
  <2>6. QED
        BY <2>1, <2>2, <2>3, <2>4, <2>5 DEF WaitingInv
<1>4. QED
      BY <1>2, <1>3

(* A flush that ends leaves the queue and what is known as they are.       *)
LEMMA EndedInv ==
  ASSUME IInv, UNCHANGED <<queue, minted, taken, discarded, server>>,
         held' \in Tokens, form' \in Forms,
         flush' \in Flush, flush'.phase # "sending", flush'.phase = "idle" => waiting' = << >>,
         flush'.phase # "idle" => flush'.token \in Tokens,
         flush'.todo = << >>, flush'.passed = {}, WaitingInv'
  PROVE  QueueInv' /\ LetGoInv' /\ FlushInv' /\ PassedAreLabelled' /\ ReceiptsInv' /\ ImportsInv'
         /\ Known' = Known
<1>1. Known' = Known /\ Held' = Held
      BY DEF Known, Held
<1>2. QueueInv' /\ LetGoInv'
      BY DEF IInv, QueueInv, Unique, LetGoInv, server
<1>3. FlushInv' /\ PassedAreLabelled'
      BY DEF FlushInv, PassedAreLabelled
<1>4. ReceiptsInv' /\ ImportsInv'
      BY DEF IInv, ReceiptsInv, ImportsInv, server
<1>5. QED
      BY <1>1, <1>2, <1>3, <1>4

(* The response is read.                                                   *)
LEMMA ReadInv ==
  ASSUME IInv, flush.phase = "sending", Read, UNCHANGED written, Known \subseteq Known'
  PROVE  SendsInv' /\ DOMAIN sends' = DOMAIN sends
<1>1. sends \in Seq(Send) /\ sends # << >> /\ Len(sends) \in DOMAIN sends
      BY DEF IInv, SendsInv, FlushInv
<1>2. sends[Len(sends)] \in Send
      BY <1>1
<1>3. sends' = [sends EXCEPT ![Len(sends)] =
                 [sends[Len(sends)] EXCEPT !.at = sends[Len(sends)].at, !.answer = "none"]]
      BY <1>1, <1>2 DEF Read, Send
<1>4. sends[Len(sends)].at \in {"sent", "claimed", "imported", "done"}
      BY <1>2 DEF Send
<1>5. /\ sends' \in Seq(Send) /\ Len(sends') = Len(sends) /\ DOMAIN sends' = DOMAIN sends
      /\ \A r \in DOMAIN sends : /\ sends'[r].key = sends[r].key
                                 /\ r # Len(sends) => sends'[r] = sends[r]
      /\ sends'[Len(sends)].at = sends[Len(sends)].at /\ sends'[Len(sends)].answer = "none"
      BY <1>1, <1>3, <1>4, SendMoves
<1>6. QED
      BY <1>5 DEF IInv, SendsInv

LEMMA StopInv ==
  ASSUME IInv, SendFails \/ EndFlush \/ FlushRejects \/ SaveToken \/ WorkerDies
  PROVE  IInv' /\ Held' = Held
<1>0. Held' = Held
      BY DEF SendFails, EndFlush, FlushRejects, SaveToken, WorkerDies, Held
<1>1. CASE SendFails
  <2>1. QueueInv' /\ LetGoInv' /\ FlushInv' /\ PassedAreLabelled' /\ ReceiptsInv' /\ ImportsInv'
        /\ Known' = Known /\ WaitingInv'
        BY <1>1, ChainedInv, EndedInv DEF SendFails, IInv, LetGoInv, server
  <2>2. SendsInv'
        BY <1>1, <2>1, ReadInv DEF SendFails, server
  <2>3. QED
        BY <1>0, <2>1, <2>2 DEF IInv
<1>2. CASE EndFlush \/ FlushRejects
  <2>1. QueueInv' /\ LetGoInv' /\ FlushInv' /\ PassedAreLabelled' /\ ReceiptsInv' /\ ImportsInv'
        /\ Known' = Known /\ WaitingInv'
        BY <1>2, ChainedInv, EndedInv DEF EndFlush, FlushRejects, IInv, LetGoInv, server
  <2>2. SendsInv'
        BY <1>2, <2>1 DEF EndFlush, FlushRejects, server, IInv, SendsInv
  <2>3. QED
        BY <1>0, <2>1, <2>2 DEF IInv
<1>3. CASE SaveToken
  <2>1. Known' = Known
        BY <1>0, <1>3 DEF SaveToken, Known
  <2>2. QED
        BY <1>0, <1>3, <2>1
        DEF SaveToken, server, IInv, QueueInv, Unique, LetGoInv, FlushInv, WaitingInv, SendsInv,
            ReceiptsInv, ImportsInv, PassedAreLabelled
<1>4. CASE WorkerDies
  <2>1. /\ flush' \in Flush /\ flush'.phase = "idle" /\ flush'.todo = << >> /\ flush'.passed = {}
        /\ waiting' = << >>
        BY <1>4, CaptureQueueAssumption DEF WorkerDies, Idle, Flush
  <2>2. WaitingInv'
        BY <2>1, CaptureQueueAssumption DEF WaitingInv
  <2>3. Known' = Known
        BY <1>0, <1>4 DEF WorkerDies, Known
  <2>4. QueueInv' /\ LetGoInv' /\ ReceiptsInv' /\ ImportsInv'
        BY <1>4 DEF WorkerDies, IInv, QueueInv, Unique, LetGoInv, ReceiptsInv, ImportsInv, server
  <2>5. FlushInv' /\ PassedAreLabelled'
        BY <2>1 DEF FlushInv, PassedAreLabelled
  <2>6. SendsInv'
    <3>1. CASE flush.phase = "sending"
          BY <1>4, <2>3, <3>1, ReadInv DEF WorkerDies, server
    <3>2. CASE flush.phase # "sending"
          BY <1>4, <2>3, <3>2 DEF WorkerDies, server, IInv, SendsInv
    <3>3. QED
          BY <3>1, <3>2
  <2>7. QED
        BY <1>0, <2>2, <2>4, <2>5, <2>6 DEF IInv
<1>5. QED
      BY <1>1, <1>2, <1>3, <1>4

LEMMA FlushAsked ==
  ASSUME IInv, NEW t \in Tokens, FlushCaptureQueue(t)
  PROVE  IInv' /\ Held' = Held
<1>1. UNCHANGED <<queue, minted, taken, discarded, held, form, sends, server>>
      BY DEF FlushCaptureQueue
<1>2. Held' = Held /\ Known' = Known
      BY <1>1 DEF Held, Known
<1>3. QueueInv' /\ LetGoInv' /\ SendsInv' /\ ReceiptsInv' /\ ImportsInv'
      BY <1>1, <1>2 DEF IInv, QueueInv, Unique, LetGoInv, SendsInv, ReceiptsInv, ImportsInv, server
<1>4. CASE flush.phase = "idle"
  <2>1. flush' = Starting(t) /\ waiting' = waiting /\ waiting = << >>
        BY <1>4 DEF FlushCaptureQueue, IInv, FlushInv
  <2>2. /\ flush' \in Flush /\ flush'.phase = "starting" /\ flush'.token = t
        /\ flush'.todo = << >> /\ flush'.passed = {}
        BY <2>1, CaptureQueueAssumption DEF Starting, Flush, Tokens
  <2>3. FlushInv' /\ PassedAreLabelled'
        BY <2>2 DEF FlushInv, PassedAreLabelled
  <2>4. WaitingInv'
        BY <2>1, CaptureQueueAssumption DEF WaitingInv
  <2>5. QED
        BY <1>2, <1>3, <2>3, <2>4 DEF IInv
<1>5. CASE flush.phase # "idle"
  <2>1. /\ UNCHANGED flush /\ waiting' = Append(waiting, t) /\ Len(waiting) < MaxWaiting
        /\ t # IF waiting = << >> THEN flush.token ELSE Last(waiting)
        BY <1>5 DEF FlushCaptureQueue
  <2>2. waiting \in Seq(Tokens)
        BY DEF IInv, WaitingInv
  <2>3. /\ waiting' \in Seq(Tokens) /\ Len(waiting') = Len(waiting) + 1
        /\ waiting'[Len(waiting')] = t /\ \A i \in DOMAIN waiting : waiting'[i] = waiting[i]
        BY <2>1, <2>2
  <2>4. Len(waiting') <= MaxWaiting
        BY <2>1, <2>2, <2>3, CaptureQueueAssumption
  <2>5. ASSUME NEW i \in DOMAIN waiting'
        PROVE  waiting'[i] # IF i = 1 THEN flush'.token ELSE waiting'[i - 1]
    <3>1. CASE i \in DOMAIN waiting
      <4>1. i # 1 => i - 1 \in DOMAIN waiting
            BY <2>2, <3>1
      <4>2. QED
            BY <2>1, <2>3, <3>1, <4>1 DEF IInv, WaitingInv
    <3>2. CASE i = Len(waiting') /\ waiting = << >>
          BY <2>1, <2>2, <2>3, <3>2
    <3>3. CASE i = Len(waiting') /\ waiting # << >>
      <4>1. i - 1 = Len(waiting) /\ i - 1 \in DOMAIN waiting /\ i # 1
            BY <2>2, <2>3, <3>3
      <4>2. QED
            BY <2>1, <2>3, <3>3, <4>1 DEF Last
    <3>4. QED
          BY <2>2, <2>3, <3>1, <3>2, <3>3
  <2>6. WaitingInv'
        BY <2>3, <2>4, <2>5 DEF WaitingInv
  <2>7. FlushInv' /\ PassedAreLabelled'
        BY <1>1, <1>2, <1>5, <2>1 DEF IInv, FlushInv, PassedAreLabelled
  <2>8. QED
        BY <1>2, <1>3, <2>6, <2>7 DEF IInv
<1>6. QED
      BY <1>4, <1>5

LEMMA BeginInv ==
  ASSUME IInv, BeginFlush
  PROVE  IInv' /\ Held' = Held
<1>1. UNCHANGED <<queue, minted, taken, discarded, held, form, waiting, sends, server>>
      BY DEF BeginFlush
<1>2. Held' = Held /\ Known' = Known
      BY <1>1 DEF Held, Known
<1>3. QueueInv' /\ LetGoInv' /\ SendsInv' /\ ReceiptsInv' /\ ImportsInv'
      BY <1>1, <1>2 DEF IInv, QueueInv, Unique, LetGoInv, SendsInv, ReceiptsInv, ImportsInv, server
<1>4. queue \in Seq(Item)
      BY DEF IInv, QueueInv
<1>5. PICK todo : /\ todo = [i \in DOMAIN queue |-> queue[i].id]
                  /\ flush' = [flush EXCEPT !.phase = "running", !.todo = todo]
      BY DEF BeginFlush
<1>6. todo \in Seq(Captures) /\ \A i \in DOMAIN todo : todo[i] \in Held
  <2>1. \A i \in DOMAIN queue : queue[i].id \in Captures
        BY <1>4, ItemType
  <2>2. QED
        BY <1>4, <1>5, <2>1 DEF Held
<1>7. /\ flush' \in Flush /\ flush'.phase = "running" /\ flush'.todo = todo
      /\ flush'.passed = flush.passed /\ flush'.token = flush.token
      BY <1>5, <1>6 DEF IInv, FlushInv, Flush
<1>8. FlushInv'
      BY <1>2, <1>6, <1>7 DEF BeginFlush, IInv, FlushInv, Known
<1>9. WaitingInv' /\ PassedAreLabelled'
      BY <1>1, <1>7 DEF IInv, WaitingInv, PassedAreLabelled
<1>10. QED
       BY <1>2, <1>3, <1>8, <1>9 DEF IInv

(* The item at the head of the snapshot is done with.                      *)
LEMMA PassedFlush ==
  ASSUME IInv, flush.todo # << >>
  PROVE  /\ Passed(flush) \in Flush /\ Passed(flush).phase = "running"
         /\ Passed(flush).token = flush.token
         /\ Passed(flush).passed = flush.passed \cup {Head(flush.todo)}
         /\ \A i \in DOMAIN Passed(flush).todo : Passed(flush).todo[i] \in Known
         /\ Head(flush.todo) \in Known /\ Head(flush.todo) \in Captures
<1>1. flush \in Flush /\ flush.todo \in Seq(Captures) /\ flush.passed \subseteq Captures
      BY DEF IInv, FlushInv, Flush
<1>2. /\ Tail(flush.todo) \in Seq(Captures) /\ Head(flush.todo) = flush.todo[1] /\ 1 \in DOMAIN flush.todo
      /\ \A i \in DOMAIN Tail(flush.todo) : Tail(flush.todo)[i] = flush.todo[i + 1] /\ i + 1 \in DOMAIN flush.todo
      BY <1>1
<1>3. Head(flush.todo) \in Known /\ Head(flush.todo) \in Captures
      BY <1>1, <1>2 DEF IInv, FlushInv
<1>4. /\ Passed(flush) \in Flush /\ Passed(flush).phase = "running"
      /\ Passed(flush).token = flush.token /\ Passed(flush).todo = Tail(flush.todo)
      /\ Passed(flush).passed = flush.passed \cup {Head(flush.todo)}
      BY <1>1, <1>2, <1>3 DEF Passed, Flush
<1>5. QED
      BY <1>2, <1>3, <1>4 DEF IInv, FlushInv

(* A flush that goes on; what it has passed over was superseded, or is no  *)
(* longer in the queue.                                                    *)
LEMMA GoesOn ==
  ASSUME IInv, flush.phase # "idle", flush.todo # << >>, flush' = Passed(flush),
         Known \subseteq Known', UNCHANGED waiting,
         \A i \in DOMAIN queue' :
           queue'[i].id \in flush.passed \cup {Head(flush.todo)} => queue'[i].superseded
  PROVE  FlushInv' /\ WaitingInv' /\ PassedAreLabelled'
<1>1. FlushInv'
      BY PassedFlush DEF IInv, FlushInv
<1>2. WaitingInv'
      BY PassedFlush DEF IInv, WaitingInv
<1>3. PassedAreLabelled'
      BY PassedFlush DEF PassedAreLabelled
<1>4. QED
      BY <1>1, <1>2, <1>3

LEMMA SkipInv ==
  ASSUME IInv, SkipItem
  PROVE  IInv' /\ Held' = Held
<1>1. UNCHANGED <<queue, minted, taken, discarded, held, form, waiting, sends, server>>
      BY DEF SkipItem
<1>2. Held' = Held /\ Known' = Known
      BY <1>1 DEF Held, Known
<1>3. QueueInv' /\ LetGoInv' /\ SendsInv' /\ ReceiptsInv' /\ ImportsInv'
      BY <1>1, <1>2 DEF IInv, QueueInv, Unique, LetGoInv, SendsInv, ReceiptsInv, ImportsInv, server
<1>4. \A i \in DOMAIN queue : queue[i].id = Head(flush.todo) => queue[i].superseded
      BY HeldAt DEF SkipItem, IInv, QueueInv, Unique, Held
<1>5. FlushInv' /\ WaitingInv' /\ PassedAreLabelled'
      BY <1>1, <1>2, <1>4, GoesOn DEF SkipItem, IInv, PassedAreLabelled
<1>6. QED
      BY <1>2, <1>3, <1>5 DEF IInv

LEMMA SendItemInv ==
  ASSUME IInv, SendItem
  PROVE  IInv' /\ Held' = Held
<1> DEFINE c == Head(flush.todo)
           item == Identified(queue[At(c)])
           sent == [key |-> <<c, item.n>>, token |-> flush.token, form |-> form,
                    at |-> "sent", answer |-> "none"]
<1>1. queue \in Seq(Item) /\ Unique(queue) /\ minted \in [Captures -> {0, 1}] /\ sends \in Seq(Send)
      BY DEF IInv, QueueInv, LetGoInv, SendsInv
<1>2. c \in Held /\ c \in Captures /\ At(c) \in DOMAIN queue /\ queue[At(c)].id = c
      /\ queue[At(c)] \in Item /\ ~queue[At(c)].superseded
      BY <1>1, HeldAt, ItemType DEF SendItem
<1>3. item \in Item /\ item.id = c /\ item.n = 1 /\ ~item.superseded
  <2>1. queue[At(c)].n \in {0, 1} /\ minted[c] = queue[At(c)].n
        BY <1>2 DEF IInv, QueueInv
  <2>2. CASE queue[At(c)].n = 1
        BY <1>2, <2>2 DEF Identified
  <2>3. CASE queue[At(c)].n = 0
    <3>1. item = [queue[At(c)] EXCEPT !.n = 1]
          BY <1>2, <2>1, <2>3 DEF Identified
    <3>2. QED
          BY <1>2, <3>1, CaptureQueueAssumption DEF Item
  <2>4. QED
        BY <2>1, <2>2, <2>3
<1>4. /\ queue' = [queue EXCEPT ![At(c)] = item]
      /\ minted' = [minted EXCEPT ![c] = item.n]
      /\ sends' = Append(sends, sent)
      /\ flush' = [flush EXCEPT !.phase = "sending"]
      /\ Len(sends) < MaxSends /\ flush.todo # << >> /\ flush.phase = "running"
      /\ UNCHANGED <<taken, discarded, held, form, waiting, server>>
      BY DEF SendItem
<1> HIDE DEF item
<1>5. /\ queue' \in Seq(Item) /\ Unique(queue') /\ Len(queue') = Len(queue) /\ Held' = Held
      /\ \A i \in DOMAIN queue' : queue'[i] = IF queue[i].id = c THEN item ELSE queue[i]
      BY <1>1, <1>2, <1>3, <1>4, StoredAgain
<1>6. Known' = Known /\ c \in Known
      BY <1>2, <1>4, <1>5 DEF Known
<1>7. flush \in Flush /\ flush.token \in Tokens
      BY <1>4 DEF IInv, FlushInv
<1>8. QueueInv'
  <2>1. \A i \in DOMAIN queue : queue[i].id \in Captures
        BY <1>1, ItemType
  <2>2. \A i \in DOMAIN queue' : queue'[i].n \in {0, 1} /\ minted'[queue'[i].id] = queue'[i].n
    <3>1. DOMAIN queue' = DOMAIN queue /\ minted' = [minted EXCEPT ![c] = 1]
          BY <1>1, <1>3, <1>4, <1>5
    <3>2. ASSUME NEW i \in DOMAIN queue', queue[i].id = c
          PROVE  queue'[i].n \in {0, 1} /\ minted'[queue'[i].id] = queue'[i].n
          BY <1>1, <1>2, <1>3, <1>5, <3>1, <3>2
    <3>3. ASSUME NEW i \in DOMAIN queue', queue[i].id # c
          PROVE  queue'[i].n \in {0, 1} /\ minted'[queue'[i].id] = queue'[i].n
          BY <1>1, <1>5, <2>1, <3>1, <3>3 DEF IInv, QueueInv
    <3>4. QED
          BY <3>2, <3>3
  <2>3. QED
        BY <1>5, <2>2 DEF IInv, QueueInv
<1>9. LetGoInv'
      BY <1>1, <1>2, <1>3, <1>4 DEF IInv, LetGoInv, server
<1>10. sent \in Send /\ sent.key = <<c, 1>> /\ sent.at = "sent" /\ sent.answer = "none"
  <2>1. <<c, 1>> \in Keys /\ form \in Forms
        BY <1>2, CaptureQueueAssumption DEF Keys, IInv, LetGoInv
  <2>2. QED
        BY <1>3, <1>7, <2>1 DEF Send
<1> HIDE DEF sent
<1>11. /\ sends' \in Seq(Send) /\ Len(sends') = Len(sends) + 1 /\ Len(sends') \in DOMAIN sends'
       /\ sends'[Len(sends')] = sent /\ sends' # << >>
       /\ \A s \in DOMAIN sends' : s = Len(sends') \/ (s \in DOMAIN sends /\ sends'[s] = sends[s])
       BY <1>1, <1>4, <1>10
<1>12. SendsInv'
  <2>1. Len(sends') <= MaxSends
        BY <1>1, <1>4, <1>11, CaptureQueueAssumption
  <2>2. ASSUME NEW s \in DOMAIN sends'
        PROVE  /\ sends'[s].key[1] \in Known' /\ sends'[s].key[2] = 1
               /\ sends'[s].at = "imported" => sends'[s].key \in written'
               /\ sends'[s].answer = "acknowledged" => sends'[s].key \in written'
    <3>1. CASE s = Len(sends')
          BY <1>6, <1>10, <1>11, <3>1
    <3>2. CASE s \in DOMAIN sends /\ sends'[s] = sends[s]
          BY <1>4, <1>6, <3>2 DEF IInv, SendsInv, server
    <3>3. QED
          BY <1>11, <3>1, <3>2
  <2>3. QED
        BY <1>11, <2>1, <2>2 DEF SendsInv
<1>13. /\ flush' \in Flush /\ flush'.phase = "sending" /\ flush'.todo = flush.todo
       /\ flush'.token = flush.token /\ flush'.passed = flush.passed
       BY <1>4, <1>7 DEF Flush
<1>14. FlushInv'
  <2>1. sends'[Len(sends')].key[1] = Head(flush'.todo)
        BY <1>10, <1>11, <1>13
  <2>2. QED
        BY <1>4, <1>6, <1>7, <1>11, <1>13, <2>1 DEF IInv, FlushInv
<1>15. WaitingInv'
       BY <1>4, <1>13 DEF IInv, WaitingInv
<1>16. PassedAreLabelled'
  <2>1. c \notin flush.passed
        BY <1>2 DEF IInv, PassedAreLabelled
  <2>2. QED
        BY <1>1, <1>3, <1>5, <1>13, <2>1 DEF IInv, PassedAreLabelled
<1>17. ReceiptsInv' /\ ImportsInv'
       BY <1>4 DEF IInv, ReceiptsInv, ImportsInv, server
<1>18. QED
       BY <1>5, <1>8, <1>9, <1>12, <1>14, <1>15, <1>16, <1>17 DEF IInv

LEMMA AcknowledgedInv ==
  ASSUME IInv, Acknowledged
  PROVE  /\ IInv'
         /\ LET c == Head(flush.todo)
            IN /\ Held' = Held \ {c} /\ taken' = taken \cup ({c} \cap Held)
               /\ c \in Captures /\ imports[c] = 1
<1> DEFINE c == Head(flush.todo)
<1>1. queue' = Without(c) /\ taken' = taken \cup ({c} \cap Held)
      BY DEF Acknowledged
<1>2. /\ queue' \in Seq(Item) /\ Len(queue') <= Len(queue) /\ Unique(queue')
      /\ Held' = Held \ {c}
      /\ \A i \in DOMAIN queue' : \E j \in DOMAIN queue : queue'[i] = queue[j]
      BY <1>1, WithoutOne DEF IInv, QueueInv
<1>3. /\ flush.phase = "sending" /\ flush.todo # << >> /\ flush' = Passed(flush) /\ Read
      /\ UNCHANGED <<minted, discarded, held, form, waiting, server>>
      BY DEF Acknowledged, IInv, FlushInv
<1>4. c \in Captures /\ c \in Known
      BY <1>3, PassedFlush
<1>5. <<c, 1>> \in written /\ imports[c] = 1
  <2>1. sends \in Seq(Send) /\ sends # << >> /\ Len(sends) \in DOMAIN sends
        BY <1>3 DEF IInv, SendsInv, FlushInv
  <2>2. sends[Len(sends)].answer = "acknowledged"
        BY DEF Acknowledged, IsCaptureAcknowledgement, Response, Last
  <2>3. sends[Len(sends)].key \in written /\ sends[Len(sends)].key[2] = 1 /\ sends[Len(sends)].key[1] = c
        BY <1>3, <2>1, <2>2 DEF IInv, SendsInv, FlushInv
  <2>4. sends[Len(sends)].key = <<c, 1>>
        BY <2>1, <2>3, SendType DEF Keys
  <2>5. QED
        BY <1>4, <2>3, <2>4 DEF IInv, ImportsInv
<1>6. Known' = Known
      BY <1>1, <1>2, <1>3, <1>4 DEF Known
<1>7. /\ QueueInv'
      /\ \A i \in DOMAIN queue' : queue'[i].id \in flush.passed => queue'[i].superseded
      BY <1>2, <1>3, FewerInv
<1>8. \A i \in DOMAIN queue' : queue'[i].id # c
      BY <1>2 DEF Held
<1>9. FlushInv' /\ WaitingInv' /\ PassedAreLabelled'
      BY <1>3, <1>6, <1>7, <1>8, GoesOn
<1>10. LetGoInv'
  <2>1. taken' \subseteq Captures /\ \A d \in taken' : <<d, 1>> \in written
        BY <1>1, <1>4, <1>5 DEF IInv, LetGoInv
  <2>2. QED
        BY <1>3, <2>1 DEF IInv, LetGoInv, server
<1>11. SendsInv'
       BY <1>3, <1>6, ReadInv DEF server
<1>12. ReceiptsInv' /\ ImportsInv'
       BY <1>3 DEF IInv, ReceiptsInv, ImportsInv, server
<1>13. QED
       BY <1>1, <1>2, <1>4, <1>5, <1>7, <1>9, <1>10, <1>11, <1>12 DEF IInv

LEMMA SupersededInv ==
  ASSUME IInv, Superseded
  PROVE  IInv' /\ Held' = Held
<1> DEFINE c == Head(flush.todo)
<1>1. /\ flush.phase = "sending" /\ flush.todo # << >> /\ flush' = Passed(flush) /\ Read
      /\ UNCHANGED <<minted, taken, discarded, held, form, waiting, server>>
      BY DEF Superseded, IInv, FlushInv
<1>2. queue \in Seq(Item) /\ Unique(queue)
      BY DEF IInv, QueueInv
<1>3. /\ Held' = Held /\ QueueInv'
      /\ \A i \in DOMAIN queue' : queue'[i].id \in flush.passed \cup {c} => queue'[i].superseded
  <2>1. CASE c \notin Held
    <3>1. queue' = queue
          BY <2>1 DEF Superseded
    <3>2. QED
          BY <1>1, <2>1, <3>1 DEF IInv, QueueInv, Unique, PassedAreLabelled, Held
  <2>2. CASE c \in Held
    <3> DEFINE item == [queue[At(c)] EXCEPT !.superseded = TRUE]
    <3>1. At(c) \in DOMAIN queue /\ queue[At(c)].id = c /\ queue[At(c)] \in Item
          BY <1>2, <2>2, HeldAt, ItemType
    <3>2. item \in Item /\ item.id = c /\ item.superseded /\ item.n = queue[At(c)].n
          BY <3>1 DEF Item
    <3>3. queue' = [queue EXCEPT ![At(c)] = item]
          BY <2>2 DEF Superseded
    <3> HIDE DEF item
    <3>4. /\ queue' \in Seq(Item) /\ Unique(queue') /\ Len(queue') = Len(queue) /\ Held' = Held
          /\ \A i \in DOMAIN queue' : queue'[i] = IF queue[i].id = c THEN item ELSE queue[i]
          BY <1>2, <2>2, <3>2, <3>3, StoredAgain
    <3>5. \A i \in DOMAIN queue' : queue'[i].id = queue[i].id /\ queue'[i].n = queue[i].n
          BY <1>2, <3>1, <3>2, <3>4 DEF Unique
    <3>6. DOMAIN queue' = DOMAIN queue
          BY <1>2, <3>4
    <3>7. QueueInv'
          BY <1>1, <3>4, <3>5, <3>6 DEF IInv, QueueInv
    <3>8. \A i \in DOMAIN queue' : queue'[i].id \in flush.passed \cup {c} => queue'[i].superseded
          BY <3>2, <3>4, <3>5, <3>6 DEF IInv, PassedAreLabelled
    <3>9. QED
          BY <3>4, <3>7, <3>8
  <2>3. QED
        BY <2>1, <2>2
<1>4. Known' = Known
      BY <1>1, <1>3 DEF Known
<1>5. FlushInv' /\ WaitingInv' /\ PassedAreLabelled'
      BY <1>1, <1>3, <1>4, GoesOn
<1>6. LetGoInv'
      BY <1>1 DEF IInv, LetGoInv, server
<1>7. SendsInv'
      BY <1>1, <1>4, ReadInv DEF server
<1>8. ReceiptsInv' /\ ImportsInv'
      BY <1>1 DEF IInv, ReceiptsInv, ImportsInv, server
<1>9. QED
      BY <1>3, <1>5, <1>6, <1>7, <1>8 DEF IInv

-------------------------------------------------------------------------------
LEMMA InitInv == Init => IInv
<1> SUFFICES ASSUME Init PROVE IInv
    OBVIOUS
<1>1. PICK order \in SetToSeqs(Legacy) :
        queue = [i \in 1..Cardinality(Legacy) |-> [id |-> order[i], n |-> 0, superseded |-> FALSE]]
      BY DEF Init
<1>2. IsFiniteSet(Legacy) /\ Cardinality(Legacy) \in Nat /\ Legacy \subseteq Captures
      BY CaptureQueueAssumption, FS_Subset, FS_CardinalityType
<1>3. /\ order \in [1..Cardinality(Legacy) -> Legacy]
      /\ \A i, j \in 1..Cardinality(Legacy) : i # j => order[i] # order[j]
      BY DEF SetToSeqs
<1>4. /\ queue \in Seq(Item) /\ Len(queue) = Cardinality(Legacy)
      /\ \A i \in DOMAIN queue : queue[i] = [id |-> order[i], n |-> 0, superseded |-> FALSE]
  <2>1. \A i \in 1..Cardinality(Legacy) : [id |-> order[i], n |-> 0, superseded |-> FALSE] \in Item
        BY <1>2, <1>3, CaptureQueueAssumption DEF Item
  <2>2. QED
        BY <1>1, <1>2, <2>1
<1>5. QueueInv
  <2>1. Unique(queue)
        BY <1>2, <1>3, <1>4 DEF Unique
  <2>2. QED
        BY <1>2, <1>3, <1>4, <2>1, CaptureQueueAssumption DEF Init, QueueInv
<1>6. flush = Idle /\ waiting = << >> /\ sends = << >> /\ taken = {} /\ written = {}
      BY DEF Init
<1>7. FlushInv /\ PassedAreLabelled
      BY <1>6, CaptureQueueAssumption DEF FlushInv, Idle, Flush, PassedAreLabelled
<1>8. WaitingInv /\ SendsInv
      BY <1>6, CaptureQueueAssumption DEF WaitingInv, SendsInv
<1>9. LetGoInv
      BY CaptureQueueAssumption DEF Init, LetGoInv, Tokens, Forms
<1>10. ReceiptsInv
  <2>1. [state |-> "none", owner |-> 0, form |-> 0, leased |-> FALSE] \in Receipt
        BY CaptureQueueAssumption DEF Receipt
  <2>2. QED
        BY <2>1, CaptureQueueAssumption DEF Init, ReceiptsInv, Tokens
<1>11. ImportsInv
       BY DEF Init, ImportsInv
<1>12. QED
       BY <1>5, <1>7, <1>8, <1>9, <1>10, <1>11 DEF IInv

LEMMA StutterInv == IInv /\ UNCHANGED vars => IInv'
<1> SUFFICES ASSUME IInv, UNCHANGED vars PROVE IInv'
    OBVIOUS
<1>1. Held' = Held /\ Known' = Known
      BY DEF vars, client, Held, Known
<1>2. QueueInv' /\ LetGoInv' /\ PassedAreLabelled'
      BY DEF vars, client, server, IInv, QueueInv, Unique, LetGoInv, PassedAreLabelled
<1>3. FlushInv' /\ WaitingInv'
      BY <1>1 DEF vars, client, IInv, FlushInv, WaitingInv
<1>4. SendsInv' /\ ReceiptsInv' /\ ImportsInv'
      BY <1>1 DEF vars, server, IInv, SendsInv, ReceiptsInv, ImportsInv
<1>5. QED
      BY <1>2, <1>3, <1>4 DEF IInv

LEMMA StepInv == IInv /\ [Next]_vars => IInv'
<1> SUFFICES ASSUME IInv, [Next]_vars PROVE IInv'
    OBVIOUS
<1>1. CASE Extension
      BY <1>1, CaptureInv, DiscardInv, ClearInv, FlushAsked, BeginInv, SkipInv, SendItemInv,
         AcknowledgedInv, SupersededInv, StopInv DEF Extension
<1>2. CASE Server
      BY <1>2, ReplyInv, ClaimInv, ImportInv, AcceptInv, FailInv, OtherServerInv DEF Server
<1>3. QED
      BY <1>1, <1>2, StutterInv DEF Next

(* The queue, the flushes, the requests and the receipts fit together      *)
(* after every step.                                                       *)
THEOREM Invariant == Spec => []IInv
<1>1. QED
      BY InitInv, StepInv, PTL DEF Spec

(* Every value of every variable has its type; item ids are unique, and no *)
(* flush is chained behind one with the same token.                        *)
THEOREM TypeCorrect == Spec => []TypeOK
<1>1. IInv => TypeOK
  <2> SUFFICES ASSUME IInv PROVE TypeOK
      OBVIOUS
  <2>1. \A i \in DOMAIN waiting : waiting[i] # (<<flush.token>> \o waiting)[i]
    <3>1. waiting \in Seq(Tokens)
          BY DEF IInv, WaitingInv
    <3>2. ASSUME NEW i \in DOMAIN waiting
          PROVE  (<<flush.token>> \o waiting)[i] = IF i = 1 THEN flush.token ELSE waiting[i - 1]
          BY <3>1
    <3>3. QED
          BY <3>2 DEF IInv, WaitingInv
  <2>2. minted \in [Captures -> 0..MaxSends]
        BY CaptureQueueAssumption DEF IInv, LetGoInv
  <2>3. QED
        BY <2>1, <2>2
        DEF TypeOK, IInv, QueueInv, Unique, LetGoInv, FlushInv, WaitingInv, SendsInv, ReceiptsInv, ImportsInv
<1>2. QED
      BY <1>1, Invariant, PTL

(* A flush passes over nothing that is not labelled for the user.          *)
THEOREM PassedLabelled == Spec => []PassedAreLabelled
<1>1. QED
      BY Invariant, PTL DEF IInv

(* What is accepted has been imported, whoever imported it.                *)
THEOREM ImportedBefore == Spec => []AcceptedIsImported
<1>1. IInv => AcceptedIsImported
      BY DEF IInv, ReceiptsInv, AcceptedIsImported
<1>2. QED
      BY <1>1, Invariant, PTL

(* A late failure of an importer that was overtaken changes no receipt     *)
(* that is accepted.                                                       *)
THEOREM AcceptedForEver == Spec => AcceptedStands
<1>1. IInv /\ [Next]_vars =>
        [\A k \in Keys : receipts[k].state = "accepted" => receipts'[k].state = "accepted"]_vars
  <2> SUFFICES ASSUME IInv, [Next]_vars, NEW k \in Keys, receipts[k].state = "accepted"
               PROVE  receipts'[k].state = "accepted"
      OBVIOUS
  <2>1. UNCHANGED receipts => receipts'[k].state = "accepted"
        OBVIOUS
  <2>2. CASE Extension
        BY <2>1, <2>2
        DEF Extension, server, Capture, DiscardQueuedCapture, ClearCaptureQueue, FlushCaptureQueue,
            BeginFlush, SkipItem, SendItem, Acknowledged, Superseded, SendFails, EndFlush,
            FlushRejects, SaveToken, WorkerDies
  <2>3. ASSUME NEW s \in DOMAIN sends, ClaimReceipt(s) PROVE receipts'[k].state = "accepted"
    <3>1. sends[s].key # k
          BY <2>3 DEF ClaimReceipt, Reply
    <3>2. QED
          BY <2>3, <3>1 DEF ClaimReceipt, IInv, ReceiptsInv
  <2>4. ASSUME NEW s \in DOMAIN sends, AcceptReceipt(s) PROVE receipts'[k].state = "accepted"
    <3>1. sends[s].key # k
          BY <2>4 DEF AcceptReceipt, Owns
    <3>2. QED
          BY <2>4, <3>1 DEF AcceptReceipt, IInv, ReceiptsInv
  <2>5. ASSUME NEW s \in DOMAIN sends, FailCapture(s) PROVE receipts'[k].state = "accepted"
    <3>1. CASE Owns(s)
      <4>1. sends[s].key # k
            BY <3>1 DEF Owns
      <4>2. QED
            BY <2>5, <3>1, <4>1 DEF FailCapture, FailedReceipt, IInv, ReceiptsInv
    <3>2. CASE ~Owns(s)
          BY <2>5, <3>2 DEF FailCapture, FailedReceipt
    <3>3. QED
          BY <3>1, <3>2
  <2>6. ASSUME NEW l \in Keys, LeaseExpires(l) PROVE receipts'[k].state = "accepted"
    <3>1. l # k
          BY <2>6 DEF LeaseExpires
    <3>2. QED
          BY <2>6, <3>1 DEF LeaseExpires, IInv, ReceiptsInv
  <2>7. QED
        BY <2>1, <2>2, <2>3, <2>4, <2>5, <2>6
        DEF Next, Server, ReplyCapture, ImportCapture, ServerDies, RotateToken, server, vars
<1>2. QED
      BY <1>1, Invariant, PTL DEF Spec, AcceptedStands

-------------------------------------------------------------------------------
(* The queue and the receipts keep the promise of CaptureOnce: each step   *)
(* takes a capture, discards some, imports one for the first time, lets    *)
(* one go that was imported, or changes nothing the user would see.        *)
THEOREM KeepsThePromise == Spec => KeepsPromise
<1>1. Init => Once!Init
  <2> SUFFICES ASSUME Init PROVE Once!Init
      OBVIOUS
  <2>1. Held \subseteq Captures
        BY InitInv, ItemType DEF IInv, QueueInv
  <2>2. QED
        BY <2>1 DEF Init, Once!Init
<1>2. IInv /\ [Next]_vars => [Once!Next]_Once!vars
  <2> SUFFICES ASSUME IInv, [Next]_vars PROVE [Once!Next]_Once!vars
      OBVIOUS
  <2>0. Held' = Held /\ UNCHANGED <<imports, taken, discarded>> => UNCHANGED Once!vars
        BY DEF Once!vars
  <2>1. ASSUME NEW c \in Captures, Capture(c) PROVE Once!Next
        BY <2>1, CaptureInv DEF Capture, server, Once!Next, Once!Take
  <2>2. ASSUME NEW c \in Captures, DiscardQueuedCapture(c) PROVE Once!Next
    <3>1. Once!Discard({c}) /\ {c} \in SUBSET Captures
          BY <2>2, DiscardInv DEF DiscardQueuedCapture, server, Once!Discard
    <3>2. QED
          BY <3>1 DEF Once!Next
  <2>3. CASE ClearCaptureQueue
    <3>1. Held \in SUBSET Captures
          BY ItemType DEF IInv, QueueInv
    <3>2. Once!Discard(Held)
          BY <2>3, ClearInv DEF ClearCaptureQueue, server, Once!Discard
    <3>3. QED
          BY <3>1, <3>2 DEF Once!Next
  <2>4. CASE Acknowledged
    <3> DEFINE c == Head(flush.todo)
    <3>1. Held' = Held \ {c} /\ taken' = taken \cup ({c} \cap Held) /\ c \in Captures /\ imports[c] = 1
          BY <2>4, AcknowledgedInv
    <3>2. UNCHANGED <<imports, discarded>>
          BY <2>4 DEF Acknowledged, server
    <3>3. CASE c \in Held
      <4>1. Once!Acknowledge(c)
            BY <3>1, <3>2, <3>3 DEF Once!Acknowledge
      <4>2. QED
            BY <3>1, <4>1 DEF Once!Next
    <3>4. CASE c \notin Held
          BY <2>0, <3>1, <3>2, <3>4
    <3>5. QED
          BY <3>3, <3>4
  <2>5. ASSUME NEW s \in DOMAIN sends, ImportCapture(s) PROVE [Once!Next]_Once!vars
    <3> DEFINE c == sends[s].key[1]
    <3>1. UNCHANGED <<queue, taken, discarded>> /\ Held' = Held
          BY <2>5 DEF ImportCapture, client, Held
    <3>2. CASE UNCHANGED imports
          BY <2>0, <3>1, <3>2
    <3>3. CASE sends[s].key \notin written /\ imports[c] = 0 /\ imports' = [imports EXCEPT ![c] = 1]
      <4>1. sends[s].key = <<c, 1>> /\ c \in Captures /\ c \in Known
            BY SendType DEF IInv, SendsInv, Keys
      <4>2. c \in Held \cup discarded
            BY <3>3, <4>1 DEF Known, IInv, LetGoInv
      <4>3. Once!Import(c)
            BY <3>1, <3>3, <4>2 DEF Once!Import
      <4>4. QED
            BY <4>1, <4>3 DEF Once!Next
    <3>4. QED
          BY <2>5, <3>2, <3>3, WrittenRows DEF ImportCapture
  <2>6. ASSUME NEW t \in Tokens, FlushCaptureQueue(t) PROVE UNCHANGED Once!vars
        BY <2>0, <2>6, FlushAsked DEF FlushCaptureQueue, server
  <2>7. CASE BeginFlush \/ SkipItem \/ SendItem \/ Superseded
        BY <2>0, <2>7, BeginInv, SkipInv, SendItemInv, SupersededInv
        DEF BeginFlush, SkipItem, SendItem, Superseded, server
  <2>8. CASE SendFails \/ EndFlush \/ FlushRejects \/ SaveToken \/ WorkerDies
        BY <2>0, <2>8, StopInv DEF SendFails, EndFlush, FlushRejects, SaveToken, WorkerDies, server
  <2>9. CASE UNCHANGED <<queue, imports, taken, discarded>>
        BY <2>0, <2>9 DEF Held
  <2>10. CASE Server
         BY <2>5, <2>9, <2>10
         DEF Server, ReplyCapture, ClaimReceipt, AcceptReceipt, FailCapture, LeaseExpires,
             ServerDies, RotateToken, client, server
  <2>11. CASE Extension
         BY <2>1, <2>2, <2>3, <2>4, <2>6, <2>7, <2>8, <2>11 DEF Extension
  <2>12. QED
         BY <2>9, <2>10, <2>11 DEF Next, vars, client, server
<1>3. QED
      BY <1>1, <1>2, Invariant, PTL DEF Spec, KeepsPromise, Once!Spec
===============================================================================
