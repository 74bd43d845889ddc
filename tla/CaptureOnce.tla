------------------------------ MODULE CaptureOnce ------------------------------
(***************************************************************************)
(* What the browser extension promises of a page the user captured: it is  *)
(* kept until JobCtrl has it or the user discards it, and JobCtrl imports  *)
(* it at most once, whatever is retried.                                   *)
(***************************************************************************)
EXTENDS Naturals

CONSTANT Captures

VARIABLES
  kept,           \* captures the extension holds
  imports,        \* how often the Jobs feature has written each capture
  acknowledged,   \* captures JobCtrl has taken over
  discarded       \* captures the user has discarded

vars == <<kept, imports, acknowledged, discarded>>

Init ==
  /\ kept \subseteq Captures
  /\ imports = [c \in Captures |-> 0]
  /\ acknowledged = {}
  /\ discarded = {}

Take(c) ==
  /\ c \notin kept \cup acknowledged \cup discarded
  /\ kept' = kept \cup {c}
  /\ UNCHANGED <<imports, acknowledged, discarded>>

(* Even after the user has discarded it: what is being sent is not called  *)
(* back.                                                                   *)
Import(c) ==
  /\ c \in kept \cup discarded
  /\ imports[c] = 0
  /\ imports' = [imports EXCEPT ![c] = 1]
  /\ UNCHANGED <<kept, acknowledged, discarded>>

(* JobCtrl has acknowledged it.                                            *)
Acknowledge(c) ==
  /\ c \in kept
  /\ imports[c] = 1
  /\ kept' = kept \ {c}
  /\ acknowledged' = acknowledged \cup {c}
  /\ UNCHANGED <<imports, discarded>>

(* The user discards some captures.                                        *)
Discard(S) ==
  /\ S \subseteq kept
  /\ kept' = kept \ S
  /\ discarded' = discarded \cup S
  /\ UNCHANGED <<imports, acknowledged>>

Next ==
  \/ \E c \in Captures : Take(c) \/ Import(c) \/ Acknowledge(c)
  \/ \E S \in SUBSET Captures : Discard(S)

Spec == Init /\ [][Next]_vars

===============================================================================
