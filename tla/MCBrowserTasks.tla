----------------------------- MODULE MCBrowserTasks -----------------------------
(***************************************************************************)
(* An instance of BrowserTasks for TLC: a profile with two loops and one   *)
(* with a single loop.                                                     *)
(***************************************************************************)
EXTENDS BrowserTasks

CONSTANTS p, q, a, b, c, r

OneRun == [t \in Tasks |-> r]
TwoProfiles == [e \in Executors |-> IF e = c THEN q ELSE p]

===============================================================================
