------------------------------ MODULE MCPageVisit ------------------------------
(***************************************************************************)
(* PageVisit for TLC, in full: it has no bounds.                           *)
(***************************************************************************)
EXTENDS PageVisit

===============================================================================
