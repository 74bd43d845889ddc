------------------------------ MODULE MCActionRun ------------------------------
(* Instances of ActionRun.  Clients are interchangeable, but the run also  *)
(* checks liveness, for which a symmetry reduction is unsound.             *)
EXTENDS ActionRun

CONSTANTS c1, c2

TwoClients == {c1, c2}
OneClient  == {c1}
===============================================================================
