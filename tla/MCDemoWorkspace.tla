---------------------------- MODULE MCDemoWorkspace ----------------------------
(***************************************************************************)
(* Instances of DemoWorkspace for TLC.                                     *)
(***************************************************************************)
EXTENDS DemoWorkspace, TLC

TabSymmetry == Permutations(Tabs)

===============================================================================
