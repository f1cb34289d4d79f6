------------------------------ MODULE MCDemoSite ------------------------------
(***************************************************************************)
(* Instances of DemoSite for TLC.                                          *)
(***************************************************************************)
EXTENDS DemoSite, TLC

RunSymmetry == Permutations(Runs)
=============================================================================
