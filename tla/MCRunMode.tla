----------------------------- MODULE MCRunMode -----------------------------
(***************************************************************************)
(* A server in run mode and the requests that reach it, for TLC.           *)
(***************************************************************************)
EXTENDS RunModeProps, TLC

\* Requests are interchangeable: what one says is chosen when its handler runs.
RequestSymmetry == Permutations(Requests)
=============================================================================
