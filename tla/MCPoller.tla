------------------------------ MODULE MCPoller ------------------------------
(***************************************************************************)
(* Small instances of Poller for TLC.                                      *)
(***************************************************************************)
EXTENDS Poller, TLC

Interchangeable == Permutations(Deals) \cup Permutations(Runs)
=============================================================================
