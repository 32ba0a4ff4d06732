---------------------------- MODULE MCReconciler ----------------------------
(***************************************************************************)
(* Small instances of Reconciler for TLC: the configurations give every    *)
(* constant its value, model values for the deals and for NoRow.           *)
(***************************************************************************)
EXTENDS Reconciler
=============================================================================
