------------------------------ MODULE MCRelay -------------------------------
(***************************************************************************)
(* A small instance of Relay for TLC: one poller, two deals.               *)
(***************************************************************************)
EXTENDS Relay
=============================================================================
