----------------------------- MODULE MCRelayctl ------------------------------
(***************************************************************************)
(* A small instance of Relayctl for TLC: a valid event that the redrive    *)
(* policy dead-lettered, and an invalid one that the worker did.           *)
(***************************************************************************)
EXTENDS Relayctl, TLC

CONSTANTS good, bad

Dead == 1 :> [ev |-> good, permanent |-> FALSE] @@ 2 :> [ev |-> bad, permanent |-> TRUE]

Interchangeable == Permutations(Operators)
=============================================================================
