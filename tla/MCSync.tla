------------------------------- MODULE MCSync -------------------------------
(***************************************************************************)
(* Small instances of Sync for TLC.                                        *)
(***************************************************************************)
EXTENDS Sync, TLC

CONSTANTS d1, d2, a1, a2, x, y

Event(d, v, a, b, k) ==
    [deal |-> d, version |-> v, account |-> a, body |-> b, kind |-> k]

\* A deal that moves to the account of another and is edited twice in one second.
DealMoves == {Event(d1, 1, a1, x, "good"), Event(d1, 2, a2, x, "good"),
              Event(d1, 2, a2, y, "good"), Event(d2, 1, a2, x, "good")}

\* Two deals that share an account: one is edited to something the ERP refuses,
\* the other cannot be mapped at first.
TwoDeals == {Event(d1, 1, a1, x, "good"), Event(d1, 2, a1, x, "refused"),
             Event(d2, 1, a1, x, "unmappable"), Event(d2, 2, a1, x, "good")}

\* One valid event and one that is not.
GoodAndBad == {Event(d1, 1, a1, x, "good"), Event(d2, 1, a1, x, "unmappable")}

Interchangeable == Permutations(Messages) \cup Permutations(Workers)
=============================================================================
