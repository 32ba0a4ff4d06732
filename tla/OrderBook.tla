------------------------------ MODULE OrderBook ------------------------------
(***************************************************************************)
(* What the queue, the worker and the ERP promise together, whatever is    *)
(* duplicated, delayed, reordered or retried on the way: the ERP's order   *)
(* of a deal only ever moves to a newer version of the deal that was       *)
(* really offered and is valid, in one step, and each version counts once. *)
(* Deals of Erasable may also be deleted from the ERP by hand.             *)
(***************************************************************************)
EXTENDS Integers

CONSTANTS Deals, Events, Erasable, NoItem,
          Version(_),  \* the version an event brings its deal to
          Valid(_)     \* whether the ERP may show it

VARIABLES offered,   \* the events handed to the queue so far
          book       \* book[d]: the last event applied to the deal, or NoItem

vars == <<offered, book>>

Init == /\ offered = {}
        /\ book = [d \in Deals |-> NoItem]

\* Any number of events are handed to the queue in one call.
Offer == /\ offered' \subseteq Events
         /\ offered \subseteq offered'
         /\ UNCHANGED book

Apply(e) == /\ Valid(e)
            /\ book[e.deal] # NoItem => Version(book[e.deal]) < Version(e)
            /\ book' = [book EXCEPT ![e.deal] = e]
            /\ UNCHANGED offered

Erase(d) == /\ book' = [book EXCEPT ![d] = NoItem]
            /\ UNCHANGED offered

Next == \/ Offer
        \/ \E e \in offered : Apply(e)
        \/ \E d \in Erasable : Erase(d)

Spec == Init /\ [][Next]_vars
=============================================================================
