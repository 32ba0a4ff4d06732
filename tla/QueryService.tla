---------------------------- MODULE QueryService -----------------------------
(***************************************************************************)
(* What a query promises its caller, whatever happens between the caller   *)
(* and the store: a query reads the store at one moment between its call   *)
(* and its return, and returns that answer as a whole or not at all.       *)
(***************************************************************************)
CONSTANTS Clients, Queries, NoQuery,
          IsAnswer(_, _, _)  \* of a store, to a query: the answer is right

VARIABLES store,   \* what queries read
          asked,   \* asked[c]: the query that c waits for, or NoQuery
          read,    \* read[c]: the answer that was read for it, if any
          given    \* given[c]: the answer that c was last given, if any

vars == <<store, asked, read, given>>

Init == /\ asked = [c \in Clients |-> NoQuery]
        /\ read = [c \in Clients |-> {}]
        /\ given = [c \in Clients |-> {}]

Ask(c, q) == /\ asked[c] = NoQuery
             /\ asked' = [asked EXCEPT ![c] = q]
             /\ given' = [given EXCEPT ![c] = {}]
             /\ UNCHANGED <<store, read>>

\* The moment of the query.
Read(c) == /\ asked[c] # NoQuery
           /\ read[c] = {}
           /\ \E answer \in read'[c] : /\ IsAnswer(store, asked[c], answer)
                                       /\ read' = [read EXCEPT ![c] = {answer}]
           /\ UNCHANGED <<store, asked, given>>

Ends(c) == /\ asked[c] # NoQuery
           /\ asked' = [asked EXCEPT ![c] = NoQuery]
           /\ read' = [read EXCEPT ![c] = {}]
           /\ UNCHANGED store

Return(c) == /\ read[c] # {}
             /\ given' = [given EXCEPT ![c] = read[c]]
             /\ Ends(c)

Fail(c) == Ends(c) /\ UNCHANGED given

\* Anybody changes the store at any time.
Change == UNCHANGED <<asked, read, given>>

Next == \/ Change
        \/ \E c \in Clients : \/ \E q \in Queries : Ask(c, q)
                              \/ Read(c) \/ Return(c) \/ Fail(c)

Spec == Init /\ [][Next]_vars
=============================================================================
