------------------------------ MODULE ErpWriter ------------------------------
(***************************************************************************)
(* The ERP's three tables and the version-checked write of                 *)
(* src/erp/writer.py.  An event is what the queue carries: a deal's        *)
(* version (its SystemModstamp), its account, its content, and what the    *)
(* validation of src/worker/mapping.py and the ERP itself think of it.     *)
(* Two events may have the same deal and version and different content:    *)
(* SystemModstamp has a resolution of one second.                          *)
(***************************************************************************)
EXTENDS Integers

CONSTANTS Deals,      \* Opportunity ids
          Accounts,   \* Account ids
          Bodies,     \* contents of a deal, compared only for equality
          Events,     \* the events that can ever be published
          NoItem      \* the result of reading a key that is not in a table

\* "unmappable": to_order raises PermanentError; "refused": the ERP answers
\* that the item itself is wrong.
Kinds == {"good", "unmappable", "refused"}

ASSUME EventsAreRecords ==
         Events \subseteq [deal : Deals, version : Nat \ {0},
                           account : Accounts, body : Bodies, kind : Kinds]

Items == [ev : Events, revision : Nat \ {0}]

ASSUME NoItemIsNotAnItem == NoItem \notin Events \cup Items

VARIABLES orders,     \* orders[d]: the event last written for the deal and its revision
          invoices,   \* invoices[d]: the event the deal's invoice was last written from
          customers   \* customers[a]: the event that last upserted the account

erpVars == <<orders, invoices, customers>>

ErpInit == /\ orders = [d \in Deals |-> NoItem]
           /\ invoices = [d \in Deals |-> NoItem]
           /\ customers = [a \in Accounts |-> NoItem]

ErpTypeOK == /\ orders \in [Deals -> Items \cup {NoItem}]
             /\ invoices \in [Deals -> Events \cup {NoItem}]
             /\ customers \in [Accounts -> Events \cup {NoItem}]
-----------------------------------------------------------------------------
\* The version of the stored order, -1 when there is none.
StoredVersion(d) == IF orders[d] = NoItem THEN -1 ELSE orders[d].ev.version

\* Mutant: the condition reads <=, so the same version is written again.
ConditionPasses_SameVersion(e) ==
    orders[e.deal] # NoItem => orders[e.deal].ev.version <= e.version

\* attribute_not_exists(order_id) OR version < :v
ConditionPasses(e) == orders[e.deal] # NoItem => orders[e.deal].ev.version < e.version

\* if_not_exists(revision, 0) + 1
NextRevision(d) == IF orders[d] = NoItem THEN 1 ELSE orders[d].revision + 1

\* The transaction: the order under its condition, the invoice and the
\* customer with no condition of their own.
Transaction(e) ==
    /\ ConditionPasses(e)
    /\ orders' = [orders EXCEPT ![e.deal] =
                    [ev |-> e, revision |-> NextRevision(e.deal)]]
    /\ invoices' = [invoices EXCEPT ![e.deal] = e]
    /\ customers' = [customers EXCEPT ![e.account] = e]

\* Mutant: three separate writes, the last with no condition to stop it.
Cancelled_StillUpsertsCustomer(e) ==
    /\ ~ConditionPasses(e)
    /\ customers' = [customers EXCEPT ![e.account] = e]
    /\ UNCHANGED <<orders, invoices>>

\* A failed condition on the order cancels the other two writes too.
Cancelled(e) == /\ ~ConditionPasses(e)
                /\ UNCHANGED erpVars

\* Mutant: an order that is not there counts as a newer one.
Verdict_MissingIsStale(e) ==
    IF StoredVersion(e.deal) = e.version THEN "duplicate" ELSE "stale"

\* What _classify makes of the stored order after a failed condition.  An
\* older order, or none, means that it changed since the write: try again.
Verdict(e) == CASE StoredVersion(e.deal) = e.version -> "duplicate"
                [] StoredVersion(e.deal) > e.version -> "stale"
                [] OTHER -> "unavailable"

\* Deletions by hand: scripts/smoke.py's cleanup deletes one item per call.
DropOrder(d) == /\ orders' = [orders EXCEPT ![d] = NoItem]
                /\ UNCHANGED <<invoices, customers>>
DropInvoice(d) == /\ invoices' = [invoices EXCEPT ![d] = NoItem]
                  /\ UNCHANGED <<orders, customers>>
DropCustomer(a) == /\ customers' = [customers EXCEPT ![a] = NoItem]
                   /\ UNCHANGED <<orders, invoices>>
=============================================================================
