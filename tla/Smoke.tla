-------------------------------- MODULE Smoke --------------------------------
(***************************************************************************)
(* The smoke test (scripts/smoke.py) beside the pipeline it tests: it      *)
(* sends one event of a fresh deal, polls the ERP for it until a deadline, *)
(* and deletes what the event wrote, one call at a time.  Every step of it *)
(* is a step of Sync or leaves Sync's variables alone.                     *)
(***************************************************************************)
EXTENDS Sync

CONSTANT SmokeTests   \* the events they send, at most one by each

\* Each test has a deal of its own; the account is shared by the tests only.
ASSUME SmokeAssumption ==
    \A e \in SmokeTests : /\ e \in Events
                          /\ e.kind = "good"
                          /\ e.deal \in Erasable
                          /\ e.account \in ErasableAccounts
                          /\ \A f \in Events : f.deal = e.deal => f = e

VARIABLES step,  \* step[t]: where the script is
          seen,  \* seen[t]: the order it has just read
          late,  \* late[t]: its deadline has passed
          quiet  \* quiet[t]: when the cleanup began, nothing was left to deliver

smokeVars == <<step, seen, late, quiet>>

Finished == {"clean", "aborted"}

SmokeInit == /\ Init
             /\ step = [t \in SmokeTests |-> "send"]
             /\ seen = [t \in SmokeTests |-> NoItem]
             /\ late = [t \in SmokeTests |-> FALSE]
             /\ quiet = [t \in SmokeTests |-> FALSE]

Goto(t, label) == step' = [step EXCEPT ![t] = label]

Sends(t) == /\ step[t] = "send"
            /\ \E m \in Messages : Send(m, t)
            /\ Goto(t, "order")
            /\ UNCHANGED <<seen, late, quiet>>

DeadlinePasses(t) == /\ step[t] \in {"order", "invoice"}
                     /\ late' = [late EXCEPT ![t] = TRUE]
                     /\ UNCHANGED <<vars, step, seen, quiet>>

\* Mutant: the loop has no deadline.
ReadsOrder_NoDeadline(t) == /\ step[t] = "order"
                            /\ seen' = [seen EXCEPT ![t] = orders[t.deal]]
                            /\ Goto(t, "invoice")
                            /\ UNCHANGED <<vars, late, quiet>>

ReadsOrder(t) == /\ step[t] = "order"
                 /\ ~late[t]
                 /\ seen' = [seen EXCEPT ![t] = orders[t.deal]]
                 /\ Goto(t, "invoice")
                 /\ UNCHANGED <<vars, late, quiet>>

\* A message of the test may still be delivered, or is being handled.
InFlight(t) == \E m \in Messages : /\ body[m] = t
                                   /\ \/ place[m] # "gone"
                                      \/ \E w \in Workers : m \in todo[w]

\* PASS, FAIL or an exception: the finally clause.  The loop is left, and what
\* it has read is not looked at again.
Cleanup(t) == /\ Goto(t, "drop order")
              /\ quiet' = [quiet EXCEPT ![t] = ~InFlight(t)]
              /\ seen' = [seen EXCEPT ![t] = NoItem]
              /\ late' = [late EXCEPT ![t] = FALSE]
              /\ UNCHANGED vars

Passes(t) == /\ seen[t] # NoItem
             /\ invoices[t.deal] # NoItem
             /\ seen[t].ev.version = t.version

ReadsInvoice(t) == /\ step[t] = "invoice"
                   /\ IF Passes(t) THEN Cleanup(t)
                                   ELSE Goto(t, "order") /\ UNCHANGED <<vars, seen, late, quiet>>

TimesUp(t) == /\ step[t] = "order"
              /\ late[t]
              /\ Cleanup(t)

\* A read raises; the cleanup is still done.
ReadRaises(t) == /\ step[t] \in {"order", "invoice"}
                 /\ Cleanup(t)

DropsOrder(t) == /\ step[t] = "drop order"
                 /\ EraseOrder(t.deal)
                 /\ Goto(t, "drop invoice")
                 /\ UNCHANGED <<seen, late, quiet>>

\* Mutant: the invoice is not deleted.
DropsInvoice_Not(t) == /\ step[t] = "drop invoice"
                       /\ Goto(t, "drop customer")
                       /\ UNCHANGED <<vars, seen, late, quiet>>

DropsInvoice(t) == /\ step[t] = "drop invoice"
                   /\ EraseInvoice(t.deal)
                   /\ Goto(t, "drop customer")
                   /\ UNCHANGED <<seen, late, quiet>>

DropsCustomer(t) == /\ step[t] = "drop customer"
                    /\ EraseCustomer(t.account)
                    /\ Goto(t, "clean")
                    /\ UNCHANGED <<seen, late, quiet>>

\* A delete raises: those after it are not done.
DropRaises(t) == /\ step[t] \in {"drop order", "drop invoice", "drop customer"}
                 /\ Goto(t, "aborted")
                 /\ UNCHANGED <<vars, seen, late, quiet>>

Script(t) == \/ ReadsOrder(t) \/ ReadsInvoice(t) \/ TimesUp(t) \/ ReadRaises(t)
             \/ DropsOrder(t) \/ DropsInvoice(t) \/ DropsCustomer(t) \/ DropRaises(t)

SmokeNext == \/ Delivery /\ UNCHANGED smokeVars
             \/ \E m \in Messages, e \in Events \ SmokeTests :
                   Send(m, e) /\ UNCHANGED smokeVars
             \/ \E t \in SmokeTests : Sends(t) \/ DeadlinePasses(t) \/ Script(t)

SmokeSpec == SmokeInit /\ [][SmokeNext]_<<vars, smokeVars>>

\* Time passes, and the script's calls return or raise.
SmokeFairSpec == /\ SmokeSpec
                 /\ Fairness
                 /\ \A t \in SmokeTests : /\ WF_smokeVars(Script(t))
                                          /\ WF_late(DeadlinePasses(t))
-----------------------------------------------------------------------------
SmokeTypeOK == /\ TypeOK
               /\ step \in [SmokeTests -> Finished \cup {"send", "order", "invoice",
                                   "drop order", "drop invoice", "drop customer"}]
               /\ seen \in [SmokeTests -> Items \cup {NoItem}]
               /\ late \in [SmokeTests -> BOOLEAN]
               /\ quiet \in [SmokeTests -> BOOLEAN]

\* "It deletes what it wrote" (smoke.py:8-9), when the queue was done with the
\* event before the cleanup began: nothing a worker, a redelivery or a late
\* answer does afterwards brings the order, the invoice or the customer back
\* (as long as nobody redrives the event from the dead-letter queue).
LeavesNothing ==
    \A t \in SmokeTests : step[t] = "clean" /\ quiet[t] =>
       /\ orders[t.deal] = NoItem
       /\ invoices[t.deal] = NoItem
       /\ customers[t.account] # t

\* The test ends, by its deadline if nothing else, also when the worker always
\* crashes and the event ends up in the dead-letter queue (smoke.py:87-103).
SmokeEnds == \A t \in SmokeTests : (step[t] # "send") ~> (step[t] \in Finished)
=============================================================================
