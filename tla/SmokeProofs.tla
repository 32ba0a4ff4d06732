----------------------------- MODULE SmokeProofs -----------------------------
(***************************************************************************)
(* Proofs about Smoke, for any smoke tests among the events, any messages, *)
(* workers and bounds.  A run of Smoke is a run of Sync, so all that       *)
(* SyncProofs shows of Sync holds beside the smoke tests too.              *)
(***************************************************************************)
EXTENDS Smoke, SyncProofs

LEMMA TestFacts ==
  ASSUME NEW t \in SmokeTests
  PROVE  /\ t \in Events /\ t # NoItem
         /\ t.deal \in Deals /\ t.deal \in Erasable
         /\ t.account \in Accounts /\ t.account \in ErasableAccounts
         /\ \A e \in Events : e.deal = t.deal => e = t
BY SmokeAssumption, EventsAreRecords, NoItemIsNotAnItem

LEMMA SmokeStepIsSyncStep ==
  ASSUME [SmokeNext]_<<vars, smokeVars>>
  PROVE  [Next]_vars
<1>1. ASSUME NEW t \in SmokeTests, Sends(t) \/ DropsOrder(t) \/ DropsInvoice(t) \/ DropsCustomer(t)
      PROVE  Next
  BY <1>1, TestFacts DEF Sends, DropsOrder, DropsInvoice, DropsCustomer, Next
<1>2. ASSUME NEW t \in SmokeTests,
             \/ DeadlinePasses(t) \/ ReadsOrder(t) \/ ReadsInvoice(t) \/ TimesUp(t)
             \/ ReadRaises(t) \/ DropRaises(t)
      PROVE  UNCHANGED vars
  BY <1>2 DEF DeadlinePasses, ReadsOrder, ReadsInvoice, TimesUp, ReadRaises, DropRaises, Cleanup
<1>. QED
  BY <1>1, <1>2 DEF SmokeNext, Script, Next

(***************************************************************************)
(* The smoke test does nothing to the queue and the ERP that Sync does not *)
(* allow for.                                                              *)
(***************************************************************************)
THEOREM SmokeRunsThePipeline == SmokeSpec => Spec
<1>1. SmokeInit => Init
  BY DEF SmokeInit
<1>. QED
  BY <1>1, SmokeStepIsSyncStep, PTL DEF SmokeSpec, Spec

\* Exactly-once effect, smoke tests or not (writer.py:3-17).
THEOREM SmokeWritesAtMostOnce == SmokeSpec => []EffectivelyOnce
BY SmokeRunsThePipeline, WrittenAtMostOnce, PTL

\* Acknowledgements read the truth, also while orders are deleted
\* (writer.py:169-178).
THEOREM SmokeAcknowledgesTruly == SmokeSpec => AckReadsTheTruth
BY SmokeRunsThePipeline, AcknowledgementsAreTrue, PTL

\* The ERP is an order book with erasures, smoke tests or not (writer.py:36-60).
THEOREM SmokeIsAnOrderBook == SmokeSpec => ImplementsOrderBook
BY SmokeRunsThePipeline, SyncIsAnOrderBook, PTL
-----------------------------------------------------------------------------
Steps == Finished \cup {"send", "order", "invoice", "drop order", "drop invoice", "drop customer"}

Dropping == {"drop order", "drop invoice", "drop customer", "clean"}

\* What is gone for good, once the queue was done with the test's event.
Dropped(t) ==
  /\ quiet[t]
  /\ step[t] \in Dropping
  => /\ ~InFlight(t)
     /\ step[t] # "drop order" => orders[t.deal] = NoItem
     /\ step[t] \in {"drop customer", "clean"} => invoices[t.deal] = NoItem
     /\ step[t] = "clean" => customers[t.account] # t

Cleaning == /\ step \in [SmokeTests -> Steps]
            /\ quiet \in [SmokeTests -> BOOLEAN]
            /\ \A t \in SmokeTests : Dropped(t)

\* Nothing the queue or a worker does brings back an event that is through.
LEMMA DeliveryKeepsOut ==
  ASSUME TypeOK, Delivery, NEW t \in SmokeTests, ~InFlight(t)
  PROVE  /\ ~InFlight(t)'
         /\ orders'[t.deal] = orders[t.deal]
         /\ invoices'[t.deal] = invoices[t.deal]
         /\ customers'[t.account] \in {customers[t.account]} \cup (Events \ {t})
<1>1. ASSUME NEW m \in Messages, VisibilityTimeout(m) \/ MoveToDlq(m)
      PROVE  ~InFlight(t)' /\ UNCHANGED erpVars
  BY <1>1 DEF VisibilityTimeout, MoveToDlq, InFlight, workerVars, TypeOK, QueueTypeOK
<1>2. ASSUME NEW w \in Workers, NEW S \in SUBSET Messages, Receive(w, S)
      PROVE  ~InFlight(t)' /\ UNCHANGED erpVars
  BY <1>2 DEF Receive, InFlight, TypeOK, QueueTypeOK, WorkerTypeOK
<1>3. ASSUME \A w \in Workers : todo'[w] \subseteq todo[w], UNCHANGED queueVars
      PROVE  ~InFlight(t)'
  BY <1>3 DEF InFlight, queueVars
<1>4. ASSUME NEW w \in Workers, NEW m \in Messages, Acknowledges(w, m) \/ Retries(w, m)
      PROVE  \A v \in Workers : todo'[v] \subseteq todo[v]
  BY <1>4 DEF Acknowledges, Retries, TypeOK, WorkerTypeOK
<1>5. ASSUME NEW w \in Workers, NEW m \in Messages, Written(w, m) \/ WrittenReplyLost(w, m)
      PROVE  /\ ~InFlight(t)'
             /\ orders'[t.deal] = orders[t.deal]
             /\ invoices'[t.deal] = invoices[t.deal]
             /\ customers'[t.account] \in {customers[t.account]} \cup (Events \ {t})
  <2>1. m \in todo[w] /\ Transaction(body[m]) /\ UNCHANGED queueVars
    BY <1>5 DEF Written, WrittenReplyLost, Takes
  <2>2. body[m] # t /\ body[m] \in Events
    BY <2>1, InHand DEF InFlight, TypeOK, WorkerTypeOK
  <2>3. body[m].deal # t.deal /\ body[m].deal \in Deals /\ body[m].account \in Accounts
    BY <2>2, TestFacts, EventsAreRecords
  <2>4. ~InFlight(t)'
    BY <1>3, <1>4, <1>5, <2>1 DEF Written, WrittenReplyLost
  <2>. QED
    BY <2>1, <2>2, <2>3, <2>4 DEF Transaction, TypeOK, ErpTypeOK
<1>6. ASSUME NEW w \in Workers, NEW m \in Messages,
             ConditionFailed(w, m) \/ TransientError(w, m) \/ DeadLetter(w, m)
      PROVE  ~InFlight(t)' /\ UNCHANGED erpVars
  BY <1>3, <1>4, <1>6 DEF ConditionFailed, TransientError, DeadLetter, Cancelled
<1>7. ASSUME NEW w \in Workers, NEW m \in Messages, ConditionFailedNoItem(w, m)
      PROVE  ~InFlight(t)' /\ UNCHANGED erpVars
  BY <1>3, <1>7 DEF ConditionFailedNoItem, Cancelled
<1>8. ASSUME NEW w \in Workers, ReadOrder(w) \/ ReadOrderFails(w)
      PROVE  ~InFlight(t)' /\ UNCHANGED erpVars
  <2>1. asking[w] \in Messages
    BY <1>8 DEF ReadOrder, ReadOrderFails, TypeOK, WorkerTypeOK
  <2>. QED
    BY <1>3, <1>4, <1>8, <2>1 DEF ReadOrder, ReadOrderFails
<1>9. ASSUME NEW w \in Workers, OutOfTime(w) \/ Crash(w)
      PROVE  ~InFlight(t)' /\ UNCHANGED erpVars
  <2>1. \A v \in Workers : todo'[v] \subseteq todo[v]
    BY <1>9 DEF OutOfTime, Crash, Ends, TypeOK, WorkerTypeOK
  <2>. QED
    BY <1>3, <1>9, <2>1 DEF OutOfTime, Crash
<1>10. ASSUME NEW w \in Workers, Respond(w)
       PROVE  ~InFlight(t)' /\ UNCHANGED erpVars
  BY <1>10 DEF Respond, Ends, InFlight, TypeOK, QueueTypeOK, WorkerTypeOK
<1>. QED
  BY <1>1, <1>2, <1>5, <1>6, <1>7, <1>8, <1>9, <1>10
     DEF Delivery, Invocation, HandleRecord, erpVars

LEMMA SendKeepsOut ==
  ASSUME TypeOK, NEW t \in SmokeTests, ~InFlight(t), NEW m \in Messages,
         NEW e \in Events \ {t}, Send(m, e)
  PROVE  ~InFlight(t)' /\ UNCHANGED erpVars
BY DEF Send, InFlight, workerVars, TypeOK, QueueTypeOK

\* The erasures of one test, and another test's event.
LEMMA EraseEffect ==
  ASSUME TypeOK, NEW t \in SmokeTests, NEW u \in SmokeTests
  PROVE  /\ EraseOrder(u.deal) => /\ InFlight(t)' = InFlight(t)
                                  /\ orders'[t.deal] \in {orders[t.deal], NoItem}
                                  /\ orders'[u.deal] = NoItem
                                  /\ UNCHANGED <<invoices, customers>>
         /\ EraseInvoice(u.deal) => /\ InFlight(t)' = InFlight(t)
                                    /\ invoices'[t.deal] \in {invoices[t.deal], NoItem}
                                    /\ invoices'[u.deal] = NoItem
                                    /\ UNCHANGED <<orders, customers>>
         /\ EraseCustomer(u.account) => /\ InFlight(t)' = InFlight(t)
                                        /\ customers'[t.account] \in {customers[t.account], NoItem}
                                        /\ customers'[u.account] = NoItem
                                        /\ UNCHANGED <<orders, invoices>>
<1>1. ASSUME UNCHANGED <<queueVars, workerVars>> PROVE InFlight(t)' = InFlight(t)
  BY <1>1 DEF InFlight, queueVars, workerVars
<1>. QED
  BY <1>1, TestFacts DEF EraseOrder, EraseInvoice, EraseCustomer, DropOrder, DropInvoice,
     DropCustomer, TypeOK, ErpTypeOK

LEMMA CleaningStep ==
  ASSUME TypeOK, Cleaning, [SmokeNext]_<<vars, smokeVars>>
  PROVE  Cleaning'
<1>1. ASSUME NEW t \in SmokeTests, step'[t] = step[t], quiet'[t] = quiet[t],
             ~InFlight(t) => /\ ~InFlight(t)'
                             /\ orders'[t.deal] \in {orders[t.deal], NoItem}
                             /\ invoices'[t.deal] \in {invoices[t.deal], NoItem}
                             /\ customers'[t.account] = customers[t.account] \/ customers'[t.account] # t
      PROVE  Dropped(t)'
  BY <1>1 DEF Cleaning, Dropped
<1>2. CASE Delivery /\ UNCHANGED smokeVars
  BY <1>1, <1>2, DeliveryKeepsOut DEF smokeVars, Cleaning
<1>3. ASSUME NEW m \in Messages, NEW e \in Events \ SmokeTests, Send(m, e), UNCHANGED smokeVars
      PROVE  Cleaning'
  <2>1. \A t \in SmokeTests : e # t
    OBVIOUS
  <2>. QED
    BY <1>1, <1>3, <2>1, SendKeepsOut DEF smokeVars, erpVars, Cleaning
<1>4. ASSUME NEW u \in SmokeTests, Sends(u) PROVE Cleaning'
  <2>1. PICK m \in Messages : Send(m, u)
    BY <1>4 DEF Sends
  <2>2. /\ step' = [step EXCEPT ![u] = "order"] /\ UNCHANGED quiet
    BY <1>4 DEF Sends, Goto
  <2>3. ASSUME NEW t \in SmokeTests, t # u PROVE Dropped(t)'
    <3>1. u \in Events \ {t}
      BY <2>3, TestFacts
    <3>2. step'[t] = step[t] /\ quiet'[t] = quiet[t]
      BY <2>2, <2>3 DEF Cleaning
    <3>. QED
      BY <1>1, <2>1, <3>1, <3>2, SendKeepsOut DEF erpVars
  <2>4. Dropped(u)'
    BY <2>2 DEF Dropped, Dropping, Cleaning
  <2>. QED
    BY <2>2, <2>3, <2>4 DEF Cleaning, Steps
<1>5. ASSUME NEW u \in SmokeTests, UNCHANGED vars, NEW s \in Steps,
             step' = [step EXCEPT ![u] = s], quiet' \in [SmokeTests -> BOOLEAN],
             \A t \in SmokeTests \ {u} : quiet'[t] = quiet[t],
             \/ s \notin Dropping
             \/ s = "drop order" /\ (quiet'[u] => ~InFlight(u))
      PROVE  Cleaning'
  <2>1. UNCHANGED <<orders, invoices, customers>> /\ \A t : InFlight(t)' = InFlight(t)
    BY <1>5 DEF vars, erpVars, queueVars, workerVars, InFlight
  <2>2. ASSUME NEW t \in SmokeTests, t # u PROVE Dropped(t)'
    BY <1>1, <1>5, <2>1, <2>2 DEF Cleaning
  <2>3. Dropped(u)'
    BY <1>5, <2>1 DEF Dropped, Dropping, Cleaning
  <2>. QED
    BY <1>5, <2>2, <2>3 DEF Cleaning
<1>6. ASSUME NEW u \in SmokeTests, Cleanup(u) PROVE Cleaning'
  <2>1. /\ UNCHANGED vars /\ step' = [step EXCEPT ![u] = "drop order"]
        /\ quiet' = [quiet EXCEPT ![u] = ~InFlight(u)]
    BY <1>6 DEF Cleanup, Goto
  <2>2. InFlight(u) \in BOOLEAN
    BY DEF InFlight
  <2>3. /\ quiet' \in [SmokeTests -> BOOLEAN]
        /\ \A t \in SmokeTests \ {u} : quiet'[t] = quiet[t]
        /\ quiet'[u] => ~InFlight(u)
    <3> DEFINE fl == InFlight(u)
    <3>1. quiet' = [quiet EXCEPT ![u] = ~fl] /\ fl \in BOOLEAN
      BY <2>1, <2>2
    <3>. HIDE DEF fl
    <3>2. /\ quiet' \in [SmokeTests -> BOOLEAN]
          /\ \A t \in SmokeTests \ {u} : quiet'[t] = quiet[t]
          /\ quiet'[u] = ~fl
      BY <3>1 DEF Cleaning
    <3>. QED
      BY <3>2 DEF fl
  <2>4. "drop order" \in Steps
    BY DEF Steps
  <2>. QED
    BY <1>5, <2>1, <2>3, <2>4
<1>7. ASSUME NEW u \in SmokeTests, DeadlinePasses(u) PROVE Cleaning'
  <2>1. UNCHANGED <<vars, step, quiet>>
    BY <1>7 DEF DeadlinePasses
  <2>2. UNCHANGED <<orders, invoices, customers>> /\ \A t : InFlight(t)' = InFlight(t)
    BY <2>1 DEF vars, erpVars, queueVars, workerVars, InFlight
  <2>. QED
    BY <1>1, <2>1, <2>2 DEF Cleaning
<1>8. ASSUME NEW u \in SmokeTests,
             \/ ReadsOrder(u) \/ DropRaises(u)
             \/ ReadsInvoice(u) /\ ~Passes(u)
      PROVE  Cleaning'
  <2>1. PICK s \in {"invoice", "aborted", "order"} : step' = [step EXCEPT ![u] = s]
    BY <1>8 DEF ReadsOrder, DropRaises, ReadsInvoice, Goto
  <2>2. s \in Steps /\ s \notin Dropping
    BY DEF Steps, Finished, Dropping
  <2>3. UNCHANGED <<vars, quiet>>
    BY <1>8 DEF ReadsOrder, DropRaises, ReadsInvoice
  <2>. QED
    BY <1>5, <2>1, <2>2, <2>3 DEF Cleaning
<1>9. ASSUME NEW u \in SmokeTests, TimesUp(u) \/ ReadRaises(u) \/ (ReadsInvoice(u) /\ Passes(u))
      PROVE  Cleaning'
  BY <1>6, <1>9 DEF TimesUp, ReadRaises, ReadsInvoice
<1>10. ASSUME NEW u \in SmokeTests, DropsOrder(u) \/ DropsInvoice(u) \/ DropsCustomer(u)
       PROVE  Cleaning'
  <2>1. UNCHANGED quiet
    BY <1>10 DEF DropsOrder, DropsInvoice, DropsCustomer
  <2>2. \E s \in Steps : step' = [step EXCEPT ![u] = s]
    BY <1>10 DEF DropsOrder, DropsInvoice, DropsCustomer, Goto, Steps, Finished
  <2>3. ASSUME NEW t \in SmokeTests, t # u PROVE Dropped(t)'
    <3>1. step'[t] = step[t] /\ quiet'[t] = quiet[t]
      BY <2>1, <2>2, <2>3 DEF Cleaning
    <3>. QED
      BY <1>1, <1>10, <3>1, EraseEffect, TestFacts DEF DropsOrder, DropsInvoice, DropsCustomer
  <2>4. ASSUME DropsOrder(u) PROVE Dropped(u)'
    <3>1. /\ step[u] = "drop order" /\ step'[u] = "drop invoice" /\ EraseOrder(u.deal)
      BY <2>4 DEF DropsOrder, Goto, Cleaning
    <3>. QED
      BY <2>1, <3>1, EraseEffect DEF Cleaning, Dropped, Dropping
  <2>5. ASSUME DropsInvoice(u) PROVE Dropped(u)'
    <3>1. /\ step[u] = "drop invoice" /\ step'[u] = "drop customer" /\ EraseInvoice(u.deal)
      BY <2>5 DEF DropsInvoice, Goto, Cleaning
    <3>. QED
      BY <2>1, <3>1, EraseEffect DEF Cleaning, Dropped, Dropping
  <2>6. ASSUME DropsCustomer(u) PROVE Dropped(u)'
    <3>1. /\ step[u] = "drop customer" /\ step'[u] = "clean" /\ EraseCustomer(u.account)
      BY <2>6 DEF DropsCustomer, Goto, Cleaning
    <3>. QED
      BY <2>1, <3>1, EraseEffect, TestFacts DEF Cleaning, Dropped, Dropping
  <2>7. Dropped(u)'
    BY <1>10, <2>4, <2>5, <2>6
  <2>8. step' \in [SmokeTests -> Steps] /\ quiet' \in [SmokeTests -> BOOLEAN]
    BY <2>1, <2>2 DEF Cleaning
  <2>. QED
    BY <2>3, <2>7, <2>8 DEF Cleaning
<1>11. CASE UNCHANGED <<vars, smokeVars>>
  <2>1. /\ UNCHANGED <<step, quiet, orders, invoices, customers>>
        /\ \A t : InFlight(t)' = InFlight(t)
    BY <1>11 DEF vars, smokeVars, erpVars, queueVars, workerVars, InFlight
  <2>. QED
    BY <1>1, <2>1 DEF Cleaning
<1>. QED
  BY <1>2, <1>3, <1>4, <1>6, <1>7, <1>8, <1>9, <1>10, <1>11 DEF SmokeNext, Script

LEMMA CleaningHolds == SmokeSpec => []Cleaning
<1>1. SmokeInit => Cleaning
  BY DEF SmokeInit, Cleaning, Dropped, Dropping, Steps
<1>. QED
  BY <1>1, CleaningStep, SmokeRunsThePipeline, TypeCorrect, PTL DEF SmokeSpec

(***************************************************************************)
(* A smoke test leaves nothing behind when the queue was done with its     *)
(* event before the cleanup (smoke.py:8-9).                                *)
(***************************************************************************)
THEOREM SmokeLeavesNothing == SmokeSpec => []LeavesNothing
<1>1. Cleaning => LeavesNothing
  BY DEF Cleaning, Dropped, Dropping, LeavesNothing
<1>. QED
  BY <1>1, CleaningHolds, PTL
-----------------------------------------------------------------------------
\* Every variable of a smoke test has its type, and Sync's have theirs.
THEOREM SmokeTypeCorrect == SmokeSpec => []SmokeTypeOK
<1> DEFINE Read == seen \in [SmokeTests -> Items \cup {NoItem}] /\ late \in [SmokeTests -> BOOLEAN]
<1>1. SmokeInit => Read
  BY DEF SmokeInit
<1>2. TypeOK /\ Read /\ [SmokeNext]_<<vars, smokeVars>> => Read'
  <2> SUFFICES ASSUME TypeOK, Read, [SmokeNext]_<<vars, smokeVars>> PROVE Read'
    OBVIOUS
  <2>1. ASSUME NEW t \in SmokeTests, Cleanup(t) PROVE Read'
    BY <2>1 DEF Cleanup
  <2>2. ASSUME NEW t \in SmokeTests, ReadsOrder(t) PROVE Read'
    BY <2>2, TestFacts DEF ReadsOrder, TypeOK, ErpTypeOK
  <2>3. ASSUME NEW t \in SmokeTests, DeadlinePasses(t) PROVE Read'
    BY <2>3 DEF DeadlinePasses
  <2>4. ASSUME UNCHANGED <<seen, late>> PROVE Read'
    BY <2>4
  <2>. QED
    BY <2>1, <2>2, <2>3, <2>4 DEF SmokeNext, Script, smokeVars, Sends, ReadsInvoice, TimesUp,
       ReadRaises, DropsOrder, DropsInvoice, DropsCustomer, DropRaises
<1>3. TypeOK /\ Cleaning /\ Read => SmokeTypeOK
  BY DEF Cleaning, Steps, SmokeTypeOK
<1>. QED
  BY <1>1, <1>2, <1>3, CleaningHolds, SmokeRunsThePipeline, TypeCorrect, PTL DEF SmokeSpec
=============================================================================
