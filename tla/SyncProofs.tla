----------------------------- MODULE SyncProofs -----------------------------
(***************************************************************************)
(* Proofs about Sync, for any messages, workers, events and bounds.        *)
(***************************************************************************)
EXTENDS Sync, FiniteSetTheorems, TLAPS

\* A record a worker has in hand carries an event.
LEMMA InHand ==
  ASSUME TypeOK, NEW w \in Workers, NEW m \in batch[w]
  PROVE  /\ m \in Messages
         /\ body[m] \in Events
         /\ body[m].deal \in Deals
         /\ body[m].version \in Nat \ {0}
         /\ body[m].account \in Accounts
BY EventsAreRecords DEF TypeOK, QueueTypeOK, WorkerTypeOK

\* What a transaction leaves in the tables, and that it keeps their type.
LEMMA TransactionType ==
  ASSUME ErpTypeOK, NEW e \in Events, Transaction(e)
  PROVE  ErpTypeOK'
<1>1. e.deal \in Deals /\ e.account \in Accounts
  BY EventsAreRecords
<1>2. NextRevision(e.deal) \in Nat \ {0}
  BY <1>1 DEF NextRevision, ErpTypeOK, Items
<1>. QED
  BY <1>1, <1>2 DEF Transaction, ErpTypeOK, Items

(***************************************************************************)
(* Every state has its type.                                               *)
(***************************************************************************)
THEOREM TypeCorrect == Spec => []TypeOK
<1>1. Init => TypeOK
  BY SyncAssumption DEF Init, ErpInit, TypeOK, ErpTypeOK, QueueTypeOK, WorkerTypeOK
<1>2. TypeOK /\ [Next]_vars => TypeOK'
  <2> SUFFICES ASSUME TypeOK, [Next]_vars PROVE TypeOK'
    OBVIOUS
  <2> USE DEF TypeOK, QueueTypeOK, WorkerTypeOK
  <2>1. ASSUME NEW m \in Messages, NEW e \in Events, Send(m, e) PROVE TypeOK'
    BY <2>1, NoItemIsNotAnItem DEF Send, erpVars, workerVars, ErpTypeOK
  <2>2. ASSUME NEW m \in Messages, VisibilityTimeout(m) PROVE TypeOK'
    BY <2>2 DEF VisibilityTimeout, erpVars, workerVars, ErpTypeOK
  <2>3. ASSUME NEW m \in Messages, MoveToDlq(m) PROVE TypeOK'
    BY <2>3 DEF MoveToDlq, erpVars, workerVars, ErpTypeOK, Reasons
  <2>4. ASSUME NEW w \in Workers, NEW S \in SUBSET Messages, Receive(w, S) PROVE TypeOK'
    BY <2>4, SyncAssumption DEF Receive, erpVars, ErpTypeOK
  <2>5. ASSUME NEW w \in Workers, NEW m \in Messages,
               Takes(w, m), Acknowledges(w, m) \/ Retries(w, m), UNCHANGED body
        PROVE WorkerTypeOK'
    BY <2>5 DEF Takes, Acknowledges, Retries
  <2>6. ASSUME NEW w \in Workers, NEW m \in Messages,
               Written(w, m) \/ WrittenReplyLost(w, m)
        PROVE TypeOK'
    <3>1. ErpTypeOK'
      BY <2>6, InHand, TransactionType DEF Written, WrittenReplyLost, Takes
    <3>2. WorkerTypeOK'
      BY <2>5, <2>6 DEF Written, WrittenReplyLost, queueVars
    <3>. QED
      BY <2>6, <3>1, <3>2 DEF Written, WrittenReplyLost, queueVars
  <2>7. ASSUME NEW w \in Workers, NEW m \in Messages,
               ConditionFailed(w, m) \/ TransientError(w, m)
        PROVE TypeOK'
    <3>1. WorkerTypeOK'
      BY <2>5, <2>7 DEF ConditionFailed, TransientError, queueVars
    <3>. QED
      BY <2>7, <3>1 DEF ConditionFailed, TransientError, Cancelled, erpVars, queueVars, ErpTypeOK
  <2>8. ASSUME NEW w \in Workers, NEW m \in Messages, ConditionFailedNoItem(w, m)
        PROVE TypeOK'
    BY <2>8 DEF ConditionFailedNoItem, Takes, Cancelled, erpVars, queueVars, ErpTypeOK
  <2>9. ASSUME NEW w \in Workers, ReadOrder(w) \/ ReadOrderFails(w) PROVE TypeOK'
    <3>1. asking[w] \in todo[w]
      BY <2>9 DEF ReadOrder, ReadOrderFails
    <3>2. WorkerTypeOK'
      <4>1. CASE Acknowledges(w, asking[w])
        BY <2>9, <3>1, <4>1 DEF ReadOrder, ReadOrderFails, Acknowledges, queueVars
      <4>2. CASE Retries(w, asking[w])
        BY <2>9, <3>1, <4>2 DEF ReadOrder, ReadOrderFails, Retries, queueVars
      <4>. QED
        BY <2>9, <4>1, <4>2 DEF ReadOrder, ReadOrderFails
    <3>. QED
      BY <2>9, <3>2 DEF ReadOrder, ReadOrderFails, erpVars, queueVars, ErpTypeOK
  <2>10. ASSUME NEW w \in Workers, NEW m \in Messages, DeadLetter(w, m) PROVE TypeOK'
    <3>1. WorkerTypeOK'
      BY <2>5, <2>10 DEF DeadLetter, queueVars
    <3>2. [ev |-> body[m], reason |-> ReasonOf(body[m])] \in [ev : Events, reason : Reasons]
      BY <2>10, InHand DEF DeadLetter, Takes, ReasonOf, Reasons
    <3>. QED
      BY <2>10, <3>1, <3>2 DEF DeadLetter, erpVars, queueVars, ErpTypeOK
  <2>11. ASSUME NEW w \in Workers, OutOfTime(w) \/ Crash(w) PROVE TypeOK'
    <3>1. CASE OutOfTime(w)
      BY <3>1 DEF OutOfTime, erpVars, queueVars, ErpTypeOK
    <3>2. CASE Crash(w)
      BY <3>2 DEF Crash, Ends, erpVars, queueVars, ErpTypeOK
    <3>. QED
      BY <2>11, <3>1, <3>2
  <2>12. ASSUME NEW w \in Workers, Respond(w) PROVE TypeOK'
    BY <2>12 DEF Respond, Ends, erpVars, ErpTypeOK
  <2>13. ASSUME NEW d \in Erasable, EraseOrder(d) \/ EraseInvoice(d) PROVE TypeOK'
    BY <2>13 DEF EraseOrder, EraseInvoice, DropOrder, DropInvoice, queueVars, workerVars, ErpTypeOK
  <2>14. ASSUME NEW a \in ErasableAccounts, EraseCustomer(a) PROVE TypeOK'
    BY <2>14 DEF EraseCustomer, DropCustomer, queueVars, workerVars, ErpTypeOK
  <2>15. CASE UNCHANGED vars
    BY <2>15 DEF vars, erpVars, queueVars, workerVars, ErpTypeOK
  <2>. QED
    BY <2>1, <2>2, <2>3, <2>4, <2>6, <2>7, <2>8, <2>9, <2>10, <2>11, <2>12, <2>13,
       <2>14, <2>15 DEF Next, Delivery, Invocation, HandleRecord
<1>. QED
  BY <1>1, <1>2, PTL DEF Spec
-----------------------------------------------------------------------------
\* The four ways a step may touch the ERP's tables.
ErpStep == \/ UNCHANGED erpVars
           \/ /\ \E w \in Workers : \E m \in batch[w] :
                    body[m].kind = "good" /\ Transaction(body[m])
              /\ UNCHANGED body
           \/ (\E d \in Erasable : DropOrder(d) \/ DropInvoice(d)) /\ UNCHANGED body
           \/ (\E a \in ErasableAccounts : DropCustomer(a)) /\ UNCHANGED body

LEMMA ErpSteps ==
  ASSUME TypeOK, [Next]_vars
  PROVE  ErpStep
<1>1. ASSUME NEW w \in Workers, NEW m \in Messages,
             Written(w, m) \/ WrittenReplyLost(w, m)
      PROVE  ErpStep
  BY <1>1 DEF Written, WrittenReplyLost, Takes, queueVars, ErpStep, TypeOK, WorkerTypeOK
<1>2. ASSUME NEW w \in Workers, NEW m \in Messages,
             \/ ConditionFailed(w, m) \/ ConditionFailedNoItem(w, m)
             \/ TransientError(w, m) \/ DeadLetter(w, m)
      PROVE  UNCHANGED erpVars
  BY <1>2 DEF ConditionFailed, ConditionFailedNoItem, TransientError, DeadLetter, Cancelled
<1>3. ASSUME NEW w \in Workers,
             \/ ReadOrder(w) \/ ReadOrderFails(w) \/ OutOfTime(w) \/ Crash(w) \/ Respond(w)
             \/ \E S \in SUBSET Messages : Receive(w, S)
      PROVE  UNCHANGED erpVars
  BY <1>3 DEF ReadOrder, ReadOrderFails, OutOfTime, Crash, Respond, Receive
<1>4. ASSUME NEW m \in Messages,
             (\E e \in Events : Send(m, e)) \/ VisibilityTimeout(m) \/ MoveToDlq(m)
      PROVE  UNCHANGED erpVars
  BY <1>4 DEF Send, VisibilityTimeout, MoveToDlq
<1>5. ASSUME NEW d \in Erasable, EraseOrder(d) \/ EraseInvoice(d) PROVE ErpStep
  BY <1>5 DEF EraseOrder, EraseInvoice, queueVars, ErpStep
<1>6. ASSUME NEW a \in ErasableAccounts, EraseCustomer(a) PROVE ErpStep
  BY <1>6 DEF EraseCustomer, queueVars, ErpStep
<1>. QED
  BY <1>1, <1>2, <1>3, <1>4, <1>5, <1>6 DEF Next, Delivery, Invocation, HandleRecord, vars, ErpStep

\* Nothing leaves the dead-letter queue.
LEMMA DlqGrows ==
  ASSUME [Next]_vars
  PROVE  dlq \subseteq dlq'
BY DEF Next, Delivery, Invocation, HandleRecord, vars, Send, VisibilityTimeout, MoveToDlq, Receive,
       Written, WrittenReplyLost, ConditionFailed, ConditionFailedNoItem, TransientError,
       DeadLetter, ReadOrder, ReadOrderFails, OutOfTime, Crash, Respond, EraseOrder,
       EraseInvoice, EraseCustomer

\* The ERP's version of a deal that nobody deletes never goes down.
LEMMA VersionsGrow ==
  ASSUME TypeOK, [Next]_vars, NEW d \in Deals \ Erasable
  PROVE  /\ StoredVersion(d) \in Int
         /\ StoredVersion(d)' \in Int
         /\ StoredVersion(d)' >= StoredVersion(d)
<1>1. orders[d] # NoItem => orders[d].ev.version \in Nat
  BY EventsAreRecords DEF TypeOK, ErpTypeOK, Items
<1>2. CASE orders'[d] = orders[d]
  BY <1>1, <1>2 DEF StoredVersion
<1>3. ASSUME NEW e \in Events, e.deal = d, Transaction(e)
      PROVE  StoredVersion(d)' \in Int /\ StoredVersion(d)' >= StoredVersion(d)
  <2>1. orders'[d] = [ev |-> e, revision |-> NextRevision(d)]
    BY <1>3 DEF Transaction, TypeOK, ErpTypeOK
  <2>2. orders'[d] # NoItem /\ e.version \in Nat
    BY <2>1, <1>3, TransactionType, NoItemIsNotAnItem, EventsAreRecords
       DEF TypeOK, ErpTypeOK, Items, Transaction, NextRevision
  <2>. QED
    BY <1>1, <1>3, <2>1, <2>2 DEF StoredVersion, Transaction, ConditionPasses
<1>4. \/ orders'[d] = orders[d]
      \/ \E e \in Events : e.deal = d /\ Transaction(e)
  <2>1. ASSUME NEW w \in Workers, NEW m \in batch[w], Transaction(body[m])
        PROVE  \/ orders'[d] = orders[d]
               \/ \E e \in Events : e.deal = d /\ Transaction(e)
    BY <2>1, InHand DEF Transaction, TypeOK, ErpTypeOK
  <2>. QED
    BY <2>1, ErpSteps DEF ErpStep, DropOrder, DropInvoice, DropCustomer, erpVars, TypeOK, ErpTypeOK
<1>. QED
  BY <1>1, <1>2, <1>3, <1>4 DEF StoredVersion

\* What is settled stays settled.
LEMMA SettledStays ==
  ASSUME TypeOK, [Next]_vars, NEW e \in Events, e.deal \notin Erasable, Settled(e)
  PROVE  Settled(e)'
<1>1. e.deal \in Deals \ Erasable /\ e.version \in Nat
  BY EventsAreRecords
<1>2. Parked(e) => Parked(e)'
  BY DlqGrows DEF Parked
<1>. QED
  BY <1>1, <1>2, VersionsGrow DEF Settled
-----------------------------------------------------------------------------
\* A body never changes once its message is sent.
LEMMA BodyStays ==
  ASSUME TypeOK, [Next]_vars, NEW m \in Messages, body[m] # NoItem
  PROVE  body'[m] = body[m]
<1>1. ASSUME NEW n \in Messages, NEW e \in Events, Send(n, e)
      PROVE  body'[m] = body[m]
  BY <1>1 DEF Send, TypeOK, QueueTypeOK
<1>. QED
  BY <1>1 DEF Next, Delivery, Invocation, HandleRecord, vars, queueVars, VisibilityTimeout, MoveToDlq,
       Receive, Written, WrittenReplyLost, ConditionFailed, ConditionFailedNoItem,
       TransientError, DeadLetter, ReadOrder, ReadOrderFails, OutOfTime, Crash, Respond,
       EraseOrder, EraseInvoice, EraseCustomer

LEMMA VerdictSettles ==
  ASSUME ErpTypeOK, NEW e \in Events, e.kind # "unmappable", Verdict(e) # "unavailable"
  PROVE  Settled(e)
BY EventsAreRecords DEF ErpTypeOK, Items, Verdict, Settled, StoredVersion

LEMMA TransactionSettles ==
  ASSUME ErpTypeOK, NEW e \in Events, e.kind = "good", Transaction(e)
  PROVE  Settled(e)'
<1>1. orders'[e.deal] = [ev |-> e, revision |-> NextRevision(e.deal)]
  BY EventsAreRecords DEF Transaction, ErpTypeOK
<1>2. orders'[e.deal] # NoItem
  BY <1>1, TransactionType, NoItemIsNotAnItem, EventsAreRecords DEF ErpTypeOK, Items, NextRevision
<1>. QED
  BY <1>1, <1>2, EventsAreRecords DEF Settled, StoredVersion

\* A record joins the acknowledged ones only when its event is settled, also
\* for a deal that is deleted by hand (app.py:82-86, writer.py:164-178).
LEMMA AcknowledgedIsSettled ==
  ASSUME TypeOK, [Next]_vars, NEW w \in Workers, NEW m \in Messages,
         m \in Acknowledged(w)', m \notin Acknowledged(w)
  PROVE  m \in batch[w] /\ Settled(body[m])'
<1> USE DEF Acknowledged, TypeOK, WorkerTypeOK
<1>1. ASSUME NEW v \in Workers, NEW n \in todo[v], Acknowledges(v, n)
      PROVE  v = w /\ n = m /\ m \in batch[w]
  BY <1>1 DEF Acknowledges
<1>2. ASSUME NEW v \in Workers, NEW n \in todo[v], Retries(v, n)
      PROVE  FALSE
  BY <1>2 DEF Retries
<1>3. ASSUME NEW v \in Workers, NEW n \in Messages, Written(v, n)
      PROVE  m \in batch[w] /\ Settled(body[m])'
  BY <1>1, <1>3, InHand, TransactionSettles DEF Written, Takes, queueVars
<1>4. ASSUME NEW v \in Workers, NEW n \in Messages,
             WrittenReplyLost(v, n) \/ TransientError(v, n)
      PROVE  FALSE
  BY <1>2, <1>4 DEF WrittenReplyLost, TransientError, Takes
<1>5. ASSUME NEW e \in Events, Settled(e), UNCHANGED <<erpVars, dlq>>
      PROVE  Settled(e)'
  BY <1>5 DEF Settled, Parked, StoredVersion, erpVars
<1>6. ASSUME NEW v \in Workers, NEW n \in Messages, ConditionFailed(v, n)
      PROVE  m \in batch[w] /\ Settled(body[m])'
  <2>1. n \in todo[v] /\ Acknowledges(v, n) /\ Verdict(body[n]) # "unavailable"
    BY <1>2, <1>6 DEF ConditionFailed, Takes
  <2>. QED
    BY <1>1, <1>5, <1>6, <2>1, InHand, VerdictSettles DEF ConditionFailed, Cancelled, queueVars
<1>7. ASSUME NEW v \in Workers, ReadOrder(v)
      PROVE  m \in batch[w] /\ Settled(body[m])'
  <2>1. asking[v] \in todo[v]
    BY <1>7 DEF ReadOrder
  <2>2. Acknowledges(v, asking[v]) /\ Verdict(body[asking[v]]) # "unavailable"
    BY <1>2, <1>7, <2>1 DEF ReadOrder
  <2>3. v = w /\ asking[v] = m /\ m \in batch[w]
    BY <1>1, <2>1, <2>2
  <2>4. body[m].kind # "unmappable"
    BY <1>7, <2>3 DEF ReadOrder
  <2>. QED
    BY <1>5, <1>7, <2>2, <2>3, <2>4, InHand, VerdictSettles DEF ReadOrder, queueVars
<1>8. ASSUME NEW v \in Workers, NEW n \in Messages, DeadLetter(v, n)
      PROVE  m \in batch[w] /\ Settled(body[m])'
  <2>1. n \in todo[v] /\ Acknowledges(v, n)
    BY <1>2, <1>8 DEF DeadLetter, Takes
  <2>2. [ev |-> body[n], reason |-> ReasonOf(body[n])] \in dlq' /\ body' = body
    BY <1>2, <1>8, <2>1 DEF DeadLetter, queueVars
  <2>3. Parked(body[n])'
    BY <2>2 DEF Parked
  <2>. QED
    BY <1>1, <2>1, <2>2, <2>3 DEF Settled
<1>9. ASSUME NEW v \in Workers,
             \/ \E S \in SUBSET Messages : Receive(v, S)
             \/ \E n \in Messages : ConditionFailedNoItem(v, n)
             \/ ReadOrderFails(v) \/ OutOfTime(v) \/ Crash(v) \/ Respond(v)
      PROVE  FALSE
  BY <1>2, <1>9 DEF Receive, ConditionFailedNoItem, ReadOrderFails, Retries, OutOfTime,
       Crash, Respond, Ends
<1>10. ~ UNCHANGED workerVars
  BY DEF workerVars
<1>. QED
  BY <1>3, <1>4, <1>6, <1>7, <1>8, <1>9, <1>10 DEF Next, Delivery, Invocation, HandleRecord, vars,
     Send, VisibilityTimeout, MoveToDlq, EraseOrder, EraseInvoice, EraseCustomer

(***************************************************************************)
(* Acknowledging a record without writing it is decided on an ERP, or a    *)
(* dead-letter queue, that has its event at that moment (writer.py:164-178 *)
(* and app.py:127-149).                                                    *)
(***************************************************************************)
THEOREM AcknowledgementsAreTrue == Spec => AckReadsTheTruth
<1>1. ASSUME TypeOK, [Next]_vars
      PROVE  \A w \in Workers : \A m \in Messages :
                m \in Acknowledged(w)' \ Acknowledged(w) => Settled(body[m])'
  BY <1>1, AcknowledgedIsSettled
<1>. QED
  BY <1>1, TypeCorrect, PTL DEF Spec, AckReadsTheTruth
-----------------------------------------------------------------------------
\* A message that leaves the queue was acknowledged, or is in the dead-letter queue.
LEMMA GoneIsSettled ==
  ASSUME TypeOK, [Next]_vars, NEW m \in Messages,
         place'[m] = "gone", place[m] # "gone"
  PROVE  Parked(body[m])' \/ \E w \in Workers : m \in Acknowledged(w)
<1> USE DEF TypeOK, QueueTypeOK
<1>1. ASSUME NEW n \in Messages, MoveToDlq(n) PROVE Parked(body[m])'
  <2>1. n = m /\ [ev |-> body[m], reason |-> "none"] \in dlq' /\ body' = body
    BY <1>1 DEF MoveToDlq
  <2>. QED
    BY <2>1 DEF Parked
<1>2. ASSUME NEW w \in Workers, Respond(w) PROVE m \in Acknowledged(w)
  BY <1>2 DEF Respond, Acknowledged
<1>3. ASSUME NEW n \in Messages, NEW e \in Events, Send(n, e) PROVE FALSE
  BY <1>3 DEF Send
<1>4. ASSUME NEW n \in Messages, VisibilityTimeout(n) PROVE FALSE
  BY <1>4 DEF VisibilityTimeout
<1>5. ASSUME NEW w \in Workers, NEW S \in SUBSET Messages, Receive(w, S) PROVE FALSE
  BY <1>5 DEF Receive
<1>6. place' # place
  OBVIOUS
<1>. QED
  BY <1>1, <1>2, <1>3, <1>4, <1>5, <1>6 DEF Next, Delivery, Invocation, HandleRecord, vars, queueVars,
     Written, WrittenReplyLost, ConditionFailed, ConditionFailedNoItem, TransientError,
     DeadLetter, ReadOrder, ReadOrderFails, OutOfTime, Crash, EraseOrder, EraseInvoice,
     EraseCustomer

(***************************************************************************)
(* No event is lost (app.py:1-15).  NoEventLost is inductive with TypeOK:  *)
(* it speaks of the records a worker is about to acknowledge, not only of  *)
(* the messages that are gone.                                             *)
(***************************************************************************)
THEOREM NothingIsLost == Spec => []NoEventLost
<1>1. Init => NoEventLost
  BY DEF Init, NoEventLost
<1>2. TypeOK /\ TypeOK' /\ NoEventLost /\ [Next]_vars => NoEventLost'
  <2> SUFFICES ASSUME TypeOK, TypeOK', NoEventLost, [Next]_vars,
                      NEW m \in Messages,
                      body'[m] # NoItem, body'[m].deal \notin Erasable,
                      place'[m] = "gone" \/ \E w \in Workers : m \in Acknowledged(w)'
               PROVE  Settled(body[m])'
    BY DEF NoEventLost
  <2>1. ASSUME Settled(body[m]), body[m] # NoItem PROVE Settled(body[m])'
    <3>1. body'[m] = body[m] /\ body[m] \in Events
      BY <2>1, BodyStays DEF TypeOK, QueueTypeOK
    <3>. QED
      BY <2>1, <3>1, SettledStays
  <2>2. ASSUME NEW w \in Workers, m \in Acknowledged(w) PROVE Settled(body[m])'
    <3>1. body[m] # NoItem /\ body'[m] = body[m]
      BY <2>2, InHand, BodyStays, NoItemIsNotAnItem DEF Acknowledged
    <3>. QED
      BY <2>1, <2>2, <3>1 DEF NoEventLost
  <2>3. ASSUME NEW w \in Workers, m \in Acknowledged(w)' PROVE Settled(body[m])'
    BY <2>2, <2>3, AcknowledgedIsSettled
  <2>4. CASE place'[m] = "gone" /\ place[m] # "gone"
    BY <2>2, <2>4, GoneIsSettled DEF Settled
  <2>5. CASE place[m] = "gone"
    <3>1. body[m] # NoItem /\ body'[m] = body[m]
      BY <2>5, BodyStays DEF TypeOK, QueueTypeOK
    <3>. QED
      BY <2>1, <2>5, <3>1 DEF NoEventLost
  <2>. QED
    BY <2>3, <2>4, <2>5
<1>. QED
  BY <1>1, <1>2, TypeCorrect, PTL DEF Spec
-----------------------------------------------------------------------------
(***************************************************************************)
(* A valid event is in the dead-letter queue only after its retry budget   *)
(* (classify.py:14-20, template.yaml:66-68).                               *)
(***************************************************************************)
THEOREM BudgetIsSpent == Spec => []GoodOnlyAfterBudget
<1>1. Init => GoodOnlyAfterBudget
  BY DEF Init, GoodOnlyAfterBudget
<1>2. TypeOK /\ GoodOnlyAfterBudget /\ [Next]_vars => GoodOnlyAfterBudget'
  <2> SUFFICES ASSUME TypeOK, GoodOnlyAfterBudget, [Next]_vars,
                      NEW x \in dlq', x.ev.kind = "good"
               PROVE  /\ x.reason = "none"
                      /\ \E m \in Messages : /\ body'[m] = x.ev
                                             /\ place'[m] = "gone"
                                             /\ receives'[m] = MaxReceive
    BY DEF GoodOnlyAfterBudget
  <2> USE DEF TypeOK, QueueTypeOK
  <2>1. ASSUME NEW m \in Messages, place[m] = "gone"
        PROVE  place'[m] = "gone" /\ receives'[m] = receives[m] /\ body'[m] = body[m]
    <3>1. body'[m] = body[m]
      BY <2>1, BodyStays
    <3>. QED
      BY <2>1, <3>1 DEF Next, Delivery, Invocation, HandleRecord, vars, queueVars, Send,
         VisibilityTimeout, MoveToDlq, Receive, Written, WrittenReplyLost, ConditionFailed,
         ConditionFailedNoItem, TransientError, DeadLetter, ReadOrder, ReadOrderFails,
         OutOfTime, Crash, Respond, EraseOrder, EraseInvoice, EraseCustomer
  <2>2. CASE x \in dlq
    BY <2>1, <2>2 DEF GoodOnlyAfterBudget
  <2>3. CASE x \notin dlq
    <3>1. ASSUME NEW m \in Messages, MoveToDlq(m)
          PROVE  /\ x = [ev |-> body[m], reason |-> "none"]
                 /\ body'[m] = body[m] /\ place'[m] = "gone" /\ receives'[m] = MaxReceive
      BY <2>3, <3>1, SyncAssumption DEF MoveToDlq
    <3>2. ASSUME NEW w \in Workers, NEW m \in Messages, DeadLetter(w, m) PROVE FALSE
      BY <2>3, <3>2 DEF DeadLetter
    <3>. QED
      BY <2>3, <3>1, <3>2 DEF Next, Delivery, Invocation, HandleRecord, vars, Send, VisibilityTimeout,
         Receive, Written, WrittenReplyLost, ConditionFailed, ConditionFailedNoItem,
         TransientError, ReadOrder, ReadOrderFails, OutOfTime, Crash, Respond, EraseOrder,
         EraseInvoice, EraseCustomer
  <2>. QED
    BY <2>2, <2>3
<1>. QED
  BY <1>1, <1>2, TypeCorrect, PTL DEF Spec
-----------------------------------------------------------------------------
\* An item is stored under its own key.
ErpKeys == /\ \A d \in Deals : orders[d] # NoItem => orders[d].ev.deal = d
           /\ \A a \in Accounts : customers[a] # NoItem => customers[a].account = a

\* A transaction leaves its own event in all three tables and nothing else.
LEMMA TransactionEffect ==
  ASSUME ErpTypeOK, NEW e \in Events, Transaction(e)
  PROVE  /\ e.deal \in Deals /\ e.account \in Accounts /\ e.version \in Nat \ {0}
         /\ orders'[e.deal] # NoItem
         /\ orders'[e.deal].ev = e
         /\ orders'[e.deal].revision = NextRevision(e.deal)
         /\ NextRevision(e.deal) \in Nat \ {0}
         /\ invoices'[e.deal] = e
         /\ customers'[e.account] = e
         /\ e # NoItem
         /\ \A d \in Deals : d # e.deal => orders'[d] = orders[d] /\ invoices'[d] = invoices[d]
         /\ \A a \in Accounts : a # e.account => customers'[a] = customers[a]
<1>1. /\ e.deal \in Deals /\ e.account \in Accounts /\ e.version \in Nat \ {0}
      /\ e # NoItem
  BY EventsAreRecords, NoItemIsNotAnItem
<1>2. orders'[e.deal] = [ev |-> e, revision |-> NextRevision(e.deal)]
  BY <1>1 DEF Transaction, ErpTypeOK
<1>3. NextRevision(e.deal) \in Nat \ {0}
  BY <1>1 DEF NextRevision, ErpTypeOK, Items
<1>4. orders'[e.deal] # NoItem
  BY <1>2, <1>3, NoItemIsNotAnItem DEF Items
<1>. QED
  BY <1>1, <1>2, <1>3, <1>4 DEF Transaction, ErpTypeOK

LEMMA KeysHold == Spec => []ErpKeys
<1>1. Init => ErpKeys
  BY DEF Init, ErpInit, ErpKeys
<1>2. TypeOK /\ ErpKeys /\ [Next]_vars => ErpKeys'
  <2> SUFFICES ASSUME TypeOK, ErpKeys, [Next]_vars PROVE ErpKeys'
    OBVIOUS
  <2>1. ASSUME NEW w \in Workers, NEW m \in batch[w], Transaction(body[m]) PROVE ErpKeys'
    BY <2>1, InHand, TransactionEffect DEF ErpKeys, TypeOK
  <2>2. ASSUME NEW d \in Deals, DropOrder(d) \/ DropInvoice(d) PROVE ErpKeys'
    BY <2>2 DEF DropOrder, DropInvoice, ErpKeys, TypeOK, ErpTypeOK
  <2>3. ASSUME NEW a \in Accounts, DropCustomer(a) PROVE ErpKeys'
    BY <2>3 DEF DropCustomer, ErpKeys, TypeOK, ErpTypeOK
  <2>4. CASE UNCHANGED erpVars
    BY <2>4 DEF erpVars, ErpKeys
  <2>. QED
    BY <2>1, <2>2, <2>3, <2>4, ErpSteps, SyncAssumption DEF ErpStep, ErasableAccounts
<1>. QED
  BY <1>1, <1>2, TypeCorrect, PTL DEF Spec

(***************************************************************************)
(* The order, the invoice and the customer agree (writer.py:14-17).        *)
(***************************************************************************)
THEOREM TablesAgree == Spec => []ErpConsistent
<1>1. Init => ErpConsistent
  BY NoItemIsNotAnItem DEF Init, ErpInit, ErpConsistent, InvoiceMirrorsOrder, CustomerShowsItsOrder
<1>2. TypeOK /\ ErpKeys /\ ErpConsistent /\ [Next]_vars => ErpConsistent'
  <2> SUFFICES ASSUME TypeOK, ErpKeys, ErpConsistent, [Next]_vars PROVE ErpConsistent'
    OBVIOUS
  <2> USE DEF ErpConsistent
  <2>1. ASSUME NEW e \in Events, Transaction(e) PROVE ErpConsistent'
    <3>1. ErpTypeOK
      BY DEF TypeOK
    <3>2. InvoiceMirrorsOrder'
      <4> SUFFICES ASSUME NEW d \in Deals \ Erasable
                   PROVE  /\ orders'[d] = NoItem <=> invoices'[d] = NoItem
                          /\ orders'[d] # NoItem =>
                                /\ invoices'[d] = orders'[d].ev
                                /\ customers'[orders'[d].ev.account] # NoItem
        BY DEF InvoiceMirrorsOrder
      <4>0. Transaction(e)
        BY <2>1
      <4>1. CASE d = e.deal
        BY <3>1, <4>0, <4>1, TransactionEffect
      <4>2. CASE d # e.deal
        <5>1. orders'[d] = orders[d] /\ invoices'[d] = invoices[d]
          BY <3>1, <4>0, <4>2, TransactionEffect
        <5>2. orders[d] # NoItem => orders[d].ev.account \in Accounts
          BY <3>1, EventsAreRecords DEF ErpTypeOK, Items
        <5>. QED
          BY <3>1, <4>0, <5>1, <5>2, TransactionEffect DEF InvoiceMirrorsOrder
      <4>. QED
        BY <4>1, <4>2
    <3>3. CustomerShowsItsOrder'
      <4>0. Transaction(e) /\ ConditionPasses(e)
        BY <2>1 DEF Transaction
      <4> SUFFICES ASSUME NEW a \in Accounts, customers'[a] # NoItem,
                          customers'[a].deal \notin Erasable
                   PROVE  /\ orders'[customers'[a].deal] # NoItem
                          /\ StoredVersion(customers[a].deal)' >= customers'[a].version
                          /\ orders'[customers'[a].deal].ev.account = a =>
                                orders'[customers'[a].deal].ev = customers'[a]
        BY DEF CustomerShowsItsOrder
      <4>1. CASE a = e.account
        BY <3>1, <4>0, <4>1, TransactionEffect DEF StoredVersion
      <4>2. CASE a # e.account /\ customers[a].deal = e.deal
        <5>1. customers'[a] = customers[a] /\ orders'[e.deal].ev = e /\ orders'[e.deal] # NoItem
          BY <3>1, <4>0, <4>2, TransactionEffect
        <5>2. customers[a] \in Events /\ customers[a].version \in Nat
          BY <3>1, <5>1, EventsAreRecords DEF ErpTypeOK
        <5>3. orders[e.deal] # NoItem /\ orders[e.deal].ev.version >= customers[a].version
          BY <4>2, <5>1 DEF CustomerShowsItsOrder, StoredVersion
        <5>4. orders[e.deal].ev.version \in Nat /\ e.version \in Nat
          BY <3>1, <5>3, EventsAreRecords DEF ErpTypeOK, Items
        <5>. QED
          BY <4>0, <4>2, <5>1, <5>2, <5>3, <5>4 DEF StoredVersion, ConditionPasses
      <4>3. CASE a # e.account /\ customers[a].deal # e.deal
        <5>1. customers'[a] = customers[a] /\ customers[a].deal \in Deals
          BY <3>1, <4>0, <4>3, TransactionEffect, EventsAreRecords DEF ErpTypeOK
        <5>2. orders'[customers[a].deal] = orders[customers[a].deal]
          BY <3>1, <4>0, <4>3, <5>1, TransactionEffect
        <5>. QED
          BY <5>1, <5>2 DEF CustomerShowsItsOrder, StoredVersion
      <4>. QED
        BY <4>1, <4>2, <4>3
    <3>. QED
      BY <3>2, <3>3
  <2>2. ASSUME NEW d \in Erasable, DropOrder(d) \/ DropInvoice(d) PROVE ErpConsistent'
    <3>1. InvoiceMirrorsOrder'
      BY <2>2 DEF DropOrder, DropInvoice, InvoiceMirrorsOrder, TypeOK, ErpTypeOK
    <3>2. CustomerShowsItsOrder'
      BY <2>2, EventsAreRecords
         DEF DropOrder, DropInvoice, CustomerShowsItsOrder, StoredVersion, TypeOK, ErpTypeOK
    <3>. QED
      BY <3>1, <3>2
  <2>3. ASSUME NEW b \in ErasableAccounts, DropCustomer(b) PROVE ErpConsistent'
    <3>1. InvoiceMirrorsOrder'
      <4>1. ASSUME NEW d \in Deals \ Erasable, orders[d] # NoItem
            PROVE  orders[d].ev \in Events /\ orders[d].ev.account # b
        BY <4>1 DEF ErpKeys, ErasableAccounts, TypeOK, ErpTypeOK, Items
      <4>. QED
        BY <2>3, <4>1, EventsAreRecords
           DEF DropCustomer, InvoiceMirrorsOrder, TypeOK, ErpTypeOK
    <3>2. CustomerShowsItsOrder'
      BY <2>3 DEF DropCustomer, CustomerShowsItsOrder, StoredVersion, TypeOK, ErpTypeOK
    <3>. QED
      BY <3>1, <3>2
  <2>4. CASE UNCHANGED erpVars
    BY <2>4 DEF erpVars, InvoiceMirrorsOrder, CustomerShowsItsOrder, StoredVersion
  <2>. QED
    BY <2>1, <2>2, <2>3, <2>4, ErpSteps, InHand DEF ErpStep
<1>. QED
  BY <1>1, <1>2, TypeCorrect, KeysHold, PTL DEF Spec
-----------------------------------------------------------------------------
\* Only a send changes what is offered, and it only adds to it.
LEMMA OfferedSteps ==
  ASSUME TypeOK, [Next]_vars
  PROVE  \/ UNCHANGED body
         \/ \E m \in Messages, e \in Events :
               Send(m, e) /\ Offered' = Offered \cup {e} /\ UNCHANGED erpVars
<1>1. ASSUME NEW m \in Messages, NEW e \in Events, Send(m, e)
      PROVE  Offered' = Offered \cup {e} /\ UNCHANGED erpVars
  BY <1>1, NoItemIsNotAnItem DEF Send, Offered, TypeOK, QueueTypeOK
<1>. QED
  BY <1>1 DEF Next, Delivery, Invocation, HandleRecord, vars, queueVars, VisibilityTimeout, MoveToDlq,
     Receive, Written, WrittenReplyLost, ConditionFailed, ConditionFailedNoItem,
     TransientError, DeadLetter, ReadOrder, ReadOrderFails, OutOfTime, Crash, Respond,
     EraseOrder, EraseInvoice, EraseCustomer

LEMMA OfferedType ==
  ASSUME TypeOK
  PROVE  /\ Offered \subseteq Events
         /\ \A w \in Workers : \A m \in batch[w] : body[m] \in Offered
BY InHand, NoItemIsNotAnItem DEF Offered, TypeOK, QueueTypeOK, WorkerTypeOK

LEMMA OfferedGrows ==
  ASSUME TypeOK, [Next]_vars
  PROVE  Offered \subseteq Offered' /\ Offered' \subseteq Events
<1>1. UNCHANGED body => Offered' = Offered
  BY DEF Offered
<1>. QED
  BY <1>1, OfferedType, OfferedSteps

LEMMA VersionsAreFinite ==
  ASSUME NEW S \in SUBSET Events, NEW d, NEW v \in Nat
  PROVE  /\ IsFiniteSet(VersionsUpTo(S, d, v))
         /\ Cardinality(VersionsUpTo(S, d, v)) \in Nat
<1>1. VersionsUpTo(S, d, v) \in SUBSET Nat /\ \A n \in VersionsUpTo(S, d, v) : n <= v
  BY EventsAreRecords DEF VersionsUpTo
<1>. QED
  BY <1>1, FS_BoundedSetOfNaturals, FS_CardinalityType

\* Offering more events adds to the count.
LEMMA CountGrows ==
  ASSUME NEW S \in SUBSET Events, NEW T \in SUBSET Events, S \subseteq T,
         NEW d, NEW v \in Nat
  PROVE  Cardinality(VersionsUpTo(S, d, v)) <= Cardinality(VersionsUpTo(T, d, v))
<1>1. VersionsUpTo(S, d, v) \subseteq VersionsUpTo(T, d, v)
  BY DEF VersionsUpTo
<1>. QED
  BY <1>1, VersionsAreFinite, FS_Subset

\* A version above u that is among the events adds one at least.
LEMMA CountRises ==
  ASSUME NEW S \in SUBSET Events, NEW e \in S, e.kind = "good", NEW u \in Nat, u < e.version
  PROVE  Cardinality(VersionsUpTo(S, e.deal, u)) + 1
            <= Cardinality(VersionsUpTo(S, e.deal, e.version))
<1> DEFINE Low == VersionsUpTo(S, e.deal, u)
           High == VersionsUpTo(S, e.deal, e.version)
<1>1. e.version \in Nat /\ \A f \in S : f.version \in Nat
  BY EventsAreRecords
<1>2. IsFiniteSet(Low) /\ Cardinality(Low) \in Nat /\ IsFiniteSet(High)
  BY <1>1, VersionsAreFinite
<1>3. e.version \notin Low /\ Low \cup {e.version} \subseteq High
  BY <1>1 DEF VersionsUpTo
<1>4. Cardinality(Low \cup {e.version}) = Cardinality(Low) + 1
  <2> HIDE DEF Low
  <2>. QED
    BY <1>2, <1>3, FS_AddElement
<1>5. Cardinality(Low \cup {e.version}) <= Cardinality(High)
  <2> HIDE DEF Low, High
  <2>. QED
    BY <1>2, <1>3, FS_Subset
<1>. QED
  BY <1>4, <1>5

(***************************************************************************)
(* The revision of an order counts the versions that were written, each    *)
(* once: it is at most the number of those that were offered (writer.py:3- *)
(* 17, and its condition on line 101).                                     *)
(***************************************************************************)
THEOREM WrittenAtMostOnce == Spec => []EffectivelyOnce
<1>1. Init => EffectivelyOnce
  BY DEF Init, ErpInit, EffectivelyOnce
<1>2. TypeOK /\ EffectivelyOnce /\ [Next]_vars => EffectivelyOnce'
  <2> SUFFICES ASSUME TypeOK, EffectivelyOnce, [Next]_vars,
                      NEW d \in Deals, orders'[d] # NoItem
               PROVE  orders'[d].revision
                        <= Cardinality(VersionsUpTo(Offered', d, orders'[d].ev.version))
    BY DEF EffectivelyOnce
  <2>0. /\ orders[d] \in Items \cup {NoItem}
        /\ \A e \in Events : e.version \in Nat \ {0}
    BY EventsAreRecords DEF TypeOK, ErpTypeOK
  <2>1. CASE orders'[d] = orders[d]
    <3>1. orders[d].revision \in Nat /\ orders[d].ev.version \in Nat
      BY <2>0, <2>1 DEF Items
    <3>2. Offered \subseteq Offered' /\ Offered \in SUBSET Events /\ Offered' \in SUBSET Events
      BY OfferedGrows
    <3>3. orders[d].revision <= Cardinality(VersionsUpTo(Offered, d, orders[d].ev.version))
      BY <2>1 DEF EffectivelyOnce
    <3>. QED
      BY <2>1, <3>1, <3>2, <3>3, CountGrows, VersionsAreFinite
  <2>2. ASSUME NEW e \in Events, e.deal = d, e.kind = "good", Transaction(e),
               e \in Offered, UNCHANGED body
        PROVE  orders'[d].revision
                 <= Cardinality(VersionsUpTo(Offered', d, orders'[d].ev.version))
    <3>1. /\ orders'[d].ev = e
          /\ orders'[d].revision = NextRevision(d)
          /\ ConditionPasses(e)
      BY <2>2, TransactionEffect DEF TypeOK, Transaction
    <3>2. Offered' = Offered /\ Offered \in SUBSET Events
      BY <2>2, OfferedType DEF Offered
    <3>3. e.version \in Nat \ {0}
      BY <2>0
    <3>4. NextRevision(d) <= Cardinality(VersionsUpTo(Offered, d, e.version))
      <4>1. CASE orders[d] = NoItem
        <5>1. 0 < e.version /\ Cardinality(VersionsUpTo(Offered, d, 0)) \in Nat
              /\ Cardinality(VersionsUpTo(Offered, d, e.version)) \in Nat
          BY <3>2, <3>3, VersionsAreFinite
        <5>2. Cardinality(VersionsUpTo(Offered, d, 0)) + 1
                <= Cardinality(VersionsUpTo(Offered, d, e.version))
          BY <2>2, <3>2, <5>1, CountRises
        <5>. QED
          BY <4>1, <5>1, <5>2 DEF NextRevision
      <4>2. CASE orders[d] # NoItem
        <5>1. orders[d].revision \in Nat /\ orders[d].ev.version \in Nat
              /\ orders[d].ev.version < e.version
          BY <2>0, <2>2, <3>1, <4>2 DEF Items, ConditionPasses
        <5>2. orders[d].revision <= Cardinality(VersionsUpTo(Offered, d, orders[d].ev.version))
          BY <4>2 DEF EffectivelyOnce
        <5>3. Cardinality(VersionsUpTo(Offered, d, orders[d].ev.version)) + 1
                <= Cardinality(VersionsUpTo(Offered, d, e.version))
          BY <2>2, <3>2, <5>1, CountRises
        <5>4. Cardinality(VersionsUpTo(Offered, d, orders[d].ev.version)) \in Nat
              /\ Cardinality(VersionsUpTo(Offered, d, e.version)) \in Nat
          BY <3>2, <3>3, <5>1, VersionsAreFinite
        <5>. QED
          BY <4>2, <5>1, <5>2, <5>3, <5>4 DEF NextRevision
      <4>. QED
        BY <4>1, <4>2
    <3>. QED
      BY <3>1, <3>2, <3>4
  <2>3. \/ orders'[d] = orders[d]
        \/ \E e \in Events : /\ e.deal = d /\ e.kind = "good" /\ Transaction(e)
                             /\ e \in Offered /\ UNCHANGED body
    <3>1. ASSUME NEW w \in Workers, NEW m \in batch[w], body[m].kind = "good",
                 Transaction(body[m]), UNCHANGED body
          PROVE  \/ orders'[d] = orders[d]
                 \/ \E e \in Events : /\ e.deal = d /\ e.kind = "good" /\ Transaction(e)
                                      /\ e \in Offered /\ UNCHANGED body
      <4>1. PICK e \in Events : e = body[m]
        BY InHand
      <4>2. e \in Offered /\ e.kind = "good" /\ Transaction(e)
        BY <3>1, <4>1, OfferedType
      <4>3. d # e.deal => orders'[d] = orders[d]
        BY <4>2, TransactionEffect DEF TypeOK
      <4>. QED
        BY <3>1, <4>2, <4>3
    <3>2. ASSUME NEW c \in Deals, DropOrder(c) PROVE orders'[d] = orders[d]
      BY <3>2 DEF DropOrder, TypeOK, ErpTypeOK
    <3>. QED
      BY <3>1, <3>2, ErpSteps, SyncAssumption DEF ErpStep, DropInvoice, DropCustomer, erpVars
  <2>. QED
    BY <2>1, <2>2, <2>3
<1>. QED
  BY <1>1, <1>2, TypeCorrect, PTL DEF Spec
-----------------------------------------------------------------------------
(***************************************************************************)
(* The queue, the worker, the dead-letter queue and the ERP implement the  *)
(* order book: a send offers an event, a transaction applies one, deleting *)
(* an order by hand erases it, and every other step changes nothing that   *)
(* the order book sees.                                                    *)
(***************************************************************************)
THEOREM SyncIsAnOrderBook == Spec => ImplementsOrderBook
<1> DEFINE Shown == [d \in Deals |-> IF orders[d] = NoItem THEN NoItem ELSE orders[d].ev]
<1>1. Init => Book!Init
  BY NoItemIsNotAnItem DEF Init, ErpInit, Book!Init, Offered
<1>2. TypeOK /\ [Next]_vars => [Book!Next]_(Book!vars)
  <2> SUFFICES ASSUME TypeOK, [Next]_vars PROVE Book!Next \/ UNCHANGED Book!vars
    OBVIOUS
  <2>1. CASE UNCHANGED body /\ UNCHANGED orders
    BY <2>1 DEF Book!vars, Offered
  <2>2. ASSUME NEW e \in Events, Offered' = Offered \cup {e}, UNCHANGED erpVars
        PROVE  Book!Next
    <3>1. Offered' \subseteq Events
      BY <2>2, OfferedType
    <3>2. Book!Offer
      BY <2>2, <3>1 DEF Book!Offer, erpVars
    <3>. QED
      BY <3>2 DEF Book!Next
  <2>3. ASSUME NEW e \in Events, e \in Offered, e.kind = "good", Transaction(e), UNCHANGED body
        PROVE  Book!Next
    <3>1. Offered' = Offered
      BY <2>3 DEF Offered
    <3>2. /\ e.deal \in Deals /\ orders'[e.deal] # NoItem /\ orders'[e.deal].ev = e
          /\ \A d \in Deals : d # e.deal => orders'[d] = orders[d]
      BY <2>3, TransactionEffect DEF TypeOK
    <3>3. Shown' = [Shown EXCEPT ![e.deal] = e]
      BY <3>2
    <3>4. Shown[e.deal] # NoItem => Shown[e.deal].version < e.version
      BY <2>3, <3>2 DEF Transaction, ConditionPasses
    <3>5. Book!Apply(e)
      BY <2>3, <3>1, <3>3, <3>4 DEF Book!Apply, VersionOf, IsGood
    <3>. QED
      BY <2>3, <3>5 DEF Book!Next
  <2>4. ASSUME NEW d \in Erasable, DropOrder(d), UNCHANGED body
        PROVE  Book!Next
    <3>1. Shown' = [Shown EXCEPT ![d] = NoItem] /\ Offered' = Offered
      BY <2>4, SyncAssumption DEF DropOrder, Offered, TypeOK, ErpTypeOK
    <3>. QED
      BY <2>4, <3>1 DEF Book!Next, Book!Erase
  <2>5. CASE UNCHANGED body
    <3>1. ASSUME NEW w \in Workers, NEW m \in batch[w], body[m].kind = "good",
                 Transaction(body[m])
          PROVE  Book!Next
      <4>1. PICK e \in Events : e = body[m]
        BY InHand
      <4>2. e \in Offered /\ e.kind = "good" /\ Transaction(e)
        BY <3>1, <4>1, OfferedType
      <4>. QED
        BY <2>3, <2>5, <4>2
    <3>. QED
      BY <2>1, <2>4, <2>5, <3>1, ErpSteps DEF ErpStep, DropInvoice, DropCustomer, erpVars
  <2>. QED
    BY <2>2, <2>5, OfferedSteps
<1>. QED
  BY <1>1, <1>2, TypeCorrect, PTL DEF Spec, ImplementsOrderBook, Book!Spec
=============================================================================
