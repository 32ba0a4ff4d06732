-------------------------------- MODULE Sync --------------------------------
(***************************************************************************)
(* The queue, the event source mapping that runs the worker Lambda on its  *)
(* batches, the worker (src/worker/app.py) and the dead-letter queue, over *)
(* the ERP of ErpWriter.  The queue is a standard SQS queue: unordered and *)
(* at least once, so a message may come back while a worker still has it.  *)
(***************************************************************************)
EXTENDS ErpWriter, FiniteSets

CONSTANTS Messages,    \* message ids; a send takes a fresh one
          Workers,     \* concurrent invocations (MaximumConcurrency)
          MaxReceive,  \* the redrive policy's maxReceiveCount
          BatchSize,   \* records in an invocation, at most
          Erasable,    \* deals whose order and invoice are also deleted by hand
          NoMessage    \* no record is waiting for _read_order

ASSUME SyncAssumption == /\ MaxReceive \in Nat \ {0}
                         /\ BatchSize \in Nat \ {0}
                         /\ Erasable \subseteq Deals
                         /\ NoMessage \notin Messages

Reasons == {"none", "mapping", "erp_rejected"}

VARIABLES body,      \* body[m]: the event the message carries, NoItem when not sent
          place,     \* where the queue has it
          receives,  \* ApproximateReceiveCount
          dlq,       \* [ev, reason] of what is in the dead-letter queue
          batch,     \* batch[w]: the records of the running invocation
          todo,      \* todo[w]: those the loop has not finished
          failures,  \* failures[w]: those it will report in batchItemFailures
          asking     \* asking[w]: the record whose order is being read back

queueVars == <<body, place, receives>>
workerVars == <<batch, todo, failures, asking>>
vars == <<erpVars, queueVars, dlq, workerVars>>

Init == /\ ErpInit
        /\ body = [m \in Messages |-> NoItem]
        /\ place = [m \in Messages |-> "unsent"]
        /\ receives = [m \in Messages |-> 0]
        /\ dlq = {}
        /\ batch = [w \in Workers |-> {}]
        /\ todo = [w \in Workers |-> {}]
        /\ failures = [w \in Workers |-> {}]
        /\ asking = [w \in Workers |-> NoMessage]
-----------------------------------------------------------------------------
\* The queue.

\* The poller, the reconciler or the smoke test sends an event.
Send(m, e) == /\ place[m] = "unsent"
              /\ body' = [body EXCEPT ![m] = e]
              /\ place' = [place EXCEPT ![m] = "visible"]
              /\ UNCHANGED <<erpVars, receives, dlq, workerVars>>

\* Mutant: a message is received without end.
Receive_Unlimited(w, S) ==
    /\ batch[w] = {}
    /\ S # {}
    /\ Cardinality(S) <= BatchSize
    /\ \A m \in S : place[m] = "visible"
    /\ place' = [m \in Messages |-> IF m \in S THEN "hidden" ELSE place[m]]
    /\ receives' = [m \in Messages |-> IF m \in S THEN receives[m] + 1 ELSE receives[m]]
    /\ batch' = [batch EXCEPT ![w] = S]
    /\ todo' = [todo EXCEPT ![w] = S]
    /\ UNCHANGED <<erpVars, body, dlq, failures, asking>>

\* The event source mapping receives a batch and invokes the worker with it.
Receive(w, S) == /\ batch[w] = {}
                 /\ S # {}
                 /\ Cardinality(S) <= BatchSize
                 /\ \A m \in S : place[m] = "visible" /\ receives[m] < MaxReceive
                 /\ place' = [m \in Messages |-> IF m \in S THEN "hidden" ELSE place[m]]
                 /\ receives' = [m \in Messages |->
                                   IF m \in S THEN receives[m] + 1 ELSE receives[m]]
                 /\ batch' = [batch EXCEPT ![w] = S]
                 /\ todo' = [todo EXCEPT ![w] = S]
                 /\ UNCHANGED <<erpVars, body, dlq, failures, asking>>

\* A visibility timeout runs out: the queue's, or the backoff delay the worker
\* has set.  At least once: this may happen while a worker has the message.
VisibilityTimeout(m) == /\ place[m] = "hidden"
                        /\ place' = [place EXCEPT ![m] = "visible"]
                        /\ UNCHANGED <<erpVars, body, receives, dlq, workerVars>>

\* Mutants: the move comes one receive too early, or one too late.
MoveToDlq_Early(m) == /\ place[m] = "visible"
                      /\ receives[m] >= MaxReceive - 1
                      /\ place' = [place EXCEPT ![m] = "gone"]
                      /\ dlq' = dlq \cup {[ev |-> body[m], reason |-> "none"]}
                      /\ UNCHANGED <<erpVars, body, receives, workerVars>>
MoveToDlq_Late(m) == /\ place[m] = "visible"
                     /\ receives[m] > MaxReceive
                     /\ place' = [place EXCEPT ![m] = "gone"]
                     /\ dlq' = dlq \cup {[ev |-> body[m], reason |-> "none"]}
                     /\ UNCHANGED <<erpVars, body, receives, workerVars>>

\* The redrive policy: SQS itself moves the message, with no reason attribute.
MoveToDlq(m) == /\ place[m] = "visible"
                /\ receives[m] >= MaxReceive
                /\ place' = [place EXCEPT ![m] = "gone"]
                /\ dlq' = dlq \cup {[ev |-> body[m], reason |-> "none"]}
                /\ UNCHANGED <<erpVars, body, receives, workerVars>>
-----------------------------------------------------------------------------
\* The worker.

\* The loop takes its next record (a batch has no order).
Takes(w, m) == m \in todo[w] /\ asking[w] = NoMessage

\* The record is acknowledged: it will not be in batchItemFailures.
Acknowledges(w, m) == /\ todo' = [todo EXCEPT ![w] = @ \ {m}]
                      /\ asking' = [asking EXCEPT ![w] = NoMessage]
                      /\ UNCHANGED <<batch, failures>>

\* The record is reported failed; SQS delivers it again after a delay.
Retries(w, m) == /\ todo' = [todo EXCEPT ![w] = @ \ {m}]
                 /\ asking' = [asking EXCEPT ![w] = NoMessage]
                 /\ failures' = [failures EXCEPT ![w] = @ \cup {m}]
                 /\ UNCHANGED batch

\* Mutant: an event is written before it is validated.
Written_Unvalidated(w, m) == /\ Takes(w, m)
                             /\ Transaction(body[m])
                             /\ Acknowledges(w, m)
                             /\ UNCHANGED <<queueVars, dlq>>

\* The ERP took the write.
Written(w, m) == /\ Takes(w, m)
                 /\ body[m].kind = "good"
                 /\ Transaction(body[m])
                 /\ Acknowledges(w, m)
                 /\ UNCHANGED <<queueVars, dlq>>

\* It took the write and its reply was lost: an unexpected error, so transient.
WrittenReplyLost(w, m) == /\ Takes(w, m)
                          /\ body[m].kind = "good"
                          /\ Transaction(body[m])
                          /\ Retries(w, m)
                          /\ UNCHANGED <<queueVars, dlq>>

\* The condition failed and the reply carries the stored order: a duplicate or
\* a stale version.  (An item the ERP refuses may fail its condition as well.)
ConditionFailed(w, m) == /\ Takes(w, m)
                         /\ body[m].kind # "unmappable"
                         /\ Cancelled(body[m])
                         /\ IF Verdict(body[m]) = "unavailable"
                              THEN Retries(w, m) ELSE Acknowledges(w, m)
                         /\ UNCHANGED <<queueVars, dlq>>

\* The condition failed and the reply carries no item: read the order next.
ConditionFailedNoItem(w, m) == /\ Takes(w, m)
                               /\ body[m].kind # "unmappable"
                               /\ Cancelled(body[m])
                               /\ asking' = [asking EXCEPT ![w] = m]
                               /\ UNCHANGED <<queueVars, dlq, batch, todo, failures>>

\* _read_order returns; others may have written or deleted the order since.
ReadOrder(w) == /\ asking[w] # NoMessage
                /\ IF Verdict(body[asking[w]]) = "unavailable"
                     THEN Retries(w, asking[w]) ELSE Acknowledges(w, asking[w])
                /\ UNCHANGED <<erpVars, queueVars, dlq>>

ReadOrderFails(w) == /\ asking[w] # NoMessage
                     /\ Retries(w, asking[w])
                     /\ UNCHANGED <<erpVars, queueVars, dlq>>

\* Throttling, a transaction conflict, a timeout, the chaos flag: nothing written.
TransientError(w, m) == /\ Takes(w, m)
                        /\ body[m].kind # "unmappable"
                        /\ Retries(w, m)
                        /\ UNCHANGED <<erpVars, queueVars, dlq>>

ReasonOf(e) == IF e.kind = "unmappable" THEN "mapping" ELSE "erp_rejected"

\* Mutant: the record is acknowledged whether or not it could be parked.
DeadLetter_Unchecked(w, m) ==
    /\ Takes(w, m)
    /\ body[m].kind # "good"
    /\ Acknowledges(w, m)
    /\ \/ dlq' = dlq \cup {[ev |-> body[m], reason |-> ReasonOf(body[m])]}
       \/ UNCHANGED dlq
    /\ UNCHANGED <<erpVars, queueVars>>

\* A permanent error: send to the dead-letter queue, then acknowledge.
DeadLetter(w, m) ==
    LET parked == dlq \cup {[ev |-> body[m], reason |-> ReasonOf(body[m])]} IN
    /\ Takes(w, m)
    /\ body[m].kind # "good"
    /\ \/ dlq' = parked /\ Acknowledges(w, m)
       \/ dlq' = parked /\ Retries(w, m)         \* the reply to the send was lost
       \/ UNCHANGED dlq /\ Retries(w, m)         \* the send failed
    /\ UNCHANGED <<erpVars, queueVars>>

\* The time guard: hand the records that are left back.
OutOfTime(w) == /\ todo[w] # {}
                /\ asking[w] = NoMessage
                /\ failures' = [failures EXCEPT ![w] = @ \cup todo[w]]
                /\ todo' = [todo EXCEPT ![w] = {}]
                /\ UNCHANGED <<erpVars, queueVars, dlq, batch, asking>>

Ends(w) == /\ batch' = [batch EXCEPT ![w] = {}]
           /\ todo' = [todo EXCEPT ![w] = {}]
           /\ failures' = [failures EXCEPT ![w] = {}]
           /\ asking' = [asking EXCEPT ![w] = NoMessage]

\* The invocation fails (the chaos crash, a Lambda timeout, a lost response):
\* nothing is deleted and the whole batch becomes visible again.
Crash(w) == /\ batch[w] # {}
            /\ Ends(w)
            /\ UNCHANGED <<erpVars, queueVars, dlq>>

\* Mutant: no ReportBatchItemFailures, a normal return deletes the whole batch.
Respond_WholeBatch(w) == /\ batch[w] # {}
                         /\ todo[w] = {}
                         /\ place' = [m \in Messages |->
                                       IF m \in batch[w] THEN "gone" ELSE place[m]]
                         /\ Ends(w)
                         /\ UNCHANGED <<erpVars, body, receives, dlq>>

\* The handler returns; the mapping deletes what was not reported failed.
\* The deletes are at most once: an entry can fail, a receipt can be stale.
Respond(w) == /\ batch[w] # {}
              /\ todo[w] = {}
              /\ \E deleted \in SUBSET (batch[w] \ failures[w]) :
                    place' = [m \in Messages |->
                                IF m \in deleted THEN "gone" ELSE place[m]]
              /\ Ends(w)
              /\ UNCHANGED <<erpVars, body, receives, dlq>>
-----------------------------------------------------------------------------
\* Deletions by hand, one item per call (scripts/smoke.py's cleanup).
EraseOrder(d) == DropOrder(d) /\ UNCHANGED <<queueVars, dlq, workerVars>>
EraseInvoice(d) == DropInvoice(d) /\ UNCHANGED <<queueVars, dlq, workerVars>>
EraseCustomer(a) == DropCustomer(a) /\ UNCHANGED <<queueVars, dlq, workerVars>>

\* The cleanup's customer belongs to the cleanup's deals only.
ErasableAccounts == {a \in Accounts : \A e \in Events : e.account = a => e.deal \in Erasable}

\* The outcomes of one record, and of one invocation.
HandleRecord(w) == \/ \E m \in Messages : \/ Written(w, m)
                                          \/ WrittenReplyLost(w, m)
                                          \/ ConditionFailed(w, m)
                                          \/ ConditionFailedNoItem(w, m)
                                          \/ TransientError(w, m)
                                          \/ DeadLetter(w, m)
                   \/ ReadOrder(w)
                   \/ ReadOrderFails(w)

Invocation(w) == HandleRecord(w) \/ OutOfTime(w) \/ Crash(w) \/ Respond(w)

\* The queue, the mapping and the worker, with nobody sending or deleting.
Delivery == \/ \E m \in Messages : VisibilityTimeout(m) \/ MoveToDlq(m)
            \/ \E w \in Workers : \/ \E S \in SUBSET Messages : Receive(w, S)
                                  \/ Invocation(w)

Next == \/ \E m \in Messages, e \in Events : Send(m, e)
        \/ Delivery
        \/ \E d \in Erasable : EraseOrder(d) \/ EraseInvoice(d)
        \/ \E a \in ErasableAccounts : EraseCustomer(a)

Spec == Init /\ [][Next]_vars

\* Every invocation ends (the Lambda timeout sees to it, if nothing else does),
\* every visibility timeout runs out, and the mapping and the redrive policy
\* keep polling.  No step is assumed to succeed.
Fairness == /\ \A w \in Workers : WF_vars(Invocation(w))
            /\ WF_vars(\E w \in Workers, S \in SUBSET Messages : Receive(w, S))
            /\ \A m \in Messages : WF_vars(VisibilityTimeout(m)) /\ WF_vars(MoveToDlq(m))

FairSpec == Spec /\ Fairness
-----------------------------------------------------------------------------
QueueTypeOK == /\ body \in [Messages -> Events \cup {NoItem}]
               /\ place \in [Messages -> {"unsent", "visible", "hidden", "gone"}]
               /\ \A m \in Messages : place[m] = "unsent" <=> body[m] = NoItem
               /\ receives \in [Messages -> 0..MaxReceive]
               /\ dlq \subseteq [ev : Events, reason : Reasons]

WorkerTypeOK == /\ batch \in [Workers -> SUBSET Messages]
                /\ todo \in [Workers -> SUBSET Messages]
                /\ failures \in [Workers -> SUBSET Messages]
                /\ asking \in [Workers -> Messages \cup {NoMessage}]
                /\ \A w \in Workers : /\ todo[w] \subseteq batch[w]
                                      /\ failures[w] \subseteq batch[w] \ todo[w]
                                      /\ asking[w] \in todo[w] \cup {NoMessage}
                                      /\ \A m \in batch[w] : body[m] # NoItem
                                      /\ asking[w] # NoMessage =>
                                            body[asking[w]].kind # "unmappable"

TypeOK == ErpTypeOK /\ QueueTypeOK /\ WorkerTypeOK

\* An event is settled when an operator can find it in the dead-letter queue or
\* the ERP has that version of its deal, or a newer one.
Parked(e) == \E x \in dlq : x.ev = e
Settled(e) == \/ Parked(e)
              \/ e.kind # "unmappable" /\ StoredVersion(e.deal) >= e.version

Acknowledged(w) == batch[w] \ (todo[w] \cup failures[w])

\* A message leaves the queue, or is about to be acknowledged, only when its
\* event is settled: whatever crashes, is delivered twice or out of order or
\* loses a reply, no event is lost.  (app.py:1-15 and 118-149; deals that are
\* deleted from the ERP by hand are exempt.)
NoEventLost ==
    \A m \in Messages :
       body[m] # NoItem /\ body[m].deal \notin Erasable
          /\ (place[m] = "gone" \/ \E w \in Workers : m \in Acknowledged(w))
       => Settled(body[m])

Offered == {body[m] : m \in {n \in Messages : body[n] # NoItem}}

\* The versions, up to v, of a valid deal among the events S.
VersionsUpTo(S, d, v) ==
    {e.version : e \in {f \in S : f.deal = d /\ f.kind = "good" /\ f.version <= v}}

\* Exactly-once effect: however often its messages are delivered, a deal's
\* order has been written at most once per version that was offered, up to the
\* version it is at (writer.py:3-17, its revision counts the writes).
EffectivelyOnce ==
    \A d \in Deals :
       orders[d] # NoItem =>
          orders[d].revision <= Cardinality(VersionsUpTo(Offered, d, orders[d].ev.version))

\* The three tables agree (writer.py:14-17): the invoice was written from the
\* very event the order was, the order's account is a customer, and a customer
\* last written for a deal that is still its own shows that deal's order.
InvoiceMirrorsOrder ==
    \A d \in Deals \ Erasable :
       /\ orders[d] = NoItem <=> invoices[d] = NoItem
       /\ orders[d] # NoItem => /\ invoices[d] = orders[d].ev
                                /\ customers[orders[d].ev.account] # NoItem

CustomerShowsItsOrder ==
    \A a \in Accounts :
       customers[a] # NoItem /\ customers[a].deal \notin Erasable =>
          /\ orders[customers[a].deal] # NoItem
          /\ StoredVersion(customers[a].deal) >= customers[a].version
          /\ orders[customers[a].deal].ev.account = a =>
                orders[customers[a].deal].ev = customers[a]

ErpConsistent == InvoiceMirrorsOrder /\ CustomerShowsItsOrder

\* A valid event is in the dead-letter queue only after one of its messages
\* has used up every receive: the worker never gives up on it (classify.py:14-20).
GoodOnlyAfterBudget ==
    \A x \in dlq :
       x.ev.kind = "good" =>
          /\ x.reason = "none"
          /\ \E m \in Messages : /\ body[m] = x.ev
                                 /\ place[m] = "gone"
                                 /\ receives[m] = MaxReceive

\* Acknowledging a record without writing it is decided on an ERP that holds
\* its version or a newer one at that moment, even when the reply carried no
\* item and the order is written, or deleted by hand, before it is read back
\* (writer.py:169-178).
AckReadsTheTruth ==
    [][\A w \in Workers : \A m \in Messages :
          m \in Acknowledged(w)' \ Acknowledged(w) => Settled(body[m])']_vars

\* Every message that is sent leaves the queue in the end, acknowledged or in
\* the dead-letter queue, even if the worker always crashes (template.yaml:59-68).
QueueDrains == \A m \in Messages : (body[m] # NoItem) ~> (place[m] = "gone")

\* README.md:12: "Invalid deals go to a dead-letter queue with a reason"; and
\* relayctl/ops/dlq.go:30-32 takes no reason for "transient failures that ran out
\* of retries".
InvalidHasReason == \A x \in dlq : x.ev.kind # "good" => x.reason # "none"

\* The queue, the worker and the ERP implement the order book.
VersionOf(e) == e.version
IsGood(e) == e.kind = "good"

Book == INSTANCE OrderBook WITH
           Version <- VersionOf,
           Valid <- IsGood,
           offered <- Offered,
           book <- [d \in Deals |-> IF orders[d] = NoItem THEN NoItem ELSE orders[d].ev]

ImplementsOrderBook == Book!Spec
=============================================================================
