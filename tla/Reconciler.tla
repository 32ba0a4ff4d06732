----------------------------- MODULE Reconciler -----------------------------
(***************************************************************************)
(* The nightly reconciler (src/reconciler) between an org that people keep *)
(* editing and an ERP that the queue keeps writing.  A run reads the won   *)
(* deals, then the orders, then the stage of the orders with no won deal:  *)
(* three reads at different times, compared as if they were one.           *)
(* The poller here may miss anything: it promises nothing but its lag.     *)
(***************************************************************************)
EXTENDS Integers, FiniteSets

CONSTANTS Deals,      \* Opportunity ids
          Smoke,      \* those with SMOKE_PREFIX: in the ERP, never in the org
          Grace,      \* RECONCILE_GRACE_MINUTES
          Lag,        \* INGEST_LAG_SECONDS
          Timeout,    \* the Lambda timeout of a run
          ChunkSize,  \* entries in one SendMessageBatch
          NoRow,      \* no row: the deal is not in the org, or not in a result
          MaxTime,    \* bound: the last second of the clock
          MaxEdits,   \* bound: the number of edits and deletions
          MaxFaults   \* bound: the number of failures

ASSUME ReconcilerAssumption == /\ IsFiniteSet(Deals)
                               /\ Smoke \subseteq Deals
                               /\ Grace \in Nat
                               /\ Lag \in Nat
                               /\ Timeout \in Nat
                               /\ ChunkSize \in Nat \ {0}
                               /\ MaxTime \in Nat
                               /\ MaxEdits \in Nat
                               /\ MaxFaults \in Nat

\* A version of a deal, and the event made of it; "valid" is to_order's verdict.
Rows == [deal : Deals, stamp : Nat, won : BOOLEAN, valid : BOOLEAN]

ASSUME NoRowIsNotARow == NoRow \notin Rows

NoOrder == -1

VARIABLES now,      \* the clock
          org,      \* org[d]: the deal as it stands
          edits,    \* the number of edits so far
          queue,    \* the events in the queue
          orders,   \* orders[d]: the version of the order
          replica,  \* replica[d]: the version that the slowest copy has
          pc,       \* where the run is in handler
          started,  \* its now
          rows,     \* the won deals it has read
          toScan,   \* the orders it has not read yet
          scanned,  \* the versions it has read
          found,    \* the rows of the stage lookup
          unsent,   \* what is left of to_enqueue
          faults,   \* the number of failures so far
          behind,   \* history: where the ERP was behind the rows when they were read
          late,     \* history: whether the pipeline has ever been late
          steady,   \* history: the deals that were won all through the run
          alive     \* history: those that existed all through the run

orgVars == <<org, edits>>
erpVars == <<orders, replica>>
runVars == <<pc, started, rows, toScan, scanned, found, unsent, behind>>
historyVars == <<late, steady, alive>>
vars == <<now, orgVars, queue, erpVars, runVars, faults, historyVars>>

NoRows == [d \in Deals |-> NoRow]
NoOrders == [d \in Deals |-> NoOrder]

Init == /\ now = 0
        /\ org = NoRows /\ edits = 0
        /\ queue = {}
        /\ orders = NoOrders /\ replica = NoOrders
        /\ pc = "idle"
        /\ started = 0
        /\ rows = NoRows /\ toScan = {} /\ scanned = NoOrders /\ found = NoRows
        /\ unsent = {}
        /\ faults = 0
        /\ behind = {} /\ late = FALSE /\ steady = {} /\ alive = {}

Fault == /\ faults < MaxFaults
         /\ faults' = faults + 1

IsWon(row) == row # NoRow /\ row.won
-----------------------------------------------------------------------------
\* The world around a run.

\* By t the pipeline has brought into the ERP, and into every copy of it, each
\* valid won deal that is out of the grace.
OnTimeAt(t) == \A d \in Deals : IsWon(org[d]) /\ org[d].valid /\ org[d].stamp + Grace <= t
                                   => replica[d] >= org[d].stamp

Tick == /\ now < MaxTime
        /\ pc # "idle" => now + 1 <= started + Timeout
        /\ now' = now + 1
        /\ late' = (late \/ ~OnTimeAt(now + 1))
        /\ UNCHANGED <<orgVars, queue, erpVars, runVars, faults, steady, alive>>

\* People edit, win, revert, delete and restore deals.  (The bound leaves every
\* edit the time to come out of the grace.)
Edit(d, row) == /\ d \notin Smoke
                /\ edits < MaxEdits
                /\ now + Grace <= MaxTime
                /\ org[d] # NoRow \/ row # NoRow
                /\ org' = [org EXCEPT ![d] = row]
                /\ edits' = edits + 1
                /\ steady' = IF IsWon(row) THEN steady ELSE steady \ {d}
                /\ alive' = IF row = NoRow THEN alive \ {d} ELSE alive
                /\ UNCHANGED <<now, queue, erpVars, runVars, faults, late>>

Versions(d) == {[deal |-> d, stamp |-> now, won |-> w, valid |-> v] : w, v \in BOOLEAN}

\* Mutant: the poller does not stay behind.
Publish_NoLag(d) ==
    /\ IsWon(org[d])
    /\ queue' = queue \cup {org[d]}
    /\ UNCHANGED <<now, orgVars, erpVars, runVars, faults, historyVars>>

\* The poller publishes a won deal, not before the lag; it may never do so.
Publish(d) == /\ IsWon(org[d])
              /\ org[d].stamp < now - Lag
              /\ queue' = queue \cup {org[d]}
              /\ UNCHANGED <<now, orgVars, erpVars, runVars, faults, historyVars>>

\* The smoke test sends an event of its own, each time of a new deal.
SmokeSend(d) ==
    /\ d \in Smoke
    /\ orders[d] = NoOrder /\ \A e \in queue : e.deal # d
    /\ queue' = queue \cup {[deal |-> d, stamp |-> now, won |-> TRUE, valid |-> TRUE]}
    /\ UNCHANGED <<now, orgVars, erpVars, runVars, faults, historyVars>>

\* The worker writes a valid event if it is newer; the queue may deliver it again.
Deliver(e) == /\ e \in queue
              /\ e.valid
              /\ orders' = [orders EXCEPT ![e.deal] = IF @ < e.stamp THEN e.stamp ELSE @]
              /\ queue' \in {queue, queue \ {e}}
              /\ UNCHANGED <<now, orgVars, replica, runVars, faults, historyVars>>

\* The worker dead-letters an invalid event; a valid one may use up its receives.
DeadLetter(e) == /\ e \in queue
                 /\ queue' = queue \ {e}
                 /\ IF e.valid THEN Fault ELSE UNCHANGED faults
                 /\ UNCHANGED <<now, orgVars, erpVars, runVars, historyVars>>

\* DynamoDB brings its slowest copy of the item up to date.
Replicate(d) == /\ replica' = [replica EXCEPT ![d] = orders[d]]
                /\ UNCHANGED <<now, orgVars, queue, orders, runVars, faults, historyVars>>
-----------------------------------------------------------------------------
\* A run of handler: one call, or one page, per step.

EndRun == /\ pc' = "idle"
          /\ rows' = NoRows /\ scanned' = NoOrders /\ found' = NoRows
          /\ toScan' = {} /\ unsent' = {}
          /\ behind' = {}
          /\ UNCHANGED started

Start == /\ pc = "idle"
         /\ pc' = "query"
         /\ started' = now
         /\ steady' = {d \in Deals : IsWon(org[d])}
         /\ alive' = {d \in Deals : org[d] # NoRow}
         /\ UNCHANGED <<now, orgVars, queue, erpVars, rows, toScan, scanned, found,
                        unsent, faults, behind, late>>

QueryWon == /\ pc = "query"
            /\ pc' = "scan"
            /\ rows' = [d \in Deals |-> IF IsWon(org[d]) THEN org[d] ELSE NoRow]
            /\ toScan' = Deals
            /\ behind' = {d \in Deals : IsWon(org[d]) /\ replica[d] < org[d].stamp}
            /\ UNCHANGED <<now, orgVars, queue, erpVars, started, scanned, found,
                           unsent, faults, historyVars>>

\* Scan is eventually consistent and reads page by page: any item at any time.
ScanOrder(d) == /\ pc = "scan"
                /\ d \in toScan
                /\ \E version \in {orders[d], replica[d]} :
                      scanned' = [scanned EXCEPT ![d] = version]
                /\ toScan' = toScan \ {d}
                /\ UNCHANGED <<now, orgVars, queue, erpVars, pc, started, rows, found,
                               unsent, faults, behind, historyVars>>

\* Mutant: no grace.
Considered_NoGrace == {d \in Deals : rows[d] # NoRow}

\* The deals that compare looks at: those that were not modified within the grace.
Considered == {d \in Deals : rows[d] # NoRow /\ rows[d].stamp <= started - Grace}

MissingOrder == {d \in Considered : scanned[d] = NoOrder /\ rows[d].valid}

\* Mutants: the branch is missing; an order at the same version counts as stale.
StaleOrder_Never == {}
StaleOrder_SameVersion ==
    {d \in Considered : scanned[d] # NoOrder /\ scanned[d] <= rows[d].stamp}

StaleOrder == {d \in Considered : scanned[d] # NoOrder /\ scanned[d] < rows[d].stamp}

\* Mutant: an order at the same version counts as ahead.
ErpAhead_SameVersion == {d \in Considered : scanned[d] >= rows[d].stamp}

ErpAhead == {d \in Considered : scanned[d] > rows[d].stamp}

\* Mutant: won_ids only holds the deals that compare looks at.
Orphans_OfConsidered == {d \in Deals \ Smoke : scanned[d] # NoOrder /\ d \notin Considered}

Orphans == {d \in Deals \ Smoke : scanned[d] # NoOrder /\ rows[d] = NoRow}

NotFound == {d \in Orphans : found[d] = NoRow}
NotWon == {d \in Orphans : found[d] # NoRow}

\* Mutant: the orphans are re-enqueued as well.
ToEnqueue_WithOrphans == {rows[d] : d \in MissingOrder \cup StaleOrder \cup Orphans}

ToEnqueue == {rows[d] : d \in MissingOrder \cup StaleOrder}

\* The end of compare: look the orphans up, if there are any.
LookupStages == /\ pc = "scan"
                /\ toScan = {}
                /\ pc' = "send"
                /\ found' = [d \in Deals |-> IF d \in Orphans THEN org[d] ELSE NoRow]
                /\ unsent' = ToEnqueue
                /\ UNCHANGED <<now, orgVars, queue, erpVars, started, rows, toScan,
                               scanned, faults, behind, historyVars>>

\* The next entries of send_message_batch (their order does not matter here).
IsChunk(chunk) == /\ chunk # {}
                  /\ Cardinality(chunk) <= ChunkSize
                  /\ Cardinality(chunk) = ChunkSize \/ chunk = unsent

SendChunk == /\ pc = "send"
             /\ \E chunk \in SUBSET unsent : /\ IsChunk(chunk)
                                             /\ queue' = queue \cup chunk
                                             /\ unsent' = unsent \ chunk
             /\ UNCHANGED <<now, orgVars, erpVars, pc, started, rows, toScan, scanned,
                            found, faults, behind, historyVars>>

\* Entries fail: they are not counted, and not sent again in this run.
SendPartly == /\ pc = "send"
              /\ \E chunk \in SUBSET unsent : /\ IsChunk(chunk)
                                              /\ \E ok \in SUBSET chunk \ {chunk} :
                                                    queue' = queue \cup ok
                                              /\ unsent' = unsent \ chunk
              /\ Fault
              /\ UNCHANGED <<now, orgVars, erpVars, pc, started, rows, toScan, scanned,
                             found, behind, historyVars>>

\* The request fails, after its effect or before, and the run with it.
SendError == /\ pc = "send"
             /\ \E chunk \in SUBSET unsent : /\ IsChunk(chunk)
                                             /\ queue' \in {queue, queue \cup chunk}
             /\ EndRun
             /\ Fault
             /\ UNCHANGED <<now, orgVars, erpVars, historyVars>>

\* The summary is returned: everything was sent, or this is a dry run.
Finish == /\ pc = "send"
          /\ unsent = {} \/ unsent = ToEnqueue
          /\ EndRun
          /\ UNCHANGED <<now, orgVars, queue, erpVars, faults, historyVars>>

\* A read fails or the Lambda times out.
RunFails == /\ pc # "idle"
            /\ EndRun
            /\ Fault
            /\ UNCHANGED <<now, orgVars, queue, erpVars, historyVars>>

Proceed == \/ QueryWon
           \/ \E d \in Deals : ScanOrder(d)
           \/ LookupStages
           \/ SendChunk
           \/ Finish

Next == \/ Tick
        \/ \E d \in Deals : \/ \E row \in Versions(d) \cup {NoRow} : Edit(d, row)
                            \/ Publish(d)
                            \/ SmokeSend(d)
                            \/ Replicate(d)
        \/ \E e \in queue : Deliver(e) \/ DeadLetter(e)
        \/ Start
        \/ Proceed
        \/ SendPartly
        \/ SendError
        \/ RunFails

Spec == Init /\ [][Next]_vars

\* The clock runs, the queue delivers, DynamoDB replicates, the scheduler starts
\* runs, and not only dry ones.  Nothing is assumed of the poller.
Fairness == /\ WF_vars(Tick)
            /\ \A d \in Deals, t \in 0..MaxTime :
                  WF_vars(\E e \in queue : e.deal = d /\ e.stamp = t /\ Deliver(e))
            /\ \A d \in Deals : WF_vars(Replicate(d))
            /\ WF_vars(Start)
            /\ WF_vars(Proceed)
            /\ SF_vars(SendChunk)

FairSpec == Spec /\ Fairness
-----------------------------------------------------------------------------
TypeOK == /\ now \in 0..MaxTime
          /\ org \in [Deals -> Rows \cup {NoRow}]
          /\ edits \in 0..MaxEdits
          /\ queue \subseteq Rows
          /\ orders \in [Deals -> Nat \cup {NoOrder}]
          /\ replica \in [Deals -> Nat \cup {NoOrder}]
          /\ pc \in {"idle", "query", "scan", "send"}
          /\ started \in 0..now
          /\ rows \in [Deals -> Rows \cup {NoRow}]
          /\ toScan \subseteq Deals
          /\ scanned \in [Deals -> Nat \cup {NoOrder}]
          /\ found \in [Deals -> Rows \cup {NoRow}]
          /\ unsent \subseteq Rows
          /\ faults \in 0..MaxFaults
          /\ behind \subseteq Deals
          /\ late \in BOOLEAN /\ steady \subseteq Deals /\ alive \subseteq Deals

\* The report is made.
Reported == pc = "send"

\* What a run re-enqueues was drift when Salesforce was read (reconcile.py:3-16):
\* whatever is published and written while the run goes on, some copy of the ERP
\* was behind that row then.  The order of the two reads is what makes it so.
DriftWasReal == Reported => MissingOrder \cup StaleOrder \subseteq behind

\* "Reverts and deletes are reported" (reconcile.py:13-19) and nothing else is: a
\* deal that was won all through the run is in neither report, not even when it
\* was modified within the grace, one that existed all through it was not
\* "deleted", and the smoke test's orders are in neither.
OrphansAreReal == Reported => /\ NotWon \cap steady = {}
                              /\ NotFound \cap alive = {}
                              /\ (NotWon \cup NotFound) \cap Smoke = {}

\* An order that is ahead of the row means that the deal has moved on since it
\* was read, and never that the ERP has a version Salesforce has not.
AheadMeansMovedOn == Reported => \A d \in ErpAhead : org[d] # rows[d]

\* As long as the pipeline is on time the run finds nothing to re-enqueue but
\* deals that became invalid: "deals modified within the last grace ... aren't
\* drift" (reconcile.py:21-22), however many edits race the run.
OnTimeMeansNoDrift ==
    Reported /\ Grace > 0 /\ ~late => \A row \in ToEnqueue : ~row.valid

\* "A nightly reconciler catches anything the pipeline missed" (README.md:12-13):
\* with a poller that may miss every deal, a queue that dead-letters good events
\* and runs that fail, the ERP still gets the last version of every valid won deal.
DriftIsRepaired == \A d \in Deals \ Smoke :
    <>[](IsWon(org[d]) /\ org[d].valid => orders[d] = org[d].stamp)

\* A run that is no older than the poller's lag is not overtaken: no order is
\* ahead of the row it has.  (erp_ahead "shouldn't happen", reconcile.py:11; the
\* timeout, template.yaml:258, lets a run be older than the lag, :165.)
YoungRunsAreNotOvertaken == Reported /\ now <= started + Lag => ErpAhead = {}

\* "Deal exists but isn't won -> not_won" (reconcile.py:15).
NotWonIsNotWon == Reported => \A d \in NotWon : ~found[d].won

\* "Validates before re-enqueueing" (docs/PLAN.md:212).
SendsOnlyValid == Reported => \A row \in ToEnqueue : row.valid
=============================================================================
