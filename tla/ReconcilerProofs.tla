-------------------------- MODULE ReconcilerProofs --------------------------
(***************************************************************************)
(* Proofs about Reconciler, for any deals, grace, lag, timeout and bounds. *)
(***************************************************************************)
EXTENDS Reconciler, TLAPS

\* The world: nothing in the queue or in the ERP is newer than the deal it was
\* made of, when there is one, nor than the clock; a copy is never ahead.
OrgInv == \A d \in Deals : org[d] # NoRow => /\ org[d].deal = d
                                             /\ org[d].stamp <= now
                                             /\ d \notin Smoke
QueueInv == \A e \in queue : /\ e.stamp <= now
                             /\ org[e.deal] # NoRow => e.stamp <= org[e.deal].stamp
ErpInv == \A d \in Deals : /\ replica[d] <= orders[d]
                           /\ orders[d] <= now
                           /\ org[d] # NoRow => orders[d] <= org[d].stamp

\* A run is younger than its timeout; its history is that of the org.
ClockInv == pc # "idle" => now <= started + Timeout
HistoryInv == /\ \A d \in steady : IsWon(org[d])
              /\ \A d \in alive : org[d] # NoRow

\* What a run has read is its own, and not newer than what there is.
RowsInv == \A d \in Deals :
              /\ scanned[d] <= now
              /\ rows[d] # NoRow => /\ rows[d].deal = d
                                    /\ rows[d].stamp <= now
                                    /\ d \notin Smoke
                                    /\ org[d] # NoRow => rows[d].stamp <= org[d].stamp
UnsentInv == \A e \in unsent : e = rows[e.deal]

\* A deal that was not behind when it was read does not look so when the scan
\* comes to it; one that has not changed since cannot look ahead.
NotBehind(d) == rows[d] # NoRow /\ d \notin behind =>
                   /\ replica[d] >= rows[d].stamp
                   /\ d \notin toScan => scanned[d] >= rows[d].stamp
NotAhead(d) == rows[d] # NoRow /\ org[d] = rows[d] => scanned[d] <= rows[d].stamp

\* While the lag is not over, what was edited during the run is not published.
NotOvertaken(d) ==
    rows[d] # NoRow => /\ orders[d] <= rows[d].stamp
                       /\ scanned[d] <= rows[d].stamp
                       /\ \A e \in queue : e.deal = d => e.stamp <= rows[d].stamp
                       /\ org[d] # NoRow => org[d] = rows[d] \/ org[d].stamp >= started

ReadInv == pc \in {"scan", "send"} =>
              \A d \in Deals : /\ d \in steady => rows[d] # NoRow
                               /\ NotBehind(d)
                               /\ NotAhead(d)
                               /\ now <= started + Lag => NotOvertaken(d)

IdleInv == pc \in {"idle", "query"} => /\ rows = NoRows
                                       /\ scanned = NoOrders
                                       /\ toScan = {}
                                       /\ unsent = {}
FoundInv == pc = "send" => /\ toScan = {}
                           /\ \A d \in alive \cap Orphans : found[d] # NoRow

Inv == /\ TypeOK
       /\ OrgInv /\ QueueInv /\ ErpInv
       /\ ClockInv /\ HistoryInv
       /\ RowsInv /\ UnsentInv
       /\ IdleInv /\ ReadInv /\ FoundInv
-----------------------------------------------------------------------------
LEMMA InitInv == Init => Inv
<1> SUFFICES ASSUME Init
             PROVE  Inv
  OBVIOUS
<1>1. late \in BOOLEAN
  BY DEF Init
<1>2. TypeOK
  BY <1>1, ReconcilerAssumption DEF Init, TypeOK, NoRows, NoOrders
<1>3. OrgInv /\ QueueInv /\ ErpInv
  BY DEF Init, OrgInv, QueueInv, ErpInv, NoRows, NoOrders, NoOrder
<1>4. ClockInv /\ HistoryInv /\ RowsInv /\ UnsentInv /\ IdleInv /\ ReadInv /\ FoundInv
  BY DEF Init, ClockInv, HistoryInv, RowsInv, UnsentInv, IdleInv, ReadInv, FoundInv,
         NoRows, NoOrders, NoOrder
<1>. QED
  BY <1>2, <1>3, <1>4 DEF Inv

LEMMA VersionFields ==
  ASSUME NEW d, NEW row \in Versions(d)
  PROVE  row.deal = d /\ row.stamp = now
BY DEF Versions

LEMMA FaultType ==
  ASSUME TypeOK, Fault
  PROVE  faults' \in 0..MaxFaults
BY ReconcilerAssumption DEF TypeOK, Fault

LEMMA EndRunType ==
  ASSUME TypeOK, now' = now, EndRun
  PROVE  /\ pc' = "idle"
         /\ started' \in 0..now'
         /\ rows' \in [Deals -> Rows \cup {NoRow}]
         /\ toScan' \subseteq Deals
         /\ scanned' \in [Deals -> Nat \cup {NoOrder}]
         /\ found' \in [Deals -> Rows \cup {NoRow}]
         /\ unsent' \subseteq Rows
         /\ behind' \subseteq Deals
BY DEF TypeOK, EndRun, NoRows, NoOrders

\* What is re-enqueued are rows that were read.
LEMMA ToEnqueueAreRows ==
  ASSUME TypeOK, RowsInv
  PROVE  /\ ToEnqueue \subseteq Rows
         /\ \A e \in ToEnqueue : e.deal \in Deals /\ e = rows[e.deal]
BY NoRowIsNotARow DEF TypeOK, RowsInv, ToEnqueue, MissingOrder, StaleOrder, Considered

LEMMA TypeStep == Inv /\ [Next]_vars => TypeOK'
<1> SUFFICES ASSUME Inv, [Next]_vars
             PROVE  TypeOK'
  OBVIOUS
<1> USE DEF orgVars, erpVars, runVars, historyVars
<1>0. TypeOK
  BY DEF Inv
<1>1. CASE Tick
  BY <1>0, <1>1, ReconcilerAssumption DEF TypeOK, Tick
<1>2. ASSUME NEW d \in Deals, NEW row \in Versions(d) \cup {NoRow}, Edit(d, row)
      PROVE  TypeOK'
  <2>1. row \in Rows \cup {NoRow}
    BY <1>0, <1>2 DEF Versions, Rows, TypeOK
  <2>2. org' \in [Deals -> Rows \cup {NoRow}]
    BY <1>0, <1>2, <2>1 DEF TypeOK, Edit
  <2>3. steady' \subseteq Deals /\ alive' \subseteq Deals
    BY <1>0, <1>2 DEF TypeOK, Edit
  <2>4. edits' \in 0..MaxEdits
    BY <1>0, <1>2, ReconcilerAssumption DEF TypeOK, Edit
  <2>. QED
    BY <1>0, <1>2, <2>2, <2>3, <2>4 DEF TypeOK, Edit
<1>3. ASSUME NEW d \in Deals, Publish(d)
      PROVE  TypeOK'
  BY <1>0, <1>3 DEF TypeOK, Publish, IsWon
<1>4. ASSUME NEW d \in Deals, SmokeSend(d)
      PROVE  TypeOK'
  <2>1. [deal |-> d, stamp |-> now, won |-> TRUE, valid |-> TRUE] \in Rows
    BY <1>0 DEF TypeOK, Rows
  <2>. QED
    BY <1>0, <1>4, <2>1 DEF TypeOK, SmokeSend
<1>5. ASSUME NEW d \in Deals, Replicate(d)
      PROVE  TypeOK'
  BY <1>0, <1>5 DEF TypeOK, Replicate
<1>6. ASSUME NEW e \in queue, Deliver(e)
      PROVE  TypeOK'
  <2>1. e.deal \in Deals /\ e.stamp \in Nat
    BY <1>0 DEF TypeOK, Rows
  <2>. QED
    BY <1>0, <1>6, <2>1 DEF TypeOK, Deliver
<1>7. ASSUME NEW e \in queue, DeadLetter(e)
      PROVE  TypeOK'
  <2>1. faults' \in 0..MaxFaults
    BY <1>0, <1>7, FaultType DEF DeadLetter, TypeOK
  <2>. QED
    BY <1>0, <1>7, <2>1 DEF TypeOK, DeadLetter
<1>8. CASE Start
  BY <1>0, <1>8 DEF TypeOK, Start
<1>9. CASE QueryWon
  BY <1>0, <1>9 DEF TypeOK, QueryWon
<1>10. ASSUME NEW d \in Deals, ScanOrder(d)
       PROVE  TypeOK'
  BY <1>0, <1>10 DEF TypeOK, ScanOrder
<1>11. CASE LookupStages
  <2>1. unsent' \subseteq Rows
    BY <1>11, ToEnqueueAreRows DEF LookupStages, Inv
  <2>. QED
    BY <1>0, <1>11, <2>1 DEF TypeOK, LookupStages
<1>12. CASE SendChunk
  BY <1>0, <1>12 DEF TypeOK, SendChunk
<1>13. CASE SendPartly
  BY <1>0, <1>13, FaultType DEF TypeOK, SendPartly
<1>14. CASE SendError
  BY <1>0, <1>14, FaultType, EndRunType DEF TypeOK, SendError
<1>15. CASE Finish
  BY <1>0, <1>15, EndRunType DEF TypeOK, Finish
<1>16. CASE RunFails
  BY <1>0, <1>16, FaultType, EndRunType DEF TypeOK, RunFails
<1>17. CASE UNCHANGED vars
  BY <1>0, <1>17 DEF TypeOK, vars
<1>. QED
  BY <1>1, <1>2, <1>3, <1>4, <1>5, <1>6, <1>7, <1>8, <1>9, <1>10, <1>11, <1>12, <1>13,
     <1>14, <1>15, <1>16, <1>17 DEF Next, Proceed
-----------------------------------------------------------------------------
\* The only steps that change the clock and the org.
LEMMA OrgStep ==
  ASSUME Inv, [Next]_vars
  PROVE  /\ now \in Nat /\ now' \in Nat /\ now <= now'
         /\ pc # "idle" /\ now' # now => now' <= started + Timeout
         /\ now' # now => org' = org
         /\ \A d \in Deals : \/ org'[d] = org[d]
                             \/ org'[d] = NoRow
                             \/ org'[d] \in Versions(d) /\ d \notin Smoke /\ now' = now
<1>1. TypeOK
  BY DEF Inv
<1>2. CASE Tick
  BY <1>1, <1>2 DEF TypeOK, Tick, orgVars
<1>3. ASSUME NEW d \in Deals, NEW row \in Versions(d) \cup {NoRow}, Edit(d, row)
      PROVE  /\ now' = now
             /\ d \notin Smoke
             /\ \A c \in Deals : org'[c] = IF c = d THEN row ELSE org[c]
  BY <1>1, <1>3 DEF TypeOK, Edit
<1>4. CASE UNCHANGED <<now, org>>
  BY <1>1, <1>4 DEF TypeOK
<1>5. \/ Tick
      \/ \E d \in Deals : \E row \in Versions(d) \cup {NoRow} : Edit(d, row)
      \/ UNCHANGED <<now, org>>
  BY DEF Next, Proceed, Publish, SmokeSend, Replicate, Deliver, DeadLetter, Start, QueryWon,
         ScanOrder, LookupStages, SendChunk, SendPartly, SendError, Finish, RunFails,
         vars, orgVars, historyVars
<1>6. CASE \E d \in Deals : \E row \in Versions(d) \cup {NoRow} : Edit(d, row)
  BY <1>1, <1>3, <1>6 DEF TypeOK
<1>. QED
  BY <1>2, <1>4, <1>5, <1>6

\* What enters the queue: what the poller reads, the smoke test's events and what
\* the run re-enqueues.
LEMMA QueueStep ==
  ASSUME Inv, [Next]_vars, NEW e \in queue'
  PROVE  \/ e \in queue
         \/ /\ UNCHANGED <<now, org>>
            /\ \/ \E d \in Deals : e = org[d] /\ IsWon(org[d]) /\ org[d].stamp < now - Lag
               \/ e.deal \in Smoke /\ e.stamp = now
               \/ e \in unsent
<1>1. CASE \E d \in Deals : Publish(d)
  BY <1>1 DEF Publish, orgVars
<1>2. CASE \E d \in Deals : SmokeSend(d)
  BY <1>2 DEF SmokeSend, orgVars
<1>3. CASE SendChunk \/ SendPartly \/ SendError
  BY <1>3 DEF SendChunk, SendPartly, SendError, orgVars
<1>4. CASE queue' \subseteq queue
  BY <1>4
<1>5. \/ \E d \in Deals : Publish(d) \/ SmokeSend(d)
      \/ SendChunk \/ SendPartly \/ SendError
      \/ queue' \subseteq queue
  BY DEF Next, Proceed, Tick, Edit, Replicate, Deliver, DeadLetter, Start, QueryWon,
         ScanOrder, LookupStages, Finish, RunFails, vars, historyVars
<1>. QED
  BY <1>1, <1>2, <1>3, <1>4, <1>5

\* The worker writes what is in the queue, and only what is newer.
LEMMA ErpStep ==
  ASSUME Inv, [Next]_vars, NEW d \in Deals
  PROVE  /\ \/ orders'[d] = orders[d]
            \/ /\ UNCHANGED <<now, org, runVars>>
               /\ \E e \in queue : /\ e.deal = d
                                   /\ orders[d] < e.stamp
                                   /\ orders'[d] = e.stamp
         /\ \/ replica'[d] = replica[d]
            \/ replica'[d] = orders[d] /\ orders' = orders
<1>1. TypeOK
  BY DEF Inv
<1>2. ASSUME NEW e \in queue, Deliver(e)
      PROVE  /\ UNCHANGED <<now, org, runVars, replica>>
             /\ orders'[d] # orders[d] => /\ e.deal = d
                                          /\ orders[d] < e.stamp
                                          /\ orders'[d] = e.stamp
  BY <1>1, <1>2 DEF TypeOK, Deliver, orgVars
<1>3. ASSUME NEW c \in Deals, Replicate(c)
      PROVE  /\ orders' = orders
             /\ replica'[d] = replica[d] \/ replica'[d] = orders[d]
  BY <1>1, <1>3 DEF TypeOK, Replicate
<1>4. \/ \E e \in queue : Deliver(e)
      \/ \E c \in Deals : Replicate(c)
      \/ UNCHANGED erpVars
  BY DEF Next, Proceed, Tick, Edit, Publish, SmokeSend, DeadLetter, Start, QueryWon,
         ScanOrder, LookupStages, SendChunk, SendPartly, SendError, Finish, RunFails,
         vars, erpVars
<1>5. CASE \E e \in queue : Deliver(e)
  BY <1>2, <1>5
<1>6. CASE \E c \in Deals : Replicate(c)
  BY <1>3, <1>6
<1>. QED
  BY <1>4, <1>5, <1>6 DEF erpVars

\* A run either stays where it is, or takes one of its steps.
LEMMA RunStep ==
  ASSUME [Next]_vars
  PROVE  \/ UNCHANGED runVars
         \/ Start \/ QueryWon \/ LookupStages
         \/ \E d \in Deals : ScanOrder(d)
         \/ SendChunk \/ SendPartly
         \/ EndRun /\ UNCHANGED <<now, org, steady, alive>>
BY DEF Next, Proceed, Tick, Edit, Publish, SmokeSend, Replicate, Deliver, DeadLetter,
       SendError, Finish, RunFails, vars, orgVars, historyVars
-----------------------------------------------------------------------------
LEMMA OrgInvStep == Inv /\ [Next]_vars => OrgInv'
<1> SUFFICES ASSUME Inv, [Next]_vars, NEW d \in Deals, org'[d] # NoRow
             PROVE  org'[d].deal = d /\ org'[d].stamp <= now' /\ d \notin Smoke
  BY DEF OrgInv
<1>1. CASE org'[d] = org[d]
  BY <1>1, OrgStep DEF Inv, TypeOK, OrgInv, Rows
<1>2. CASE org'[d] \in Versions(d) /\ d \notin Smoke /\ now' = now
  BY <1>2, OrgStep DEF Versions
<1>. QED
  BY <1>1, <1>2, OrgStep

LEMMA QueueInvStep == Inv /\ [Next]_vars => QueueInv'
<1> SUFFICES ASSUME Inv, [Next]_vars, NEW e \in queue'
             PROVE  /\ e.stamp <= now'
                    /\ org'[e.deal] # NoRow => e.stamp <= org'[e.deal].stamp
  BY DEF QueueInv
<1>1. TypeOK /\ TypeOK'
  BY TypeStep DEF Inv
<1>2. e \in Rows /\ e.deal \in Deals /\ e.stamp \in Nat
  BY <1>1 DEF TypeOK, Rows
<1>3. e.stamp <= now /\ (org[e.deal] # NoRow => e.stamp <= org[e.deal].stamp)
  <2>1. CASE e \in queue
    BY <2>1 DEF Inv, QueueInv
  <2>2. CASE \E d \in Deals : e = org[d] /\ IsWon(org[d])
    BY <1>2, <2>2 DEF Inv, OrgInv, IsWon
  <2>3. CASE e.deal \in Smoke /\ e.stamp = now
    BY <1>1, <1>2, <2>3 DEF Inv, OrgInv, TypeOK
  <2>4. CASE e \in unsent
    BY <1>2, <2>4, NoRowIsNotARow DEF Inv, UnsentInv, RowsInv
  <2>. QED
    BY <2>1, <2>2, <2>3, <2>4, QueueStep
<1>4. e.stamp <= now'
  BY <1>2, <1>3, OrgStep
<1>5. CASE org'[e.deal] = org[e.deal]
  BY <1>3, <1>4, <1>5
<1>6. CASE org'[e.deal] \in Versions(e.deal) /\ now' = now
  BY <1>3, <1>4, <1>6, VersionFields
<1>7. CASE org'[e.deal] = NoRow
  BY <1>4, <1>7
<1>. QED
  BY <1>2, <1>5, <1>6, <1>7, OrgStep

LEMMA ErpInvStep == Inv /\ [Next]_vars => ErpInv'
<1> SUFFICES ASSUME Inv, [Next]_vars, NEW d \in Deals
             PROVE  /\ replica'[d] <= orders'[d]
                    /\ orders'[d] <= now'
                    /\ org'[d] # NoRow => orders'[d] <= org'[d].stamp
  BY DEF ErpInv
<1>1. /\ orders[d] \in Int /\ replica[d] \in Int /\ orders'[d] \in Int /\ replica'[d] \in Int
      /\ now \in Nat /\ now' \in Nat
  BY TypeStep DEF Inv, TypeOK, NoOrder
<1>2. replica[d] <= orders[d] /\ orders[d] <= now
      /\ (org[d] # NoRow => orders[d] <= org[d].stamp)
  BY DEF Inv, ErpInv
<1>3. /\ orders[d] <= orders'[d]
      /\ orders'[d] <= now
      /\ org[d] # NoRow => orders'[d] <= org[d].stamp
  <2>1. CASE orders'[d] = orders[d]
    BY <1>1, <1>2, <2>1
  <2>2. ASSUME NEW e \in queue, e.deal = d, orders[d] < e.stamp, orders'[d] = e.stamp
        PROVE  /\ orders[d] <= orders'[d]
               /\ orders'[d] <= now
               /\ org[d] # NoRow => orders'[d] <= org[d].stamp
    BY <1>1, <2>2 DEF Inv, QueueInv
  <2>. QED
    BY <2>1, <2>2, ErpStep
<1>4. replica'[d] <= orders'[d]
  BY <1>1, <1>2, <1>3, ErpStep
<1>5. CASE org'[d] \in Versions(d) /\ now' = now
  BY <1>3, <1>4, <1>5 DEF Versions
<1>6. CASE org'[d] = org[d] \/ org'[d] = NoRow
  BY <1>1, <1>3, <1>4, <1>6, OrgStep
<1>. QED
  BY <1>5, <1>6, OrgStep

LEMMA ClockInvStep == Inv /\ [Next]_vars => ClockInv'
<1> SUFFICES ASSUME Inv, [Next]_vars, pc' # "idle"
             PROVE  now' <= started' + Timeout
  BY DEF ClockInv
<1>1. /\ now \in Nat /\ now' \in Nat /\ Timeout \in Nat /\ started \in Nat
      /\ pc # "idle" => now <= started + Timeout
  BY TypeStep, ReconcilerAssumption DEF Inv, TypeOK, ClockInv
<1>2. CASE pc' = pc /\ started' = started
  BY <1>1, <1>2, OrgStep
<1>3. CASE Start
  BY <1>1, <1>3 DEF Start
<1>4. CASE pc # "idle" /\ started' = started
  BY <1>1, <1>4, OrgStep
<1>. QED
  BY <1>2, <1>3, <1>4, RunStep
     DEF runVars, EndRun, QueryWon, ScanOrder, LookupStages, SendChunk, SendPartly

LEMMA HistoryInvStep == Inv /\ [Next]_vars => HistoryInv'
<1> SUFFICES ASSUME Inv, [Next]_vars
             PROVE  HistoryInv'
  OBVIOUS
<1>1. HistoryInv /\ TypeOK
  BY DEF Inv
<1>2. ASSUME NEW d \in Deals, NEW row \in Versions(d) \cup {NoRow}, Edit(d, row)
      PROVE  HistoryInv'
  BY <1>1, <1>2 DEF HistoryInv, TypeOK, Edit, IsWon
<1>3. CASE Start
  BY <1>1, <1>3 DEF HistoryInv, Start, IsWon, orgVars
<1>4. CASE UNCHANGED <<org, steady, alive>>
  BY <1>1, <1>4 DEF HistoryInv, IsWon
<1>. QED
  BY <1>2, <1>3, <1>4
     DEF Next, Proceed, Tick, Publish, SmokeSend, Replicate, Deliver, DeadLetter, QueryWon,
         ScanOrder, LookupStages, SendChunk, SendPartly, SendError, Finish, RunFails,
         vars, orgVars, historyVars

\* What a step may do to the rows, the scan and what is left to send.
LEMMA RowsStep ==
  ASSUME Inv, [Next]_vars, NEW d \in Deals
  PROVE  /\ \/ rows'[d] = rows[d]
            \/ rows'[d] = NoRow
            \/ QueryWon /\ rows'[d] = org[d] /\ IsWon(org[d])
         /\ \/ scanned'[d] = scanned[d]
            \/ scanned'[d] = NoOrder
            \/ /\ UNCHANGED <<now, org, queue, orders, replica, rows, pc, started, behind>>
               /\ d \notin toScan'
               /\ scanned'[d] \in {orders[d], replica[d]}
<1>1. TypeOK
  BY DEF Inv
<1>2. ASSUME NEW c \in Deals, ScanOrder(c)
      PROVE  /\ rows' = rows
             /\ \/ scanned'[d] = scanned[d]
                \/ /\ UNCHANGED <<now, org, queue, orders, replica, rows, pc, started, behind>>
                   /\ d \notin toScan'
                   /\ scanned'[d] \in {orders[d], replica[d]}
  BY <1>1, <1>2 DEF TypeOK, ScanOrder, orgVars, erpVars
<1>3. CASE QueryWon
  BY <1>1, <1>3 DEF TypeOK, QueryWon
<1>4. CASE EndRun
  BY <1>4 DEF EndRun, NoRows, NoOrders
<1>5. CASE UNCHANGED <<rows, scanned>>
  BY <1>5
<1>. QED
  BY <1>2, <1>3, <1>4, <1>5, RunStep
     DEF runVars, Start, LookupStages, SendChunk, SendPartly

LEMMA RowsInvStep == Inv /\ [Next]_vars => RowsInv'
<1> SUFFICES ASSUME Inv, [Next]_vars, NEW d \in Deals
             PROVE  /\ scanned'[d] <= now'
                    /\ rows'[d] # NoRow => /\ rows'[d].deal = d
                                           /\ rows'[d].stamp <= now'
                                           /\ d \notin Smoke
                                           /\ org'[d] # NoRow => rows'[d].stamp <= org'[d].stamp
  BY DEF RowsInv
<1>1. TypeOK /\ TypeOK'
  BY TypeStep DEF Inv
<1>2. scanned'[d] <= now'
  <2>1. /\ scanned[d] \in Int /\ scanned'[d] \in Int /\ orders[d] \in Int /\ replica[d] \in Int
        /\ now \in Nat /\ now' \in Nat
    BY <1>1 DEF TypeOK, NoOrder
  <2>2. scanned[d] <= now /\ replica[d] <= orders[d] /\ orders[d] <= now
    BY DEF Inv, RowsInv, ErpInv
  <2>. QED
    BY <2>1, <2>2, OrgStep, RowsStep DEF NoOrder
<1>3. ASSUME rows'[d] # NoRow
      PROVE  /\ rows'[d].deal = d
             /\ rows'[d].stamp \in Nat
             /\ rows'[d].stamp <= now
             /\ d \notin Smoke
             /\ org[d] # NoRow => rows'[d].stamp <= org[d].stamp
  <2>1. rows'[d].stamp \in Nat
    BY <1>1, <1>3 DEF TypeOK, Rows
  <2>2. CASE rows'[d] = rows[d]
    BY <1>3, <2>1, <2>2 DEF Inv, RowsInv
  <2>3. CASE rows'[d] = org[d]
    BY <1>3, <2>1, <2>3 DEF Inv, OrgInv
  <2>. QED
    BY <1>3, <2>2, <2>3, RowsStep
<1>4. ASSUME rows'[d] # NoRow, org'[d] # NoRow
      PROVE  rows'[d].stamp <= org'[d].stamp
  <2>1. CASE org'[d] = org[d]
    BY <1>3, <1>4, <2>1
  <2>2. CASE org'[d] \in Versions(d)
    BY <1>3, <1>4, <2>2 DEF Versions
  <2>. QED
    BY <1>4, <2>1, <2>2, OrgStep
<1>5. ASSUME rows'[d] # NoRow
      PROVE  rows'[d].stamp <= now'
  BY <1>3, <1>5, OrgStep
<1>. QED
  BY <1>2, <1>3, <1>4, <1>5

LEMMA UnsentInvStep == Inv /\ [Next]_vars => UnsentInv'
<1> SUFFICES ASSUME Inv, [Next]_vars
             PROVE  UnsentInv'
  OBVIOUS
<1>1. UnsentInv
  BY DEF Inv
<1>2. CASE unsent' \subseteq unsent /\ rows' = rows
  BY <1>1, <1>2 DEF UnsentInv
<1>3. CASE unsent' = {}
  BY <1>3 DEF UnsentInv
<1>4. CASE LookupStages
  BY <1>4, ToEnqueueAreRows DEF Inv, UnsentInv, LookupStages
<1>5. CASE QueryWon
  BY <1>5 DEF Inv, IdleInv, UnsentInv, QueryWon
<1>. QED
  BY <1>2, <1>3, <1>4, <1>5, RunStep
     DEF runVars, Start, ScanOrder, SendChunk, SendPartly, EndRun

LEMMA IdleInvStep == Inv /\ [Next]_vars => IdleInv'
<1> SUFFICES ASSUME Inv, [Next]_vars
             PROVE  IdleInv'
  OBVIOUS
<1>1. IdleInv
  BY DEF Inv
<1>2. CASE UNCHANGED runVars
  BY <1>1, <1>2 DEF IdleInv, runVars
<1>3. CASE Start
  BY <1>1, <1>3 DEF IdleInv, Start
<1>4. CASE EndRun
  BY <1>4 DEF IdleInv, EndRun
<1>5. CASE pc' \in {"scan", "send"}
  BY <1>5 DEF IdleInv
<1>. QED
  BY <1>2, <1>3, <1>4, <1>5, RunStep
     DEF QueryWon, LookupStages, ScanOrder, SendChunk, SendPartly

LEMMA FoundInvStep == Inv /\ [Next]_vars => FoundInv'
<1> SUFFICES ASSUME Inv, [Next]_vars, pc' = "send"
             PROVE  /\ toScan' = {}
                    /\ \A d \in alive' \cap Orphans' : found'[d] # NoRow
  BY DEF FoundInv
<1>1. CASE LookupStages
  <2>1. /\ toScan' = {} /\ alive' = alive /\ Orphans' = Orphans
        /\ found' = [d \in Deals |-> IF d \in Orphans THEN org[d] ELSE NoRow]
    BY <1>1 DEF LookupStages, Orphans, historyVars
  <2>. QED
    BY <2>1 DEF Inv, HistoryInv, Orphans
<1>2. CASE pc = "send" /\ UNCHANGED <<toScan, rows, scanned, found>>
  <2>1. alive' \subseteq alive
    BY <1>2 DEF Next, Proceed, Tick, Edit, Publish, SmokeSend, Replicate, Deliver, DeadLetter,
         Start, QueryWon, ScanOrder, LookupStages, SendChunk, SendPartly, SendError, Finish,
         RunFails, vars, historyVars
  <2>2. Orphans' = Orphans
    BY <1>2 DEF Orphans
  <2>. QED
    BY <1>2, <2>1, <2>2 DEF Inv, FoundInv
<1>. QED
  BY <1>1, <1>2, RunStep
     DEF runVars, Start, QueryWon, ScanOrder, SendChunk, SendPartly, EndRun
-----------------------------------------------------------------------------
\* The three reads, one conjunct of ReadInv at a time.
LEMMA Types ==
  ASSUME Inv, [Next]_vars, NEW d \in Deals
  PROVE  /\ now \in Nat /\ now' \in Nat /\ started \in Nat
         /\ orders[d] \in Int /\ orders'[d] \in Int
         /\ replica[d] \in Int /\ replica'[d] \in Int
         /\ scanned[d] \in Int /\ scanned'[d] \in Int
         /\ org[d] # NoRow => org[d].stamp \in Nat
         /\ rows[d] # NoRow => rows[d].stamp \in Nat
         /\ Grace \in Nat /\ Lag \in Nat /\ Timeout \in Nat
<1>1. TypeOK /\ TypeOK'
  BY TypeStep DEF Inv
<1>. QED
  BY <1>1, ReconcilerAssumption DEF TypeOK, NoOrder, Rows

\* A run in its scan or past it either has just read the won deals, or has its
\* rows from before.
LEMMA Reading ==
  ASSUME Inv, [Next]_vars, pc' \in {"scan", "send"}
  PROVE  \/ QueryWon
         \/ /\ pc \in {"scan", "send"}
            /\ UNCHANGED <<rows, started, behind>>
            /\ \A d \in toScan : d \in toScan' \/ scanned'[d] \in {orders[d], replica[d]}
            /\ \A d \in Deals : \/ scanned'[d] = scanned[d]
                                \/ UNCHANGED <<now, org, queue, orders, replica>>
                                   /\ scanned'[d] \in {orders[d], replica[d]}
<1>1. TypeOK
  BY DEF Inv
<1>2. ASSUME NEW c \in Deals, ScanOrder(c)
      PROVE  /\ \A d \in toScan : d \in toScan' \/ scanned'[d] \in {orders[d], replica[d]}
             /\ \A d \in Deals : \/ scanned'[d] = scanned[d]
                                 \/ UNCHANGED <<now, org, queue, orders, replica>>
                                    /\ scanned'[d] \in {orders[d], replica[d]}
  BY <1>1, <1>2 DEF TypeOK, ScanOrder, orgVars, erpVars
<1>3. CASE LookupStages
  BY <1>1, <1>3 DEF LookupStages, TypeOK
<1>4. CASE UNCHANGED runVars \/ SendChunk \/ SendPartly
  BY <1>4 DEF runVars, SendChunk, SendPartly
<1>. QED
  BY <1>2, <1>3, <1>4, RunStep DEF Start, ScanOrder, EndRun

LEMMA SteadyStep ==
  ASSUME Inv, [Next]_vars, pc' \in {"scan", "send"}, NEW d \in Deals, d \in steady'
  PROVE  rows'[d] # NoRow
<1>1. steady' \subseteq steady
  BY DEF Next, Proceed, Tick, Edit, Publish, SmokeSend, Replicate, Deliver, DeadLetter,
     Start, QueryWon, ScanOrder, LookupStages, SendChunk, SendPartly, SendError, Finish,
     RunFails, vars, historyVars
<1>2. CASE QueryWon
  BY <1>1, <1>2 DEF Inv, HistoryInv, QueryWon, IsWon
<1>3. CASE pc \in {"scan", "send"} /\ rows' = rows
  BY <1>1, <1>3 DEF Inv, ReadInv
<1>. QED
  BY <1>2, <1>3, Reading

LEMMA NotBehindStep ==
  ASSUME Inv, [Next]_vars, pc' \in {"scan", "send"}, NEW d \in Deals
  PROVE  NotBehind(d)'
<1> SUFFICES ASSUME rows'[d] # NoRow, d \notin behind'
             PROVE  /\ replica'[d] >= rows'[d].stamp
                    /\ d \notin toScan' => scanned'[d] >= rows'[d].stamp
  BY DEF NotBehind
<1>1. replica[d] <= orders[d] /\ replica[d] <= replica'[d]
  BY Types, ErpStep DEF Inv, ErpInv
<1>2. CASE QueryWon
  BY <1>2, Types DEF QueryWon, erpVars, IsWon
<1>3. CASE /\ pc \in {"scan", "send"}
           /\ UNCHANGED <<rows, started, behind>>
           /\ \A c \in toScan : c \in toScan' \/ scanned'[c] \in {orders[c], replica[c]}
           /\ \A c \in Deals : \/ scanned'[c] = scanned[c]
                               \/ UNCHANGED <<now, org, queue, orders, replica>>
                                  /\ scanned'[c] \in {orders[c], replica[c]}
  <2>1. replica[d] >= rows[d].stamp /\ (d \notin toScan => scanned[d] >= rows[d].stamp)
    BY <1>3 DEF Inv, ReadInv, NotBehind
  <2>2. scanned'[d] \in {orders[d], replica[d]} => scanned'[d] >= rows[d].stamp
    BY <1>1, <1>3, <2>1, Types
  <2>3. replica'[d] >= rows[d].stamp
    BY <1>1, <1>3, <2>1, Types
  <2>. QED
    BY <1>3, <2>1, <2>2, <2>3
<1>. QED
  BY <1>2, <1>3, Reading

LEMMA NotAheadStep ==
  ASSUME Inv, [Next]_vars, pc' \in {"scan", "send"}, NEW d \in Deals
  PROVE  NotAhead(d)'
<1> SUFFICES ASSUME rows'[d] # NoRow, org'[d] = rows'[d]
             PROVE  scanned'[d] <= rows'[d].stamp
  BY DEF NotAhead
<1>1. /\ replica[d] <= orders[d]
      /\ org[d] # NoRow => orders[d] <= org[d].stamp
      /\ scanned[d] <= now
  BY DEF Inv, ErpInv, RowsInv
<1>2. CASE QueryWon
  BY <1>2, Types DEF Inv, IdleInv, QueryWon, NoOrders, NoOrder, IsWon
<1>3. CASE /\ pc \in {"scan", "send"}
           /\ rows' = rows
           /\ \/ scanned'[d] = scanned[d]
              \/ UNCHANGED <<now, org, queue, orders, replica>>
                 /\ scanned'[d] \in {orders[d], replica[d]}
  <2>1. CASE org'[d] = org[d]
    <3>1. scanned[d] <= rows[d].stamp
      BY <1>3, <2>1 DEF Inv, ReadInv, NotAhead
    <3>. QED
      BY <1>1, <1>3, <2>1, <3>1, Types
  <2>2. CASE org'[d] \in Versions(d) /\ org' # org
    BY <1>1, <1>3, <2>2, Types, VersionFields
  <2>. QED
    BY <2>1, <2>2, OrgStep
<1>. QED
  BY <1>2, <1>3, Reading

LEMMA NotOvertakenStep ==
  ASSUME Inv, [Next]_vars, pc' \in {"scan", "send"}, now' <= started' + Lag, NEW d \in Deals
  PROVE  NotOvertaken(d)'
<1> SUFFICES ASSUME rows'[d] # NoRow
             PROVE  /\ orders'[d] <= rows'[d].stamp
                    /\ scanned'[d] <= rows'[d].stamp
                    /\ \A e \in queue' : e.deal = d => e.stamp <= rows'[d].stamp
                    /\ org'[d] # NoRow => org'[d] = rows'[d] \/ org'[d].stamp >= started'
  BY DEF NotOvertaken
<1>1. CASE QueryWon
  <2>1. rows'[d] = org[d] /\ org[d] # NoRow
    BY <1>1 DEF QueryWon, IsWon
  <2>2. scanned'[d] = -1
    BY <1>1 DEF Inv, IdleInv, QueryWon, NoOrders, NoOrder
  <2>3. UNCHANGED <<queue, orders, org>>
    BY <1>1 DEF QueryWon, orgVars, erpVars
  <2>4. orders[d] <= org[d].stamp /\ \A e \in queue : e.deal = d => e.stamp <= org[d].stamp
    BY <2>1 DEF Inv, ErpInv, QueueInv
  <2>. QED
    BY <2>1, <2>2, <2>3, <2>4, Types
<1>2. CASE /\ pc \in {"scan", "send"}
           /\ UNCHANGED <<rows, started>>
           /\ \/ scanned'[d] = scanned[d]
              \/ scanned'[d] \in {orders[d], replica[d]}
  <2>1. now <= started + Lag /\ started <= now
    BY <1>2, OrgStep, Types DEF Inv, TypeOK
  <2>2. NotOvertaken(d) /\ d \notin Smoke
    BY <1>2, <2>1 DEF Inv, ReadInv, RowsInv
  <2>3. ASSUME NEW e \in queue', e.deal = d
        PROVE  e.stamp <= rows[d].stamp
    <3>1. CASE e \in queue
      BY <1>2, <2>2, <2>3, <3>1 DEF NotOvertaken
    <3>2. ASSUME NEW c \in Deals, e = org[c], IsWon(org[c]), org[c].stamp < now - Lag
          PROVE  e.stamp <= rows[d].stamp
      <4>1. c = d
        BY <2>3, <3>2 DEF Inv, OrgInv, IsWon
      <4>2. org[d] = rows[d]
        BY <1>2, <2>1, <2>2, <3>2, <4>1, Types DEF NotOvertaken, IsWon
      <4>. QED
        BY <3>2, <4>1, <4>2, <1>2, Types
    <3>3. CASE e \in unsent
      BY <1>2, <2>3, <3>3, Types DEF Inv, UnsentInv
    <3>. QED
      BY <2>2, <2>3, <3>1, <3>2, <3>3, QueueStep
  <2>4. orders[d] <= rows[d].stamp /\ orders'[d] <= rows[d].stamp
    <3>1. orders[d] <= rows[d].stamp /\ \A e \in queue : e.deal = d => e.stamp <= rows[d].stamp
      BY <1>2, <2>2 DEF NotOvertaken
    <3>. QED
      BY <3>1, ErpStep
  <2>5. scanned'[d] <= rows[d].stamp
    <3>1. scanned[d] <= rows[d].stamp /\ replica[d] <= orders[d]
      BY <1>2, <2>2 DEF NotOvertaken, Inv, ErpInv
    <3>. QED
      BY <1>2, <2>4, <3>1, Types
  <2>6. org'[d] # NoRow => org'[d] = rows[d] \/ org'[d].stamp >= started
    <3>1. CASE org'[d] = org[d]
      BY <1>2, <2>2, <3>1 DEF NotOvertaken
    <3>2. CASE org'[d] \in Versions(d)
      BY <2>1, <3>2, VersionFields, Types
    <3>. QED
      BY <3>1, <3>2, OrgStep
  <2>. QED
    BY <1>2, <2>3, <2>4, <2>5, <2>6
<1>. QED
  BY <1>1, <1>2, Reading

LEMMA ReadInvStep == Inv /\ [Next]_vars => ReadInv'
BY SteadyStep, NotBehindStep, NotAheadStep, NotOvertakenStep DEF ReadInv

LEMMA InvStep == Inv /\ [Next]_vars => Inv'
BY TypeStep, OrgInvStep, QueueInvStep, ErpInvStep, ClockInvStep, HistoryInvStep,
   RowsInvStep, UnsentInvStep, IdleInvStep, ReadInvStep, FoundInvStep DEF Inv

LEMMA InvariantHolds == Spec => []Inv
BY InitInv, InvStep, PTL DEF Spec
-----------------------------------------------------------------------------
(***************************************************************************)
(* Every state has its type.                                               *)
(***************************************************************************)
THEOREM ReconcilerTypeCorrect == Spec => []TypeOK
<1>1. Inv => TypeOK
  BY DEF Inv
<1>. QED
  BY <1>1, InvariantHolds, PTL

LEMMA RepairsAreDrift == Inv => DriftWasReal
<1> SUFFICES ASSUME Inv, pc = "send", NEW d \in MissingOrder \cup StaleOrder
             PROVE  d \in behind
  BY DEF DriftWasReal, Reported
<1>1. d \in Deals /\ rows[d] # NoRow /\ rows[d].stamp \in Nat /\ scanned[d] \in Int
  BY DEF Inv, TypeOK, MissingOrder, StaleOrder, Considered, NoOrder, Rows
<1>2. scanned[d] < rows[d].stamp
  BY <1>1 DEF MissingOrder, StaleOrder, NoOrder
<1>. QED
  BY <1>1, <1>2 DEF Inv, ReadInv, FoundInv, NotBehind

(***************************************************************************)
(* What is re-enqueued was drift when Salesforce was read                  *)
(* (reconcile.py:3-16), for any interleaving of the scan with the worker   *)
(* and any delay of DynamoDB's copies.                                     *)
(***************************************************************************)
THEOREM RepairsWereNeeded == Spec => []DriftWasReal
BY RepairsAreDrift, InvariantHolds, PTL

(***************************************************************************)
(* Only deals that were lost or deleted at some moment of the run are      *)
(* reported so (reconcile.py:13-19), and no order of the smoke test is.    *)
(***************************************************************************)
THEOREM OnlyLostDealsAreOrphans == Spec => []OrphansAreReal
<1>1. Inv => OrphansAreReal
  BY DEF Inv, ReadInv, FoundInv, OrphansAreReal, Reported, NotWon, NotFound, Orphans
<1>. QED
  BY <1>1, InvariantHolds, PTL

(***************************************************************************)
(* An order that looks ahead of Salesforce means that the deal moved on    *)
(* while the run had it (reconcile.py:95-96).                              *)
(***************************************************************************)
THEOREM AheadIsOnlyLate == Spec => []AheadMeansMovedOn
<1>1. Inv => AheadMeansMovedOn
  <2> SUFFICES ASSUME Inv, pc = "send", NEW d \in ErpAhead
               PROVE  org[d] # rows[d]
    BY DEF AheadMeansMovedOn, Reported
  <2>1. /\ d \in Deals /\ rows[d] # NoRow /\ scanned[d] > rows[d].stamp
        /\ rows[d].stamp \in Nat /\ scanned[d] \in Int
    BY DEF Inv, TypeOK, ErpAhead, Considered, NoOrder, Rows
  <2>. QED
    BY <2>1 DEF Inv, ReadInv, NotAhead
<1>. QED
  BY <1>1, InvariantHolds, PTL

(***************************************************************************)
(* A run that is no older than the poller's lag reports no erp_ahead       *)
(* (reconcile.py:11): nothing that is edited while it runs is published    *)
(* by then.                                                                *)
(***************************************************************************)
THEOREM YoungRunsSeeNothingAhead == Spec => []YoungRunsAreNotOvertaken
<1>1. Inv => YoungRunsAreNotOvertaken
  <2> SUFFICES ASSUME Inv, pc = "send", now <= started + Lag, NEW d \in ErpAhead
               PROVE  FALSE
    BY DEF YoungRunsAreNotOvertaken, Reported
  <2>1. /\ d \in Deals /\ rows[d] # NoRow /\ scanned[d] > rows[d].stamp
        /\ rows[d].stamp \in Nat /\ scanned[d] \in Int
    BY DEF Inv, TypeOK, ErpAhead, Considered, NoOrder, Rows
  <2>. QED
    BY <2>1 DEF Inv, ReadInv, NotOvertaken
<1>. QED
  BY <1>1, InvariantHolds, PTL
-----------------------------------------------------------------------------
\* While the pipeline has not been late, what is due is in every copy of the ERP,
\* and what a run has read and looks at was there when it read it.
OnTimeInv == Grace > 0 /\ ~late =>
                /\ OnTimeAt(now)
                /\ \A d \in Considered : rows[d].valid => d \notin behind

\* The only step that makes the pipeline late.
LEMMA LateStep ==
  ASSUME [Next]_vars
  PROVE  \/ late' = late /\ now' = now
         \/ now' = now + 1 /\ late' = (late \/ ~OnTimeAt(now + 1))
BY DEF Next, Proceed, Tick, Edit, Publish, SmokeSend, Replicate, Deliver, DeadLetter, Start,
       QueryWon, ScanOrder, LookupStages, SendChunk, SendPartly, SendError, Finish, RunFails,
       vars, historyVars

LEMMA OnTimeAtStep ==
  ASSUME Grace > 0, Inv, OnTimeInv, [Next]_vars, ~late'
  PROVE  OnTimeAt(now)'
<1> SUFFICES ASSUME NEW d \in Deals, IsWon(org'[d]), org'[d].valid,
                    org'[d].stamp + Grace <= now'
             PROVE  replica'[d] >= org'[d].stamp
  BY DEF OnTimeAt, IsWon
<1>1. replica[d] <= replica'[d]
  BY Types, ErpStep DEF Inv, ErpInv
<1>2. CASE now' = now + 1
  <2>1. org' = org
    BY <1>2, OrgStep, Types
  <2>2. OnTimeAt(now + 1)
    <3>1. now' # now
      BY <1>2, Types
    <3>. QED
      BY <3>1, LateStep
  <2>3. replica[d] >= org[d].stamp
    BY <1>2, <2>1, <2>2 DEF OnTimeAt, IsWon
  <2>. QED
    BY <1>1, <2>1, <2>3, Types DEF IsWon
<1>3. CASE late' = late /\ now' = now
  <2>1. CASE org'[d] = org[d]
    <3>1. replica[d] >= org[d].stamp
      BY <1>3, <2>1 DEF OnTimeInv, OnTimeAt, IsWon
    <3>. QED
      BY <1>1, <2>1, <3>1, Types DEF IsWon
  <2>2. CASE org'[d] \in Versions(d)
    BY <1>3, <2>2, VersionFields, Types
  <2>. QED
    BY <2>1, <2>2, OrgStep DEF IsWon
<1>. QED
  BY <1>2, <1>3, LateStep

LEMMA NothingDueStep ==
  ASSUME Grace > 0, Inv, OnTimeInv, [Next]_vars, ~late',
         NEW d \in Deals, rows'[d] # NoRow, rows'[d].valid,
         rows'[d].stamp <= started' - Grace
  PROVE  d \notin behind'
<1>0. ~late
  BY LateStep
<1>1. CASE QueryWon
  <2>1. /\ rows'[d] = org[d] /\ IsWon(org[d]) /\ started' = started
        /\ d \in behind' => replica[d] < org[d].stamp
    BY <1>1 DEF QueryWon, IsWon
  <2>2. org[d].stamp \in Nat /\ started <= now /\ replica[d] \in Int
    BY <2>1, Types DEF Inv, TypeOK, IsWon
  <2>3. org[d].stamp + Grace <= now
    BY <2>1, <2>2, Types
  <2>. QED
    BY <1>0, <2>1, <2>2, <2>3 DEF OnTimeInv, OnTimeAt
<1>2. CASE pc \in {"scan", "send"} /\ UNCHANGED <<rows, started, behind>>
  BY <1>0, <1>2 DEF OnTimeInv, Considered
<1>3. CASE pc' \in {"idle", "query"}
  BY <1>3, InvStep DEF Inv, IdleInv, NoRows
<1>. QED
  BY <1>1, <1>2, <1>3, Reading, InvStep DEF Inv, TypeOK

LEMMA OnTimeInvStep == Inv /\ OnTimeInv /\ [Next]_vars => OnTimeInv'
BY OnTimeAtStep, NothingDueStep DEF OnTimeInv, Considered

(***************************************************************************)
(* Deals within the grace "aren't drift" (reconcile.py:21-22): with a      *)
(* grace of at least a second and a pipeline that has been on time, a run  *)
(* re-enqueues nothing that the worker would write.                        *)
(***************************************************************************)
THEOREM NoDriftOnTime == Spec => []OnTimeMeansNoDrift
<1>1. Init => OnTimeInv
  BY DEF Init, OnTimeInv, OnTimeAt, Considered, NoRows, IsWon
<1>2. Inv /\ OnTimeInv => OnTimeMeansNoDrift
  BY RepairsAreDrift DEF OnTimeInv, OnTimeMeansNoDrift, DriftWasReal, ToEnqueue,
     MissingOrder, StaleOrder
<1>. QED
  BY <1>1, <1>2, OnTimeInvStep, InvariantHolds, PTL DEF Spec
=============================================================================
