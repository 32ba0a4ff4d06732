---------------------------- MODULE RelayProofs -----------------------------
(***************************************************************************)
(* Proofs about Relay, for every set of deals and runs, every lag and      *)
(* every length of the run.  A run of Relay is a run of Poller, so the     *)
(* invariant of PollerProofs holds in it; Mirror adds what the ERP needs.  *)
(***************************************************************************)
EXTENDS Relay, PollerProofs

\* A version that was read is not ahead of its deal.
Behind(row) == deals[row.deal] # NoRow => row.stamp <= deals[row.deal].stamp

Mirror == /\ \A row \in Read : Behind(row) /\ row.won
          /\ erp \in [Deals -> Rows \cup {NoRow}]
          /\ \A d \in Deals : erp[d] # NoRow => erp[d] \in published /\ erp[d].deal = d
          /\ parked \subseteq published
-----------------------------------------------------------------------------
\* What the ERP does is a stuttering step of the poller.
LEMMA RelayStepIsPollerStep ==
  ASSUME [RelayNext]_relayVars
  PROVE  [Next]_vars
BY DEF RelayNext, relayVars, Deliver, Park

(***************************************************************************)
(* The pipeline is a poller as far as the org and the queue can tell, so   *)
(* everything PollerProofs shows of Spec holds in it.                      *)
(***************************************************************************)
THEOREM RelayRunsThePoller == RelaySpec => Spec
<1>1. RelayInit => Init
  BY DEF RelayInit
<1>. QED
  BY <1>1, RelayStepIsPollerStep, PTL DEF RelaySpec, Spec

LEMMA RelayKeepsInv == RelaySpec => []Inv
BY RelayRunsThePoller, InvariantHolds, PTL

LEMMA BehindStep ==
  ASSUME Inv, [Next]_vars, \A row \in Read : Behind(row), NEW row \in Read'
  PROVE  Behind(row)'
<1>1. /\ Read \subseteq Rows
      /\ \A r \in Runs : Window(from[r], upper[r]) \subseteq Rows
  BY RowsAreASequence, WindowIsFinite DEF Read, At, Inv, TypeOK
<1>2. CASE Read' \subseteq Read
  <2>1. /\ row.deal \in Deals /\ row.stamp \in Nat /\ now \in Nat
        /\ Behind(row) /\ row.stamp + Lag < now
    BY <1>1, <1>2 DEF Inv, Final, Rows, TypeOK
  <2>. QED
    BY <2>1, OrgStep, PollerAssumption DEF Behind
<1>3. ASSUME NEW r \in Runs, pc[r] = "query", UNCHANGED deals,
             Read' \subseteq Read \cup Window(from[r], upper[r])
      PROVE  Behind(row)'
  <2>1. CASE row \in Read
    BY <1>3, <2>1 DEF Behind
  <2>2. CASE row \in Window(from[r], upper[r])
    <3>1. row = deals[row.deal] /\ row.stamp \in Nat
      BY <1>1, <2>2 DEF Window, Inv, OrgInv, Rows
    <3>. QED
      BY <1>3, <3>1 DEF Behind
  <2>. QED
    BY <1>3, <2>1, <2>2
<1>. QED
  BY <1>2, <1>3, ReadSteps

\* Only won deals are read.
LEMMA WonStep ==
  ASSUME Inv, [Next]_vars, \A row \in Read : row.won, NEW row \in Read'
  PROVE  row.won
BY ReadSteps DEF Window

LEMMA MirrorInit == RelayInit => Mirror
BY DEF RelayInit, Init, Mirror, Read, At

LEMMA MirrorStep ==
  ASSUME Inv, Mirror, [RelayNext]_relayVars
  PROVE  Mirror'
<1>1. \A row \in Read' : Behind(row)' /\ row.won
  BY RelayStepIsPollerStep, BehindStep, WonStep DEF Mirror
<1>2. published \subseteq published'
  BY RelayStepIsPollerStep, PublishedGrows
<1>3. CASE UNCHANGED <<erp, parked>>
  BY <1>1, <1>2, <1>3 DEF Mirror
<1>4. ASSUME NEW row \in published, Deliver(row) PROVE Mirror'
  <2>1. row \in Rows /\ row.deal \in Deals
    BY DEF Inv, TypeOK, Rows
  <2>. QED
    BY <1>1, <1>2, <1>4, <2>1 DEF Mirror, Deliver
<1>5. ASSUME NEW row \in published, Park(row) PROVE Mirror'
  BY <1>1, <1>2, <1>5 DEF Mirror, Park
<1>. QED
  BY <1>3, <1>4, <1>5 DEF RelayNext, relayVars

LEMMA MirrorHolds == RelaySpec => [](Inv /\ Mirror)
<1>1. Inv /\ Mirror /\ [RelayNext]_relayVars => Mirror'
  BY MirrorStep
<1>. QED
  BY <1>1, MirrorInit, RelayKeepsInv, PTL DEF RelaySpec

(***************************************************************************)
(* The types, of the ERP and the dead-letter queue too.                    *)
(***************************************************************************)
THEOREM RelayTypeCorrect == RelaySpec => []RelayTypeOK
<1>1. Inv /\ Mirror => RelayTypeOK
  BY DEF Inv, Mirror, RelayTypeOK
<1>. QED
  BY <1>1, MirrorHolds, PTL

(***************************************************************************)
(* The ERP mirrors the org (writer.py:3-17): the order of a deal is that   *)
(* deal as it stands, or an older version of it, and nothing a write still *)
(* open can become; whatever order and number the deliveries come in.      *)
(***************************************************************************)
THEOREM MirrorsTheOrg == RelaySpec => []ErpMirrorsOrg
<1>1. ASSUME Inv, Mirror, NEW d \in Deals, erp[d] # NoRow
      PROVE  /\ erp[d] \in published
             /\ open[d] # NoRow => erp[d].stamp < open[d].stamp
             /\ deals[d] # NoRow => \/ erp[d] = deals[d]
                                    \/ erp[d].stamp < deals[d].stamp
  <2>1. erp[d] \in published /\ erp[d] \in Read /\ erp[d].deal = d /\ erp[d].stamp \in Nat
    BY <1>1 DEF Mirror, Read, Inv, TypeOK, Rows
  <2>2. Final(erp[d]) /\ Behind(erp[d])
    BY <1>1, <2>1 DEF Inv, Mirror
  <2>3. ASSUME open[d] # NoRow PROVE erp[d].stamp < open[d].stamp
    <3>1. open[d].stamp \in Nat /\ now \in Nat /\ now <= open[d].stamp + CommitDelay
      BY <1>1, <2>3 DEF Inv, TypeOK, OrgInv, Rows
    <3>. QED
      BY <2>1, <2>2, <3>1, PollerAssumption DEF Final
  <2>4. ASSUME deals[d] # NoRow, erp[d] # deals[d] PROVE erp[d].stamp < deals[d].stamp
    <3>1. deals[d].stamp \in Nat
      BY <1>1, <2>4 DEF Inv, TypeOK, Rows
    <3>. QED
      BY <2>1, <2>2, <2>4, <3>1 DEF Final, Behind
  <2>. QED
    BY <2>1, <2>3, <2>4
<1>2. Inv /\ Mirror => ErpMirrorsOrg
  BY <1>1 DEF ErpMirrorsOrg
<1>. QED
  BY <1>2, MirrorHolds, PTL

(***************************************************************************)
(* The poller's promise that windows tile time holds in the pipeline.      *)
(***************************************************************************)
THEOREM RelayPublishesEachOnce == RelaySpec => PublishesOnce
BY RelayRunsThePoller, PublishesEachOnce, PTL
-----------------------------------------------------------------------------
\* What is behind the poller, as the order book that SyncProofs shows the queue
\* and the worker to implement: the rows are its events.
StampOf(row) == row.stamp
IsWon(row) == row.won
Book == INSTANCE OrderBook WITH Events <- Rows, Erasable <- {}, NoItem <- NoRow,
           Version <- StampOf, Valid <- IsWon, offered <- published, book <- erp

LEMMA RelayStepIsBookStep ==
  ASSUME Inv, Mirror, [RelayNext]_relayVars
  PROVE  [Book!Next]_(Book!vars)
<1>1. published \subseteq published' /\ published \subseteq Rows
  BY RelayStepIsPollerStep, PublishedGrows DEF Inv, TypeOK
<1>2. ASSUME Next, UNCHANGED <<erp, parked>> PROVE Book!Offer
  <2>1. published' \subseteq Rows
    BY <1>2, TypeStep DEF TypeOK
  <2>. QED
    BY <1>1, <1>2, <2>1 DEF Book!Offer
<1>3. ASSUME NEW row \in published, Deliver(row) PROVE Book!Apply(row)
  <2>1. row.won
    BY DEF Mirror, Read
  <2>. QED
    BY <1>3, <2>1 DEF Deliver, Newer, Book!Apply, StampOf, IsWon, vars
<1>4. ASSUME NEW row \in published, Park(row) PROVE UNCHANGED Book!vars
  BY <1>4 DEF Park, Book!vars, vars
<1>5. CASE UNCHANGED relayVars
  BY <1>5 DEF relayVars, vars, Book!vars
<1>. QED
  BY <1>2, <1>3, <1>4, <1>5 DEF RelayNext, Book!Next

\* One half of RelayIsItsParts: only won versions are published, and Deliver is
\* a step of the order book.
LEMMA RelayIsAnOrderBook == RelaySpec => Book!Spec
<1>1. RelayInit => Book!Init
  BY DEF RelayInit, Init, Book!Init
<1>2. Inv /\ Mirror /\ [RelayNext]_relayVars => [Book!Next]_(Book!vars)
  BY RelayStepIsBookStep
<1>. QED
  BY <1>1, <1>2, MirrorHolds, PTL DEF RelaySpec, Book!Spec

\* What the dead-letter queue of Relay adds to the order book, and that the
\* poller, the ERP and the dead-letter queue take turns.
ParkSome == \E row \in published \ parked : parked' = parked \cup {row}
TakeTurns == /\ UNCHANGED vars \/ UNCHANGED <<erp, parked>>
             /\ UNCHANGED erp \/ UNCHANGED parked
Parts == /\ Spec
         /\ Book!Spec
         /\ parked = {} /\ [][ParkSome]_parked
         /\ [][TakeTurns]_relayVars

(***************************************************************************)
(* Relay is its parts, no less and no more: the poller, an order book over *)
(* what it publishes, and a dead-letter queue that takes what is           *)
(* published.  So Relay asks nothing of the queue and the worker but what  *)
(* SyncIsAnOrderBook shows that they do.                                   *)
(***************************************************************************)
THEOREM RelayIsItsParts == RelaySpec <=> Parts
<1>1. RelayInit => parked = {}
  BY DEF RelayInit
<1>2. [RelayNext]_relayVars => [ParkSome]_parked /\ [TakeTurns]_relayVars
  BY DEF RelayNext, relayVars, Deliver, Park, ParkSome, TakeTurns
<1>3. RelaySpec => Parts
  BY <1>1, <1>2, RelayRunsThePoller, RelayIsAnOrderBook, PTL DEF RelaySpec, Parts
<1>4. Init /\ Book!Init /\ parked = {} => RelayInit
  BY DEF RelayInit, Book!Init
<1>5. ASSUME [Next]_vars, [Book!Next]_(Book!vars), [ParkSome]_parked, [TakeTurns]_relayVars
      PROVE  [RelayNext]_relayVars
  <2>1. CASE UNCHANGED relayVars
    BY <2>1
  <2>2. CASE TakeTurns /\ UNCHANGED <<erp, parked>>
    BY <1>5, <2>2 DEF RelayNext, relayVars
  <2>3. CASE UNCHANGED vars /\ UNCHANGED erp
    BY <1>5, <2>3 DEF RelayNext, relayVars, ParkSome, Park
  <2>4. CASE UNCHANGED vars /\ UNCHANGED parked
    <3>1. CASE UNCHANGED erp
      BY <2>4, <3>1 DEF relayVars
    <3>2. ASSUME NEW row \in published, Book!Apply(row) PROVE RelayNext
      BY <2>4, <3>2 DEF Book!Apply, StampOf, RelayNext, Deliver, Newer
    <3>. QED
      BY <1>5, <3>1, <3>2 DEF Book!Next, Book!Offer, Book!vars
  <2>. QED
    BY <1>5, <2>1, <2>2, <2>3, <2>4 DEF TakeTurns
<1>6. Parts => RelaySpec
  BY <1>4, <1>5, PTL DEF RelaySpec, Parts, Spec, Book!Spec
<1>. QED
  BY <1>3, <1>6
=============================================================================
