------------------------------- MODULE Relay --------------------------------
(***************************************************************************)
(* The pipeline from end to end: the org and the poller of Poller, and     *)
(* behind the poller the ERP, which takes published versions in any order  *)
(* and any number of times under the version condition of writer.py.  What *)
(* the queue, its mapping and the worker do to deliver one version is the  *)
(* subject of Sync; here a delivery either reaches the ERP or ends in the  *)
(* dead-letter queue.                                                      *)
(***************************************************************************)
EXTENDS Poller

VARIABLES erp,      \* erp[d]: the version behind the deal's order
          parked    \* the versions in the dead-letter queue

relayVars == <<vars, erp, parked>>

RelayInit == /\ Init
             /\ erp = [d \in Deals |-> NoRow]
             /\ parked = {}

\* Mutant: no condition, the last delivery wins.
Newer_Always(row) == erp[row.deal] # row
\* The version condition on the order's item.
Newer(row) == erp[row.deal] # NoRow => erp[row.deal].stamp < row.stamp

\* A copy of a published version is delivered: now, late, or once more.
Deliver(row) == /\ Newer(row)
                /\ erp' = [erp EXCEPT ![row.deal] = row]
                /\ UNCHANGED <<vars, parked>>

\* The receives of one of its messages ran out, or the worker refused it.  It may
\* have been written: the acknowledgement was lost, or another message did it.
Park(row) == /\ row \notin parked
             /\ parked' = parked \cup {row}
             /\ UNCHANGED <<vars, erp>>

RelayNext == \/ Next /\ UNCHANGED <<erp, parked>>
             \/ \E row \in published : Deliver(row) \/ Park(row)

RelaySpec == RelayInit /\ [][RelayNext]_relayVars

\* The message of a version that the ERP lacks ends in the ERP or, its receives
\* used up, in the dead-letter queue (QueueDrains and NoEventLost of Sync).  No
\* delivery is assumed to succeed, and nothing that was written need be parked:
\* the mapping deletes its message.
RelayFairness ==
    /\ Fairness
    /\ \A d \in Deals :
          WF_relayVars(\E row \in published : /\ row.deal = d
                                              /\ Newer(row)
                                              /\ row \notin parked
                                              /\ Deliver(row) \/ Park(row))

RelayFairSpec == RelaySpec /\ RelayFairness
-----------------------------------------------------------------------------
RelayTypeOK == /\ TypeOK
               /\ erp \in [Deals -> Rows \cup {NoRow}]
               /\ parked \subseteq published

\* The ERP never shows a version of a deal that is not, or was not for good,
\* the deal's: with the stamp of the deal as it stands, its order is that very
\* version, and with the stamp of a write still open, it cannot be anything
\* (writer.py:3-17, README.md:187-190).  It is never ahead of the org either.
ErpMirrorsOrg ==
    \A d \in Deals : erp[d] # NoRow =>
       /\ erp[d] \in published
       /\ open[d] # NoRow => erp[d].stamp < open[d].stamp
       /\ deals[d] # NoRow => \/ erp[d] = deals[d]
                              \/ erp[d].stamp < deals[d].stamp

\* Due is what should be in the ERP: a won deal whose stamp falls far enough
\* behind the last second of the clock to be polled.
Due(d) == /\ deals[d] # NoRow
          /\ deals[d].won
          /\ deals[d].stamp >= Start
          /\ deals[d].stamp + Lag < MaxTime

\* Eventual consistency: once the edits stop, every due deal's order comes to
\* be and stays the deal as it stands, unless that version's receives ran out
\* and it is in the dead-letter queue, where an operator finds it; late and
\* repeated deliveries of older versions, crashed and partial runs change nothing.
ErpSettles ==
    <>[](\A d \in Deals : Due(d) => erp[d] = deals[d] \/ deals[d] \in parked)
=============================================================================
