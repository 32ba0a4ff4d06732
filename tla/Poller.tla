------------------------------- MODULE Poller -------------------------------
(***************************************************************************)
(* The ingest Lambda (src/ingest/poller) and the Salesforce org it polls:  *)
(* half-open windows [watermark, server time - Lag) over the stamps of the *)
(* won deals, published in order, the watermark moved past what was sent.  *)
(* Time is in whole seconds, the resolution of SystemModstamp and of the   *)
(* Date header.  Overlapping invocations are several members of Runs.      *)
(***************************************************************************)
EXTENDS Integers, Sequences, FiniteSets

CONSTANTS Deals,        \* Opportunity ids
          Runs,         \* invocations that may overlap
          Lag,          \* INGEST_LAG_SECONDS
          CommitDelay,  \* the longest a Salesforce transaction stays open
          Start,        \* WATERMARK_START
          ChunkSize,    \* entries in one SendMessageBatch
          NoRow,        \* no row: the deal does not exist, or no open write
          MaxTime,      \* bound: the last second of Salesforce's clock
          MaxEdits,     \* bound: the number of writes to the org
          MaxFaults     \* bound: the number of failures

ASSUME PollerAssumption == /\ IsFiniteSet(Deals)
                           /\ Lag \in Nat
                           /\ CommitDelay \in Nat
                           /\ CommitDelay <= Lag
                           /\ Start \in Nat
                           /\ ChunkSize \in Nat \ {0}
                           /\ MaxTime \in Nat
                           /\ MaxEdits \in Nat
                           /\ MaxFaults \in Nat

\* A version of a deal.  "rev" stands for its content: every write has its own.
Rows == [deal : Deals, stamp : Nat, won : BOOLEAN, rev : Nat]

ASSUME NoRowIsNotARow == NoRow \notin Rows

VARIABLES now,        \* Salesforce's clock
          deals,      \* deals[d]: the committed version of the deal
          open,       \* open[d]: the version an open transaction will commit
          edits,      \* number of writes so far
          watermark,  \* the SSM parameter, Start while it does not exist
          pc,         \* pc[r]: where the invocation is in Run
          from,       \* from[r], upper[r]: its window
          upper,
          rows,       \* rows[r]: what QueryAll returned, in order
          sent,       \* sent[r]: the count Publish would return
          published,  \* the versions that reached the queue
          faults      \* number of failures so far

orgVars == <<now, deals, open, edits>>
runVars == <<pc, from, upper, rows, sent>>
vars == <<orgVars, watermark, runVars, published, faults>>

Init == /\ now = 0
        /\ deals = [d \in Deals |-> NoRow]
        /\ open = [d \in Deals |-> NoRow]
        /\ edits = 0
        /\ watermark = Start
        /\ pc = [r \in Runs |-> "idle"]
        /\ from = [r \in Runs |-> 0]
        /\ upper = [r \in Runs |-> 0]
        /\ rows = [r \in Runs |-> <<>>]
        /\ sent = [r \in Runs |-> 0]
        /\ published = {}
        /\ faults = 0
-----------------------------------------------------------------------------
\* The org: a write is stamped when it is made and visible when it commits.

Tick == /\ now < MaxTime
        /\ \A d \in Deals : open[d] # NoRow => now + 1 <= open[d].stamp + CommitDelay
        /\ now' = now + 1
        /\ UNCHANGED <<deals, open, edits, watermark, runVars, published, faults>>

Write(d) == /\ open[d] = NoRow          \* the row is locked
            /\ edits < MaxEdits
            /\ \E won \in BOOLEAN :
                  open' = [open EXCEPT ![d] =
                    [deal |-> d, stamp |-> now, won |-> won, rev |-> edits + 1]]
            /\ edits' = edits + 1
            /\ UNCHANGED <<now, deals, watermark, runVars, published, faults>>

Commit(d) == /\ open[d] # NoRow
             /\ deals' = [deals EXCEPT ![d] = open[d]]
             /\ open' = [open EXCEPT ![d] = NoRow]
             /\ UNCHANGED <<now, edits, watermark, runVars, published, faults>>
\* A deleted deal is in no query's result.
Delete(d) == /\ open[d] = NoRow
             /\ deals[d] # NoRow
             /\ deals' = [deals EXCEPT ![d] = NoRow]
             /\ UNCHANGED <<now, open, edits, watermark, runVars, published, faults>>
-----------------------------------------------------------------------------
\* One invocation of Run.

Goto(r, label) == pc' = [pc EXCEPT ![r] = label]

Fault == /\ faults < MaxFaults
         /\ faults' = faults + 1

ReadWatermark(r) == /\ pc[r] = "idle"
                    /\ from' = [from EXCEPT ![r] = watermark]
                    /\ Goto(r, "time")
                    /\ UNCHANGED <<orgVars, watermark, upper, rows, sent, published, faults>>

\* Mutants: the empty window is not checked for; the window is open up to now.
ReadServerTime_NoEmptyCheck(r) ==
    /\ pc[r] = "time"
    /\ upper' = [upper EXCEPT ![r] = now - Lag]
    /\ Goto(r, "query")
    /\ UNCHANGED <<orgVars, watermark, from, rows, sent, published, faults>>
ReadServerTime_NoLag(r) ==
    /\ pc[r] = "time"
    /\ upper' = [upper EXCEPT ![r] = now]
    /\ Goto(r, IF now > from[r] THEN "query" ELSE "idle")
    /\ UNCHANGED <<orgVars, watermark, from, rows, sent, published, faults>>

\* An empty window ends the run.
ReadServerTime(r) == /\ pc[r] = "time"
                     /\ upper' = [upper EXCEPT ![r] = now - Lag]
                     /\ Goto(r, IF now - Lag > from[r] THEN "query" ELSE "idle")
                     /\ UNCHANGED <<orgVars, watermark, from, rows, sent, published, faults>>

\* Mutant: the upper bound is included.
Window_ClosedAbove(lo, hi) == {deals[d] : d \in {c \in Deals : /\ deals[c] # NoRow
                                                              /\ deals[c].won
                                                              /\ deals[c].stamp >= lo
                                                              /\ deals[c].stamp <= hi}}

Window(lo, hi) == {deals[d] : d \in {c \in Deals : /\ deals[c] # NoRow
                                                   /\ deals[c].won
                                                   /\ deals[c].stamp >= lo
                                                   /\ deals[c].stamp < hi}}

\* ORDER BY SystemModstamp (Id breaks ties, in an order nothing depends on).
Sorted(f) == \A i, j \in DOMAIN f : i < j => f[i].stamp <= f[j].stamp
Listing(S) == {f \in [1..Cardinality(S) -> S] :
                  /\ \A row \in S : \E i \in DOMAIN f : f[i] = row
                  /\ Sorted(f)}

QueryAll(r) == /\ pc[r] = "query"
               /\ \E f \in Listing(Window(from[r], upper[r])) : rows' = [rows EXCEPT ![r] = f]
               /\ sent' = [sent EXCEPT ![r] = 0]
               /\ Goto(r, "publish")
               /\ UNCHANGED <<orgVars, watermark, from, upper, published, faults>>

\* The positions of the next SendMessageBatch.
ChunkEnd(r) == IF sent[r] + ChunkSize < Len(rows[r]) THEN sent[r] + ChunkSize
                                                     ELSE Len(rows[r])
Chunk(r) == (sent[r] + 1)..ChunkEnd(r)
At(r, positions) == {rows[r][i] : i \in positions}

PublishChunk(r) == /\ pc[r] = "publish"
                   /\ sent[r] < Len(rows[r])
                   /\ published' = published \cup At(r, Chunk(r))
                   /\ sent' = [sent EXCEPT ![r] = ChunkEnd(r)]
                   /\ UNCHANGED <<orgVars, watermark, pc, from, upper, rows, faults>>

\* The request fails: nothing was sent, or all or some of it and the reply is lost.
PublishError(r) == /\ pc[r] = "publish"
                   /\ sent[r] < Len(rows[r])
                   /\ \E lost \in SUBSET Chunk(r) : published' = published \cup At(r, lost)
                   /\ Goto(r, "failed")
                   /\ Fault
                   /\ UNCHANGED <<orgVars, watermark, from, upper, rows, sent>>

\* Mutant: the count is that of the entries that did not fail.
PublishPartly_CountsSuccesses(r) ==
    /\ pc[r] = "publish"
    /\ \E failed \in SUBSET Chunk(r) :
         /\ failed # {}
         /\ published' = published \cup At(r, Chunk(r) \ failed)
         /\ sent' = [sent EXCEPT ![r] = ChunkEnd(r) - Cardinality(failed)]
    /\ Goto(r, "failed")
    /\ Fault
    /\ UNCHANGED <<orgVars, watermark, from, upper, rows>>

\* Some entries fail; the others of the batch are in the queue all the same,
\* but the count stops at the first one that failed.
PublishPartly(r) == /\ pc[r] = "publish"
                    /\ \E failed \in SUBSET Chunk(r) :
                         /\ failed # {}
                         /\ published' = published \cup At(r, Chunk(r) \ failed)
                         /\ \E first \in failed :
                              /\ \A i \in failed : first <= i
                              /\ sent' = [sent EXCEPT ![r] = first - 1]
                    /\ Goto(r, "failed")
                    /\ Fault
                    /\ UNCHANGED <<orgVars, watermark, from, upper, rows>>

\* Where the watermark goes: to the end of the window, or after a failure to
\* the first version that was not sent, when that is progress.
Moves(r) == \/ pc[r] = "publish" /\ sent[r] = Len(rows[r])
            \/ /\ pc[r] = "failed"
               /\ sent[r] > 0
               /\ rows[r][sent[r] + 1].stamp > from[r]
\* Mutant: after a failure too, the end of the window.
Target_EndOfWindow(r) == upper[r]
Target(r) == IF pc[r] = "publish" THEN upper[r] ELSE rows[r][sent[r] + 1].stamp

SetWatermark(r) == /\ Moves(r)
                   /\ watermark' = Target(r)
                   /\ Goto(r, "idle")
                   /\ UNCHANGED <<orgVars, from, upper, rows, sent, published, faults>>

GiveUp(r) == /\ pc[r] = "failed"
             /\ ~Moves(r)
             /\ Goto(r, "idle")
             /\ UNCHANGED <<orgVars, watermark, from, upper, rows, sent, published, faults>>

\* Any call fails, a row cannot be parsed, the watermark write fails, or the
\* Lambda times out: the run ends where it is.  No retry before the next tick.
RunFails(r) == /\ pc[r] # "idle"
               /\ Goto(r, "idle")
               /\ Fault
               /\ UNCHANGED <<orgVars, watermark, from, upper, rows, sent, published>>

Proceed(r) == \/ ReadServerTime(r)
              \/ QueryAll(r)
              \/ PublishChunk(r)
              \/ SetWatermark(r)
              \/ GiveUp(r)

Next == \/ Tick
        \/ \E d \in Deals : Write(d) \/ Commit(d) \/ Delete(d)
        \/ \E r \in Runs : \/ ReadWatermark(r)
                           \/ Proceed(r)
                           \/ PublishError(r)
                           \/ PublishPartly(r)
                           \/ RunFails(r)

Spec == Init /\ [][Next]_vars

\* The clock runs, transactions end, the scheduler starts runs, and a run goes
\* on unless it fails; failures are finitely many (MaxFaults).
Fairness == /\ WF_vars(Tick)
            /\ \A d \in Deals : WF_vars(Commit(d))
            /\ \A r \in Runs : WF_vars(ReadWatermark(r)) /\ WF_vars(Proceed(r))

FairSpec == Spec /\ Fairness
-----------------------------------------------------------------------------
TypeOK == /\ now \in Nat
          /\ deals \in [Deals -> Rows \cup {NoRow}]
          /\ open \in [Deals -> Rows \cup {NoRow}]
          /\ edits \in 0..MaxEdits
          /\ watermark \in Nat
          /\ pc \in [Runs -> {"idle", "time", "query", "publish", "failed"}]
          /\ from \in [Runs -> Nat]
          /\ upper \in [Runs -> Int]
          /\ rows \in [Runs -> Seq(Rows)]
          /\ sent \in [Runs -> Nat]
          /\ published \subseteq Rows
          /\ faults \in 0..MaxFaults

\* Every won deal stamped before t has been published as it stands.
PublishedUpTo(t) == \A d \in Deals : /\ deals[d] # NoRow
                                     /\ deals[d].won
                                     /\ Start <= deals[d].stamp
                                     /\ deals[d].stamp < t
                                     => deals[d] \in published

\* Nothing unsent is ever skipped (poller.go:110-113): a won deal whose stamp is
\* behind the watermark has been published as it stands, through partial sends,
\* lost replies, crashes, overlapping runs and transactions that commit late.
NothingSkipped == PublishedUpTo(watermark)

\* What a run read is still right when it is used (poller.go:61-69): whatever
\* was committed or deleted and however far other runs have moved the watermark
\* since, no won deal of its window is missing from its rows, and none before
\* its window is unpublished.
SnapshotStaysComplete ==
    \A r \in Runs : pc[r] \in {"publish", "failed"} =>
       /\ PublishedUpTo(from[r])
       /\ Window(from[r], upper[r]) \subseteq At(r, DOMAIN rows[r])

\* "Because the poller stays 2 minutes behind, it always reads a second's final
\* state" (README.md:187-190): two published versions of a deal with one stamp
\* are the same, and so is the deal as it stands if it still has that stamp.
ReadsFinalState ==
    \A row \in published :
       /\ \A other \in published :
             other.deal = row.deal /\ other.stamp = row.stamp => other = row
       /\ deals[row.deal] # NoRow /\ deals[row.deal].stamp = row.stamp
             => deals[row.deal] = row
       /\ open[row.deal] # NoRow => open[row.deal].stamp # row.stamp

\* Half-open windows tile time: while nothing fails and runs do not overlap, no
\* version is published twice (poller.go:61-69 and 82).
PublishesOnce ==
    [][(\A q, r \in Runs : q = r) /\ faults' = 0 =>
         \A r \in Runs :
            sent'[r] > sent[r] => At(r, Chunk(r)) \cap published = {}]_vars

\* A won deal whose stamp falls behind the clock by more than the lag is
\* published in the end, or is edited again first.
EventuallyPublished ==
    \A d \in Deals : \A t \in 0..MaxTime : \A n \in 1..MaxEdits :
       LET row == [deal |-> d, stamp |-> t, won |-> TRUE, rev |-> n] IN
       Start <= t /\ t + Lag < MaxTime =>
          ((deals[d] = row) ~> (row \in published \/ deals[d] # row))
=============================================================================
