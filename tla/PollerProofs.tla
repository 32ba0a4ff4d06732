---------------------------- MODULE PollerProofs ----------------------------
(***************************************************************************)
(* Proofs about Poller, for any deals, overlapping runs, lag and bounds.   *)
(***************************************************************************)
EXTENDS Poller, FiniteSetTheorems, TLAPS

\* The stamps of the org: a version is stamped before now, and one that is not
\* committed yet is at most CommitDelay old.
OrgInv == \A d \in Deals :
             /\ deals[d] # NoRow => deals[d].deal = d /\ deals[d].stamp <= now
             /\ open[d] # NoRow => /\ open[d].deal = d
                                   /\ open[d].stamp <= now
                                   /\ now <= open[d].stamp + CommitDelay

\* A time before which no transaction can commit a version any more, or before
\* which nothing is asked for.
Past(t) == t = Start \/ t + Lag <= now

\* What a run knows: its window starts at a watermark; it is not empty and in
\* the past; its rows cover it, in order; those counted as sent are published.
FromInv(r) == Past(from[r]) /\ PublishedUpTo(from[r])
UpperInv(r) == from[r] < upper[r] /\ upper[r] + Lag <= now
RowsInv(r) == /\ Window(from[r], upper[r]) \subseteq At(r, DOMAIN rows[r])
              /\ Sorted(rows[r])
              /\ \A i \in DOMAIN rows[r] : /\ from[r] <= rows[r][i].stamp
                                           /\ rows[r][i].stamp < upper[r]
SentInv(r) == sent[r] <= Len(rows[r]) /\ At(r, 1..sent[r]) \subseteq published

WindowInv(r) ==
    /\ pc[r] # "idle" => FromInv(r)
    /\ pc[r] \in {"query", "publish", "failed"} => UpperInv(r)
    /\ pc[r] \in {"publish", "failed"} => RowsInv(r) /\ SentInv(r)
    /\ pc[r] = "failed" => sent[r] < Len(rows[r])

\* Every version that a run has read, or that was published, is the last one
\* with its stamp.
Read == published \cup UNION {At(r, DOMAIN rows[r]) : r \in Runs}
Final(row) == /\ row.stamp + Lag < now
              /\ \A other \in Read : other.deal = row.deal /\ other.stamp = row.stamp
                                        => other = row
              /\ deals[row.deal] # NoRow /\ deals[row.deal].stamp = row.stamp
                                        => deals[row.deal] = row

Inv == /\ TypeOK
       /\ OrgInv
       /\ Past(watermark)
       /\ NothingSkipped
       /\ \A r \in Runs : WindowInv(r)
       /\ \A row \in Read : Final(row)
-----------------------------------------------------------------------------
LEMMA InitInv == Init => Inv
BY PollerAssumption, NoRowIsNotARow
   DEF Init, Inv, TypeOK, OrgInv, Past, NothingSkipped, PublishedUpTo, WindowInv, Read, At

\* What a run has read is a finite sequence of versions.
LEMMA RowsAreASequence ==
  ASSUME TypeOK, NEW r \in Runs
  PROVE  /\ Len(rows[r]) \in Nat
         /\ DOMAIN rows[r] = 1..Len(rows[r])
         /\ \A i \in 1..Len(rows[r]) : rows[r][i] \in Rows
BY DEF TypeOK

\* The next chunk: the positions after those sent, as far as there are rows.
LEMMA ChunkBounds ==
  ASSUME TypeOK, NEW r \in Runs, sent[r] < Len(rows[r])
  PROVE  /\ ChunkEnd(r) \in Nat
         /\ sent[r] < ChunkEnd(r)
         /\ ChunkEnd(r) <= Len(rows[r])
         /\ Chunk(r) \subseteq DOMAIN rows[r]
BY RowsAreASequence, PollerAssumption DEF TypeOK, ChunkEnd, Chunk

LEMMA ChunkMember ==
  ASSUME TypeOK, NEW r \in Runs, NEW i \in Chunk(r)
  PROVE  /\ sent[r] < Len(rows[r])
         /\ i \in Nat \ {0} /\ sent[r] < i /\ i <= ChunkEnd(r)
<1>1. sent[r] \in Nat /\ Len(rows[r]) \in Nat /\ ChunkSize \in Nat
  BY RowsAreASequence, PollerAssumption DEF TypeOK
<1>2. ChunkEnd(r) \in Nat
  BY <1>1 DEF ChunkEnd
<1>3. i \in Int /\ sent[r] + 1 <= i /\ i <= ChunkEnd(r)
  BY <1>1, <1>2 DEF Chunk
<1>. QED
  BY <1>1, <1>2, <1>3 DEF ChunkEnd

LEMMA FaultType ==
  ASSUME TypeOK, Fault
  PROVE  faults' \in 0..MaxFaults
BY PollerAssumption DEF TypeOK, Fault

LEMMA GotoType ==
  ASSUME TypeOK, NEW r \in Runs,
         NEW label \in {"idle", "time", "query", "publish", "failed"}, Goto(r, label)
  PROVE  pc' \in [Runs -> {"idle", "time", "query", "publish", "failed"}]
BY DEF TypeOK, Goto

\* A window is a finite set of versions.
LEMMA WindowIsFinite ==
  ASSUME TypeOK, NEW lo, NEW hi
  PROVE  /\ Window(lo, hi) \subseteq Rows
         /\ IsFiniteSet(Window(lo, hi))
         /\ Cardinality(Window(lo, hi)) \in Nat
<1> DEFINE D == {c \in Deals : /\ deals[c] # NoRow
                               /\ deals[c].won
                               /\ deals[c].stamp >= lo
                               /\ deals[c].stamp < hi}
<1>1. IsFiniteSet(D)
  BY PollerAssumption, FS_Subset
<1>2. IsFiniteSet({deals[d] : d \in D})
  <2> DEFINE f == [d \in D |-> deals[d]]
  <2>1. f \in Surjection(D, {deals[d] : d \in D})
    BY DEF Surjection
  <2>. QED
    BY <1>1, <2>1, FS_Surjection
<1>3. Window(lo, hi) \subseteq Rows
  BY DEF TypeOK, Window
<1>. QED
  BY <1>2, <1>3, FS_CardinalityType DEF Window

LEMMA ListingIsASequence ==
  ASSUME TypeOK, NEW lo, NEW hi, NEW f \in Listing(Window(lo, hi))
  PROVE  /\ f \in Seq(Rows)
         /\ Sorted(f)
         /\ \A i \in DOMAIN f : f[i] \in Window(lo, hi)
         /\ \A row \in Window(lo, hi) : \E i \in DOMAIN f : f[i] = row
<1>1. PICK n \in Nat : n = Cardinality(Window(lo, hi))
  BY WindowIsFinite
<1>2. f \in [1..n -> Window(lo, hi)]
  BY <1>1 DEF Listing
<1>3. f \in [1..n -> Rows]
  BY <1>2, WindowIsFinite
<1>4. f \in Seq(Rows)
  BY <1>3
<1>. QED
  BY <1>2, <1>4 DEF Listing
-----------------------------------------------------------------------------
\* Where the watermark goes is inside the window.
LEMMA TargetBounds ==
  ASSUME TypeOK, NEW r \in Runs, WindowInv(r), Moves(r)
  PROVE  /\ Target(r) \in Nat
         /\ Target(r) <= upper[r]
<1>1. /\ from[r] \in Nat /\ upper[r] \in Int /\ sent[r] \in Nat
      /\ from[r] < upper[r]
  BY DEF TypeOK, Moves, WindowInv, UpperInv
<1>2. CASE pc[r] = "publish"
  BY <1>1, <1>2 DEF Target
<1>3. CASE pc[r] # "publish"
  <2>1. sent[r] + 1 \in DOMAIN rows[r] /\ RowsInv(r)
    BY <1>1, <1>3, RowsAreASequence DEF Moves, WindowInv
  <2>2. rows[r][sent[r] + 1] \in Rows /\ rows[r][sent[r] + 1].stamp < upper[r]
    BY <2>1, RowsAreASequence DEF RowsInv
  <2>3. rows[r][sent[r] + 1].stamp \in Nat
    BY <2>2 DEF Rows
  <2>. QED
    BY <1>1, <1>3, <2>2, <2>3 DEF Target
<1>. QED
  BY <1>2, <1>3

\* Type correctness needs the rest of the invariant: a watermark is a number
\* because a window is never empty.
LEMMA TypeStep == Inv /\ [Next]_vars => TypeOK'
<1> SUFFICES ASSUME Inv, [Next]_vars PROVE TypeOK'
  OBVIOUS
<1> USE DEF Inv, TypeOK
<1>1. ASSUME Tick PROVE TypeOK'
  BY <1>1 DEF Tick, runVars
<1>2. ASSUME NEW d \in Deals, Write(d) PROVE TypeOK'
  BY <1>2, PollerAssumption DEF Write, Rows, runVars
<1>3. ASSUME NEW d \in Deals, Commit(d) \/ Delete(d) PROVE TypeOK'
  BY <1>3 DEF Commit, Delete, runVars
<1>4. ASSUME NEW r \in Runs, ReadWatermark(r) PROVE TypeOK'
  BY <1>4 DEF ReadWatermark, Goto, orgVars
<1>5. ASSUME NEW r \in Runs, ReadServerTime(r) PROVE TypeOK'
  BY <1>5, PollerAssumption DEF ReadServerTime, Goto, orgVars
<1>6. ASSUME NEW r \in Runs, QueryAll(r) PROVE TypeOK'
  <2>1. PICK f \in Listing(Window(from[r], upper[r])) : rows' = [rows EXCEPT ![r] = f]
    BY <1>6 DEF QueryAll
  <2>2. f \in Seq(Rows)
    BY ListingIsASequence
  <2>. QED
    BY <1>6, <2>1, <2>2 DEF QueryAll, Goto, orgVars
<1>7. ASSUME NEW r \in Runs, PublishChunk(r) PROVE TypeOK'
  BY <1>7, ChunkBounds, RowsAreASequence DEF PublishChunk, At, orgVars
<1>8. ASSUME NEW r \in Runs, PublishError(r) PROVE TypeOK'
  <2>1. published' \subseteq Rows
    BY <1>8, ChunkBounds, RowsAreASequence DEF PublishError, At
  <2>. QED
    BY <1>8, <2>1, FaultType, GotoType DEF PublishError, orgVars
<1>9. ASSUME NEW r \in Runs, PublishPartly(r) PROVE TypeOK'
  <2>1. PICK failed \in SUBSET Chunk(r) :
           /\ failed # {}
           /\ published' = published \cup At(r, Chunk(r) \ failed)
           /\ \E first \in failed : /\ \A i \in failed : first <= i
                                    /\ sent' = [sent EXCEPT ![r] = first - 1]
    BY <1>9 DEF PublishPartly
  <2>2. sent[r] < Len(rows[r])
    BY <2>1, ChunkMember
  <2>3. published' \subseteq Rows
    BY <2>1, <2>2, ChunkBounds, RowsAreASequence DEF At
  <2>4. \A i \in Chunk(r) : i - 1 \in Nat
    BY ChunkMember
  <2>5. sent' \in [Runs -> Nat]
    BY <2>1, <2>4
  <2>. QED
    BY <1>9, <2>3, <2>5, FaultType, GotoType DEF PublishPartly, orgVars
<1>10. ASSUME NEW r \in Runs, SetWatermark(r) PROVE TypeOK'
  <2>1. Target(r) \in Nat
    BY <1>10, TargetBounds DEF SetWatermark
  <2>. QED
    BY <1>10, <2>1, GotoType DEF SetWatermark, orgVars
<1>11. ASSUME NEW r \in Runs, GiveUp(r) PROVE TypeOK'
  BY <1>11, GotoType DEF GiveUp, orgVars
<1>12. ASSUME NEW r \in Runs, RunFails(r) PROVE TypeOK'
  BY <1>12, GotoType, FaultType DEF RunFails, orgVars
<1>13. CASE UNCHANGED vars
  BY <1>13 DEF vars, orgVars, runVars
<1>. QED
  BY <1>1, <1>2, <1>3, <1>4, <1>5, <1>6, <1>7, <1>8, <1>9, <1>10, <1>11, <1>12, <1>13
     DEF Next, Proceed
-----------------------------------------------------------------------------
\* Whatever a step makes visible in the org is at most CommitDelay old, and
\* nothing that was published is taken back.
LEMMA OrgStep ==
  ASSUME Inv, [Next]_vars
  PROVE  /\ now' \in Nat /\ now <= now'
         /\ \A d \in Deals : \/ deals'[d] = deals[d]
                             \/ deals'[d] = NoRow
                             \/ /\ deals'[d].stamp \in Nat
                                /\ deals'[d].deal = d
                                /\ now <= deals'[d].stamp + CommitDelay
<1> DEFINE Goal == /\ now' \in Nat /\ now <= now'
                   /\ \A d \in Deals : \/ deals'[d] = deals[d]
                                       \/ deals'[d] = NoRow
                                       \/ /\ deals'[d].stamp \in Nat
                                          /\ deals'[d].deal = d
                                          /\ now <= deals'[d].stamp + CommitDelay
<1> USE DEF Inv, TypeOK, OrgInv
<1>1. ASSUME UNCHANGED <<now, deals>> PROVE Goal
  BY <1>1
<1>2. ASSUME Tick PROVE Goal
  BY <1>2 DEF Tick
<1>3. ASSUME NEW d \in Deals, Commit(d) PROVE Goal
  BY <1>3 DEF Commit, Rows
<1>4. ASSUME NEW d \in Deals, Delete(d) PROVE Goal
  BY <1>4 DEF Delete
<1> HIDE DEF Goal
<1>5. Goal
  BY <1>1, <1>2, <1>3, <1>4 DEF Next, Proceed, vars, orgVars, Write, ReadWatermark,
     ReadServerTime, QueryAll, PublishChunk, PublishError, PublishPartly, SetWatermark,
     GiveUp, RunFails
<1>. QED
  BY <1>5 DEF Goal

LEMMA OrgInvStep == Inv /\ [Next]_vars => OrgInv'
<1> SUFFICES ASSUME Inv, [Next]_vars PROVE OrgInv'
  OBVIOUS
<1> USE DEF Inv, TypeOK, OrgInv
<1>1. ASSUME UNCHANGED <<now, deals, open>> PROVE OrgInv'
  BY <1>1
<1>2. ASSUME Tick PROVE OrgInv'
  BY <1>2, PollerAssumption DEF Tick, Rows
<1>3. ASSUME NEW d \in Deals, Write(d) PROVE OrgInv'
  BY <1>3, PollerAssumption DEF Write
<1>4. ASSUME NEW d \in Deals, Commit(d) PROVE OrgInv'
  BY <1>4 DEF Commit
<1>5. ASSUME NEW d \in Deals, Delete(d) PROVE OrgInv'
  BY <1>5 DEF Delete
<1>. QED
  BY <1>1, <1>2, <1>3, <1>4, <1>5 DEF Next, Proceed, vars, orgVars, ReadWatermark,
     ReadServerTime, QueryAll, PublishChunk, PublishError, PublishPartly, SetWatermark,
     GiveUp, RunFails

LEMMA PublishedGrows ==
  ASSUME [Next]_vars
  PROVE  published \subseteq published'
BY DEF Next, Proceed, vars, Tick, Write, Commit, Delete, ReadWatermark, ReadServerTime,
   QueryAll, PublishChunk, PublishError, PublishPartly, SetWatermark, GiveUp, RunFails

\* The past stays past, and no step adds anything to it that is not published.
LEMMA PastStays ==
  ASSUME Inv, [Next]_vars, NEW t \in Nat, Past(t)
  PROVE  /\ Past(t)'
         /\ PublishedUpTo(t) => PublishedUpTo(t)'
<1>1. Past(t)'
  BY OrgStep, PollerAssumption DEF Past, Inv, TypeOK
<1>2. ASSUME PublishedUpTo(t), NEW d \in Deals, deals'[d] # NoRow, deals'[d].won,
             Start <= deals'[d].stamp, deals'[d].stamp < t
      PROVE  deals'[d] \in published'
  <2>1. deals'[d] = deals[d]
    BY <1>2, OrgStep, PollerAssumption DEF Past, Inv, TypeOK
  <2>. QED
    BY <1>2, <2>1, PublishedGrows DEF PublishedUpTo
<1>. QED
  BY <1>1, <1>2 DEF PublishedUpTo

LEMMA WindowShrinks ==
  ASSUME Inv, [Next]_vars, NEW lo \in Nat, NEW hi \in Int, hi + Lag <= now
  PROVE  Window(lo, hi)' \subseteq Window(lo, hi)
<1> SUFFICES ASSUME NEW d \in Deals, deals'[d] # NoRow, deals'[d].won,
                    deals'[d].stamp >= lo, deals'[d].stamp < hi
             PROVE  deals'[d] = deals[d]
  BY DEF Window
<1>. QED
  BY OrgStep, PollerAssumption DEF Inv, TypeOK
-----------------------------------------------------------------------------
\* What is published was read before; only a query reads.
LEMMA ReadSteps ==
  ASSUME Inv, [Next]_vars
  PROVE  \/ Read' \subseteq Read
         \/ \E r \in Runs : /\ pc[r] = "query"
                            /\ UNCHANGED <<now, deals>>
                            /\ Read' \subseteq Read \cup Window(from[r], upper[r])
<1> USE DEF Inv, TypeOK
<1>1. ASSUME UNCHANGED rows,
             \/ UNCHANGED published
             \/ \E r \in Runs : published' \subseteq published \cup At(r, DOMAIN rows[r])
      PROVE  Read' \subseteq Read
  BY <1>1 DEF Read, At
<1>2. ASSUME NEW r \in Runs, PublishChunk(r) PROVE Read' \subseteq Read
  BY <1>1, <1>2, ChunkBounds DEF PublishChunk, At
<1>3. ASSUME NEW r \in Runs, PublishError(r) PROVE Read' \subseteq Read
  BY <1>1, <1>3, ChunkBounds DEF PublishError, At
<1>4. ASSUME NEW r \in Runs, PublishPartly(r) PROVE Read' \subseteq Read
  <2>1. sent[r] < Len(rows[r])
    BY <1>4, ChunkMember DEF PublishPartly
  <2>. QED
    BY <1>1, <1>4, <2>1, ChunkBounds DEF PublishPartly, At
<1>5. ASSUME NEW r \in Runs, QueryAll(r)
      PROVE  /\ pc[r] = "query" /\ UNCHANGED <<now, deals>>
             /\ Read' \subseteq Read \cup Window(from[r], upper[r])
  <2>1. PICK f \in Listing(Window(from[r], upper[r])) : rows' = [rows EXCEPT ![r] = f]
    BY <1>5 DEF QueryAll
  <2>2. \A q \in Runs : At(q, DOMAIN rows[q])'
                           \subseteq At(q, DOMAIN rows[q]) \cup Window(from[r], upper[r])
    <3> SUFFICES ASSUME NEW q \in Runs
                 PROVE  At(q, DOMAIN rows[q])'
                           \subseteq At(q, DOMAIN rows[q]) \cup Window(from[r], upper[r])
      OBVIOUS
    <3>1. CASE q = r
      <4>1. rows'[q] = f
        BY <2>1, <3>1
      <4>. QED
        BY <4>1, ListingIsASequence DEF At
    <3>2. CASE q # r
      BY <2>1, <3>2 DEF At
    <3>. QED
      BY <3>1, <3>2
  <2>. QED
    BY <1>5, <2>2 DEF QueryAll, Read, orgVars
<1>. QED
  BY <1>1, <1>2, <1>3, <1>4, <1>5 DEF Next, Proceed, vars, runVars, Tick, Write, Commit,
     Delete, ReadWatermark, ReadServerTime, SetWatermark, GiveUp, RunFails

LEMMA FinalStep ==
  ASSUME Inv, [Next]_vars, NEW row \in Read'
  PROVE  Final(row)'
<1>1. /\ Read \subseteq Rows
      /\ \A r \in Runs : Window(from[r], upper[r]) \subseteq Rows
  BY RowsAreASequence, WindowIsFinite DEF Read, At, Inv, TypeOK
<1>2. ASSUME NEW r \in Runs, pc[r] = "query", NEW new \in Window(from[r], upper[r])
      PROVE  new.deal \in Deals /\ new = deals[new.deal] /\ new.stamp + Lag < now
  BY <1>2, PollerAssumption DEF Window, WindowInv, UpperInv, OrgInv, Rows, Inv, TypeOK
<1>3. \A old \in Read : Final(old)
  BY DEF Inv
<1>4. now \in Nat /\ now' \in Nat /\ now <= now'
  BY OrgStep DEF Inv, TypeOK
<1>5. row.deal \in Deals /\ row.stamp \in Nat /\ row.stamp + Lag < now
  BY <1>1, <1>2, <1>3, ReadSteps DEF Final, Rows
<1>6. row.stamp + Lag < now'
  BY <1>4, <1>5, PollerAssumption
<1>7. CASE Read' \subseteq Read
  <2>1. ASSUME deals'[row.deal] # NoRow, deals'[row.deal].stamp = row.stamp
        PROVE  deals'[row.deal] = row
    <3>1. deals'[row.deal] = deals[row.deal]
      BY <1>4, <1>5, <2>1, OrgStep, PollerAssumption
    <3>. QED
      BY <1>3, <1>7, <2>1, <3>1 DEF Final
  <2>. QED
    BY <1>3, <1>6, <1>7, <2>1 DEF Final
<1>8. ASSUME NEW r \in Runs, pc[r] = "query", UNCHANGED deals,
             Read' \subseteq Read \cup Window(from[r], upper[r])
      PROVE  Final(row)'
  <2>1. ASSUME NEW other \in Read', other.deal = row.deal, other.stamp = row.stamp
        PROVE  other = row
    <3>1. CASE other \in Read /\ row \in Read
      BY <1>3, <2>1, <3>1 DEF Final
    <3>2. CASE other \in Read /\ row \notin Read
      <4>1. row = deals[row.deal] /\ row \in Rows
        BY <1>1, <1>2, <1>8, <3>2
      <4>. QED
        BY <1>3, <2>1, <3>2, <4>1, NoRowIsNotARow DEF Final
    <3>3. CASE other \notin Read /\ row \in Read
      <4>1. other = deals[other.deal] /\ other \in Rows
        BY <1>1, <1>2, <1>8, <3>3
      <4>. QED
        BY <1>3, <2>1, <3>3, <4>1, NoRowIsNotARow DEF Final
    <3>4. CASE other \notin Read /\ row \notin Read
      BY <1>2, <1>8, <2>1, <3>4
    <3>. QED
      BY <3>1, <3>2, <3>3, <3>4
  <2>2. ASSUME deals[row.deal] # NoRow, deals[row.deal].stamp = row.stamp
        PROVE  deals[row.deal] = row
    BY <1>2, <1>3, <1>8, <2>2 DEF Final
  <2>. QED
    BY <1>6, <1>8, <2>1, <2>2 DEF Final
<1>. QED
  BY <1>7, <1>8, ReadSteps
-----------------------------------------------------------------------------
\* What a run knows stays true while others, and the org, take their steps.
LEMMA FromStays ==
  ASSUME Inv, [Next]_vars, NEW r \in Runs, FromInv(r), UNCHANGED from[r]
  PROVE  FromInv(r)'
<1>1. PICK t \in Nat : t = from[r]
  BY DEF Inv, TypeOK
<1>2. Past(t)' /\ PublishedUpTo(t)'
  BY <1>1, PastStays DEF FromInv
<1>. QED
  BY <1>1, <1>2 DEF FromInv, Past, PublishedUpTo

LEMMA UpperStays ==
  ASSUME Inv, [Next]_vars, NEW r \in Runs, UpperInv(r), UNCHANGED <<from[r], upper[r]>>
  PROVE  UpperInv(r)'
<1>1. upper[r] \in Int /\ now \in Nat /\ now' \in Nat /\ now <= now'
  BY OrgStep DEF Inv, TypeOK
<1>. QED
  BY <1>1, PollerAssumption DEF UpperInv

LEMMA RowsStay ==
  ASSUME Inv, [Next]_vars, NEW r \in Runs, UpperInv(r), RowsInv(r),
         UNCHANGED <<from[r], upper[r], rows[r]>>
  PROVE  RowsInv(r)'
<1>1. PICK lo \in Nat, hi \in Int : lo = from[r] /\ hi = upper[r]
  BY DEF Inv, TypeOK
<1>2. Window(lo, hi)' \subseteq Window(lo, hi)
  BY <1>1, WindowShrinks DEF UpperInv
<1>3. Window(from[r], upper[r])' = Window(lo, hi)'
  BY <1>1 DEF Window
<1>4. At(r, DOMAIN rows[r])' = At(r, DOMAIN rows[r])
  BY DEF At
<1>. QED
  BY <1>1, <1>2, <1>3, <1>4 DEF RowsInv, Sorted

LEMMA SentStays ==
  ASSUME Inv, [Next]_vars, NEW r \in Runs, SentInv(r), UNCHANGED <<rows[r], sent[r]>>
  PROVE  SentInv(r)'
<1>1. At(r, 1..sent[r])' = At(r, 1..sent[r])
  BY DEF At
<1>. QED
  BY <1>1, PublishedGrows DEF SentInv

LEMMA WindowStays ==
  ASSUME Inv, [Next]_vars, NEW r \in Runs,
         UNCHANGED <<pc[r], from[r], upper[r], rows[r], sent[r]>>
  PROVE  WindowInv(r)'
BY FromStays, UpperStays, RowsStay, SentStays DEF Inv, WindowInv

\* Publishing and counting: the positions up to the new count are published.
LEMMA SentMoves ==
  ASSUME Inv, [Next]_vars, NEW r \in Runs, SentInv(r), UNCHANGED rows[r],
         sent'[r] \in Nat, sent'[r] <= Len(rows[r]),
         \A i \in (sent[r] + 1)..sent'[r] : rows[r][i] \in published'
  PROVE  SentInv(r)'
<1>1. sent[r] \in Nat
  BY DEF Inv, TypeOK
<1>2. \A i \in 1..sent'[r] : rows[r][i] \in published'
  BY <1>1, PublishedGrows DEF SentInv, At
<1>3. At(r, 1..sent[r])' \subseteq published'
  BY <1>2 DEF At
<1>. QED
  BY <1>3 DEF SentInv
-----------------------------------------------------------------------------
\* A step of run q leaves what the other runs know as it is; so does the org.
Elsewhere(q) == \A r \in Runs \ {q} :
                   UNCHANGED <<pc[r], from[r], upper[r], rows[r], sent[r]>>

LEMMA WindowStep ==
  ASSUME Inv, [Next]_vars, NEW r \in Runs
  PROVE  WindowInv(r)'
<1>0. TypeOK /\ WindowInv(r)
  BY DEF Inv
<1>1. ASSUME UNCHANGED runVars PROVE WindowInv(r)'
  BY <1>1, WindowStays DEF runVars
<1>2. ASSUME NEW q \in Runs, Elsewhere(q), q # r PROVE WindowInv(r)'
  BY <1>2, WindowStays DEF Elsewhere
<1>3. ASSUME NEW q \in Runs, ReadWatermark(q) PROVE WindowInv(r)'
  <2>1. CASE q = r
    <3>1. pc'[r] = "time" /\ from'[r] = watermark /\ UNCHANGED <<now, deals, published>>
      BY <1>0, <1>3, <2>1 DEF ReadWatermark, Goto, orgVars, TypeOK
    <3>2. FromInv(r)'
      BY <3>1 DEF FromInv, Past, NothingSkipped, PublishedUpTo, Inv
    <3>. QED
      BY <3>1, <3>2 DEF WindowInv
  <2>2. CASE q # r
    BY <1>0, <1>2, <1>3, <2>2 DEF ReadWatermark, Goto, Elsewhere, TypeOK
  <2>. QED
    BY <2>1, <2>2
<1>4. ASSUME NEW q \in Runs, ReadServerTime(q) PROVE WindowInv(r)'
  <2>1. CASE q = r
    <3>1. /\ FromInv(r) /\ UNCHANGED <<from[r], now>> /\ upper'[r] = now - Lag
          /\ pc'[r] = IF now - Lag > from[r] THEN "query" ELSE "idle"
      BY <1>0, <1>4, <2>1 DEF ReadServerTime, Goto, WindowInv, orgVars, TypeOK
    <3>2. FromInv(r)'
      BY <3>1, FromStays
    <3>3. pc'[r] = "query" => UpperInv(r)'
      BY <1>0, <3>1, PollerAssumption DEF UpperInv, TypeOK
    <3>. QED
      BY <3>1, <3>2, <3>3 DEF WindowInv
  <2>2. CASE q # r
    BY <1>0, <1>2, <1>4, <2>2 DEF ReadServerTime, Goto, Elsewhere, TypeOK
  <2>. QED
    BY <2>1, <2>2
<1>5. ASSUME NEW q \in Runs, QueryAll(q) PROVE WindowInv(r)'
  <2>1. CASE q = r
    <3>1. PICK f \in Listing(Window(from[r], upper[r])) : rows' = [rows EXCEPT ![r] = f]
      BY <1>5, <2>1 DEF QueryAll
    <3>2. /\ FromInv(r) /\ UpperInv(r) /\ UNCHANGED <<from[r], upper[r], deals>>
          /\ pc'[r] = "publish" /\ sent'[r] = 0 /\ rows'[r] = f
      BY <1>0, <1>5, <2>1, <3>1 DEF QueryAll, Goto, WindowInv, orgVars, TypeOK
    <3>3. FromInv(r)' /\ UpperInv(r)'
      BY <3>2, FromStays, UpperStays
    <3>4. Window(from[r], upper[r])' = Window(from[r], upper[r])
      BY <3>2 DEF Window
    <3>5. /\ Sorted(f) /\ f \in Seq(Rows)
          /\ \A i \in DOMAIN f : f[i] \in Window(from[r], upper[r])
          /\ \A row \in Window(from[r], upper[r]) : \E i \in DOMAIN f : f[i] = row
      BY <1>0, ListingIsASequence
    <3>6. \A row \in Window(from[r], upper[r]) : from[r] <= row.stamp /\ row.stamp < upper[r]
      BY DEF Window
    <3>7. RowsInv(r)'
      BY <3>2, <3>4, <3>5, <3>6 DEF RowsInv, At, Sorted
    <3>8. SentInv(r)'
      BY <3>2, <3>5 DEF SentInv, At
    <3>. QED
      BY <3>2, <3>3, <3>7, <3>8 DEF WindowInv
  <2>2. CASE q # r
    BY <1>0, <1>2, <1>5, <2>2 DEF QueryAll, Goto, Elsewhere, TypeOK
  <2>. QED
    BY <2>1, <2>2
\* The three ways to publish keep the window and its rows.
<1>6. ASSUME pc[r] = "publish", UNCHANGED <<from[r], upper[r], rows[r]>>,
             SentInv(r)', pc'[r] \in {"publish", "failed"},
             pc'[r] = "failed" => sent'[r] < Len(rows[r])
      PROVE  WindowInv(r)'
  BY <1>0, <1>6, FromStays, UpperStays, RowsStay DEF WindowInv
<1>7. ASSUME NEW q \in Runs, PublishChunk(q) PROVE WindowInv(r)'
  <2>1. CASE q = r
    <3>1. /\ pc[r] = "publish" /\ pc'[r] = "publish" /\ sent[r] < Len(rows[r])
          /\ sent'[r] = ChunkEnd(r) /\ UNCHANGED <<from[r], upper[r], rows[r]>>
          /\ published' = published \cup At(r, Chunk(r))
      BY <1>0, <1>7, <2>1 DEF PublishChunk, TypeOK
    <3>2. SentInv(r)'
      BY <1>0, <3>1, ChunkBounds, SentMoves DEF WindowInv, At, Chunk
    <3>. QED
      BY <1>6, <3>1, <3>2
  <2>2. CASE q # r
    BY <1>0, <1>2, <1>7, <2>2 DEF PublishChunk, Elsewhere, TypeOK
  <2>. QED
    BY <2>1, <2>2
<1>8. ASSUME NEW q \in Runs, PublishError(q) PROVE WindowInv(r)'
  <2>1. CASE q = r
    <3>1. /\ pc[r] = "publish" /\ pc'[r] = "failed" /\ sent[r] < Len(rows[r])
          /\ UNCHANGED <<from[r], upper[r], rows[r], sent[r]>>
      BY <1>0, <1>8, <2>1 DEF PublishError, Goto, TypeOK
    <3>2. SentInv(r)'
      BY <1>0, <3>1, SentStays DEF WindowInv
    <3>. QED
      BY <1>6, <3>1, <3>2
  <2>2. CASE q # r
    BY <1>0, <1>2, <1>8, <2>2 DEF PublishError, Goto, Elsewhere, TypeOK
  <2>. QED
    BY <2>1, <2>2
<1>9. ASSUME NEW q \in Runs, PublishPartly(q) PROVE WindowInv(r)'
  <2>1. CASE q = r
    <3>0. PICK failed \in SUBSET Chunk(r) :
             /\ published' = published \cup At(r, Chunk(r) \ failed)
             /\ \E first \in failed : /\ \A i \in failed : first <= i
                                      /\ sent' = [sent EXCEPT ![r] = first - 1]
      BY <1>9, <2>1 DEF PublishPartly
    <3>1. PICK first \in failed : /\ \A i \in failed : first <= i
                                  /\ sent' = [sent EXCEPT ![r] = first - 1]
      BY <3>0
    <3>2. /\ pc[r] = "publish" /\ pc'[r] = "failed"
          /\ UNCHANGED <<from[r], upper[r], rows[r]>>
          /\ sent'[r] = first - 1
      BY <1>0, <1>9, <2>1, <3>1 DEF PublishPartly, Goto, TypeOK
    <3>3. /\ sent[r] < Len(rows[r]) /\ ChunkEnd(r) \in Nat /\ ChunkEnd(r) <= Len(rows[r])
          /\ first \in Nat \ {0} /\ sent[r] < first /\ first <= ChunkEnd(r)
      <4>1. first \in Chunk(r)
        OBVIOUS
      <4>. QED
        BY <1>0, <4>1, ChunkMember, ChunkBounds
    <3>4. \A i \in (sent[r] + 1)..(first - 1) : i \in Chunk(r) \ failed
      BY <1>0, <3>1, <3>3 DEF Chunk, TypeOK
    <3>5. \A i \in (sent[r] + 1)..sent'[r] : rows[r][i] \in published'
      BY <3>0, <3>2, <3>4 DEF At
    <3>6. sent'[r] \in Nat /\ sent'[r] < Len(rows[r])
      BY <1>0, <3>2, <3>3, RowsAreASequence
    <3>7. SentInv(r)'
      BY <1>0, <3>2, <3>5, <3>6, RowsAreASequence, SentMoves DEF WindowInv
    <3>. QED
      BY <1>6, <3>2, <3>6, <3>7
  <2>2. CASE q # r
    BY <1>0, <1>2, <1>9, <2>2 DEF PublishPartly, Goto, Elsewhere, TypeOK
  <2>. QED
    BY <2>1, <2>2
<1>10. ASSUME NEW q \in Runs, SetWatermark(q) \/ GiveUp(q) \/ RunFails(q)
       PROVE  WindowInv(r)'
  <2>1. CASE q = r
    BY <1>0, <1>10, <2>1 DEF SetWatermark, GiveUp, RunFails, Goto, WindowInv, TypeOK
  <2>2. CASE q # r
    BY <1>0, <1>2, <1>10, <2>2 DEF SetWatermark, GiveUp, RunFails, Goto, Elsewhere, TypeOK
  <2>. QED
    BY <2>1, <2>2
<1>. QED
  BY <1>1, <1>3, <1>4, <1>5, <1>7, <1>8, <1>9, <1>10
     DEF Next, Proceed, vars, Tick, Write, Commit, Delete
-----------------------------------------------------------------------------
\* The watermark only passes what is published.
LEMMA WatermarkStep == Inv /\ [Next]_vars => (Past(watermark) /\ NothingSkipped)'
<1> SUFFICES ASSUME Inv, [Next]_vars PROVE Past(watermark)' /\ NothingSkipped'
  OBVIOUS
<1>1. CASE UNCHANGED watermark
  <2>1. PICK t \in Nat : t = watermark
    BY DEF Inv, TypeOK
  <2>2. Past(t)' /\ PublishedUpTo(t)'
    BY <2>1, PastStays DEF Inv, NothingSkipped
  <2>. QED
    BY <1>1, <2>1, <2>2 DEF Past, NothingSkipped, PublishedUpTo
<1>2. ASSUME NEW r \in Runs, SetWatermark(r) PROVE Past(watermark)' /\ NothingSkipped'
  <2>1. /\ Moves(r) /\ watermark' = Target(r)
        /\ UNCHANGED <<now, deals, published>>
    BY <1>2 DEF SetWatermark, orgVars
  <2>2. /\ FromInv(r) /\ UpperInv(r) /\ RowsInv(r) /\ SentInv(r)
        /\ from[r] \in Nat /\ upper[r] \in Int /\ now \in Nat /\ sent[r] \in Nat
    BY <2>1 DEF Inv, TypeOK, WindowInv, Moves
  <2>3. Target(r) \in Int /\ Target(r) <= upper[r]
    BY <2>1, TargetBounds DEF Inv
  <2>4. Target(r) + Lag <= now
    BY <2>2, <2>3, PollerAssumption DEF UpperInv
  <2>5. \A i \in DOMAIN rows[r] : rows[r][i].stamp < Target(r) => rows[r][i] \in published
    <3> SUFFICES ASSUME NEW i \in DOMAIN rows[r], rows[r][i].stamp < Target(r),
                        i > sent[r]
                 PROVE  FALSE
      BY <2>2, RowsAreASequence DEF SentInv, At, Inv
    <3>1. CASE pc[r] = "publish"
      BY <2>1, <3>1, RowsAreASequence DEF Moves, Inv
    <3>2. CASE pc[r] # "publish"
      <4>1. /\ Len(rows[r]) \in Nat /\ DOMAIN rows[r] = 1..Len(rows[r])
            /\ rows[r][i].stamp \in Nat
        BY RowsAreASequence DEF Inv, Rows
      <4>2. /\ sent[r] + 1 \in DOMAIN rows[r] /\ sent[r] + 1 <= i
            /\ Target(r) = rows[r][sent[r] + 1].stamp
        BY <2>2, <3>2, <4>1 DEF Target
      <4>3. CASE i = sent[r] + 1
        BY <4>1, <4>2, <4>3
      <4>4. CASE sent[r] + 1 < i
        <5>1. rows[r][sent[r] + 1].stamp <= rows[r][i].stamp
          BY <2>2, <4>2, <4>4 DEF RowsInv, Sorted
        <5>. QED
          BY <2>3, <4>1, <4>2, <5>1
      <4>. QED
        BY <2>2, <4>1, <4>2, <4>3, <4>4
    <3>. QED
      BY <3>1, <3>2
  <2>6. ASSUME NEW d \in Deals, deals[d] # NoRow, deals[d].won,
               Start <= deals[d].stamp, deals[d].stamp < Target(r)
        PROVE  deals[d] \in published
    <3>0. deals[d].stamp \in Nat
      BY <2>6 DEF Inv, TypeOK, Rows
    <3>1. CASE deals[d].stamp < from[r]
      BY <2>2, <2>6, <3>1 DEF FromInv, PublishedUpTo
    <3>2. CASE deals[d].stamp >= from[r]
      <4>1. deals[d] \in At(r, DOMAIN rows[r])
        BY <2>2, <2>3, <2>6, <3>0, <3>2 DEF RowsInv, Window
      <4>. QED
        BY <2>5, <2>6, <4>1 DEF At
    <3>. QED
      BY <2>2, <3>0, <3>1, <3>2
  <2>. QED
    BY <2>1, <2>4, <2>6 DEF Past, NothingSkipped, PublishedUpTo
<1>. QED
  BY <1>1, <1>2 DEF Next, Proceed, vars, Tick, Write, Commit, Delete, ReadWatermark,
     ReadServerTime, QueryAll, PublishChunk, PublishError, PublishPartly, GiveUp, RunFails

LEMMA InvariantHolds == Spec => []Inv
<1>1. Inv /\ [Next]_vars => Inv'
  <2> SUFFICES ASSUME Inv, [Next]_vars PROVE Inv'
    OBVIOUS
  <2>1. TypeOK' /\ OrgInv' /\ Past(watermark)' /\ NothingSkipped'
    BY TypeStep, OrgInvStep, WatermarkStep
  <2>2. \A r \in Runs : WindowInv(r)'
    BY WindowStep
  <2>3. \A row \in Read' : Final(row)'
    BY FinalStep
  <2>. QED
    BY <2>1, <2>2, <2>3 DEF Inv
<1>. QED
  BY <1>1, InitInv, PTL DEF Spec

(***************************************************************************)
(* Every state has its type.                                               *)
(***************************************************************************)
THEOREM PollerTypeCorrect == Spec => []TypeOK
<1>1. Inv => TypeOK
  BY DEF Inv
<1>. QED
  BY <1>1, InvariantHolds, PTL

(***************************************************************************)
(* Nothing unsent is ever skipped (poller.go:110-113), however many runs   *)
(* overlap and wherever they fail, as long as no transaction stays open    *)
(* longer than the lag.                                                    *)
(***************************************************************************)
THEOREM NeverSkips == Spec => []NothingSkipped
<1>1. Inv => NothingSkipped
  BY DEF Inv
<1>. QED
  BY <1>1, InvariantHolds, PTL

(***************************************************************************)
(* What a run has read is still complete when it is published and when the *)
(* watermark moves past it (poller.go:61-69).                              *)
(***************************************************************************)
THEOREM SnapshotsStay == Spec => []SnapshotStaysComplete
<1>1. Inv => SnapshotStaysComplete
  BY DEF Inv, WindowInv, FromInv, RowsInv, SnapshotStaysComplete
<1>. QED
  BY <1>1, InvariantHolds, PTL

(***************************************************************************)
(* A second's final state is what is read (README.md:187-190): no version  *)
(* is published while another one with its stamp can still appear.         *)
(***************************************************************************)
THEOREM FinalStateIsRead == Spec => []ReadsFinalState
<1>1. Inv => ReadsFinalState
  <2> SUFFICES ASSUME Inv, NEW row \in published
               PROVE  /\ \A other \in published :
                            other.deal = row.deal /\ other.stamp = row.stamp => other = row
                      /\ deals[row.deal] # NoRow /\ deals[row.deal].stamp = row.stamp
                            => deals[row.deal] = row
                      /\ open[row.deal] # NoRow => open[row.deal].stamp # row.stamp
    BY DEF ReadsFinalState
  <2>1. Final(row) /\ published \subseteq Read
    BY DEF Inv, Read
  <2>2. ASSUME open[row.deal] # NoRow PROVE open[row.deal].stamp # row.stamp
    <3>1. row.deal \in Deals /\ row.stamp \in Nat /\ row.stamp + Lag < now /\ now \in Nat
      BY <2>1 DEF Inv, TypeOK, Rows, Final
    <3>2. open[row.deal].stamp \in Nat /\ now <= open[row.deal].stamp + CommitDelay
      BY <2>2, <3>1 DEF Inv, TypeOK, OrgInv, Rows
    <3>. QED
      BY <3>1, <3>2, PollerAssumption
  <2>. QED
    BY <2>1, <2>2 DEF Final
<1>. QED
  BY <1>1, InvariantHolds, PTL
-----------------------------------------------------------------------------
\* Runs that do not overlap, and have not failed: the window starts where the
\* watermark stands, its rows differ, and what is published is behind the
\* watermark or among the rows that the run has sent so far.
Alone == \A q, r \in Runs : q = r
Distinct(f) == \A i, j \in DOMAIN f : f[i] = f[j] => i = j
OnceInv(r) ==
    /\ pc[r] # "failed"
    /\ pc[r] # "idle" => from[r] = watermark
    /\ pc[r] = "publish" => Distinct(rows[r])
    /\ \A row \in published : \/ row.stamp < watermark
                              \/ pc[r] = "publish" /\ row \in At(r, 1..sent[r])
Once == Alone /\ faults = 0 => \A r \in Runs : OnceInv(r)

\* As many positions as versions, and every version at one: none is listed twice.
LEMMA ListingIsDistinct ==
  ASSUME TypeOK, NEW lo, NEW hi, NEW f \in Listing(Window(lo, hi))
  PROVE  Distinct(f)
<1>1. PICK n \in Nat : n = Cardinality(Window(lo, hi))
  BY WindowIsFinite
<1>2. f \in Surjection(1..n, Window(lo, hi))
  BY <1>1 DEF Listing, Surjection
<1>3. IsFiniteSet(1..n) /\ Cardinality(1..n) = Cardinality(Window(lo, hi))
  BY <1>1, FS_Interval
<1>4. f \in Injection(1..n, Window(lo, hi))
  BY <1>2, <1>3, FS_SurjSameCardinalityImpliesInj
<1>. QED
  BY <1>4 DEF Injection, IsInjective, Distinct

LEMMA FaultsStay ==
  ASSUME Inv, [Next]_vars, faults' = 0
  PROVE  /\ faults = 0
         /\ ~ \E r \in Runs : PublishError(r) \/ PublishPartly(r) \/ RunFails(r)
<1>1. faults \in Nat
  BY DEF Inv, TypeOK
<1>2. ~ Fault
  BY <1>1 DEF Fault
<1>. QED
  BY <1>2 DEF Next, Proceed, vars, runVars, Tick, Write, Commit, Delete, ReadWatermark,
     ReadServerTime, QueryAll, PublishChunk, PublishError, PublishPartly, SetWatermark,
     GiveUp, RunFails

LEMMA OnceStep == Inv /\ Once /\ [Next]_vars => Once'
<1> SUFFICES ASSUME Inv, Once, [Next]_vars, Alone, faults' = 0, NEW r \in Runs
             PROVE  OnceInv(r)'
  BY DEF Once, Alone
<1>1. TypeOK /\ WindowInv(r) /\ OnceInv(r)
  BY FaultsStay DEF Inv, Once
<1>2. ASSUME UNCHANGED <<pc, from, watermark, rows, sent, published>> PROVE OnceInv(r)'
  BY <1>1, <1>2 DEF OnceInv, At, Distinct
<1>3. ASSUME NEW q \in Runs, ReadWatermark(q) PROVE OnceInv(r)'
  <2>1. q = r
    BY DEF Alone
  <2>. QED
    BY <1>1, <1>3, <2>1 DEF OnceInv, ReadWatermark, Goto, TypeOK
<1>4. ASSUME NEW q \in Runs, ReadServerTime(q) PROVE OnceInv(r)'
  <2>1. q = r
    BY DEF Alone
  <2>. QED
    BY <1>1, <1>4, <2>1 DEF OnceInv, ReadServerTime, Goto, TypeOK
<1>5. ASSUME NEW q \in Runs, QueryAll(q) PROVE OnceInv(r)'
  <2>1. q = r
    BY DEF Alone
  <2>2. PICK f \in Listing(Window(from[r], upper[r])) : rows' = [rows EXCEPT ![r] = f]
    BY <1>5, <2>1 DEF QueryAll
  <2>3. Distinct(rows[r])'
    BY <1>1, <2>2, ListingIsDistinct DEF TypeOK, Distinct
  <2>4. /\ pc[r] = "query" /\ pc'[r] = "publish"
        /\ UNCHANGED <<from, watermark, published>>
    BY <1>1, <1>5, <2>1 DEF QueryAll, Goto, TypeOK
  <2>. QED
    BY <1>1, <2>3, <2>4 DEF OnceInv
<1>6. ASSUME NEW q \in Runs, PublishChunk(q) PROVE OnceInv(r)'
  <2>1. q = r
    BY DEF Alone
  <2>2. /\ pc[r] = "publish" /\ sent[r] < Len(rows[r])
        /\ published' = published \cup At(r, Chunk(r)) /\ sent'[r] = ChunkEnd(r)
        /\ UNCHANGED <<pc, from, watermark, rows>>
    BY <1>1, <1>6, <2>1 DEF PublishChunk, TypeOK
  <2>3. /\ At(r, Chunk(r)) \subseteq At(r, 1..ChunkEnd(r))
        /\ At(r, 1..sent[r]) \subseteq At(r, 1..ChunkEnd(r))
    <3>1. sent[r] \in Nat /\ ChunkEnd(r) \in Nat /\ sent[r] < ChunkEnd(r)
      BY <1>1, <2>2, ChunkBounds DEF TypeOK
    <3>. QED
      BY <3>1 DEF At, Chunk
  <2>4. At(r, 1..sent[r])' = At(r, 1..ChunkEnd(r))
    BY <2>2 DEF At
  <2>5. Distinct(rows[r])'
    BY <1>1, <2>2 DEF OnceInv, Distinct
  <2>. QED
    BY <1>1, <2>2, <2>3, <2>4, <2>5 DEF OnceInv
<1>7. ASSUME NEW q \in Runs, SetWatermark(q) PROVE OnceInv(r)'
  <2>1. q = r
    BY DEF Alone
  <2>2. /\ pc[r] = "publish" /\ watermark' = upper[r] /\ pc'[r] = "idle"
        /\ sent[r] = Len(rows[r]) /\ UNCHANGED <<published>>
    BY <1>1, <1>7, <2>1 DEF SetWatermark, Moves, Target, Goto, OnceInv, TypeOK
  <2>3. /\ from[r] = watermark /\ from[r] < upper[r] /\ RowsInv(r)
        /\ from[r] \in Nat /\ upper[r] \in Int
    BY <1>1, <2>2 DEF OnceInv, WindowInv, UpperInv, TypeOK
  <2>4. ASSUME NEW row \in published PROVE row.stamp < watermark'
    <3>1. row.stamp \in Nat
      BY <1>1, <2>4 DEF TypeOK, Rows
    <3>2. CASE row.stamp < watermark
      BY <2>2, <2>3, <3>1, <3>2
    <3>3. CASE row \in At(r, 1..sent[r])
      BY <1>1, <2>2, <2>3, <3>3, RowsAreASequence DEF At, RowsInv
    <3>. QED
      BY <1>1, <2>4, <3>2, <3>3 DEF OnceInv
  <2>. QED
    BY <2>2, <2>4 DEF OnceInv
<1>8. ASSUME NEW q \in Runs, GiveUp(q) PROVE FALSE
  <2>1. q = r
    BY DEF Alone
  <2>. QED
    BY <1>1, <1>8, <2>1 DEF OnceInv, GiveUp
<1>. QED
  BY <1>2, <1>3, <1>4, <1>5, <1>6, <1>7, <1>8, FaultsStay DEF Next, Proceed, vars, runVars,
     Tick, Write, Commit, Delete

LEMMA OnceHolds == Spec => [](Inv /\ Once)
<1>1. Init => Once
  BY DEF Init, Once, OnceInv
<1>. QED
  BY <1>1, OnceStep, InvariantHolds, PTL DEF Spec

\* A chunk that is counted is new: it is in the window, which starts at the
\* watermark, and it differs from what the run has sent.
LEMMA ChunkIsNew ==
  ASSUME Inv, Once, [Next]_vars, Alone, faults' = 0,
         NEW r \in Runs, sent'[r] > sent[r]
  PROVE  At(r, Chunk(r)) \cap published = {}
<1>1. TypeOK /\ WindowInv(r) /\ OnceInv(r) /\ sent[r] \in Nat
  BY FaultsStay DEF Inv, Once, TypeOK
<1>2. PublishChunk(r)
  <2>1. sent'[r] # sent[r] /\ sent'[r] # 0
    BY <1>1
  <2>2. ~ \E q \in Runs : QueryAll(q)
    BY <1>1, <2>1 DEF QueryAll, Alone, TypeOK
  <2>3. \E q \in Runs : PublishChunk(q)
    BY <2>1, <2>2, FaultsStay DEF Next, Proceed, vars, runVars, Tick, Write, Commit, Delete,
       ReadWatermark, ReadServerTime, SetWatermark, GiveUp
  <2>. QED
    BY <2>3 DEF Alone
<1>3. /\ pc[r] = "publish" /\ sent[r] < Len(rows[r]) /\ RowsInv(r) /\ Distinct(rows[r])
      /\ from[r] = watermark /\ watermark \in Nat
  BY <1>1, <1>2 DEF PublishChunk, WindowInv, OnceInv, TypeOK
<1>4. SUFFICES ASSUME NEW i \in Chunk(r), rows[r][i] \in published
               PROVE  FALSE
  BY DEF At
<1>5. i \in DOMAIN rows[r] /\ i \in Nat /\ sent[r] < i
  BY <1>1, <1>3, ChunkBounds, ChunkMember
<1>6. rows[r][i].stamp \in Nat /\ ~ rows[r][i].stamp < watermark
  BY <1>1, <1>3, <1>5, RowsAreASequence DEF RowsInv, Rows
<1>7. PICK j \in 1..sent[r] : rows[r][j] = rows[r][i]
  BY <1>1, <1>4, <1>6 DEF OnceInv, At
<1>8. j \in DOMAIN rows[r]
  BY <1>1, <1>3, RowsAreASequence
<1>. QED
  BY <1>1, <1>3, <1>5, <1>7, <1>8 DEF Distinct

(***************************************************************************)
(* Half-open windows tile time (poller.go:61-69, 82): with one run at a    *)
(* time, and until something fails, no version is published twice; two     *)
(* deals with one stamp, or a stamp on a window's boundary, included.      *)
(***************************************************************************)
THEOREM PublishesEachOnce == Spec => PublishesOnce
<1>1. Inv /\ Once /\ [Next]_vars =>
        [Alone /\ faults' = 0 =>
           \A r \in Runs : sent'[r] > sent[r] => At(r, Chunk(r)) \cap published = {}]_vars
  BY ChunkIsNew
<1>. QED
  BY <1>1, OnceHolds, PTL DEF Spec, PublishesOnce, Alone
=============================================================================
