-------------------------- MODULE SalesforceProofs ---------------------------
(***************************************************************************)
(* Proofs about Salesforce, for any clients, queries, page size, faults    *)
(* and changes to the store.                                               *)
(***************************************************************************)
EXTENDS Salesforce, SoqlProofs

\* The variables keep the shape that EXCEPT needs.
Shape == /\ DOMAIN pc = Clients
         /\ DOMAIN call = Clients
         /\ \A c \in Clients : DOMAIN call[c] = DOMAIN NoCall

\* A client that asks again has a token, or has lost one since it asked first.
Retry(c) == /\ call[c].attempt \in {0, 1}
            /\ pc[c] = "request" /\ call[c].attempt = 1 => c \in tokens \/ call[c].denied
            /\ pc[c] = "unauthorised" => call[c].denied

IInv == Shape /\ \A c \in Clients : Retry(c)

\* What a step of one client does to the others: nothing, and no token dies.
Others(c) == /\ DOMAIN pc' = Clients
             /\ DOMAIN call' = Clients
             /\ \A d \in Clients \ {c} : pc'[d] = pc[d] /\ call'[d] = call[d]
             /\ tokens \subseteq tokens'

LEMMA OneClient ==
  ASSUME IInv, NEW c \in Clients, Others(c), DOMAIN call'[c] = DOMAIN NoCall, Retry(c)'
  PROVE  IInv'
BY DEF IInv, Shape, Retry, Others

LEMMA CallFields ==
  /\ DOMAIN NoCall = {"query", "attempt", "locator", "offset", "records", "answer", "denied"}
  /\ NoCall.attempt = 0 /\ NoCall.denied = FALSE
BY DEF NoCall

LEMMA FailsStep ==
  ASSUME IInv, NEW c \in Clients, Fails(c), tokens \subseteq tokens'
  PROVE  IInv'
<1>1. pc'[c] = "failed" /\ call'[c] = NoCall /\ Others(c)
  BY DEF Fails, Goto, Others, IInv, Shape
<1>2. Retry(c)'
  BY <1>1, CallFields DEF Retry
<1>. QED
  BY <1>1, <1>2, OneClient

LEMMA RejectedStep ==
  ASSUME IInv, NEW c \in Clients, NEW denied, Rejected(c, denied), UNCHANGED tokens,
         call[c].attempt = 1 => denied
  PROVE  IInv'
<1>1. CASE /\ call[c].attempt = 0
           /\ Goto(c, "token")
           /\ call' = [call EXCEPT ![c].attempt = 1, ![c].denied = denied]
  <2>1. /\ pc'[c] = "token" /\ Others(c) /\ DOMAIN call'[c] = DOMAIN NoCall
        /\ call'[c].attempt = 1
    BY <1>1, CallFields DEF Goto, Others, IInv, Shape
  <2>. QED
    BY <2>1, OneClient DEF Retry
<1>2. CASE /\ call[c].attempt = 1
           /\ Goto(c, "unauthorised")
           /\ call' = [call EXCEPT ![c] = [NoCall EXCEPT !.denied = denied]]
  <2>1. /\ pc'[c] = "unauthorised" /\ Others(c)
        /\ call'[c] = [NoCall EXCEPT !.denied = denied]
    BY <1>2 DEF Goto, Others, IInv, Shape
  <2>2. /\ call'[c].attempt = 0 /\ call'[c].denied
        /\ DOMAIN call'[c] = DOMAIN NoCall
    BY <1>2, <2>1, CallFields
  <2>. QED
    BY <2>1, <2>2, OneClient DEF Retry
<1>. QED
  BY <1>1, <1>2 DEF Rejected

LEMMA ServeStep ==
  ASSUME IInv, NEW c \in Clients, Serve(c)
  PROVE  IInv'
<1>0. Shape /\ Retry(c)
  BY DEF IInv
<1>1. CASE TokenRefused(c) \/ NoResponse(c) \/ InvalidLocator(c)
  BY <1>1, FailsStep DEF TokenRefused, NoResponse, InvalidLocator, serverVars
<1>2. CASE TokenGranted(c)
  <2>1. pc'[c] = "request" /\ call' = call /\ c \in tokens' /\ Others(c)
    BY <1>0, <1>2 DEF TokenGranted, Goto, Others, Shape
  <2>. QED
    BY <1>0, <2>1, OneClient DEF Retry, Shape
<1>3. CASE Unauthorised(c)
  <2>1. /\ Rejected(c, call[c].denied) /\ UNCHANGED tokens
        /\ pc[c] = "request" /\ c \notin tokens
    BY <1>3 DEF Unauthorised, serverVars
  <2>2. CASE call[c].attempt = 0
    BY <2>1, <2>2, RejectedStep
  <2>3. CASE call[c].attempt = 1 /\ call[c].denied
    BY <2>1, <2>3, RejectedStep, Zenon
  <2>. QED
    BY <1>0, <2>1, <2>2, <2>3 DEF Retry
<1>4. CASE QueryFault(c)
  BY <1>4, FailsStep, RejectedStep DEF QueryFault
<1>5. CASE Authorised(c)
  <2>1. pc'[c] \in {"query", "page"} /\ call' = call /\ Others(c)
    BY <1>0, <1>5 DEF Authorised, Goto, Others, Shape, serverVars
  <2>. QED
    BY <1>0, <2>1, OneClient DEF Retry, Shape
<1>6. CASE FirstPage(c) \/ KeepAnswer(c)
  <2>1. pc'[c] \in {"keep", "page"} /\ Others(c)
    BY <1>0, <1>6 DEF FirstPage, KeepAnswer, Goto, Others, Shape, serverVars
  <2>2. DOMAIN call'[c] = DOMAIN NoCall /\ call'[c].attempt = call[c].attempt
    BY <1>0, <1>6, CallFields DEF FirstPage, KeepAnswer, Shape
  <2>. QED
    BY <1>0, <2>1, <2>2, OneClient DEF Retry
<1>7. CASE Page(c)
  <2> DEFINE rows == cursors[call[c].locator]
  <2>1. UNCHANGED tokens /\ (Arrives(c, rows) \/ Fails(c))
    BY <1>7 DEF Page
  <2>2. CASE Arrives(c, rows)
    <3>1. pc'[c] \in {"done", "request"} /\ Others(c)
      BY <1>0, <2>1, <2>2 DEF Arrives, Goto, Others, Shape
    <3>2. DOMAIN call'[c] = DOMAIN NoCall /\ call'[c].attempt = 0
      BY <1>0, <2>2, CallFields DEF Arrives, Shape
    <3>. QED
      BY <3>1, <3>2, OneClient DEF Retry
  <2>. QED
    BY <2>1, <2>2, FailsStep
<1>. QED
  BY <1>1, <1>2, <1>3, <1>4, <1>5, <1>6, <1>7 DEF Serve

LEMMA TokensDieStep ==
  ASSUME IInv, NEW S, TokensDie(S)
  PROVE  IInv'
<1>1. /\ tokens' = tokens \ S /\ pc' = pc /\ DOMAIN call' = Clients
      /\ \A c \in Clients : call'[c] = IF c \in S \cap tokens /\ pc[c] \notin Ended
                                         THEN [call[c] EXCEPT !.denied = TRUE] ELSE call[c]
  BY DEF TokensDie
<1>2. ASSUME NEW c \in Clients PROVE Retry(c)' /\ DOMAIN call'[c] = DOMAIN NoCall
  <2>1. Retry(c) /\ DOMAIN call[c] = DOMAIN NoCall
    BY DEF IInv, Shape
  <2>2. CASE c \in S \cap tokens /\ pc[c] \notin Ended
    BY <1>1, <2>1, <2>2, CallFields DEF Retry, Ended
  <2>3. CASE ~(c \in S \cap tokens /\ pc[c] \notin Ended)
    BY <1>1, <2>1, <2>3 DEF Retry, Ended
  <2>. QED
    BY <2>2, <2>3
<1>. QED
  BY <1>1, <1>2 DEF IInv, Shape

LEMMA NextStep == IInv /\ [Next]_vars => IInv'
<1> SUFFICES ASSUME IInv, [Next]_vars PROVE IInv'
  OBVIOUS
<1>1. ASSUME UNCHANGED <<tokens, pc, call>> PROVE IInv'
  BY <1>1 DEF IInv, Shape, Retry
<1>2. ASSUME NEW c \in Clients, NEW q \in Queries, Ask(c, q) PROVE IInv'
  <2>1. /\ pc'[c] \in {"request", "token"} /\ Others(c)
        /\ call'[c] = [NoCall EXCEPT !.query = q]
    BY <1>2 DEF Ask, Goto, Others, IInv, Shape, serverVars
  <2>2. DOMAIN call'[c] = DOMAIN NoCall /\ call'[c].attempt = 0
    BY <2>1 DEF NoCall
  <2>3. Retry(c)'
    BY <2>1, <2>2 DEF Retry
  <2>. QED
    BY <2>1, <2>2, <2>3, OneClient
<1>3. ASSUME NEW c \in Clients, Serve(c) PROVE IInv'
  BY <1>3, ServeStep
<1>4. ASSUME NEW c \in Clients, Expire(c) PROVE IInv'
  BY <1>4, TokensDieStep DEF Expire
<1>5. CASE RevokeTokens \/ ResetServer
  BY <1>5, TokensDieStep DEF RevokeTokens, ResetServer
<1>6. ASSUME NEW opp, Upsert(opp) \/ Delete(opp.Id) PROVE IInv'
  BY <1>1, <1>6 DEF Upsert, Delete, serverVars, clientVars
<1>7. ASSUME NEW a, NEW name, UpsertAccount(a, name) PROVE IInv'
  BY <1>1, <1>7 DEF UpsertAccount, serverVars, clientVars
<1>8. ASSUME NEW target, NEW status, NEW n, ArmFault(target, status, n) PROVE IInv'
  BY <1>1, <1>8 DEF ArmFault, clientVars
<1>9. CASE ResetStore \/ LoadSeed
  BY <1>1, <1>9 DEF ResetStore, LoadSeed, clientVars
<1>10. CASE UNCHANGED vars
  BY <1>1, <1>10 DEF vars, serverVars, clientVars
<1>. QED
  BY <1>2, <1>3, <1>4, <1>5, <1>6, <1>7, <1>8, <1>9, <1>10 DEF Next, Admin

LEMMA InitInv == Init => IInv
BY CallFields DEF Init, IInv, Shape, Retry

\* A 401 is final only if a token died, or was said to have, while that page was
\* being asked for: an expiry between two queries or two pages fails nothing
\* (client.go:117-118).
THEOREM ExpiryIsSurvived == Spec => []SurvivesExpiry
<1>1. IInv => SurvivesExpiry
  BY DEF IInv, Retry, SurvivesExpiry
<1>. QED
  BY <1>1, InitInv, NextStep, PTL DEF Spec
-----------------------------------------------------------------------------
(***************************************************************************)
(* The answers: every row, once and in order, as the store was.            *)
(***************************************************************************)
Rows == Opps \cup Range(Seed)

\* The store holds rows of the kinds that QueryAssumption is about.
StoreOK == /\ opps \in Seq(Rows)
           /\ \A a \in DOMAIN accounts : accounts[a] \in Int \cup {Null}

ServerOK == /\ edits \in 0..MaxEdits
            /\ resetting \in {"no", "store", "load"}
            /\ tokens \subseteq Clients
            /\ issued \in 0..asks
            /\ DOMAIN cursors = 1..MaxQueries
            /\ DOMAIN faults = {"token", "query"}
            /\ \A target \in DOMAIN faults : faults[target] \in Seq(Statuses[target])
            /\ asks \in 0..MaxQueries
            /\ cached \in [Clients -> BOOLEAN]

\* The queries that have no locator yet; each may still be given one.
Waiting == {c \in Clients : pc[c] \notin Ended /\ call[c].locator = 0}
Counted == IsFiniteSet(Waiting) /\ issued + Cardinality(Waiting) <= asks

IsSeq(s) == s \in Seq(Range(s))

\* A client has the rows of its answer before the offset, and the server keeps
\* that very answer for it, or none.
Fetching(c) == LET k == call[c] IN
    /\ IsSeq(k.answer)
    /\ pc[c] \notin Ended => k.query \in Queries
    /\ pc[c] \in {"query", "keep"} => k.locator = 0
    /\ pc[c] \in {"page", "done"} => k.locator # 0
    /\ k.locator = 0 => k.offset = 0 /\ k.records = <<>>
    /\ k.locator # 0 /\ pc[c] # "done" => /\ k.records = SubSeq(k.answer, 1, k.offset)
                                          /\ k.offset <= Len(k.answer)
                                          /\ cursors[k.locator] \in {NoCursor, k.answer}
    /\ pc[c] = "done" => k.records = k.answer /\ cursors[k.locator] = NoCursor

PageInv == /\ StoreOK /\ ServerOK /\ Counted
           /\ pc \in [Clients -> Labels]
           /\ DOMAIN call = Clients
           /\ \A c \in Clients : /\ DOMAIN call[c] = DOMAIN NoCall
                                 /\ CallOK(c)
                                 /\ Fetching(c)

LEMMA EmptyIsSeq == IsSeq(<<>>)
BY EmptySeq DEF IsSeq

\* What RunQuery answers to a client is right, whatever was written before.
LEMMA StoreAnswers ==
  ASSUME StoreOK, NEW q \in Queries
  PROVE  /\ IsAnswer(accounts, opps, q, RunQuery(accounts, opps, q))
         /\ IsSeq(RunQuery(accounts, opps, q))
<1>1. Len(opps) \in Nat /\ DOMAIN opps = 1..Len(opps) /\ \A i \in DOMAIN opps : opps[i] \in Rows
  BY LenProperties DEF StoreOK
<1>2. IsQuery(q) /\ Null \notin Int
  BY QueryAssumption
<1>3. ASSUME NEW k \in DOMAIN q.order_by, NEW i \in DOMAIN opps
      PROVE  FieldValue(accounts, opps[i], q.order_by[k].field) \in Int \cup {Null}
  <2> DEFINE field == q.order_by[k].field
  <2>1. CASE field = "Account.Name"
    BY <2>1 DEF FieldValue, StoreOK
  <2>2. CASE field # "Account.Name"
    <3>1. FieldValue(SeedAccounts, opps[i], field) \in Int \cup {Null}
      BY <1>1, <2>2, QueryAssumption DEF Rows
    <3>2. FieldValue(accounts, opps[i], field) = FieldValue(SeedAccounts, opps[i], field)
      BY <2>2 DEF FieldValue
    <3>. QED
      BY <3>1, <3>2
  <2>. QED
    BY <2>1, <2>2
<1>4. Sortable(accounts, opps, q)
  BY <1>2, <1>3 DEF Sortable, Comparable
<1>. QED
  BY <1>1, <1>2, <1>4, RunQueryIsRight DEF IsSeq

\* The step of one client leaves what the others have alone.
LEMMA OnePages ==
  ASSUME PageInv, StoreOK', ServerOK', Counted', issued <= issued',
         NEW c \in Clients, NEW label \in Labels, Goto(c, label), DOMAIN call' = Clients,
         \A d \in Clients \ {c} : call'[d] = call[d],
         \A l \in 1..issued : cursors'[l] \in {cursors[l], NoCursor},
         DOMAIN call'[c] = DOMAIN NoCall, CallOK(c)', Fetching(c)'
  PROVE  PageInv'
<1>1. pc' = [pc EXCEPT ![c] = label]
  BY DEF Goto
<1>2. pc' \in [Clients -> Labels] /\ \A d \in Clients \ {c} : pc'[d] = pc[d]
  BY <1>1 DEF PageInv
<1>3. ASSUME NEW d \in Clients \ {c}
      PROVE  DOMAIN call'[d] = DOMAIN NoCall /\ CallOK(d)' /\ Fetching(d)'
  <2>1. /\ DOMAIN call[d] = DOMAIN NoCall /\ CallOK(d) /\ Fetching(d)
        /\ call'[d] = call[d] /\ pc'[d] = pc[d]
        /\ issued \in Nat /\ issued' \in Nat
    BY <1>2 DEF PageInv, ServerOK
  <2>2. CallOK(d)' /\ (call[d].locator # 0 => call[d].locator \in 1..issued)
    BY <2>1 DEF CallOK
  <2>. QED
    BY <2>1, <2>2 DEF Fetching
<1>. QED
  BY <1>2, <1>3 DEF PageInv
-----------------------------------------------------------------------------
\* Locators never run out: each waiting query has been counted when it was asked.

LEMMA FewerWait ==
  ASSUME Counted, ServerOK, Waiting' \subseteq Waiting, issued' = issued, asks' = asks
  PROVE  Counted'
<1>1. /\ IsFiniteSet(Waiting') /\ Cardinality(Waiting') <= Cardinality(Waiting)
      /\ Cardinality(Waiting') \in Nat /\ Cardinality(Waiting) \in Nat
  BY FS_Subset, FS_CardinalityType DEF Counted
<1>. QED
  BY <1>1 DEF Counted, ServerOK

LEMMA OneMoreWaits ==
  ASSUME Counted, ServerOK, NEW c, Waiting' \subseteq Waiting \cup {c},
         issued' = issued, asks' = asks + 1
  PROVE  Counted'
<1>1. /\ IsFiniteSet(Waiting \cup {c})
      /\ Cardinality(Waiting \cup {c}) <= Cardinality(Waiting) + 1
      /\ Cardinality(Waiting) \in Nat
  BY FS_AddElement, FS_CardinalityType DEF Counted
<1>2. /\ IsFiniteSet(Waiting') /\ Cardinality(Waiting') <= Cardinality(Waiting \cup {c})
      /\ Cardinality(Waiting') \in Nat /\ Cardinality(Waiting \cup {c}) \in Nat
  BY <1>1, FS_Subset, FS_CardinalityType
<1>. QED
  BY <1>1, <1>2 DEF Counted, ServerOK

LEMMA OneIsIssued ==
  ASSUME Counted, ServerOK, NEW c \in Waiting
  PROVE  /\ issued + 1 \in 1..asks
         /\ Waiting' \subseteq Waiting \ {c} /\ issued' = issued + 1 /\ asks' = asks => Counted'
<1>1. /\ IsFiniteSet(Waiting \ {c})
      /\ Cardinality(Waiting \ {c}) = Cardinality(Waiting) - 1
      /\ Cardinality(Waiting) \in Nat /\ Cardinality(Waiting \ {c}) \in Nat
  BY FS_RemoveElement, FS_CardinalityType DEF Counted
<1>2. issued + 1 \in 1..asks
  BY <1>1 DEF Counted, ServerOK
<1>3. ASSUME Waiting' \subseteq Waiting \ {c}, issued' = issued + 1, asks' = asks
      PROVE  Counted'
  <2>1. /\ IsFiniteSet(Waiting') /\ Cardinality(Waiting') <= Cardinality(Waiting \ {c})
        /\ Cardinality(Waiting') \in Nat
    BY <1>1, <1>3, FS_Subset, FS_CardinalityType
  <2>. QED
    BY <1>1, <1>3, <2>1 DEF Counted, ServerOK
<1>. QED
  BY <1>2, <1>3

LEMMA OnlyOneWaits ==
  ASSUME PageInv, NEW c \in Clients, NEW label \in Labels, Goto(c, label),
         \A d \in Clients \ {c} : call'[d] = call[d]
  PROVE  /\ Waiting' \subseteq Waiting \cup {c}
         /\ label \in Ended \/ call'[c].locator # 0 => Waiting' \subseteq Waiting \ {c}
<1>1. pc'[c] = label /\ \A d \in Clients \ {c} : pc'[d] = pc[d]
  BY DEF PageInv, Goto
<1>. QED
  BY <1>1 DEF Waiting
-----------------------------------------------------------------------------
\* The client and the server, step by step.

\* An ended query that has nothing.
LEMMA NothingFetched ==
  ASSUME NEW c \in Clients, call'[c] = NoCall \/ \E denied \in BOOLEAN :
            call'[c] = [NoCall EXCEPT !.denied = denied],
         pc'[c] \in {"failed", "unauthorised"}, issued' \in Nat
  PROVE  DOMAIN call'[c] = DOMAIN NoCall /\ CallOK(c)' /\ Fetching(c)'
<1> DEFINE Nothing(k) == /\ DOMAIN k = DOMAIN NoCall
                         /\ k.query = NoQuery /\ k.attempt = 0 /\ k.locator = 0
                         /\ k.offset = 0 /\ k.records = <<>> /\ k.answer = <<>>
                         /\ k.denied \in BOOLEAN
<1>1. Nothing(NoCall)
  BY DEF NoCall
<1>2. ASSUME NEW denied \in BOOLEAN PROVE Nothing([NoCall EXCEPT !.denied = denied])
  BY DEF NoCall
<1>3. Nothing(call'[c])
  <2> HIDE DEF Nothing
  <2>. QED
    BY <1>1, <1>2
<1>4. CallOK(c)'
  BY <1>3 DEF CallOK
<1>5. Fetching(c)'
  BY <1>3, EmptyIsSeq DEF Fetching, Ended
<1>. QED
  BY <1>3, <1>4, <1>5

LEMMA FailsPages ==
  ASSUME PageInv, NEW c \in Clients, Fails(c), ServerOK', UNCHANGED <<opps, accounts, issued, asks>>,
         \A l \in 1..issued : cursors'[l] \in {cursors[l], NoCursor}
  PROVE  PageInv'
<1>1. /\ Goto(c, "failed") /\ "failed" \in Labels /\ "failed" \in Ended
      /\ DOMAIN call' = Clients /\ call'[c] = NoCall
      /\ \A d \in Clients \ {c} : call'[d] = call[d]
  BY DEF Fails, PageInv, Labels, Ended
<1>2. pc'[c] = "failed"
  BY <1>1 DEF Goto, PageInv
<1>3. issued \in Nat /\ issued' = issued
  BY DEF PageInv, ServerOK
<1>4. Waiting' \subseteq Waiting
  BY <1>1, OnlyOneWaits
<1>5. StoreOK' /\ Counted'
  BY <1>4, FewerWait DEF PageInv, StoreOK
<1>6. DOMAIN call'[c] = DOMAIN NoCall /\ CallOK(c)' /\ Fetching(c)'
  BY <1>1, <1>2, <1>3, NothingFetched
<1>. QED
  BY <1>1, <1>3, <1>5, <1>6, OnePages

LEMMA RejectedPages ==
  ASSUME PageInv, NEW c \in Clients, NEW denied \in BOOLEAN, Rejected(c, denied),
         pc[c] = "request", ServerOK', UNCHANGED <<opps, accounts, issued, asks, cursors>>
  PROVE  PageInv'
<1>0. /\ \A l \in 1..issued : cursors'[l] \in {cursors[l], NoCursor}
      /\ issued \in Nat /\ issued' = issued /\ StoreOK'
      /\ CallOK(c) /\ Fetching(c) /\ DOMAIN call[c] = DOMAIN NoCall /\ DOMAIN call = Clients
  BY DEF PageInv, ServerOK, StoreOK
<1>1. CASE /\ Goto(c, "token")
           /\ call' = [call EXCEPT ![c].attempt = 1, ![c].denied = denied]
  <2>1. /\ DOMAIN call' = Clients /\ DOMAIN call'[c] = DOMAIN NoCall
        /\ \A d \in Clients \ {c} : call'[d] = call[d]
        /\ call'[c].query = call[c].query /\ call'[c].attempt = 1
        /\ call'[c].locator = call[c].locator /\ call'[c].offset = call[c].offset
        /\ call'[c].records = call[c].records /\ call'[c].answer = call[c].answer
        /\ call'[c].denied = denied
    BY <1>0, <1>1, CallFields
  <2>2. pc'[c] = "token" /\ "token" \in Labels
    BY <1>1 DEF Goto, PageInv, Labels
  <2>3. CallOK(c)'
    BY <1>0, <2>1 DEF CallOK
  <2>4. Fetching(c)'
    BY <1>0, <2>1, <2>2 DEF Fetching, Ended
  <2>5. Waiting' \subseteq Waiting
    BY <1>0, <1>1, <2>1, <2>2 DEF Waiting, Goto, PageInv, Ended
  <2>. QED
    BY <1>0, <1>1, <2>1, <2>2, <2>3, <2>4, <2>5, FewerWait, OnePages DEF PageInv
<1>2. CASE /\ Goto(c, "unauthorised")
           /\ call' = [call EXCEPT ![c] = [NoCall EXCEPT !.denied = denied]]
  <2>1. /\ DOMAIN call' = Clients /\ call'[c] = [NoCall EXCEPT !.denied = denied]
        /\ \A d \in Clients \ {c} : call'[d] = call[d]
    BY <1>0, <1>2
  <2>2. pc'[c] = "unauthorised" /\ "unauthorised" \in Labels /\ "unauthorised" \in Ended
    BY <1>2 DEF Goto, PageInv, Labels, Ended
  <2>3. DOMAIN call'[c] = DOMAIN NoCall /\ CallOK(c)' /\ Fetching(c)'
    BY <1>0, <2>1, <2>2, NothingFetched
  <2>4. Waiting' \subseteq Waiting
    BY <1>2, <2>1, <2>2, OnlyOneWaits
  <2>. QED
    BY <1>0, <1>2, <2>1, <2>2, <2>3, <2>4, FewerWait, OnePages DEF PageInv
<1>. QED
  BY <1>1, <1>2 DEF Rejected

\* A step that moves only the label.
LEMMA LabelPages ==
  ASSUME PageInv, NEW c \in Clients, NEW label \in Labels \ Ended, Goto(c, label),
         pc[c] \notin Ended, call' = call, ServerOK',
         UNCHANGED <<opps, accounts, issued, asks, cursors>>,
         label \in {"query", "keep"} => call[c].locator = 0,
         label = "page" => call[c].locator # 0
  PROVE  PageInv'
<1>1. /\ \A l \in 1..issued : cursors'[l] \in {cursors[l], NoCursor}
      /\ issued \in Nat /\ issued' = issued /\ StoreOK' /\ DOMAIN call' = Clients
      /\ CallOK(c) /\ Fetching(c) /\ DOMAIN call[c] = DOMAIN NoCall
  BY DEF PageInv, ServerOK, StoreOK
<1>2. pc'[c] = label /\ \A d \in Clients \ {c} : pc'[d] = pc[d]
  BY DEF Goto, PageInv
<1>3. CallOK(c)' /\ Fetching(c)'
  <2>3. CallOK(c) /\ issued' = issued /\ cursors' = cursors /\ call'[c] = call[c]
    BY <1>1
  <2>1. CallOK(c)'
    BY <2>3, Zenon DEF CallOK
  <2>2. pc'[c] \notin Ended /\ pc'[c] # "done" /\ pc[c] # "done"
    BY <1>2 DEF Ended
  <2>4. Fetching(c)'
    BY <1>1, <1>2, <2>2, <2>3 DEF Fetching
  <2>. QED
    BY <2>1, <2>4
<1>4. Waiting' \subseteq Waiting
  BY <1>2 DEF Waiting
<1>. QED
  BY <1>1, <1>3, <1>4, FewerWait, OnePages DEF PageInv

LEMMA AskPages ==
  ASSUME PageInv, NEW c \in Clients, NEW q \in Queries, Ask(c, q)
  PROVE  PageInv'
<1>1. /\ UNCHANGED <<opps, accounts, edits, tokens, cursors, issued, faults, resetting, cached>>
      /\ asks < MaxQueries /\ asks' = asks + 1 /\ pc[c] \in Ended
      /\ call' = [call EXCEPT ![c] = [NoCall EXCEPT !.query = q]]
  BY DEF Ask, storeVars, serverVars
<1>2. PICK label \in {"request", "token"} : Goto(c, label)
  BY DEF Ask
<1>3. ServerOK' /\ StoreOK' /\ label \in Labels /\ issued' = issued /\ issued \in Nat
  BY <1>1, SalesforceAssumption DEF PageInv, ServerOK, StoreOK, Labels
<1>4. /\ DOMAIN call' = Clients /\ call'[c] = [NoCall EXCEPT !.query = q]
      /\ \A d \in Clients \ {c} : call'[d] = call[d]
  BY <1>1 DEF PageInv
<1>5. Counted'
  <2>1. Waiting' \subseteq Waiting \cup {c}
    BY <1>2, <1>3, <1>4, OnlyOneWaits
  <2>. QED
    BY <1>1, <2>1, OneMoreWaits DEF PageInv
<1>6. /\ DOMAIN call'[c] = DOMAIN NoCall
      /\ call'[c].query = q /\ call'[c].attempt = 0 /\ call'[c].locator = 0
      /\ call'[c].offset = 0 /\ call'[c].records = <<>> /\ call'[c].answer = <<>>
      /\ call'[c].denied \in BOOLEAN
  BY <1>4 DEF NoCall
<1>7. pc'[c] = label
  BY <1>2 DEF Goto, PageInv
<1>8. CallOK(c)' /\ Fetching(c)'
  <2>1. CallOK(c)'
    BY <1>3, <1>6 DEF CallOK
  <2>2. Fetching(c)'
    BY <1>2, <1>6, <1>7, EmptyIsSeq DEF Fetching
  <2>. QED
    BY <2>1, <2>2
<1>. QED
  BY <1>1, <1>2, <1>3, <1>4, <1>5, <1>6, <1>8, OnePages

LEMMA FirstPagePages ==
  ASSUME PageInv, NEW c \in Clients, FirstPage(c)
  PROVE  PageInv'
<1> DEFINE answer == RunQuery(accounts, opps, call[c].query)
<1>1. /\ UNCHANGED <<opps, accounts, edits, tokens, cursors, issued, faults, resetting, asks, cached>>
      /\ pc[c] = "query" /\ Goto(c, "keep") /\ "keep" \in Labels
      /\ call' = [call EXCEPT ![c].answer = answer]
  BY DEF FirstPage, storeVars, serverVars, Labels
<1>2. /\ CallOK(c) /\ Fetching(c) /\ DOMAIN call[c] = DOMAIN NoCall /\ DOMAIN call = Clients
      /\ issued \in Nat /\ StoreOK /\ Counted
  BY DEF PageInv, ServerOK
<1>3. ServerOK' /\ StoreOK' /\ issued' = issued
  BY <1>1 DEF PageInv, ServerOK, StoreOK
<1>4. IsSeq(answer) /\ call[c].locator = 0
  BY <1>1, <1>2, StoreAnswers DEF Fetching, Ended
<1> HIDE DEF answer
<1>5. /\ DOMAIN call' = Clients /\ DOMAIN call'[c] = DOMAIN NoCall
      /\ \A d \in Clients \ {c} : call'[d] = call[d]
      /\ call'[c].query = call[c].query /\ call'[c].attempt = call[c].attempt
      /\ call'[c].locator = call[c].locator /\ call'[c].offset = call[c].offset
      /\ call'[c].records = call[c].records /\ call'[c].answer = answer
      /\ call'[c].denied = call[c].denied
  BY <1>1, <1>2, CallFields
<1>6. pc'[c] = "keep" /\ \A d \in Clients \ {c} : pc'[d] = pc[d]
  BY <1>1 DEF Goto, PageInv
<1>7. CallOK(c)'
  BY <1>2, <1>3, <1>5 DEF CallOK
<1>8. Fetching(c)'
  BY <1>1, <1>2, <1>4, <1>5, <1>6 DEF Fetching, Ended
<1>9. Waiting' \subseteq Waiting
  BY <1>1, <1>2, <1>4, <1>5, <1>6 DEF Waiting, Ended
<1>. QED
  BY <1>1, <1>2, <1>3, <1>5, <1>7, <1>8, <1>9, FewerWait, OnePages DEF PageInv

LEMMA KeepAnswerPages ==
  ASSUME PageInv, NEW c \in Clients, KeepAnswer(c)
  PROVE  PageInv'
<1>1. /\ UNCHANGED <<opps, accounts, edits, tokens, faults, resetting, asks, cached>>
      /\ pc[c] = "keep" /\ Goto(c, "page") /\ "page" \in Labels /\ issued' = issued + 1
      /\ call' = [call EXCEPT ![c].locator = issued + 1]
      /\ cursors' = [cursors EXCEPT ![issued + 1] = call[c].answer]
  BY DEF KeepAnswer, storeVars, Labels
<1>2. /\ CallOK(c) /\ Fetching(c) /\ DOMAIN call[c] = DOMAIN NoCall /\ DOMAIN call = Clients
      /\ issued \in Nat /\ StoreOK /\ Counted /\ ServerOK
  BY DEF PageInv, ServerOK
<1>3. call[c].locator = 0 /\ c \in Waiting
  BY <1>1, <1>2 DEF Fetching, Waiting, Ended
<1>4. issued + 1 \in 1..asks /\ issued + 1 \in DOMAIN cursors
  <2>1. issued + 1 \in 1..asks
    BY <1>2, <1>3, OneIsIssued
  <2>. QED
    BY <1>2, <2>1, SalesforceAssumption DEF ServerOK
<1>5. ServerOK' /\ StoreOK'
  BY <1>1, <1>2, <1>4 DEF ServerOK, StoreOK
<1>6. /\ DOMAIN call' = Clients /\ DOMAIN call'[c] = DOMAIN NoCall
      /\ \A d \in Clients \ {c} : call'[d] = call[d]
      /\ call'[c].query = call[c].query /\ call'[c].attempt = call[c].attempt
      /\ call'[c].locator = issued + 1 /\ call'[c].offset = call[c].offset
      /\ call'[c].records = call[c].records /\ call'[c].answer = call[c].answer
      /\ call'[c].denied = call[c].denied
  BY <1>1, <1>2, CallFields
<1>7. /\ \A l \in 1..issued : cursors'[l] \in {cursors[l], NoCursor}
      /\ cursors'[issued + 1] = call[c].answer /\ issued <= issued'
  BY <1>1, <1>2, <1>4
<1>8. CallOK(c)'
  BY <1>1, <1>2, <1>6 DEF CallOK
<1>9. pc'[c] = "page"
  BY <1>1 DEF Goto, PageInv
<1>10. Fetching(c)'
  <2>1. call[c].offset = 0 /\ call[c].records = <<>> /\ SubSeq(call[c].answer, 1, 0) = <<>>
    BY <1>2, <1>3, SubSeqEmpty DEF Fetching
  <2>2. Len(call[c].answer) \in Nat
    BY <1>2, LenProperties DEF Fetching, IsSeq
  <2>3. /\ IsSeq(call[c].answer) /\ call[c].query \in Queries
        /\ issued + 1 # 0
    BY <1>1, <1>2 DEF Fetching, Ended
  <2>4. /\ call'[c].records = SubSeq(call'[c].answer, 1, call'[c].offset)
        /\ call'[c].offset <= Len(call'[c].answer)
        /\ cursors'[call'[c].locator] \in {NoCursor, call'[c].answer}
    BY <1>6, <1>7, <2>1, <2>2
  <2>. QED
    BY <1>6, <1>9, <2>3, <2>4 DEF Fetching
<1>11. Counted'
  <2>1. Waiting' \subseteq Waiting \ {c}
    BY <1>1, <1>2, <1>6, OnlyOneWaits
  <2>. QED
    BY <1>1, <1>2, <1>3, <2>1, OneIsIssued
<1>. QED
  BY <1>1, <1>2, <1>5, <1>6, <1>7, <1>8, <1>10, <1>11, OnePages

\* The page that is cut off next, joined to the rows there are.
LEMMA SliceJoins ==
  ASSUME NEW c \in Clients, NEW rows, IsSeq(rows), call[c].offset \in Nat,
         call[c].offset <= Len(rows), call[c].records = SubSeq(rows, 1, call[c].offset)
  PROVE  /\ LastPage(c, rows) => call[c].records \o Slice(c, rows) = rows
         /\ ~LastPage(c, rows) =>
               /\ call[c].records \o Slice(c, rows) = SubSeq(rows, 1, call[c].offset + PageSize)
               /\ call[c].offset + PageSize <= Len(rows)
<1> DEFINE from == call[c].offset
           end == PageEnd(from, rows)
<1>1. Len(rows) \in Nat /\ PageSize \in Nat \ {0}
  BY LenProperties, SalesforceAssumption DEF IsSeq
<1>2. /\ LastPage(c, rows) => end = Len(rows)
      /\ ~LastPage(c, rows) => end = from + PageSize /\ end <= Len(rows)
      /\ end \in from..Len(rows)
  BY <1>1 DEF LastPage, PageEnd
<1> HIDE DEF end
<1>3. SubSeq(rows, 1, from) \o SubSeq(rows, from + 1, end) = SubSeq(rows, 1, end)
  <2>1. 1 \in 1..(Len(rows) + 1) /\ from \in (1 - 1)..Len(rows)
    BY <1>1
  <2>. QED
    BY <1>2, <2>1, ConcatAdjacentSubSeq DEF IsSeq
<1>4. SubSeq(rows, 1, Len(rows)) = rows
  BY SubSeqFull DEF IsSeq
<1>. QED
  BY <1>2, <1>3, <1>4 DEF Slice, end

LEMMA ArrivesPages ==
  ASSUME PageInv, NEW c \in Clients, Page(c), Arrives(c, cursors[call[c].locator])
  PROVE  PageInv'
<1> DEFINE k == call[c]
           rows == cursors[k.locator]
           label == IF LastPage(c, rows) THEN "done" ELSE "request"
<1>1. /\ UNCHANGED <<opps, accounts, edits, tokens, issued, faults, resetting, asks, cached>>
      /\ pc[c] = "page" /\ Goto(c, label) /\ label \in Labels /\ rows # NoCursor
      /\ call' = [call EXCEPT ![c].records = @ \o Slice(c, rows), ![c].offset = @ + PageSize,
                              ![c].attempt = 0, ![c].denied = FALSE]
      /\ cursors' = IF LastPage(c, rows)
                      THEN [cursors EXCEPT ![k.locator] = NoCursor] ELSE cursors
  BY DEF Page, Arrives, storeVars, Labels, Ended
<1>2. /\ CallOK(c) /\ Fetching(c) /\ DOMAIN k = DOMAIN NoCall /\ DOMAIN call = Clients
      /\ issued \in Nat /\ asks \in Nat /\ issued <= asks /\ asks <= MaxQueries
      /\ DOMAIN cursors = 1..MaxQueries /\ StoreOK /\ Counted /\ ServerOK
  BY SalesforceAssumption DEF PageInv, ServerOK
<1>3. /\ k.locator # 0 /\ k.locator \in 1..issued /\ k.locator \in DOMAIN cursors
      /\ k.query \in Queries /\ rows = k.answer /\ IsSeq(rows)
      /\ k.records = SubSeq(rows, 1, k.offset) /\ k.offset <= Len(rows)
  <2>1. k.locator # 0 /\ cursors[k.locator] \in {NoCursor, k.answer}
    BY <1>1, <1>2 DEF Fetching
  <2>2. k.locator \in 1..issued /\ k.locator \in 1..MaxQueries
    BY <1>2, <2>1, SalesforceAssumption DEF CallOK
  <2>3. rows = k.answer
    BY <1>1, <2>1
  <2>. QED
    BY <1>1, <1>2, <2>1, <2>2, <2>3 DEF Fetching, Ended
<1> HIDE DEF rows, label
<1>4. /\ LastPage(c, rows) => k.records \o Slice(c, rows) = rows
      /\ ~LastPage(c, rows) =>
            /\ k.records \o Slice(c, rows) = SubSeq(rows, 1, k.offset + PageSize)
            /\ k.offset + PageSize <= Len(rows)
  BY <1>2, <1>3, SliceJoins DEF CallOK
<1>5. /\ DOMAIN call' = Clients /\ DOMAIN call'[c] = DOMAIN NoCall
      /\ \A d \in Clients \ {c} : call'[d] = call[d]
      /\ call'[c].query = k.query /\ call'[c].attempt = 0
      /\ call'[c].locator = k.locator /\ call'[c].offset = k.offset + PageSize
      /\ call'[c].records = k.records \o Slice(c, rows) /\ call'[c].answer = k.answer
      /\ call'[c].denied \in BOOLEAN
  BY <1>1, <1>2, CallFields
<1>6. /\ \A l \in 1..issued : cursors'[l] \in {cursors[l], NoCursor}
      /\ LastPage(c, rows) => cursors'[k.locator] = NoCursor
      /\ ~LastPage(c, rows) => cursors'[k.locator] = rows
      /\ DOMAIN cursors' = DOMAIN cursors
  BY <1>1, <1>2, <1>3 DEF rows
<1>7. ServerOK' /\ StoreOK' /\ issued' = issued
  BY <1>1, <1>2, <1>6 DEF ServerOK, StoreOK
<1>8. CallOK(c)'
  BY <1>2, <1>5, <1>7, SalesforceAssumption DEF CallOK
<1>9. pc'[c] = label
  BY <1>1 DEF Goto, PageInv
<1>10. Fetching(c)'
  <2>1. CASE LastPage(c, rows)
    <3>1. label = "done"
      BY <2>1 DEF label
    <3>. QED
      BY <1>3, <1>4, <1>5, <1>6, <1>9, <2>1, <3>1 DEF Fetching
  <2>2. CASE ~LastPage(c, rows)
    <3>1. label = "request"
      BY <2>2 DEF label
    <3>. QED
      BY <1>3, <1>4, <1>5, <1>6, <1>9, <2>2, <3>1 DEF Fetching
  <2>. QED
    BY <2>1, <2>2
<1>11. Counted'
  <2>1. Waiting' \subseteq Waiting
    BY <1>1, <1>3, <1>5, OnlyOneWaits
  <2>. QED
    BY <1>1, <1>2, <2>1, FewerWait
<1>. QED
  BY <1>1, <1>2, <1>5, <1>6, <1>7, <1>8, <1>10, <1>11, OnePages

LEMMA TakeFaultOK ==
  ASSUME ServerOK, NEW target \in {"token", "query"}, TakeFault(target),
         UNCHANGED <<edits, resetting, tokens, issued, cursors, asks, cached>>
  PROVE  ServerOK'
<1>1. /\ faults' = [faults EXCEPT ![target] = Tail(faults[target])]
      /\ faults[target] \in Seq(Statuses[target]) /\ faults[target] # <<>>
  BY DEF TakeFault, ServerOK
<1>2. Tail(faults[target]) \in Seq(Statuses[target])
  BY <1>1, HeadTailProperties
<1>. QED
  BY <1>1, <1>2 DEF ServerOK

LEMMA ServePages ==
  ASSUME PageInv, NEW c \in Clients, Serve(c)
  PROVE  PageInv'
<1>0. /\ CallOK(c) /\ Fetching(c) /\ ServerOK
      /\ {"token", "request", "query", "page"} \subseteq Labels \ Ended
  BY DEF PageInv, Labels, Ended
<1>1. CASE TokenRefused(c)
  <2>1. ServerOK'
    BY <1>0, <1>1, TakeFaultOK DEF TokenRefused, storeVars
  <2>. QED
    BY <1>1, <2>1, FailsPages DEF TokenRefused, storeVars
<1>2. CASE NoResponse(c) \/ InvalidLocator(c)
  <2>1. /\ ServerOK' /\ Fails(c)
        /\ UNCHANGED <<opps, accounts, issued, asks, cursors>>
    BY <1>0, <1>2 DEF NoResponse, InvalidLocator, storeVars, serverVars, ServerOK
  <2>. QED
    BY <2>1, FailsPages
<1>3. CASE TokenGranted(c)
  <2>1. /\ ServerOK' /\ Goto(c, "request") /\ call' = call /\ pc[c] = "token"
        /\ UNCHANGED <<opps, accounts, issued, asks, cursors>>
    BY <1>0, <1>3 DEF TokenGranted, storeVars, ServerOK
  <2>. QED
    BY <1>0, <2>1, LabelPages DEF Ended
<1>4. CASE Unauthorised(c)
  <2>1. /\ ServerOK' /\ Rejected(c, call[c].denied) /\ pc[c] = "request"
        /\ UNCHANGED <<opps, accounts, issued, asks, cursors>>
    BY <1>0, <1>4 DEF Unauthorised, storeVars, serverVars, ServerOK
  <2>. QED
    BY <1>0, <2>1, RejectedPages DEF CallOK
<1>5. CASE QueryFault(c)
  <2>1. /\ pc[c] = "request" /\ (Rejected(c, TRUE) \/ Fails(c))
        /\ UNCHANGED <<opps, accounts, issued, asks, cursors>>
    BY <1>5 DEF QueryFault, storeVars
  <2>2. ServerOK'
    BY <1>0, <1>5, TakeFaultOK DEF QueryFault, storeVars
  <2>. QED
    BY <2>1, <2>2, RejectedPages, FailsPages
<1>6. CASE Authorised(c)
  <2>1. /\ ServerOK' /\ call' = call /\ pc[c] = "request"
        /\ Goto(c, IF call[c].locator = 0 THEN "query" ELSE "page")
        /\ UNCHANGED <<opps, accounts, issued, asks, cursors>>
    BY <1>0, <1>6 DEF Authorised, storeVars, serverVars, ServerOK
  <2>2. CASE call[c].locator = 0
    BY <1>0, <2>1, <2>2, LabelPages DEF Ended
  <2>3. CASE call[c].locator # 0
    BY <1>0, <2>1, <2>3, LabelPages DEF Ended
  <2>. QED
    BY <2>2, <2>3
<1>7. CASE Page(c)
  <2>1. CASE Arrives(c, cursors[call[c].locator])
    BY <1>7, <2>1, ArrivesPages
  <2>2. CASE Fails(c)
    <3>1. /\ UNCHANGED <<opps, accounts, edits, tokens, issued, faults, resetting, asks, cached>>
          /\ cursors' \in {cursors, [cursors EXCEPT ![call[c].locator] = NoCursor]}
      BY <1>7 DEF Page, storeVars
    <3>2. /\ ServerOK'
          /\ \A l \in 1..issued : cursors'[l] \in {cursors[l], NoCursor}
      <4>1. issued \in Nat /\ issued <= MaxQueries
        BY <1>0, SalesforceAssumption DEF ServerOK
      <4>2. \A l \in 1..issued : l \in DOMAIN cursors
        BY <1>0, <4>1, SalesforceAssumption DEF ServerOK
      <4>3. DOMAIN cursors' = DOMAIN cursors
        BY <3>1
      <4>. QED
        BY <1>0, <3>1, <4>2, <4>3 DEF ServerOK
    <3>. QED
      BY <2>2, <3>1, <3>2, FailsPages
  <2>. QED
    BY <1>7, <2>1, <2>2 DEF Page
<1>. QED
  BY <1>1, <1>2, <1>3, <1>4, <1>5, <1>6, <1>7, FirstPagePages, KeepAnswerPages DEF Serve
-----------------------------------------------------------------------------
\* The admin API, and time.

\* Steps that change neither the clients nor the locators given out.
LEMMA ServerPages ==
  ASSUME PageInv, StoreOK', ServerOK', UNCHANGED <<pc, call, issued, asks>>,
         cursors' = cursors \/ cursors' = [l \in 1..MaxQueries |-> NoCursor]
  PROVE  PageInv'
<1>1. ASSUME NEW c \in Clients PROVE CallOK(c)' /\ Fetching(c)'
  <2>1. CallOK(c) /\ Fetching(c) /\ issued \in Nat /\ issued <= MaxQueries
    BY SalesforceAssumption DEF PageInv, ServerOK
  <2>2. CallOK(c)'
    BY <2>1 DEF CallOK
  <2>3. call[c].locator # 0 => cursors'[call[c].locator] \in {cursors[call[c].locator], NoCursor}
    BY <2>1, SalesforceAssumption DEF CallOK
  <2>. QED
    BY <2>1, <2>2, <2>3 DEF Fetching
<1>2. Counted'
  BY DEF PageInv, Counted, Waiting
<1>. QED
  BY <1>1, <1>2 DEF PageInv

LEMMA TokensDiePages ==
  ASSUME PageInv, NEW S, TokensDie(S), StoreOK', ServerOK', UNCHANGED issued,
         cursors' = cursors \/ cursors' = [l \in 1..MaxQueries |-> NoCursor]
  PROVE  PageInv'
<1>1. /\ UNCHANGED <<asks, pc>> /\ DOMAIN call' = Clients
      /\ \A c \in Clients : call'[c] = IF c \in S \cap tokens /\ pc[c] \notin Ended
                                         THEN [call[c] EXCEPT !.denied = TRUE] ELSE call[c]
  BY DEF TokensDie
<1>2. ASSUME NEW c \in Clients
      PROVE  /\ DOMAIN call'[c] = DOMAIN NoCall
             /\ call'[c].query = call[c].query /\ call'[c].attempt = call[c].attempt
             /\ call'[c].locator = call[c].locator /\ call'[c].offset = call[c].offset
             /\ call'[c].records = call[c].records /\ call'[c].answer = call[c].answer
             /\ call'[c].denied \in BOOLEAN
  <2>1. DOMAIN call[c] = DOMAIN NoCall /\ CallOK(c)
    BY DEF PageInv
  <2>2. CASE c \in S \cap tokens /\ pc[c] \notin Ended
    BY <1>1, <2>1, <2>2, CallFields
  <2>3. CASE ~(c \in S \cap tokens /\ pc[c] \notin Ended)
    BY <1>1, <2>1, <2>3 DEF CallOK
  <2>. QED
    BY <2>2, <2>3
<1>3. ASSUME NEW c \in Clients PROVE CallOK(c)' /\ Fetching(c)'
  <2>1. CallOK(c) /\ Fetching(c) /\ issued \in Nat /\ issued <= MaxQueries
    BY SalesforceAssumption DEF PageInv, ServerOK
  <2>2. CallOK(c)'
    BY <1>2, <2>1 DEF CallOK
  <2>3. call[c].locator # 0 => cursors'[call[c].locator] \in {cursors[call[c].locator], NoCursor}
    BY <2>1, SalesforceAssumption DEF CallOK
  <2>. QED
    BY <1>1, <1>2, <2>1, <2>2, <2>3 DEF Fetching
<1>4. Waiting' \subseteq Waiting
  BY <1>1, <1>2 DEF Waiting
<1>. QED
  BY <1>1, <1>2, <1>3, <1>4, FewerWait DEF PageInv

LEMMA WritesKeepRows ==
  ASSUME StoreOK
  PROVE  /\ \A opp \in Opps : Upsert(opp) \/ Delete(opp.Id) => StoreOK'
         /\ \A a : \A name \in Names : UpsertAccount(a, name) => StoreOK'
         /\ ResetStore \/ LoadSeed => StoreOK'
<1>1. opps \in Seq(Rows) /\ Len(opps) \in Nat /\ DOMAIN opps = 1..Len(opps)
  BY LenProperties DEF StoreOK
<1>2. ASSUME NEW opp \in Opps, Upsert(opp) PROVE StoreOK'
  <2>1. accounts' = accounts /\ opp \in Rows
    BY <1>2 DEF Upsert, Rows
  <2>2. CASE opps' = Append(opps, opp)
    BY <1>1, <2>1, <2>2, AppendProperties DEF StoreOK
  <2>3. CASE opps' = [i \in DOMAIN opps |-> IF opps[i].Id = opp.Id THEN opp ELSE opps[i]]
    <3>1. opps' \in [1..Len(opps) -> Rows]
      BY <1>1, <2>1, <2>3
    <3>. QED
      BY <1>1, <2>1, <3>1, SeqDef DEF StoreOK
  <2>. QED
    BY <1>2, <2>2, <2>3 DEF Upsert
<1>3. ASSUME NEW opp \in Opps, Delete(opp.Id) PROVE StoreOK'
  <2>1. PICK i \in DOMAIN opps : opps' = RemoveAt(opps, i)
    BY <1>3 DEF Delete
  <2>2. \A j \in DOMAIN opps : opps[j] \in Rows
    BY <1>1
  <2>3. /\ i \in 1..Len(opps)
        /\ \A j \in 1..(i - 1) : opps[j] \in Rows
        /\ \A j \in (i + 1)..Len(opps) : opps[j] \in Rows
    BY <1>1, <2>2
  <2>4. SubSeq(opps, 1, i - 1) \in Seq(Rows)
    BY <1>1, <2>3, SubSeqProperties
  <2>5. SubSeq(opps, i + 1, Len(opps)) \in Seq(Rows)
    BY <1>1, <2>3, SubSeqProperties
  <2>6. opps' \in Seq(Rows)
    BY <2>1, <2>4, <2>5, ConcatProperties DEF RemoveAt
  <2>. QED
    BY <1>3, <2>6 DEF Delete, StoreOK
<1>4. ASSUME NEW a, NEW name \in Names, UpsertAccount(a, name) PROVE StoreOK'
  BY <1>4, QueryAssumption DEF UpsertAccount, StoreOK
<1>5. CASE ResetStore
  BY <1>5, EmptySeq DEF ResetStore, StoreOK
<1>6. CASE LoadSeed
  <2>1. Seed \in Seq(Rows)
    BY QueryAssumption, SeqMonotonic DEF Rows
  <2>2. \A a \in DOMAIN SeedAccounts : SeedAccounts[a] \in Int \cup {Null}
    BY QueryAssumption DEF Range
  <2>. QED
    BY <1>6, <2>1, <2>2 DEF LoadSeed, StoreOK
<1>. QED
  BY <1>2, <1>3, <1>4, <1>5, <1>6

LEMMA AdminPages ==
  ASSUME PageInv, Admin
  PROVE  PageInv'
<1>0. StoreOK /\ ServerOK
  BY DEF PageInv
<1>1. ASSUME NEW opp \in Opps, Upsert(opp) \/ Delete(opp.Id) PROVE PageInv'
  <2>1. /\ Changes
        /\ UNCHANGED <<resetting, tokens, cursors, issued, faults, asks, cached, pc, call>>
    BY <1>1 DEF Upsert, Delete, serverVars, clientVars
  <2>2. StoreOK'
    BY <1>0, <1>1, WritesKeepRows
  <2>3. ServerOK'
    BY <1>0, <2>1, SalesforceAssumption DEF ServerOK, Changes
  <2>. QED
    BY <2>1, <2>2, <2>3, ServerPages
<1>2. ASSUME NEW a, NEW name \in Names, UpsertAccount(a, name) PROVE PageInv'
  <2>1. /\ Changes
        /\ UNCHANGED <<resetting, tokens, cursors, issued, faults, asks, cached, pc, call>>
    BY <1>2 DEF UpsertAccount, serverVars, clientVars
  <2>2. StoreOK'
    BY <1>0, <1>2, WritesKeepRows
  <2>3. ServerOK'
    BY <1>0, <2>1, SalesforceAssumption DEF ServerOK, Changes
  <2>. QED
    BY <2>1, <2>2, <2>3, ServerPages
<1>3. ASSUME NEW target \in {"token", "query"}, NEW status \in Statuses[target],
             NEW n \in 1..MaxFaults, ArmFault(target, status, n)
      PROVE  PageInv'
  <2> DEFINE more == [i \in 1..n |-> status]
  <2>1. /\ faults' = [faults EXCEPT ![target] = faults[target] \o more]
        /\ UNCHANGED <<opps, accounts, edits, resetting, tokens, cursors, issued, asks,
                       cached, pc, call>>
    BY <1>3 DEF ArmFault, storeVars, clientVars
  <2>2. faults[target] \in Seq(Statuses[target]) /\ DOMAIN faults = {"token", "query"}
    BY <1>0 DEF ServerOK
  <2>3. more \in Seq(Statuses[target])
    <3>1. n \in Nat /\ more \in [1..n -> Statuses[target]]
      OBVIOUS
    <3>. QED
      BY <3>1, SeqDef
  <2> HIDE DEF more
  <2>4. faults[target] \o more \in Seq(Statuses[target])
    BY <2>2, <2>3, ConcatProperties
  <2>5. ServerOK' /\ StoreOK'
    BY <1>0, <2>1, <2>2, <2>4 DEF ServerOK, StoreOK
  <2>. QED
    BY <2>1, <2>5, ServerPages
<1>4. CASE RevokeTokens
  <2>1. /\ TokensDie(Clients) /\ UNCHANGED <<opps, accounts, edits, cursors, issued, faults, resetting>>
    BY <1>4 DEF RevokeTokens, storeVars
  <2>2. ServerOK' /\ StoreOK'
    BY <1>0, <2>1 DEF ServerOK, StoreOK, TokensDie
  <2>. QED
    BY <2>1, <2>2, TokensDiePages
<1>5. CASE ResetServer
  <2>1. /\ TokensDie(Clients) /\ UNCHANGED <<opps, accounts, issued>> /\ Changes
        /\ resetting' = "store" /\ cursors' = [l \in 1..MaxQueries |-> NoCursor]
        /\ faults' = [t \in {"token", "query"} |-> <<>>]
    BY <1>5 DEF ResetServer
  <2>2. ServerOK'
    <3>1. \A t \in DOMAIN faults' : faults'[t] \in Seq(Statuses[t])
      BY <2>1, EmptySeq
    <3>2. /\ edits' \in 0..MaxEdits /\ tokens' \subseteq Clients /\ UNCHANGED <<asks, cached>>
          /\ DOMAIN faults' = {"token", "query"} /\ DOMAIN cursors' = 1..MaxQueries
      BY <1>0, <2>1, SalesforceAssumption DEF ServerOK, TokensDie, Changes
    <3>. QED
      BY <1>0, <2>1, <3>1, <3>2 DEF ServerOK
  <2>3. StoreOK'
    BY <1>0, <2>1 DEF StoreOK
  <2>. QED
    BY <2>1, <2>2, <2>3, TokensDiePages
<1>6. CASE ResetStore \/ LoadSeed
  <2>1. /\ UNCHANGED <<edits, tokens, cursors, issued, faults, asks, cached, pc, call>>
        /\ resetting' \in {"load", "no"}
    BY <1>6 DEF ResetStore, LoadSeed, clientVars
  <2>2. StoreOK'
    BY <1>0, <1>6, WritesKeepRows
  <2>3. ServerOK'
    BY <1>0, <2>1 DEF ServerOK
  <2>. QED
    BY <2>1, <2>2, <2>3, ServerPages
<1>. QED
  BY <1>1, <1>2, <1>3, <1>4, <1>5, <1>6 DEF Admin

LEMMA PagesStep == PageInv /\ [Next]_vars => PageInv'
<1> SUFFICES ASSUME PageInv, [Next]_vars PROVE PageInv'
  OBVIOUS
<1>1. ASSUME NEW c \in Clients, Expire(c) PROVE PageInv'
  <2>1. TokensDie({c}) /\ UNCHANGED <<opps, accounts, edits, cursors, issued, faults, resetting>>
    BY <1>1 DEF Expire, storeVars
  <2>2. ServerOK' /\ StoreOK'
    BY <2>1 DEF PageInv, ServerOK, StoreOK, TokensDie
  <2>. QED
    BY <2>1, <2>2, TokensDiePages
<1>2. CASE UNCHANGED vars
  <2>1. UNCHANGED <<opps, accounts, edits, tokens, cursors, issued, faults, resetting, asks, cached, pc, call>>
    BY <1>2 DEF vars, storeVars, serverVars, clientVars
  <2>2. ServerOK' /\ StoreOK'
    BY <2>1 DEF PageInv, ServerOK, StoreOK
  <2>. QED
    BY <2>1, <2>2, ServerPages
<1>. QED
  BY <1>1, <1>2, AskPages, ServePages, AdminPages DEF Next

LEMMA PagesInit == Init => PageInv
<1> SUFFICES ASSUME Init PROVE PageInv
  OBVIOUS
<1>1. StoreOK
  <2>1. Seed \in Seq(Rows)
    BY QueryAssumption, SeqMonotonic DEF Rows
  <2>2. \A a \in DOMAIN SeedAccounts : SeedAccounts[a] \in Int \cup {Null}
    BY QueryAssumption DEF Range
  <2>. QED
    BY <2>1, <2>2 DEF Init, StoreOK
<1>2. ServerOK
  <2>1. \A t \in DOMAIN faults : faults[t] \in Seq(Statuses[t])
    BY EmptySeq DEF Init
  <2>. QED
    BY <2>1, SalesforceAssumption DEF Init, ServerOK
<1>3. Waiting = {}
  BY DEF Init, Waiting, Ended
<1>4. Counted
  BY <1>3, FS_EmptySet DEF Init, Counted
<1>5. ASSUME NEW c \in Clients PROVE DOMAIN call[c] = DOMAIN NoCall /\ CallOK(c) /\ Fetching(c)
  <2>1. pc[c] = "idle" /\ call[c] = NoCall /\ issued = 0
    BY DEF Init
  <2>2. /\ NoCall.query = NoQuery /\ NoCall.attempt = 0 /\ NoCall.locator = 0
        /\ NoCall.offset = 0 /\ NoCall.records = <<>> /\ NoCall.answer = <<>>
        /\ NoCall.denied \in BOOLEAN
    BY DEF NoCall
  <2>3. CallOK(c)
    BY <2>1, <2>2 DEF CallOK
  <2>4. Fetching(c)
    BY <2>1, <2>2, EmptyIsSeq DEF Fetching, Ended
  <2>. QED
    BY <2>1, <2>3, <2>4
<1>6. pc \in [Clients -> Labels] /\ DOMAIN call = Clients
  BY DEF Init, Labels, Ended
<1>. QED
  BY <1>1, <1>2, <1>4, <1>5, <1>6 DEF PageInv

LEMMA PagesHold == Spec => []PageInv
BY PagesInit, PagesStep, PTL DEF Spec

(***************************************************************************)
(* The types; a query is retried once at most for each page, and the       *)
(* locators last for every query that is asked (client.go:136-165).        *)
(***************************************************************************)
THEOREM SalesforceTypes == Spec => []TypeOK
<1>1. PageInv => TypeOK
  BY DEF PageInv, ServerOK, TypeOK
<1>. QED
  BY <1>1, PagesHold, PTL

(***************************************************************************)
(* A query that ends well has every row of its answer, once and in order,  *)
(* as the store was when its first page was served, whatever happens to    *)
(* the store, the sessions and the other queries between two pages; and it *)
(* leaves no cursor behind (server.py:303-341, client.go:117-133).         *)
(***************************************************************************)
THEOREM AnswersAreSnapshots == Spec => []AnswerIsSnapshot
<1>1. PageInv => AnswerIsSnapshot
  BY DEF PageInv, Fetching, AnswerIsSnapshot
<1>. QED
  BY <1>1, PagesHold, PTL

-----------------------------------------------------------------------------
SameCall(c) == /\ call'[c].query = call[c].query
               /\ call'[c].answer = call[c].answer
               /\ call'[c].locator = call[c].locator
               /\ call'[c].records = call[c].records

LEMMA UnchangedIsSame ==
  ASSUME NEW c, call'[c] = call[c]
  PROVE  SameCall(c)
BY DEF SameCall

LEMMA NothingSeen ==
  ASSUME PageInv, UNCHANGED pc, \A c \in Clients : SameCall(c)
  PROVE  Service!Change
<1>1. \A c \in Clients : Asked(c)' = Asked(c) /\ Answers(c)' = Answers(c) /\ Given(c)' = Given(c)
  BY DEF SameCall, Asked, Answers, Given, HasAnswer
<1>. QED
  BY <1>1 DEF Service!Change

\* A step of one client is seen by its caller only.
Moved(c, label) == /\ Goto(c, label)
                   /\ \A d \in Clients \ {c} : call'[d] = call[d]

LEMMA MovedTo ==
  ASSUME PageInv, NEW c \in Clients, NEW label, Moved(c, label)
  PROVE  pc'[c] = label
BY DEF Moved, Goto, PageInv

LEMMA OneSeen ==
  ASSUME PageInv, NEW c \in Clients, NEW label, Moved(c, label)
  PROVE  /\ [d \in Clients |-> Asked(d)]' =
               [[d \in Clients |-> Asked(d)] EXCEPT ![c] = Asked(c)']
         /\ [d \in Clients |-> Answers(d)]' =
               [[d \in Clients |-> Answers(d)] EXCEPT ![c] = Answers(c)']
         /\ [d \in Clients |-> Given(d)]' =
               [[d \in Clients |-> Given(d)] EXCEPT ![c] = Given(c)']
<1>1. pc'[c] = label /\ \A d \in Clients \ {c} : pc'[d] = pc[d] /\ call'[d] = call[d]
  BY DEF Moved, Goto, PageInv
<1>2. \A d \in Clients \ {c} : /\ Asked(d)' = Asked(d)
                               /\ Answers(d)' = Answers(d)
                               /\ Given(d)' = Given(d)
  BY <1>1 DEF Asked, Answers, Given, HasAnswer
<1>. QED
  BY <1>1, <1>2

\* The four things a caller may see.
LEMMA SeenAsk ==
  ASSUME PageInv, NEW c \in Clients, NEW q \in Queries, Ask(c, q)
  PROVE  Service!Ask(c, q)
<1>1. PICK label \in {"request", "token"} : Goto(c, label)
  BY DEF Ask
<1>2. /\ Moved(c, label) /\ pc[c] \in Ended /\ UNCHANGED <<opps, accounts>>
      /\ call'[c].query = q /\ call'[c].locator = 0
  BY <1>1 DEF Ask, Moved, PageInv, NoCall, storeVars
<1>3. Asked(c) = NoQuery /\ Answers(c) = {}
  BY <1>2 DEF Asked, Answers, HasAnswer, Ended
<1>4. Asked(c)' = q /\ Answers(c)' = {} /\ Given(c)' = {}
  BY <1>1, <1>2, MovedTo DEF Asked, Answers, Given, HasAnswer, Ended
<1>. QED
  BY <1>2, <1>3, <1>4, OneSeen DEF Service!Ask

LEMMA SeenFail ==
  ASSUME PageInv, NEW c \in Clients, NEW label \in {"failed", "unauthorised"},
         Moved(c, label), pc[c] \notin Ended, UNCHANGED <<opps, accounts>>
  PROVE  Service!Fail(c)
<1>1. Asked(c) # NoQuery /\ Given(c) = {}
  BY SalesforceAssumption DEF PageInv, Fetching, Asked, Given, Ended
<1>2. Asked(c)' = NoQuery /\ Answers(c)' = {} /\ Given(c)' = {}
  BY MovedTo DEF Asked, Answers, Given, HasAnswer, Ended
<1>. QED
  BY <1>1, <1>2, OneSeen DEF Service!Fail, Service!Ends

LEMMA SeenNot ==
  ASSUME PageInv, NEW c \in Clients, NEW label, label \notin Ended, Moved(c, label),
         pc[c] \notin Ended,
         Answers(c)' = Answers(c), call'[c].query = call[c].query
  PROVE  Service!Change
<1>1. Asked(c)' = Asked(c) /\ Given(c)' = Given(c)
  BY MovedTo DEF Asked, Given, Ended
<1>. QED
  BY <1>1, OneSeen DEF Service!Change

LEMMA SeenRead ==
  ASSUME PageInv, NEW c \in Clients, FirstPage(c)
  PROVE  Service!Read(c)
<1>1. /\ Moved(c, "keep") /\ pc[c] = "query" /\ UNCHANGED <<opps, accounts>>
      /\ call'[c].answer = RunQuery(accounts, opps, call[c].query)
      /\ call'[c].query = call[c].query
  BY CallFields DEF FirstPage, Moved, PageInv, storeVars
<1>2. call[c].query \in Queries /\ call[c].locator = 0 /\ StoreOK
  BY <1>1 DEF PageInv, Fetching, Ended
<1>3. IsAnswer(accounts, opps, call[c].query, call'[c].answer)
  BY <1>1, <1>2, StoreAnswers
<1>4. /\ Asked(c) = call[c].query /\ Asked(c) # NoQuery
      /\ Answers(c) = {} /\ Given(c) = {}
  BY <1>1, <1>2, SalesforceAssumption DEF Asked, Answers, Given, HasAnswer, Ended
<1>5. /\ Asked(c)' = Asked(c) /\ Answers(c)' = {call'[c].answer} /\ Given(c)' = {}
  BY <1>1, <1>4, MovedTo DEF Asked, Answers, Given, HasAnswer, Ended
<1>. QED
  BY <1>1, <1>3, <1>4, <1>5, OneSeen
     DEF Service!Read, RightAnswer

LEMMA SeenPage ==
  ASSUME PageInv, PageInv', NEW c \in Clients, Page(c)
  PROVE  Service!Return(c) \/ Service!Fail(c) \/ Service!Change
<1> DEFINE rows == cursors[call[c].locator]
<1>1. /\ pc[c] = "page"
      /\ Arrives(c, rows) \/ Fails(c)
      /\ UNCHANGED <<opps, accounts>>
  BY DEF Page, storeVars
<1>2. call[c].query \in Queries /\ call[c].locator # 0
  BY <1>1 DEF PageInv, Fetching, Ended
<1>3. CASE Fails(c)
  <2>1. Moved(c, "failed")
    BY <1>3 DEF Fails, Moved, PageInv
  <2>. QED
    BY <1>1, <2>1, SeenFail DEF Ended
<1>4. CASE Arrives(c, rows)
  <2>1. PICK label \in {"done", "request"} : Goto(c, label)
    BY <1>4 DEF Arrives
  <2>2. /\ Moved(c, label)
        /\ call'[c].query = call[c].query /\ call'[c].answer = call[c].answer
        /\ call'[c].locator = call[c].locator
    BY <1>4, <2>1, CallFields DEF Arrives, Moved, PageInv
  <2>3. Answers(c) = {call[c].answer}
    BY <1>1, <1>2 DEF Answers, HasAnswer, Ended
  <2>4. CASE label = "request"
    <3>1. Answers(c)' = Answers(c)
      BY <1>2, <2>2, <2>3, <2>4, MovedTo DEF Answers, HasAnswer, Ended
    <3>. QED
      BY <1>1, <2>2, <2>4, <3>1, SeenNot DEF Ended
  <2>5. CASE label = "done"
    <3>1. pc'[c] = "done"
      BY <2>2, <2>5, MovedTo
    <3>2. call'[c].records = call[c].answer
      BY <2>2, <3>1 DEF PageInv, Fetching
    <3>3. Asked(c) # NoQuery
      BY <1>1, <1>2, SalesforceAssumption DEF Asked, Ended
    <3>4. Asked(c)' = NoQuery /\ Answers(c)' = {} /\ Given(c)' = Answers(c)
      BY <2>3, <3>1, <3>2 DEF Asked, Answers, Given, HasAnswer, Ended
    <3>. QED
      BY <1>1, <2>2, <2>3, <3>3, <3>4, OneSeen
         DEF Service!Return, Service!Ends
  <2>. QED
    BY <2>1, <2>4, <2>5
<1>. QED
  BY <1>1, <1>3, <1>4

LEMMA SeenRejected ==
  ASSUME PageInv, NEW c \in Clients, NEW denied, Rejected(c, denied), pc[c] = "request",
         UNCHANGED <<opps, accounts>>
  PROVE  Service!Fail(c) \/ Service!Change
<1>1. CASE /\ Goto(c, "token")
           /\ call' = [call EXCEPT ![c].attempt = 1, ![c].denied = denied]
  <2>1. /\ Moved(c, "token")
        /\ call'[c].query = call[c].query /\ call'[c].answer = call[c].answer
        /\ call'[c].locator = call[c].locator
    BY <1>1, CallFields DEF Moved, PageInv
  <2>2. Answers(c)' = Answers(c)
    BY <2>1, MovedTo DEF Answers, HasAnswer, Ended
  <2>. QED
    BY <2>1, <2>2, SeenNot DEF Ended
<1>2. CASE /\ Goto(c, "unauthorised")
           /\ call' = [call EXCEPT ![c] = [NoCall EXCEPT !.denied = denied]]
  <2>1. Moved(c, "unauthorised")
    BY <1>2 DEF Moved, PageInv
  <2>. QED
    BY <2>1, SeenFail DEF Ended
<1>. QED
  BY <1>1, <1>2 DEF Rejected

LEMMA SeenServe ==
  ASSUME PageInv, PageInv', NEW c \in Clients, Serve(c)
  PROVE  \/ Service!Read(c) \/ Service!Return(c) \/ Service!Fail(c) \/ Service!Change
<1>1. CASE TokenRefused(c) \/ NoResponse(c) \/ InvalidLocator(c)
  <2>1. /\ Moved(c, "failed") /\ pc[c] \notin Ended /\ UNCHANGED <<opps, accounts>>
    BY <1>1 DEF TokenRefused, NoResponse, InvalidLocator, Fails, Moved, PageInv, storeVars, Ended
  <2>. QED
    BY <2>1, SeenFail
<1>2. CASE Unauthorised(c)
  BY <1>2, SeenRejected DEF Unauthorised, storeVars
<1>3. CASE QueryFault(c)
  <2>1. /\ pc[c] = "request" /\ UNCHANGED <<opps, accounts>>
        /\ Rejected(c, TRUE) \/ Fails(c)
    BY <1>3 DEF QueryFault, storeVars
  <2>2. CASE Fails(c)
    <3>1. Moved(c, "failed")
      BY <2>2 DEF Fails, Moved, PageInv
    <3>. QED
      BY <2>1, <3>1, SeenFail DEF Ended
  <2>. QED
    BY <2>1, <2>2, SeenRejected
<1>4. CASE TokenGranted(c) \/ Authorised(c)
  <2>1. PICK label \in {"request", "query", "page"} : Goto(c, label)
    BY <1>4 DEF TokenGranted, Authorised
  <2>2. /\ Moved(c, label) /\ pc[c] \in {"token", "request"} /\ call' = call
    BY <1>4, <2>1 DEF TokenGranted, Authorised, Moved
  <2>3. Answers(c)' = Answers(c)
    BY <2>2, MovedTo DEF Answers, HasAnswer, Ended
  <2>. QED
    BY <2>2, <2>3, SeenNot DEF Ended
<1>5. CASE FirstPage(c)
  BY <1>5, SeenRead
<1>6. CASE KeepAnswer(c)
  <2>1. /\ Moved(c, "page") /\ pc[c] = "keep"
        /\ call'[c].query = call[c].query /\ call'[c].answer = call[c].answer
        /\ call'[c].locator = issued + 1
    BY <1>6, CallFields DEF KeepAnswer, Moved, PageInv
  <2>2. issued + 1 # 0
    BY DEF PageInv, ServerOK
  <2>3. Answers(c)' = Answers(c)
    BY <2>1, <2>2, MovedTo DEF Answers, HasAnswer, Ended
  <2>. QED
    BY <2>1, <2>3, SeenNot DEF Ended
<1>7. CASE Page(c)
  BY <1>7, SeenPage
<1>. QED
  BY <1>1, <1>2, <1>3, <1>4, <1>5, <1>6, <1>7 DEF Serve

LEMMA SeenTokensDie ==
  ASSUME PageInv, NEW S, TokensDie(S)
  PROVE  Service!Change
<1>1. ASSUME NEW c \in Clients PROVE SameCall(c)
  BY CallFields DEF TokensDie, PageInv, SameCall
<1>2. UNCHANGED pc
  BY DEF TokensDie
<1>. QED
  BY <1>1, <1>2, NothingSeen

LEMMA ServiceStep ==
  ASSUME PageInv, PageInv', [Next]_vars
  PROVE  Service!Next
<1>1. ASSUME NEW c \in Clients, NEW q \in Queries, Ask(c, q) PROVE Service!Next
  BY <1>1, SeenAsk DEF Service!Next
<1>2. ASSUME NEW c \in Clients, Serve(c) PROVE Service!Next
  BY <1>2, SeenServe DEF Service!Next
<1>3. ASSUME NEW c \in Clients, Expire(c) PROVE Service!Next
  BY <1>3, SeenTokensDie DEF Expire, Service!Next
<1>4. CASE RevokeTokens \/ ResetServer
  BY <1>4, SeenTokensDie DEF RevokeTokens, ResetServer, Service!Next
<1>5. ASSUME UNCHANGED <<pc, call>> PROVE Service!Next
  <2>1. UNCHANGED pc /\ \A c \in Clients : SameCall(c)
    BY <1>5, UnchangedIsSame
  <2>. QED
    BY <2>1, NothingSeen DEF Service!Next
<1>6. CASE Admin
  BY <1>4, <1>5, <1>6 DEF Admin, Upsert, Delete, UpsertAccount, ArmFault, ResetStore, LoadSeed,
     clientVars
<1>7. CASE UNCHANGED vars
  BY <1>5, <1>7 DEF vars, clientVars
<1>. QED
  BY <1>1, <1>2, <1>3, <1>6, <1>7 DEF Next

(***************************************************************************)
(* A query is one atomic read (server.py:303-341, client.go:117-133): for  *)
(* any number of clients and pages, whatever is written, expires, fails or *)
(* is reset meanwhile, what it returns was at one moment since the call    *)
(* the answer that SOQL gives (store.py:133-179); and a failed query       *)
(* returns nothing.                                                        *)
(***************************************************************************)
THEOREM QueriesAreAtomic == Spec => ImplementsQueryService
<1>1. Init => Service!Init
  <2> SUFFICES ASSUME Init PROVE Service!Init
    OBVIOUS
  <2>1. \A c \in Clients : pc[c] = "idle" /\ ~HasAnswer(c)
    BY DEF Init, HasAnswer, Ended
  <2>. QED
    BY <2>1 DEF Service!Init, Asked, Answers, Given, Ended
<1>2. PageInv /\ PageInv' /\ [Next]_vars => [Service!Next]_(Service!vars)
  BY ServiceStep
<1>. QED
  BY <1>1, <1>2, PagesHold, PTL DEF Spec, ImplementsQueryService, Service!Spec
=============================================================================
