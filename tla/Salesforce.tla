----------------------------- MODULE Salesforce -----------------------------
(***************************************************************************)
(* The REST API of the fake Salesforce (fake_salesforce/server.py) and the *)
(* two clients that page through its answers, reconciler/salesforce.py and *)
(* internal/salesforce/client.go.  The server handles every request in its *)
(* own thread; what it does between two locks is one action.  A client     *)
(* keeps the access token it was last given, so the server's tokens are    *)
(* the set of clients whose token it still accepts.                        *)
(***************************************************************************)
EXTENDS Soql, SequencesExt

CONSTANTS Clients,     \* instances of a client, each with its own token
          Queries,     \* the queries they ask
          PageSize,    \* page_size
          Opps,        \* the Opportunities that tests write
          Names,       \* the account names that tests write
          Seed,        \* the Opportunities of the seed file
          SeedAccounts,\* and its accounts: names by id
          Statuses,    \* Statuses[t]: the HTTP statuses of faults injected into t
          NoCursor,    \* the locator is not in app.cursors
          NoQuery,     \* no query is running
          MaxQueries,  \* bound: queries asked
          MaxEdits,    \* bound: changes to the store
          MaxFaults    \* bound: faults armed at a time, for each target

ASSUME SalesforceAssumption == /\ PageSize \in Nat \ {0}
                               /\ MaxQueries \in Nat
                               /\ MaxEdits \in Nat
                               /\ MaxFaults \in Nat
                               /\ NoQuery \notin Queries

\* The queries are what the parser lets through, and the keys they sort by have
\* comparable values: numbers here, or null.
ASSUME QueryAssumption ==
    /\ Null \notin Int
    /\ Seed \in Seq(Range(Seed))
    /\ Names \cup Range(SeedAccounts) \subseteq Int \cup {Null}
    /\ \A q \in Queries :
          /\ IsQuery(q)
          /\ \A k \in DOMAIN q.order_by, row \in Opps \cup Range(Seed) :
                \/ q.order_by[k].field = "Account.Name"
                \/ FieldValue(SeedAccounts, row, q.order_by[k].field) \in Int \cup {Null}

VARIABLES opps,      \* store.opportunities, in order of insertion
          accounts,  \* store.accounts
          resetting, \* where the reset request is: "no", "store" or "load"
          edits,     \* number of changes so far
          tokens,    \* the clients whose token is valid
          cursors,   \* cursors[l]: the answer kept for the locator
          issued,    \* locators issued so far
          faults,    \* faults[t]: the statuses the next requests are answered with
          asks,      \* queries asked so far
          cached,    \* cached[c]: the client has a token
          pc,        \* pc[c]: where its query is
          call       \* call[c]: the query's local variables, here and in the server

storeVars == <<opps, accounts, edits>>
serverVars == <<tokens, cursors, issued, faults, resetting>>
clientVars == <<asks, cached, pc, call>>
vars == <<storeVars, serverVars, clientVars>>

Ended == {"idle", "done", "failed", "unauthorised"}
Labels == Ended \cup {"token", "request", "query", "keep", "page"}

\* attempt: 0, or 1 after a 401.  locator, offset: of the page to ask for, with
\* locator 0 for the first one.  records: what query_all has so far.  answer:
\* what run_query returned.  denied: a token of the client died, or was said
\* to, since it first asked for the page.
NoCall == [query |-> NoQuery, attempt |-> 0, locator |-> 0, offset |-> 0,
           records |-> <<>>, answer |-> <<>>, denied |-> FALSE]

Init == /\ opps = Seed
        /\ accounts = SeedAccounts
        /\ resetting = "no"
        /\ edits = 0
        /\ tokens = {}
        /\ cursors = [l \in 1..MaxQueries |-> NoCursor]
        /\ issued = 0
        /\ faults = [t \in {"token", "query"} |-> <<>>]
        /\ asks = 0
        /\ cached = [c \in Clients |-> FALSE]
        /\ pc = [c \in Clients |-> "idle"]
        /\ call = [c \in Clients |-> NoCall]
-----------------------------------------------------------------------------
\* The client: query_all, _get and _access_token.

Goto(c, label) == pc' = [pc EXCEPT ![c] = label]

Ask(c, q) == /\ pc[c] \in Ended
             /\ asks < MaxQueries
             /\ asks' = asks + 1
             /\ call' = [call EXCEPT ![c] = [NoCall EXCEPT !.query = q]]
             /\ Goto(c, IF cached[c] THEN "request" ELSE "token")
             /\ UNCHANGED <<storeVars, serverVars, cached>>

\* The exception leaves query_all.
Fails(c) == /\ Goto(c, "failed")
            /\ call' = [call EXCEPT ![c] = NoCall]

\* take_fault: the queue of the target, a fault with count n standing in it n times.
TakeFault(target) == /\ faults[target] # <<>>
                     /\ faults' = [faults EXCEPT ![target] = Tail(@)]

\* _token: an injected fault, or the grant.
TokenRefused(c) == /\ pc[c] = "token"
                   /\ TakeFault("token")
                   /\ Fails(c)
                   /\ UNCHANGED <<storeVars, tokens, cursors, issued, resetting, asks, cached>>

TokenGranted(c) == /\ pc[c] = "token"
                   /\ faults["token"] = <<>>
                   /\ tokens' = tokens \cup {c}
                   /\ cached' = [cached EXCEPT ![c] = TRUE]
                   /\ Goto(c, "request")
                   /\ UNCHANGED <<storeVars, cursors, issued, faults, resetting, asks, call>>

\* Mutants: a 401 is not retried; it is retried as often as it comes.
Rejected_NoRetry(c, denied) ==
    /\ Goto(c, "unauthorised")
    /\ call' = [call EXCEPT ![c] = [NoCall EXCEPT !.denied = denied]]
Rejected_AlwaysRetry(c, denied) ==
    /\ Goto(c, "token")
    /\ call' = [call EXCEPT ![c].attempt = 1, ![c].denied = denied]

\* Mutant: one retry too many.
Rejected_OnceMore(c, denied) ==
    \/ /\ call[c].attempt < 2
       /\ Goto(c, "token")
       /\ call' = [call EXCEPT ![c].attempt = @ + 1, ![c].denied = denied]
    \/ /\ call[c].attempt = 2
       /\ Goto(c, "unauthorised")
       /\ call' = [call EXCEPT ![c] = [NoCall EXCEPT !.denied = denied]]

\* HTTP 401: a new token and one retry.
Rejected(c, denied) ==
    \/ /\ call[c].attempt = 0
       /\ Goto(c, "token")
       /\ call' = [call EXCEPT ![c].attempt = 1, ![c].denied = denied]
    \/ /\ call[c].attempt = 1
       /\ Goto(c, "unauthorised")
       /\ call' = [call EXCEPT ![c] = [NoCall EXCEPT !.denied = denied]]

\* No response in time, or none at all.
NoResponse(c) == /\ pc[c] \in {"token", "request"}
                 /\ Fails(c)
                 /\ UNCHANGED <<storeVars, serverVars, asks, cached>>
-----------------------------------------------------------------------------
\* The server: _data and the handlers it calls.

\* The token has expired or was revoked.
Unauthorised(c) == /\ pc[c] = "request"
                   /\ c \notin tokens
                   /\ Rejected(c, call[c].denied)
                   /\ UNCHANGED <<storeVars, serverVars, asks, cached>>

\* An injected fault; the reply may get lost, also that of a 401.
QueryFault(c) == /\ pc[c] = "request"
                 /\ c \in tokens
                 /\ TakeFault("query")
                 /\ \/ Head(faults["query"]) = 401 /\ Rejected(c, TRUE)
                    \/ Fails(c)
                 /\ UNCHANGED <<storeVars, tokens, cursors, issued, resetting, asks, cached>>

Authorised(c) == /\ pc[c] = "request"
                 /\ c \in tokens
                 /\ faults["query"] = <<>>
                 /\ Goto(c, IF call[c].locator = 0 THEN "query" ELSE "page")
                 /\ UNCHANGED <<storeVars, serverVars, asks, cached, call>>

\* _first_page: run the query under the store's lock, then keep the answer.
FirstPage(c) == /\ pc[c] = "query"
                /\ call' = [call EXCEPT ![c].answer =
                                RunQuery(accounts, opps, call[c].query)]
                /\ Goto(c, "keep")
                /\ UNCHANGED <<storeVars, serverVars, asks, cached>>

KeepAnswer(c) == /\ pc[c] = "keep"
                 /\ issued' = issued + 1
                 /\ call' = [call EXCEPT ![c].locator = issued + 1]
                 /\ cursors' = [cursors EXCEPT ![issued + 1] = call[c].answer]
                 /\ Goto(c, "page")
                 /\ UNCHANGED <<storeVars, tokens, faults, resetting, asks, cached>>

\* Where the page at an offset ends.
PageEnd(from, rows) == IF from + PageSize < Len(rows) THEN from + PageSize ELSE Len(rows)

\* Mutant: a page is cut from a new run of the query.
Slice_OfTheStore(c, rows) ==
    LET current == RunQuery(accounts, opps, call[c].query) IN
    SubSeq(current, call[c].offset + 1, PageEnd(call[c].offset, current))

Slice(c, rows) == SubSeq(rows, call[c].offset + 1, PageEnd(call[c].offset, rows))
LastPage(c, rows) == call[c].offset + PageSize >= Len(rows)

\* query_all takes the page; a new page is a new attempt.
Arrives(c, rows) ==
    /\ Goto(c, IF LastPage(c, rows) THEN "done" ELSE "request")
    /\ call' = [call EXCEPT ![c].records = @ \o Slice(c, rows), ![c].offset = @ + PageSize,
                            ![c].attempt = 0, ![c].denied = FALSE]

\* _page.  The last page drops its cursor before it is sent; it may not arrive.
Page(c) == LET rows == cursors[call[c].locator] IN
           /\ pc[c] = "page"
           /\ rows # NoCursor
           /\ cursors' = IF LastPage(c, rows)
                           THEN [cursors EXCEPT ![call[c].locator] = NoCursor] ELSE cursors
           /\ Arrives(c, rows) \/ Fails(c)
           /\ UNCHANGED <<storeVars, tokens, issued, faults, resetting, asks, cached>>

\* The locator is not known any more: 400.
InvalidLocator(c) == /\ pc[c] = "page"
                     /\ cursors[call[c].locator] = NoCursor
                     /\ Fails(c)
                     /\ UNCHANGED <<storeVars, serverVars, asks, cached>>
-----------------------------------------------------------------------------
\* The admin API, and time: what tests and the seed loader do meanwhile.

Changes == edits < MaxEdits /\ edits' = edits + 1

\* upsert_opportunity and edit_opportunity: in place, or at the end if it is new.
Upsert(opp) ==
    /\ Changes
    /\ IF \E i \in DOMAIN opps : opps[i].Id = opp.Id
         THEN opps' = [i \in DOMAIN opps |-> IF opps[i].Id = opp.Id THEN opp ELSE opps[i]]
         ELSE opps' = Append(opps, opp)
    /\ UNCHANGED <<accounts, serverVars, clientVars>>

Delete(id) == /\ Changes
              /\ \E i \in DOMAIN opps : opps[i].Id = id /\ opps' = RemoveAt(opps, i)
              /\ UNCHANGED <<accounts, serverVars, clientVars>>

UpsertAccount(a, name) ==
    /\ Changes
    /\ accounts' = [b \in DOMAIN accounts \cup {a} |-> IF b = a THEN name ELSE accounts[b]]
    /\ UNCHANGED <<opps, serverVars, clientVars>>

\* One fault with a count of n.
ArmFault(target, status, n) ==
    /\ Len(faults[target]) + n <= MaxFaults
    /\ faults' = [faults EXCEPT ![target] = @ \o [i \in 1..n |-> status]]
    /\ UNCHANGED <<storeVars, tokens, cursors, issued, resetting, clientVars>>

TokensDie(S) == /\ tokens' = tokens \ S
                /\ call' = [c \in Clients |-> IF c \in S \cap tokens /\ pc[c] \notin Ended
                                                 THEN [call[c] EXCEPT !.denied = TRUE]
                                                 ELSE call[c]]
                /\ UNCHANGED <<asks, cached, pc>>

\* token_ttl_seconds have passed, and revoke-tokens.
Expire(c) == /\ c \in tokens
             /\ TokensDie({c})
             /\ UNCHANGED <<storeVars, cursors, issued, faults, resetting>>

RevokeTokens == /\ tokens # {}
                /\ TokensDie(Clients)
                /\ UNCHANGED <<storeVars, cursors, issued, faults, resetting>>

\* reset: the server's state under its lock, then the store, then the seed.
ResetServer == /\ resetting = "no"
               /\ Changes
               /\ resetting' = "store"
               /\ TokensDie(Clients)
               /\ cursors' = [l \in 1..MaxQueries |-> NoCursor]
               /\ faults' = [t \in {"token", "query"} |-> <<>>]
               /\ UNCHANGED <<opps, accounts, issued>>

ResetStore == /\ resetting = "store"
              /\ opps' = <<>>
              /\ accounts' = [a \in {} |-> Null]
              /\ resetting' \in {"load", "no"}
              /\ UNCHANGED <<edits, tokens, cursors, issued, faults, clientVars>>

LoadSeed == /\ resetting = "load"
            /\ opps' = Seed
            /\ accounts' = SeedAccounts
            /\ resetting' = "no"
            /\ UNCHANGED <<edits, tokens, cursors, issued, faults, clientVars>>

Serve(c) == \/ TokenRefused(c) \/ TokenGranted(c) \/ NoResponse(c)
            \/ Unauthorised(c) \/ QueryFault(c) \/ Authorised(c)
            \/ FirstPage(c) \/ KeepAnswer(c) \/ Page(c) \/ InvalidLocator(c)

Admin == \/ \E opp \in Opps : Upsert(opp) \/ Delete(opp.Id)
         \/ \E a \in DOMAIN SeedAccounts, name \in Names : UpsertAccount(a, name)
         \/ \E target \in {"token", "query"} : \E status \in Statuses[target], n \in 1..MaxFaults :
               ArmFault(target, status, n)
         \/ RevokeTokens
         \/ ResetServer \/ ResetStore \/ LoadSeed

Next == \/ \E c \in Clients : \/ \E q \in Queries : Ask(c, q)
                              \/ Serve(c)
                              \/ Expire(c)
        \/ Admin

Spec == Init /\ [][Next]_vars

\* A request is served or times out: nothing is assumed to succeed.  (Only
\* Serve(c) moves pc[c], and it can whenever the query has not ended.)
Moves(c) == pc[c] \notin Ended /\ \E label \in Labels : Goto(c, label)

FairSpec == Spec /\ \A c \in Clients : WF_pc(Moves(c))
-----------------------------------------------------------------------------
CallOK(c) == /\ call[c].query \in Queries \cup {NoQuery}
             /\ call[c].attempt \in {0, 1}
             /\ call[c].locator \in 0..issued
             /\ call[c].offset \in Nat
             /\ call[c].denied \in BOOLEAN

TypeOK == /\ edits \in 0..MaxEdits
          /\ resetting \in {"no", "store", "load"}
          /\ tokens \subseteq Clients
          /\ issued \in 0..asks
          /\ DOMAIN faults = {"token", "query"}
          /\ \A target \in DOMAIN faults : faults[target] \in Seq(Statuses[target])
          /\ asks \in 0..MaxQueries
          /\ cached \in [Clients -> BOOLEAN]
          /\ pc \in [Clients -> Labels]
          /\ DOMAIN call = Clients
          /\ \A c \in Clients : CallOK(c)

\* A query that ends well has every row of its answer, once and in order, as
\* the store was when its first page was served (server.py:303-341, client.go:
\* 117-133): whatever is edited, deleted or reset between two pages, whichever
\* session expires, whatever other clients ask; and it leaves no cursor behind.
AnswerIsSnapshot ==
    \A c \in Clients : pc[c] = "done" => /\ call[c].records = call[c].answer
                                         /\ cursors[call[c].locator] = NoCursor

\* A query is one atomic read for its caller (server.py:303-341, salesforce.py's
\* and client.go's paging): between the call and the return there is a moment
\* at which what is returned was the right answer, by the meaning of SOQL and
\* not by the passes of the code: rows in the order of the first key, then of the
\* second, nulls placed and compared as the comments say (store.py:133-167).
RightAnswer(store, query, answer) == IsAnswer(store.accounts, store.opps, query, answer)

\* What the caller of c's query sees of it.
Asked(c) == IF pc[c] \in Ended THEN NoQuery ELSE call[c].query
HasAnswer(c) == pc[c] = "keep" \/ (pc[c] \notin Ended /\ call[c].locator # 0)
Answers(c) == IF HasAnswer(c) THEN {call[c].answer} ELSE {}
Given(c) == IF pc[c] = "done" THEN {call[c].records} ELSE {}

Service == INSTANCE QueryService WITH
              IsAnswer <- RightAnswer,
              store <- [accounts |-> accounts, opps |-> opps],
              asked <- [c \in Clients |-> Asked(c)],
              read <- [c \in Clients |-> Answers(c)],
              given <- [c \in Clients |-> Given(c)]

ImplementsQueryService == Service!Spec

\* A session that expires between two queries or between two pages never fails
\* a query (client.go:117-118): a 401 is final only if a token died, or was said
\* to have, while that page was being asked for.
SurvivesExpiry == \A c \in Clients : pc[c] = "unauthorised" => call[c].denied

\* Every query ends, however often tokens expire under it (client.go:136-163).
QueryEnds == \A c \in Clients : (pc[c] \notin Ended) ~> (pc[c] \in Ended)
=============================================================================
