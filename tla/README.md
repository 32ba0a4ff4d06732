# Relay in TLA+

Relay copies won Salesforce deals into an ERP: a Go Lambda polls Salesforce and
publishes events to an SQS queue, a Python Lambda (the worker) writes them to the
ERP's three DynamoDB tables, what it cannot write goes to a dead-letter queue, and
a nightly reconciler re-enqueues what is missing. This directory holds models of
that system, the TLC runs that check them on small instances, and proofs checked
by TLAPS. `PROJECT.json` maps every definition to the lines it models.

    tlc -config sync_overlap.cfg MCSync.tla     # any run: its cfg, its MC module
    tlapm SyncProofs.tla                        # any *Proofs module

## The system

| Component | State | Operations | Talks to |
|---|---|---|---|
| Ingest poller (`ingest/poller`, `ingest/main.go`) | the watermark (an SSM parameter); inside a run: its window, the rows read, the count sent | read the watermark, ask Salesforce for the time, query a window, publish in batches of ten, move the watermark | Salesforce (reads), the queue (sends), SSM |
| Salesforce clients (`internal/salesforce`, `reconciler/salesforce.py`) | a cached token; inside a query: the rows so far, the next page | token, query, next page, 401 retry | Salesforce |
| Queue and dead-letter queue (`template.yaml`) | per message: body, visible or hidden, receive count | send, receive, visibility timeout, delete, redrive policy | poller and reconciler (producers), mapping, worker, relayctl |
| Event source mapping (Lambda; `tests/harness/esm_pump.py` locally) | batches in flight; paused or running | receive a batch, invoke, delete what was not reported failed | queue, worker |
| Sync worker (`worker/app.py`, `classify.py`, `mapping.py`, `chaos.py`) | per invocation: records left, records failed | map, write, classify, dead-letter, set a delay, hand back | queue, dead-letter queue, ERP |
| ERP writer (`erp/writer.py`, `schema.py`) | the Customers, Orders and Invoices tables | one conditional transaction; read the order back | DynamoDB |
| Retry backoff (`worker/backoff.py`) | none | delay of a receive count | worker |
| Reconciler (`reconciler/`) | none between runs | read deals, orders, stages; compare; re-enqueue; report | Salesforce, ERP, queue |
| relayctl (`relayctl/`) | the chaos flags (SSM) | dlq peek, redrive, ack; chaos on, off; stats | dead-letter queue, queue, SSM |
| Smoke test (`scripts/smoke.py`) | none | send an event, wait for its order, delete it by hand | queue, ERP |
| Fake Salesforce (`fake_salesforce/`) | deals, tokens, cursors, injected faults | stands in for Salesforce in tests | poller, reconciler |

### What is hard here

- **At least once, in any order.** A standard SQS queue delivers a message again
  while, or after, somebody processed it, and a newer version before an older one.
  The version condition of the ERP transaction is the only defence.
- **Partial failure everywhere.** A batch of sends, a batch of records, a batch of
  deletes can each succeed in part; a reply can be lost after the effect. What is
  acknowledged, and where the watermark stops, must be right in every case.
- **Stale reads.** The worker reads the stored order after its write was refused;
  the poller publishes rows it read before; the reconciler compares three reads
  taken at different times.
- **Second resolution.** Salesforce stamps have one second. A row on the boundary of
  two windows, two edits in one second, a transaction that commits seconds after its
  stamp: only the lag (`INGEST_LAG_SECONDS`) makes a second final when it is read.
- **A shared budget.** Receives are used up by real errors, crashes and records that
  the time guard hands back alike; at the limit SQS moves the message by itself.
- **Drift that is not drift.** A comparison of three reads reports what changed in
  between; the grace, the order of the reads and the poller's lag decide what can be.
- **Sessions and pages.** An answer is fetched page by page while the org changes, the
  session expires and other clients ask; a page that is refused is asked for again.
- **Two queues, one message.** An operator moves a message between two queues that have
  no common transaction, with a receipt that goes stale, beside other operators.
- **Overlap.** Nothing but the schedule keeps two poller invocations apart, and the
  watermark is written without a condition.

`PROJECT.json` lists each of these as a hazard at its line, with the properties that
would catch it, or the reason none does.

## The modules

| Module | What it is |
|---|---|
| `ErpWriter` | The ERP's tables and the version-checked write: `Transaction`, `Cancelled`, `Verdict`. |
| `Sync` | The queue, the mapping, the worker and the dead-letter queue, over `ErpWriter`. |
| `OrderBook` | The abstract specification that `Sync` and `Smoke` implement, and half of what `Relay` is: a deal's order moves only to newer, valid versions that were offered. |
| `Poller` | The poller and the org it polls, with overlapping runs. |
| `Relay` | `Poller` with the ERP behind it: what the pipeline promises from end to end. |
| `Smoke` | The smoke test beside `Sync`: every step of it is a step of `Sync` or leaves `Sync` alone. |
| `Soql` | What a query means to the fake Salesforce, and the reference it is checked against. |
| `Salesforce` | The fake Salesforce's API and store with the two clients' paging and token protocol, over `Soql`. |
| `QueryService` | The abstract specification that `Salesforce` implements: a query is one atomic read. |
| `Relayctl` | The operators' commands on the dead-letter queue. |
| `Reconciler` | A run of the reconciler between an org that is edited and an ERP that is written. |
| `MC...` | Small instances, one module for each specification that is run. |
| `...Proofs` | The theorems of `Sync`, `Poller`, `Reconciler`, `Relay`, `Smoke`, `Soql`, `Salesforce` and `Relayctl`. |

`Smoke` extends `Sync`, which extends `ErpWriter` and instantiates `OrderBook`; `Relay`
extends `Poller` (`RelayProofs` instantiates `OrderBook` too); `Salesforce` extends `Soql` and
instantiates `QueryService`; `Reconciler` and `Relayctl` stand alone.

### ErpWriter and Sync

An event is `[deal, version, account, body, kind]`. `version` is the deal's
SystemModstamp and `body` its content: two edits in one second have the same version
and different bodies. `kind` is what validation will say: `unmappable` (`to_order`
raises `PermanentError`), `refused` (the ERP rejects the item), `good`.

`orders[d]` is the event the order was written from with the `revision` DynamoDB
counts; `invoices[d]` and `customers[a]` are the event they were last written from.
`Transaction` is the whole `transact_write_items` call; `Cancelled` is the same call
when the condition fails; `Verdict` is `_classify` on the stored order, which comes
with the error (`ConditionFailed`) or from `_read_order` later
(`ConditionFailedNoItem`, then `ReadOrder`, with anything in between).

In `Sync` a message is `unsent`, `visible`, `hidden` or `gone`, with its receive
count. `batch`, `todo`, `failures` and `asking` are the local state of an invocation
of `handler`. Each outcome of `handle_record` is an action: `Written`,
`WrittenReplyLost`, `ConditionFailed`, `ConditionFailedNoItem` with `ReadOrder` or
`ReadOrderFails`, `TransientError`, `DeadLetter` (sent; sent and the reply lost; not
sent). `OutOfTime` is the time guard, `Crash` any death of the invocation, `Respond`
the return of the handler and the mapping's deletes, of which any may fail.

Abstractions of `Sync`, each of which only adds behaviours:
- A visibility timeout, the queue's or the one `_delay_redelivery` sets, may run out at
  any moment. So the delays of `backoff.py` are not needed here, and duplicates while
  a worker still has the message are covered.
- A batch has no order (`todo` is a set).
- Any record may fail transiently at any time. The ERP's answers are not correlated
  between attempts, except through its tables.
- `DeadLetter` may be reached by a good event in no way; by a refused event at any
  time, also when its version condition would have failed first.

and of what it leaves out: message retention (four days) never ends, and nothing leaves
the dead-letter queue, which is the subject of `Relayctl`.

### Poller

`deals[d]` is the committed version of a deal, `open[d]` the version an open
transaction will commit, stamped when it was written. `Tick` lets time pass, no
transaction staying open longer than `CommitDelay`. A run goes through `ReadWatermark`,
`ReadServerTime`, `QueryAll`, then `PublishChunk` for each batch of `ChunkSize`, and
`SetWatermark`. `PublishError` is a failed request, with all, some or none of its effect;
`PublishPartly` is a response with failed entries. `pc = "failed"` is the partial path
of `Run`: `SetWatermark` moves to the first unsent stamp if that is progress, else
`GiveUp`. `RunFails` ends the run at any point. `Runs` are invocations that may
overlap; each can start again.

Time is in seconds: SystemModstamp and the Date header have that resolution. The lag
is assumed to be at least `CommitDelay` (`PollerAssumption`): the repository's README
names a longer transaction as a known limit. `QueryAll` is one step: paging reads a
cursor that Salesforce fixed at the first page, which is what `AnswerIsSnapshot` of
`Salesforce` says.

### Relay

`Relay` adds `erp[d]`, the version behind a deal's order, and `parked`, the versions that
ended in the dead-letter queue. `Deliver` is the worker's conditional write of a
published version, at any time and as often as it likes, `Park` the end of one that ran
out of receives or was refused, with or without having been written: what `Sync` does in many
steps to a message. That `Deliver` is `Apply` of `OrderBook` is how it was written down, so
no run checks it. So `Sync` shows what becomes of one message and `Relay`
what becomes of a deal. `OrderBook` takes the version of an event and its validity as
parameters: for `Sync` an event's `version` and that its kind is `good`, for `Relay` a row's
stamp and that it is won; one call may offer several events, as a batch of the poller does. An `open` write is a transaction of Salesforce that has its stamp
and has not committed. `ErpSettles` speaks of deals that are `Due`: won, and stamped early
enough to be polled before the model's clock stops.

### Smoke

A test has an event with a deal and an account of its own (`SmokeAssumption`; the script
uses a fresh id and one customer of its own). `step[t]` goes from `send` through
`order` and `invoice` (the two reads of a round of the loop, which the worker can come
between) to `drop order`, `drop invoice`, `drop customer`. `ReadRaises` and `DropRaises`
are exceptions: the first still leads to the `finally` clause, the second ends it. `quiet`
is history: whether, when the cleanup began, every message of the event had left the queue and
the worker. `LeavesNothing` is only promised then: after a FAIL at the deadline, or when a
duplicate is under way, a later delivery writes the order again, and "it deletes what it
wrote" (`smoke.py:9`) does not hold.

### Soql and Salesforce

`Soql` translates `Store.run_query`: conditions, stable sorting passes from the last key
to the first, the limit, the projection with its computed fields. Parsing the text of a
query is left out; a query is a record of its fields, conditions, keys and limit.
A list of rows is written as the function that gives each row its place, so that a pass is
the function of the new places and the passes are a recursive function of their number;
`IsQuery` is what the parser lets through.
`Selected`, `Precedes` and `IsAnswer` are the reference: lexicographic order, nulls first
or last, ties in order of insertion, no null below or above anything.

In `Salesforce` each client has one query at a time and a cached token. Which tokens there
are does not matter, only whether the server accepts the one a client has, so `tokens` is
a set of clients. `pc[c]` is `token` or `request` in the client, `query`, `keep` and
`page` in the server's thread, which takes its lock three times in a first page: other
requests, resets and edits come between. `Rejected` is the 401: a new token, once per
page. The reply to an injected fault can be lost, a 401 too. `Page` may be lost on its way to the client, after the last page dropped its cursor.
`ArmFault`, `RevokeTokens`, `Upsert`, `Delete`, `UpsertAccount` and the three steps of a reset are
the admin endpoints. The Go and the Python client differ in nothing the model keeps.
`Service` hides all of this: a client that is not idle has `Asked` its query, from its first
page on it has read an answer (`Answers`), and when it is done it is `Given` the rows it
joined. `QueryService` allows only this: an answer is right on the store at the one
moment it is read, it is returned whole or not at all, and the store changes as it likes.
`denied` is history: whether the client's token died, or an injected 401 said so, since it
first asked for the page. Left out: the request log, the API call counter and the manual clock of the fake;
`token_ttl_seconds` is `Expire`, which may come at any time.

### Relayctl

A dead letter is its event and whether the worker gave a reason (`permanent`); its place
is `visible`, `held` or `gone`, and `last` says which operator can use the newest receipt. A
delete with an older receipt succeeds and may do nothing. A command goes through `Begin`,
the receives of `peek` (`Receive` any batch of visible messages, `ReceiveNothing`,
`ReceiveFails`, `PeekEnds`), and then the messages from the oldest on: `Keeps`,
`SendsCopy` and `Deletes`, or `AckDeletes`; `ReceiveFails`, `SendFails`, `DeleteFails` and
`AckFails` with or without the call's effect (a receive may have hidden messages that its
caller never saw); `Finishes`. What ends a command releases what it kept, which may fail for
some of it; `Interrupted` leaves everything held. `main` counts the copies on the main queue,
which the worker settles (`Handles`) or sends back. `settled` are the events that the ERP has or a human
has dealt with: acknowledging an event says that. `lone` is history, for
`LoneCommandSweeps`: nothing was held when the command began and nothing has disturbed it.
An empty receive means that nothing is visible (long polling asks all servers). An ack whose
delete fails goes on, keeps the message and does not report the error (`dlq.go:184-189`):
`LoneCommandSweeps` promises only that what it reports as acknowledged is gone. When all its
deletes fail, the command says "no dead-lettered message matches" (`relayctl/main.go:258-260`),
which is not so: one did, and is still there unless only the reply was lost.

### Reconciler

The world around a run is small on purpose. `org[d]` is the deal as it stands, with its
stamp, its stage and what `to_order` will say of it (`valid`); `Edit` wins, reverts,
changes, deletes or restores it. The poller is only `Publish`: it may send a won deal
once its stamp is older than the lag, twice, or never. `Deliver` is the worker's
conditional write of an event (`orders[d]` is the version), `DeadLetter` the end of an
event it refuses or gives up. `SmokeSend` is the smoke test, whose deals are never in the
org. `replica[d]` is the version in the slowest copy of the item, which `Replicate`
brings up to date: the reconciler's Scan is eventually consistent.

A run of `handler` goes through `Start` (its `now`), `QueryWon`, one `ScanOrder` per item
(each at its own time, from any copy), `LookupStages` (the rest of `compare`: the orphans
are looked up and `to_enqueue` is fixed), `SendChunk` per batch, and `Finish`, which a dry
run reaches without sending. `SendPartly` is a response with failed entries, `SendError` a
request that fails with or without its effect, `RunFails` any other end. What `compare`
decides are operators of what was read: `Considered` (the grace), `MissingOrder`,
`StaleOrder`, `ErpAhead`, `Orphans`, `NotFound`, `NotWon`, `ToEnqueue`. A considered
deal that is invalid and has no order (`invalid_in_source`) is in none of them.

Four variables are history, read by properties and by no guard: `behind` (the deals whose
slowest copy was behind the row when the rows were read), `steady` and `alive` (the deals
that were won, that existed, all through the run) and `late` (whether the pipeline has
ever left a valid won deal that is out of the grace unwritten in some copy).

Abstractions: one clock for Salesforce, the Lambda and the grace; a stamp is the time of
the commit (`Poller` is about commits that come later); one run at a time, as its schedule
and timeout make it; `QueryWon` and `LookupStages` are one step each, so that a lookup of
more than a hundred ids in several queries and ids that are no Salesforce ids are left
out; two edits within one second have one version and the contents are not compared,
as in the code.

## The runs

| Run | Instance | What it shows |
|---|---|---|
| `sync_overlap` | 2 workers, 3 messages, 2 receives, batch 1; a deal that moves to the account of another deal and is edited twice in a second | `TypeOK`, `NoEventLost`, `EffectivelyOnce`, `ErpConsistent` under duplicates, reordering, crashes, lost replies |
| `sync_batch` | 1 worker, 3 messages, batches of up to 3; 2 deals with good, unmappable and refused events | `NoEventLost`, `GoodOnlyAfterBudget`, and `OrderBook` is implemented, with partial responses, the time guard, failed dead-letter sends |
| `smoke_cleanup` | 1 worker, 2 messages, 2 receives, fair; a smoke test beside a real deal with an invalid event | `SmokeTypeOK`; `AckReadsTheTruth`, `ImplementsOrderBook` although orders are deleted by hand; `LeavesNothing`; `QueueDrains`: every message leaves the queue although no step is assumed to succeed; `SmokeEnds` |
| `sync_reason` | 1 worker, 2 messages, a violation | an invalid deal can be in the dead-letter queue with no reason (below) |
| `poller_overlap` | 2 runs, 2 deals, batches of 2, 3 writes, 1 failure, lag 1, 3 seconds | `TypeOK`, `NothingSkipped`, `ReadsFinalState`, `SnapshotStaysComplete`, while the slower run moves the watermark back |
| `relay_live` | 1 run, 2 deals, batches of 1, 2 writes, 1 failure, lag 1, 3 seconds, fair | `RelayTypeOK`, `ErpMirrorsOrg`; `PublishesOnce`: half-open windows tile time as long as nothing fails; `EventuallyPublished`; `ErpSettles`: every due deal's order ends as the deal stands, unless the receives of that version ran out |
| `reconcile_race` | a deal with 3 edits and one of the smoke test, grace 2, lag 0, timeout 1, no failure | `TypeOK`; `DriftWasReal`, `OrphansAreReal`, `AheadMeansMovedOn`: what a run sends or reports was so at some moment of the run; `OnTimeMeansNoDrift`; `YoungRunsAreNotOvertaken` |
| `reconcile_live` | 2 deals, 2 edits, 1 failure, dry runs, a poller that may do nothing, fair | `DriftIsRepaired`: the ERP gets the last version of every valid won deal |
| `salesforce_pages` | 2 clients, 2 queries, pages of 1, 4 deals with ties and nulls, 1 change, 1 fault of each kind at a time, tokens that die at any moment, resets, fair | `TypeOK`; `AnswerIsSnapshot`; `SurvivesExpiry`; `ImplementsQueryService`: a query is one atomic read, and right by the reference, on every store that is reached; `QueryEnds` |
| `relayctl_dlq` | 2 operators, 2 commands, 3 letters, one valid event and one invalid, batches of 2, limits of 1 and 2, one event and one message to acknowledge | `TypeOK`, `NothingLost`, `LoneCommandSweeps`, `OncePerCommand` |
| `reconcile_not_won`, `reconcile_invalid` | 1 deal, 3 edits, violations | what `compare` reports as not won can be won; what it re-enqueues can be invalid (below) |

### Bounds, and why they are enough

`Sync` needs no bound that the system lacks: messages are a finite set, a receive count
is limited by the redrive policy (2 here, 5 in the template: one receive that fails and
one that is the last). Two messages make a duplicate and a reordering, the third a
message received while two workers are busy. Two versions and a second content of one
of them make every comparison of `Verdict`; a second deal shares the account that the first
moves to.

`Poller` bounds the clock (`MaxTime`), the writes to the org (`MaxEdits`) and the
failures (`MaxFaults`). With a lag of one second, three seconds hold two successive
windows, and the boundary between them; three writes are a row on each side of a boundary
and an edit, or a late commit between two others. The theorems hold for every value.
`Relay` has the bounds of `Poller`: two versions of one deal, or one each of two, overtake each
other on their way; a failure repeats what was published.

`Salesforce` bounds the queries, the changes and the faults that are armed at a time; tokens die
without a bound. An answer of two rows in pages of one makes a second page, during which
any of these happens; two queries by one client share its token, by two clients the store.
`Relayctl` bounds the commands, the ids and the copies on the main queue (a send that
would be one too many is not taken; `NothingLost` holds for every bound). Two operators can
peek at, move and delete one message at the same time; three letters with receives of two
need two receives, and the limits are reached with and without letters left over.

`Reconciler` bounds the clock, the edits and the failures, as `Poller` does. A second of run (`Timeout`) after a grace of two lets an
edit, its publication, its write and its replication each fall before, between and after the
three reads; three edits win a deal, change or revert it while the run has it, and win it
again. With a lag of zero a run is both younger and older than the lag. In
`reconcile_live` every edit is early enough to come out of the grace before the clock
ends, which stands for the nights that follow. Failures are in `reconcile_live`: they only
end a run or lose its sends, so the safety properties need none, and the theorems, which
allow any number, say so.

`EffectivelyOnce` is checked in `sync_overlap` only; that it survives the smoke test's
deletions is `SmokeWritesAtMostOnce`. `AckReadsTheTruth` is checked in `smoke_cleanup`
only: while no order is deleted by hand it says no more than `NoEventLost`.

Symmetry is used over messages and workers, deals and runs, operators, which the specifications
compare only for equality, and never in a run with a liveness property.
Deadlock checking is off because the systems may stop: all messages may be gone, the
clock at its bound. In `Reconciler` a run can always start or go on, and it is on.

### Fairness

`Sync`: every invocation ends, since Lambda's timeout ends it if nothing else does
(`WF(Invocation)`: some outcome, a crash included); a visibility timeout runs out; the
mapping and the redrive policy keep polling. Nothing is assumed to succeed, so
`QueueDrains` is a property of the receive limit alone.

`Poller`: the clock runs, transactions end, the scheduler starts runs, a run that does
not fail goes on. Failures are finitely many, which `EventuallyPublished` needs: a
poller that always fails publishes nothing.

`Smoke`: the queue as in `Sync`; time passes (`WF(DeadlinePasses)`) and each call of the script
returns or raises. Neither is assumed to succeed.

`Relay`: the poller as above; a published version that is newer than what the ERP has is
delivered or parked, which is `QueueDrains` of `Sync` (the message leaves the queue) with
`NoEventLost` (where it went). A version the ERP has, or is past, need never be parked: its message
is deleted. So `ErpSettles` cannot come true by parking what was written.

`Salesforce`: a request is answered or fails, since both clients set a timeout. No token is
assumed to live long enough for anything.

`Reconciler`: the clock runs (a run is bounded by its timeout, so it moves on), the queue
delivers what it holds, DynamoDB replicates, the scheduler starts runs and a run goes on.
That a run sends what it has to (`SF(SendChunk)`) says that not every run is a dry one,
and failures are finitely many. Of the poller nothing at all is assumed.

## The findings

`sync_reason` refutes a sentence of the repository's README (line 12): "Invalid deals
go to a dead-letter queue with a reason". The redrive policy counts receives without
looking at what used them. An invalid deal's message whose receives are used up by
crashes, by hand-backs of the time guard or by failed dead-letter sends is moved by SQS
without a reason, and `relayctl` reads an empty reason as a transient failure that is
worth redriving (`relayctl/ops/dlq.go:30-32`).

`reconcile_not_won` refutes "deal exists but isn't won -> not_won" (`reconcile.py:15`). The
lookup selects `IsWon` and `compare` does not look at it, so an order whose deal is won
again by the time it is looked up is reported as not won, "stage is Closed Won".

`reconcile_invalid` refutes "validates before re-enqueueing" (`docs/PLAN.md:212`). Only a
missing order is validated. A synced deal that is edited to something `to_order` refuses
is a stale order, is sent as it is, and is dead-lettered, every night.

No run refutes that an ERP ahead of Salesforce "shouldn't happen" (`reconcile.py:11`), but
the configuration makes it possible: a run may take 300 seconds (`template.yaml:258`) and
the poller publishes an edit after 120 (`:165`), so a deal edited after the query can be
written before the scan reaches it. `AheadIsOnlyLate` proves that this is what a report of
it means, and `YoungRunsSeeNothingAhead` that a run within the lag has none.

## What is proved

`SyncProofs`, from `EventsAreRecords`, `NoItemIsNotAnItem` and `SyncAssumption`, for any
sets of messages, workers and events, any receive limit and batch size:

| Theorem | Property |
|---|---|
| `TypeCorrect` | `TypeOK`, which is inductive as it stands: it says of each worker that the record being read back is unfinished and was mapped |
| `NothingIsLost` | `NoEventLost`, inductive with `TypeOK` because it speaks of the records that are about to be acknowledged, not only of the messages that are gone |
| `AcknowledgementsAreTrue` | `AckReadsTheTruth`, by one lemma per way a record can leave `todo` |
| `WrittenAtMostOnce` | `EffectivelyOnce`: a transaction raises the revision by one and the version strictly, and the set of versions up to it gains a member (`CountRises`) |
| `TablesAgree` | `ErpConsistent`, with `ErpKeys` (an item is stored under its own key) |
| `BudgetIsSpent` | `GoodOnlyAfterBudget` |
| `SyncIsAnOrderBook` | `Spec => ImplementsOrderBook`: a send is `Offer` of one event, a transaction `Apply`, a manual deletion `Erase`, all else stutters |

The argument turns on three facts: `ErpSteps` (the only steps that touch the tables),
`VersionsGrow` (the version of a deal that nobody deletes never goes down, from the
condition) and `AcknowledgedIsSettled`.

`PollerProofs`, from `PollerAssumption`, for any set of deals, any number of overlapping
runs, any lag not below the commit delay, any bounds:

| Theorem | Property |
|---|---|
| `PollerTypeCorrect` | `TypeOK`, which is not inductive alone: a watermark is a number because a window is never empty |
| `NeverSkips` | `NothingSkipped` |
| `SnapshotsStay` | `SnapshotStaysComplete` |
| `FinalStateIsRead` | `ReadsFinalState` |
| `PublishesEachOnce` | `PublishesOnce`, an action property |

The inductive invariant `Inv` adds what the properties leave unsaid: an open transaction
is at most `CommitDelay` old (`OrgInv`), every time a run works with is past (`Past`),
what each run knows of its window (`WindowInv`), and that whatever was read is final
(`Final`). Its core is `OrgStep`: what a step makes visible is stamped no earlier than
`now - CommitDelay`, so nothing appears in the past (`PastStays`, `WindowShrinks`).

`PublishesEachOnce` needs a second one, `Once`: as long as nothing has failed and no run
overlaps another, a run's window starts at the watermark as it stands, the rows it has read
differ, and whatever is published is behind the watermark or among the rows the run has
sent. That the rows differ is the pigeonhole argument of `ListingIsDistinct`. The attempt
showed that the property had to say "no two runs" without a cardinality, which TLA+ does
not define for an infinite set of runs.

`ReconcilerProofs`, from `ReconcilerAssumption` and `NoRowIsNotARow`, for any deals, grace,
lag, timeout and bounds, with failures anywhere and a poller that publishes what it likes:

| Theorem | Property |
|---|---|
| `ReconcilerTypeCorrect` | `TypeOK` |
| `RepairsWereNeeded` | `DriftWasReal` |
| `OnlyLostDealsAreOrphans` | `OrphansAreReal` |
| `AheadIsOnlyLate` | `AheadMeansMovedOn` |
| `YoungRunsSeeNothingAhead` | `YoungRunsAreNotOvertaken` |
| `NoDriftOnTime` | `OnTimeMeansNoDrift` |

None of them is inductive. `Inv` adds that versions are ordered along the pipeline, copy
below order below deal and clock (`OrgInv`, `QueueInv`, `ErpInv`), and what a run knows
while its reads age (`ReadInv`): a deal that was not behind when it was read cannot look
behind later, because copies only grow (`NotBehind`); one that has not changed since cannot
look ahead (`NotAhead`); and until the lag is over the queue holds nothing newer than the
row (`NotOvertaken`). `NoDriftOnTime` adds `OnTimeInv`, that a pipeline which has not been
late has in every copy whatever is out of the grace. It takes a grace of at least a second:
with none, a deal edited in the second of the query is due at once.

`RelayctlProofs`, from `RelayctlAssumption`, for any operators, letters, events, limits:

| Theorem | Property |
|---|---|
| `TypeCorrect` | `TypeOK`, with what each operator's list holds at each label (`Lists`) |
| `NoEventIsLost` | `NothingLost` |
| `LoneCommandsSweep` | `LoneCommandSweeps`, also when deletes of an ack fail |
| `CopiesOnce` | `OncePerCommand` |

`Invariance` proves the strengthening `IInv` once for all four. `NothingLost` is not
inductive: between the copy and the delete of a redrive the message must not be what keeps its
event. `AllSafe` therefore counts a message that somebody is about to delete (`Marked`) as
gone already: its event is settled, or has a copy on the main queue, or another message.
`Acked` says that what an acknowledging command deletes has been dealt with. `Alone` is what a
lone command knows: it has the last receipt of all it found, what is hidden is in its
list, and once its peek has ended it has found everything or as much as it asks for.
`Lists` says that a message is in a list once and, as long as it is there, has not been
moved, which is `OncePerCommand`.

`SmokeProofs`, from `SmokeAssumption` and those of `Sync`: `SmokeRunsThePipeline` shows that
`SmokeSpec` implies `Sync`'s `Spec`, so that its theorems hold beside the tests
(`SmokeWritesAtMostOnce`, `SmokeAcknowledgesTruly`, `SmokeIsAnOrderBook`);
`SmokeLeavesNothing` is proved with `Cleaning`: from a quiet start of the cleanup no
worker and no message has the test's event any more, and what was dropped stays dropped;
`SmokeTypeCorrect` is the type invariant.

`RelayProofs`, from the assumptions of `Poller`:

| Theorem | Property |
|---|---|
| `RelayRunsThePoller` | `RelaySpec` implies `Poller`'s `Spec`, so that its theorems hold with the ERP behind it |
| `RelayTypeCorrect` | `RelayTypeOK` |
| `MirrorsTheOrg` | `ErpMirrorsOrg` |
| `RelayPublishesEachOnce` | `PublishesOnce` |
| `RelayIsItsParts` | `RelaySpec` is equivalent to the conjunction of its parts: `Poller`'s `Spec`, `OrderBook`'s and a dead-letter queue |

`Mirror` is the invariant: no version that was read is ahead of its deal, and each is won.
That one with the deal's own stamp is the deal itself, and that no open write can still get
that stamp, comes from the invariant of `PollerProofs` (what was read is final).
`RelayIsItsParts` is what justifies `Relay`'s short account of the queue and the worker:
its behaviours are exactly those of the poller, of an order book over what the poller
publishes, and of a dead-letter queue that only takes what was published, taking turns.
`SyncIsAnOrderBook` shows that the queue and the worker, in all their steps, are such an
order book over what is sent to them. Joining the two by hand is the one step that is left to
the reader: a sent event stands for the row it was made from, its version for the stamp.

`SoqlProofs` proves `RunQueryIsRight`: for any store, and any query that the parser lets
through and whose keys are comparable, the answer that the sorting passes compute satisfies
`IsAnswer`. It assumes of `Null` only that it is no number.
- `PassesDefined`, that the recursive function of the passes is defined, and `PassesSort`,
  that after `n` passes the list is in the lexicographic order of the last `n` keys, are
  inductions over the passes. The library's induction theorem cannot be used; both take the
  least number for which the statement fails (`LeastNatural`, from well-foundedness).
- `PassSorts` is what a stable pass does: the order becomes the key first, the old order second
  (`Refined`). `KeysOrderRows` is that a key orders the rows weakly, which needs values that
  compare; `PlacesOrder` that counting what precedes a row turns a strict order into places.
- `LexicographicStep` and `PrecedesIsFollow` join this to the reference, which speaks of all keys at
  once, and `RankIsPlace` to its ranks.

The reference had to be corrected on the way: its `CASE` had overlapping guards, and TLA+ does not say
which is taken.

`SalesforceProofs`, from `SalesforceAssumption` and `QueryAssumption`, for any clients,
queries, page size, faults, seed and changes:

| Theorem | Property |
|---|---|
| `SalesforceTypes` | `TypeOK` |
| `AnswersAreSnapshots` | `AnswerIsSnapshot` |
| `QueriesAreAtomic` | `ImplementsQueryService`, with `RunQueryIsRight` for the answer |
| `ExpiryIsSurvived` | `SurvivesExpiry`, with `Retry`: a client on its second attempt has been denied its token or still has one the server accepts |

`PageInv` is the invariant of the first three. A client that is paging has exactly the rows of
its answer before its offset, and the server keeps that very answer under the client's locator
or, after a reset, nothing, since a new answer gets a locator that was never given out.
`Counted` is what keeps locators from running out: a query that waits
for one was counted when it was asked. `StoreOK` is that whatever is written to the store has the
values that `RunQueryIsRight` asks for. The moment of a query is `FirstPage`, where the server
computes the answer under its lock; each other step is a change, a return, a failure or
a stutter of `QueryService` (`ServiceStep`).

`QueryAssumption` says of the queries what the parser ensures (`IsQuery`), and of the seed and the
rows that may be written that the fields queries sort by hold numbers or null.
`NoQuery` is no query. TLC evaluates both on the instance.

Only model-checked: the liveness properties, which are out of the prover's reach:
`QueueDrains` with one worker, `SmokeEnds`, `EventuallyPublished`, `ErpSettles`,
`DriftIsRepaired`, `QueryEnds`. Every other property of a passing run is stated by a theorem.

## What is not modelled

- Parsing and formatting (`soql.py`, the stamps' text, `to_order`'s field checks beyond
  their verdict), logs and metrics, the bootstrap and deployment scripts, the CI and
  container declarations: they keep no state the properties speak of. The version is a stamp in
  whole seconds, so the float of `reconciler/events.py:32` is exact and the models' integers are
  what the code computes.
- `backoff.py`: arithmetic on delays and jitter. The models let a delay be of any length,
  so nothing they show depends on it; that the delays add up to the documented budget
  is a matter of its unit tests.
- The chaos flags of `relayctl` (`state.go`): switches for tests, read, changed and
  written back one by one. Two operators can undo each other's change, and nothing says they
  cannot. `stats` only reads.
- The test pump's pause and resume (`esm_pump.py:161`): it stops deliveries, which `Sync` allows
  at any time. In composition with `Sync` it multiplied the states without reaching a
  promise of the program.
- The durations of a poller run: that a backlog too large for 60 seconds is published
  again from its start on every run (`poller.go:104`) needs a model of how long calls take.

## Plan

What would come next, most useful first:

1. `Sync` and `Relayctl` over one dead-letter queue, which would extend `NoEventLost` to what
   an operator sends back; today `NothingLost` takes the worker's half on trust from
   `Sync`.
2. A module that runs `Poller` and `Sync` together, each published row sent as an event, and
   implements `Relay`: `RelayIsItsParts` and `SyncIsAnOrderBook` are its two halves.
3. The content of a deal beside its version in `Reconciler`: two edits in one second, the second
   committed late, a limit the repository names (README.md:187-190).
4. A timed model of the backoff against the queue-stuck alarm.
