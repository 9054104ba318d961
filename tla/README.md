# Block feed: TLA+ models and proofs

The block feed turns a blockchain into a stream of webhook calls. A forwarder
follows a node, a router stores the blocks and wakes up the webhooks that wait
for them, relay workers POST ranges of blocks to the customers' URLs, and a
dashboard manages webhooks and their billing. This directory holds the models
of that system, the model-checking runs and the machine-checked proofs.

    tlc -workers 2 -config relay_safety.cfg MCWebhookRelay.tla   # one run
    tlapm WebhookRelayProofs.tla                                 # the proofs

`PROJECT.json` lists the components, every run, the lines each definition
stands for, the mutations each property was tried against, the hazards and the
theorems.

## 1. The system

    node --headers--> forwarder --XADD--> block stream --XREADGROUP--> router
                                                                        |  \
                             block store (redis cache <- flusher ->     |   Flush (one script
                             timescale) <---------- PutBlocks ----------+    per shard)
                                  ^                                          v
    dashboard --activate--> pending set --Flush--> webhook stream --XREADGROUP--> relay --POST--> URL
        \--MySQL rows--------------^----------------------^-------- XAckDel -------+

    page <--queries, mutations--> dashboard API --checkout sessions--> Stripe
                                    | row, cache  ^                      |
                                    v             | invalidate           v
                                  MySQL, redis <--+--- consumer <--- event stream <--- endpoint

| Component | State it keeps | Operations | What is hard |
|---|---|---|---|
| Shard of the redis cluster (`streams/webhook-stream.go`, `scripts/activate.ts`) | latest block height, pending set, webhook stream and its consumer group, webhook set | scripts `activate`, `Flush`, `XAckDel` (drop, replace) | three kinds of writers; each script is atomic, the protocol they form is not |
| Stream consumer (`streams/redis-stream.go`) | backlog cursor per worker | `Subscribe`: backlog pass, new message, handler | redelivery, delivery counts, workers that stop one by one, restarts |
| Relay (`services/blockrelay`) | the job in hand and its blocks | find webhook, check deliveries, fetch, POST, acknowledge | every step is a remote call that can fail or be the last one before a crash |
| Router (`services/blockrouter`) | the batch in hand | store, flush all shards in parallel, acknowledge | partial failure, repetition, order of repeated batches |
| Forwarder and Ethereum source (`services/blockforwarder`, `block-sources/ethsrc`) | current height | subscribe, catch up, forward | restarts while the router is behind or before anything is stored |
| Block store and flusher (`block-stores/*`, `apps/block-feed/block-flusher`) | sorted set of cached blocks, table of flushed ones | `PutBlocks`, three reads, flush | reads of two stores without a lock, repeated heights, unsigned arithmetic |
| Webhook API (`apps/dashboard/src/server/schema/webhooks`) | MySQL rows, webhook sets | create, update, activate, remove, find one, find many | MySQL and redis are written one after the other, on several shards at once |
| Dashboard page (`app/page.tsx`, `components/home`, `client/hooks`) | search, modals, cached queries, checked boxes | search, turn the page, refresh, four mutations | answers that were asked for before a mutation, cursors whose row is gone |
| Checkout (`schema/stripe/handlers/create-checkout-session.ts`) | the user's checkout session row | find, replace or create a session | concurrent requests, a lock that is skipped, Stripe's own changes |
| Authentication, subscription middleware and caches (`graphql/middleware`, `packages/node/caching`) | cached session and profile per user | authenticate, decide on access, `getOrSet`, invalidate | stale entries, a cache taken as proof of a row |
| Stripe events (`services/stripe-webhook`) | event stream, consumer group, cursor | produce, consume, invalidate, delete the row, acknowledge | repeated, late and failed events, crashes |
| Flow source and backoff (`block-sources/flowsrc`, `common`) | current height | subscribe, reconnect | reconnecting at a height that is missing or not yet there |
| Landing page, Mongo store, generated code, deployment | | | not modelled: section 6 |

What makes each of them correct:

* *shard, consumer and relay*: a registered webhook has exactly one job; a job
  is never left waiting for blocks that are there; it survives crashes; a feed
  has no silent hole until the chain repeats blocks; a URL is not called more often than configured.
* *router and forwarder*: a block leaves the block stream only when it is
  stored and announced everywhere; restarts leave no gap.
* *block store*: a written block is always in one of the two tiers; a read that
  overlaps writes and flushes is complete and has no hole.
* *webhook API*: a webhook shown as active has a job; a reported success is
  true on every shard; a removed webhook loses its job in the end.
* *page*: paging skips nothing; once everything has settled, the table is what
  the database has.
* *checkout and access*: a user sees one link to pay with and becomes one
  customer; access follows the subscription in both directions.
* *events*: none waits for ever, whichever of its effects fails.

The full list of hazards, each at its line and with the properties that would
catch it, is in `PROJECT.json`.

## 2. Modules

| Module | Models | Used by |
|---|---|---|
| `WebhookRelay` | one shard, its relay workers, the router and the API as this shard sees them | `MCWebhookRelay` (constants for TLC), three proof modules |
| `WebhookFeed` | what the relay promises to a shard's customers: the abstract specification | refined by `WebhookRelay` |
| `CachedStore` | the two tiers of the block store, the flusher and one reader | run directly |
| `BlockPipeline` | node, forwarder, block stream, router, latest height of every shard | run directly |
| `WebhookLife` | what the API promises about webhooks: the abstract specification | refined by `WebhookApi` |
| `WebhookApi` | the four mutations over several shards, with partial failure | run directly, extended by `WebhooksPage` |
| `WebhooksPage` | the page with its queries, and the paginated list, on top of the API | run directly |
| `StripeEvents` | endpoint, event stream and consumer | extended by `Checkout` |
| `Checkout` | Stripe's objects, the user's row, the caches, requests to check out and for access | `MCCheckout` (symmetry) |
| `*Proofs` | section 5 | |

How they meet. `WebhookRelay` sees the block store as a set of heights
(`stored`), of which the cache may hold any part it can hold (`Caches`), and the
router as `RouterPut`, `RouterReplay`, `RouterFlush`,
`RouterAck`; `BlockPipeline` shows what these actions assume: heights without a
gap (`NoGap`), a latest height that is stored (`LatestIsStored`), repeated
batches after a restart. `CachedStore` shows what the cache holds as long as no
height is repeated (`CacheIsNewest`), and that a read whose two calls have a flush
between them is as good as one without (`GetBlocksComplete`,
`GetBlocksContiguous`), so that the relay's model may read at once. `WebhookApi` sees the relay as `Drop`, and
`WebhookRelay` sees the API as `ActivateSelect`, `ActivateScript` and
`RemoveWebhook`. `WebhooksPage` and `Checkout` are compositions: they extend the
module below them and give every step of it a place among their own.

### WebhookRelay

State and code: `latest`, `pending`, `stream`, `webhookSet` are the four redis
keys of a shard; `pel[c]` is the pending entries list of consumer `c`, each
entry with redis' delivery count `n`; `pc[c]` is the remote call the worker
makes next, `pos[c]` the backlog cursor, `backlog[c]` the argument
`isBacklogMsg`; `rows` are the webhooks in MySQL. A lua script is one action,
because redis runs it atomically; everything between two remote calls is
interleaved. The score of a pending job is always its block height, so a job
carries it.

* `BacklogRead`, `BacklogEnd`, `NewRead`, `HandlerReturns` are the two loops of
  `Subscribe`. An error of XREADGROUP stops the worker's goroutine
  (`ReadError`, with or without a delivery that was made); the process ends when
  all have stopped (`Exit`) and is started again.
* `FindOne`, `FetchBlocks`, `PostOk`, `PostError`, `Drop`, `Replace` are
  `handleMessages`. A failed call (`CallError`) leaves the message in the
  backlog. `Panic` is the relay's panic on an empty range, `Crash` the death of
  the process at any point. Reading the delivery count (`GetPendingMsg`) is part
  of `FindOne`: only the worker itself changes the entry.
* `FetchBlocks` is answered as the two tiers answer (`Answers`): `GetBlocks` and
  `GetLatestBlocks` ask the cache first and the database only below the cache's
  lowest block. What the cache holds is chosen at the read: the stored heights
  above some height, until `RouterReplay` repeats a batch (`repeated`); from then
  on any part of the stored heights, any of them in a second version, which
  counts as a block of its own. The second choice allows more caches than a
  replay can produce; which ones it does is a matter of batch sizes and flush
  times that the relay's properties do not depend on. A range of one block is
  answered whole in either case, a longer one only until a batch is repeated
  (`Whole`).
* `ReadAgain` and `ReplaceTwice` happen only with `ClientResends`: go-redis sends
  a command again when its reply was lost, and the code leaves that default on.
* Ghosts: `sent` and `skipped` record per webhook the heights accepted by the URL
  and those given up; `tries` counts the calls of the URL per message.

An activation request selects its webhooks and runs the script later
(`ActivateSelect`, `ActivateScript`), so requests race with each other and with
removal. The column `is_active` is not part of the state: since the MySQL
update after the script can fail, a request may find a webhook in either status,
and the model lets it select any row.

`WebhookFeed` leaves out workers, jobs, redis and failures. Of each webhook it has
the heights `sent` and `skipped` (the ghosts above) and `next`, where its feed goes
on: a feed begins with a batch, goes on behind a block only when everything stored
before it was sent, gives up one height at a time, and ends only without a row.
`whole` are the webhooks of which this holds: all of them until the chain repeats a
batch (`Repeat`), those with ranges of one block for ever. The others' feeds still
only go forward from a block that was sent, and may leave blocks out.
`WebhookRelay` instantiates it with the height of the webhook's job for `next`
(`NextHeight`), wherever in redis the job is; blocks that are sent again are a
`Deliver` that changes nothing or a second `Begin`.

The columns `max_blocks` and `max_retries` are constants, although an update can
change them between two reads of the row. A worker reads the row once per
delivery and a job does not depend on the length of the range before it, so that
an update acts like another constant from then on; the bound of `TriesBounded` is
that of the largest value the row had while the message was there.

Smaller simplifications, none of which changes what a property says: both runs of
a script that is sent again are one step (`ReplaceTwice`), and the script that
drops a job is not sent again (its second run could only take away the membership
that a late activation added meanwhile); a first
batch is read at one point of time, where a flush between its two calls can let
it end below the newest block; at most two versions of a height are in the cache.

A response with an HTTP error status counts as success, as in the code, which
looks at the error of `httpClient.Do` only.

### CachedStore

`cache` is the sorted set; two versions of a height are two members, as in
redis, where the member is the whole document. `db` is the table. The flusher's
three calls and the reader's two are separate actions; one reader is enough,
because readers change nothing. `GetLatestBlocks`' lower bound is computed
modulo `UintModulus`. `Rewind` makes the router store heights again, which the
forwarder does after a restart and the node after a reorganisation.

### BlockPipeline

A block is its height. The router is the only consumer of the block stream: one
worker, batches, the cursor over its backlog. The flushes of a batch reach the
shards in any order and fail one by one, before or after they took effect. The
forwarder reads its start height from the store (one action: `CachedStore` shows
that the read returns the latest block), subscribes, and catches up from there.
After a repeated batch the read can return a lower block, the highest of the cache
(cachedstore/main.go:202-212); the forwarder then starts lower and repeats more of
the chain, which the model leaves out.

### WebhookApi and WebhookLife

`row` is the status of each webhook in MySQL, `webhookSet` and `jobs` what redis
has of it on its shard, `call[c]` the mutation that client `c` waits for. `Ask`
and `Receive` are the ends of a request; `Deny` is the refusal of the
authentication or subscription middleware. `Create`, `Update` and `RemoveRows`
are single statements. An activation is `Select`, then for every shard
`RunScript` and `RunUpdate`, in any order, then `Settle`
(`Promise.allSettled`). `ScriptFails` and `UpdateFails` lose a call or only its
reply; `BreakOff` is a request that ends between any two calls, its work with it (a
server that works on for a client that is gone is not modelled). The script of
`RunScript` adds members before it fails for want of a new job, as redis does
not roll back.

`ApiInit` begins with everything earlier requests can have left: a webhook can
be active, or inactive with or without a job. An update concerns one webhook and
is told apart by whether a search finds the new URL.

`WebhookLife` has two variables: the statuses and the webhooks that get blocks.
It promises that a webhook is shown as active only while it gets blocks, and
that a removed one stops getting them. `WebhookApi` instantiates it with `jobs`
for `delivered`.

### WebhooksPage

`Found` and `Answer` are the query of `find-many.ts`: rows before or behind the
cursor, one more than a page to see whether there is more. `fetch` is the
request under way with its two statements (`ReadCursor`, `ReadPage`), `query[f]`
what react-query keeps for a search, `table` the rows that are on screen.
`ShowAnswer` is a render with new data: it clears the boxes unless the rows are
the same. Each of the page's four mutations is a client of `WebhookApi`; when one
settles, `After` closes its modal and refetches. `QueryFails`, `QueryDenied`,
`Leave` and `Open` are the error page, the subscription page and the way back.

react-query is external and modelled from how the page uses it: one result per
key, rows that stay while the next ones are fetched, a refetch that cancels the
request under way, or joins it while there is no result yet (`joined`), and
structural sharing of equal results. The retries of a query are not counted.

### Checkout

Every request is one of the program's two kinds (`op`), and `pc` is its next
call. `Begin` is `requireAuth` and the read of the row; `GetCached`, `Fetch` and
`SetCached` are the three calls of `getOrSet`; `DecideAccess` is
`requireStripeSubscription`; `DecideCheckout`, `DeleteRow`, `CreateSession`,
`WriteSession` and `ReadAndCommit` are `createCheckoutSession`. The transaction
is a lock on the row with a draft of it: `FOR UPDATE SKIP LOCKED` finds nothing
while another request holds the lock, `INSERT IGNORE` and `DELETE` wait.

Stripe is `Pay`, `Expire`, `ChangeSubscription` and `DeleteCustomer`, which
happen at any time and, where the endpoint listens, `Emit` an event. A session
stands for its URL and its client reference.

The properties of links and customers hold under `Fresh`: no decision was taken
from the cached object of an earlier session (`stale`), and no late
`customer.deleted` deleted the row of a later session (`stray`). Both do happen
(run `checkout_links`, and section 4); the run stops at such states
(`CONSTRAINT Fresh`), which loses nothing because the properties say nothing
about them and both ghosts stay set.

### StripeEvents

`due` counts the events Stripe still sends, `stream` and `pel` are the redis
stream with the consumer's pending entries, `at` is the consumer's next call.
One event is handled at a time. `Handle` asks Stripe whose event it is and fixes
the calls the handler makes (`todo`), which end one by one: `Finish` is
completed in `Checkout`, where `Invalidate` and `DeleteRowOfCustomer` say what
they change. `AckDel` acknowledges the event whether or not they failed, as the
code does. `Build` creates the group at `$`, behind what is in the stream.

## 3. Runs

Passing runs. Every property has a mutant in `PROJECT.json`: a plausible bug in
one definition under which the run fails.

| Run | Instance | Shows |
|---|---|---|
| `relay_safety` | 2 webhooks and 2 processes (both symmetric) of 1 worker, ranges of 1, 2 retries, batches of 2, heights to 3, 1 fault | the core: one job per webhook, one job in hand, no lost wakeup, no panic, fresh ranges; no silent hole with ranges of one block, also after a repeated batch |
| `relay_faults` | 1 webhook, 1 process of 2 workers, 3 retries, a gap in the store, commands sent again, 2 faults | no job and no wakeup is lost, and the retry limit holds, through panics, restarts and repeated scripts |
| `relay_liveness` | 1 webhook, 1 process of 2 workers, ranges of 2, a gap, heights to 3, 1 fault, fair | every job is replaced or dropped unless its worker ended alone; every routed block is delivered or given up, or passed after a repeated batch; the shard implements `WebhookFeed`, across a gap, with ranges of two and with whatever the cache holds |
| `store` | heights 4 to 6, 2 versions, batches and threshold of 2, limits 1, 2 and 4, 1 rewind, 1 crash, fair | nothing is lost and the cache drains; without repeated heights the reads are complete and contiguous while blocks move, also across the limits' three cases (all, some or none of the blocks in the cache) |
| `pipeline` | 2 shards, batches of 2, heights to 5, 3 faults, fair | acknowledged means stored and announced, through partial flushes, crashes and overtaken batches; every forwarded block gets there; no gap |
| `webhook_api` | 2 webhooks, 2 shards, 2 clients, 1 fault, fair relay | active webhooks have jobs; success is true on every shard; the API implements `WebhookLife` with its liveness |
| `webhooks_page` | 3 webhooks of which 2 share a second, pages of 1, 1 mutation, 2 searches | paging skips nothing; a table at rest is current |
| `checkout_requests` | 2 requests (symmetric), 3 sessions, 1 fault | one link, the recorded one, one customer; a cached profile means a known user |
| `checkout_access` | 1 request, 2 sessions, 1 failed payment, 1 event under way, 1 fault, fair | access follows the subscription both ways; no event waits for ever |

Runs that must find a violation: each checks one property that a comment of the
repository states and the code does not have.

| Run | The comment | What the run shows |
|---|---|---|
| `relay_resent_blocks` | blockrelay/main.go:196-197, "the start height for the new range of blocks we need to send" | the range after the first batch begins inside it |
| `checkout_links` | create-checkout-session.ts:160-161, one link at a time | the cached object of the replaced session decides about the new one, and there are two links |
| `activation_retry` | activate.ts:95, "Idempotently activates the webhooks" | an activation that stopped after its script cannot be repeated (only together with a new webhook of the same shard) |

**Bounds.** `MaxHeight`, `MaxFaults`, `MaxCrashes`, `MaxRewinds`,
`MaxSessions`, `MaxLapses`, `MaxEvents` and `MaxAsks` bound counters; nothing
else is cut, but for `Fresh` above. A fault is a crash, a failed call or a
repeated batch or event. Heights matter only in comparison with each other and
with the range length, so a few more heights than a batch and a range reach every
case: a job below, at and above the latest height, a range partly stored, a batch
that overtakes another. In `relay_liveness` a range of two with a second version
of its upper block, or a first batch of the heights 1 and 3, leaves a block out
after a repeated batch: calling every feed whole there violates
`FeedIsImplemented`. A hole between the blocks of a range of three or more needs
more heights than that run can have; the theorems do not restrict the range
length. Its two workers are the smallest number of which one can stop alone. Two workers, replicas, shards, clients or requests are
the smallest number that race; a failed POST is not a fault and can happen any
number of times. Three sessions are one more than two requests can hold; three
webhooks on pages of one have a first, a middle and a last page. `UintModulus`
stands for 2^64: what matters is that it is larger than any height. The deadlock
check is off where a bounded world really ends: the chain or the sessions are
used up and everybody waits.

**Fairness.** Workers, router, forwarder, flusher and the consumer of events are
infinite loops in containers with `restart = "always"`
(deployment/local/modules/backend/block-feed/main.tf, lines 136, 158, 182, 208
for the first four), hence weak fairness of their steps and of the restart of a
process that ended. Stripe repeats an event until it is answered, which is
fairness of `Produce`; a request that was accepted is served, and a cached
session expires (`PX`), which is what `CancelRevokes` rests on when the event
that should have invalidated it was lost. Nothing is assumed of the chain, of the
API's clients, of failures, of Stripe's objects or of the outcome of a POST
request: a worker may see every request fail. In `Router`'s share of the relay's
fairness the flush is fair only until it took effect, since a batch is repeated
only after a failure.

## 4. What else the models show

Differences between the code and what one may expect of it that are visible in
the models without a run of their own:

* *Relay.* `Reschedule` puts a job whose next height equals the latest one into
  the pending set, and `Flush` moves heights below the latest: a feed is one
  block late (comment at webhook-stream.go:62-65). A worker that stopped is not
  started again while others of its process run, and its job is stuck until then
  (`ReadError`, `Exit`; redis-stream.go:175-217): `Stuck`, the exception of
  `JobsProgress` and `BlocksReachWebhooks`. XAckDel sent twice appends a
  webhook's job twice (`ReplaceTwice`; the comment at blockrelay/main.go:185-186
  calls the POST request "the only non-idempotent operation"). A store with a gap
  gives the relay a third reason for an empty range besides the two of
  blockrelay/main.go:143-150 (`Panic` in `relay_faults`). A repeated batch is
  flushed with a height below the "largest block height that is in the block
  store" of webhook-stream.go:67-69 (`RouterReplay`). The first batch of a webhook
  is read anew when its job is delivered again after a crash behind the POST
  request: it need not be "the same request" of blockrelay/main.go:192-194, and if
  more blocks than a range arrived meanwhile, some are in neither batch; the feed
  that counts begins with the last one (`Begin` of `WebhookFeed`).
* *Retries.* Line 14 of the repository's README says that a customer "may receive
  more than" the configured number of retries because an attempt may go
  uncounted. In the code the delivery is counted by XREADGROUP before the request
  is sent; `TriesBounded` holds, with max(1, max_retries - 1) calls per message
  (for ranges longer than one block a block can still be sent again, as part of
  the next range).
* *Holes after a repeated batch.* When the chain repeats blocks that were flushed
  already, the cache is not newer than the database any more. GetBlocks then
  answers from the cache and asks the database only below the cache's lowest
  block of the range: with 2, 3 and 6 in the cache and 1 to 6 in the database, the
  range 2 to 6 is answered 2, 3, 6, and the relay goes on at 7 without having sent
  4 and 5. A second version of a cached block can make the count of a range
  complete without its first block. With `max_blocks` above 1 a feed is therefore
  whole only until a batch is repeated; `NoSilentGap`, `BlocksReachWebhooks` and
  `FeedIsImplemented` say so (`Whole`), and with `max_blocks` of 1 they hold in
  full.
* *Waiting webhooks.* `BlocksReachWebhooks` carries another exception: a repeated batch
  takes a shard's latest height back (`RouterReplay`, then `RouterFlush`), and a
  webhook rescheduled in that window waits for blocks that were stored long ago
  until the chain passes the old height again.
* *Store.* The read properties hold under `NoRewind`. A repeated height makes the
  cache older than the database at its lower end and hides the rows between
  (cachedstore/main.go:142-147), and near the beginning of a chain the lower
  bound of GetLatestBlocks wraps (cachedstore/main.go:189): the wrapped bound is
  above the upper one, so that the rows of the database are left out. The
  instance starts at height 4, where no limit reaches below 0. Two versions of a
  height are two members of the sorted set, where blockstore/main.go:42-43 says
  "Each block has a unique height".
* *Repeated deliveries.* A batch, or an event, that a repeated XREADGROUP
  delivered is in the backlog, but the consumer waits for new entries: it is
  handled after the next one, or at a restart. `BlocksAreRouted`, `NoGap` and
  `EventsDrain` except it (`resent`).
* *Checkout.* The reader that skips a locked row can return the old, expired URL,
  where the comment at create-checkout-session.ts:307-308 says it is up to date.
  A `customer.deleted` that is handled late deletes the row of a session made
  meanwhile (`stray`), although the consumer's comment (consumer/src/index.ts:10-19)
  wants handlers idempotent.
* *Page.* `resetPagination` (page.tsx:127) sets data under a key of two
  components while the query's key has three, so that it resets nothing: after
  the rows of the last page are removed, that page is shown empty. The
  comment at page.tsx:49-50 says that the list is queried after the blockchains,
  but the query has no `enabled`. A search by status has no effect: the page sends
  `false` or nothing (page.tsx:159-162), and findMany ignores both. Since the key
  holds the whole result of the blockchains query, a change of it starts the list
  anew (`Rekey`). A refetch that joins the first request for a search may show
  rows that were read before the mutation (`joined` in `ViewIsCurrent`).

## 5. Proofs

All theorems but the two refinements are of the form `Spec => []Inv`, for every
value of the constants that the modules' assumptions allow; the bounds of the runs
play no role but to keep heights and sets finite.

| Module | Theorem | States |
|---|---|---|
| `WebhookRelayProofs` | `JobsAreUnique` | `OneJobPerWebhook`, for `~ClientResends` |
| | `WorkIsBounded` | `OneInFlight`, for `~ClientResends` |
| `RelayRetryProofs` | `TypeCorrect` | `TypeOK` |
| | `JobsAreKept` | `NoJobLost` |
| | `NoWakeupLost` | `NoLostWakeup` |
| | `RetryLimit` | `TriesBounded` |
| `RelayFeedProofs` | `FeedHasNoHole` | `NoSilentGap` (until a batch is repeated, or with ranges of one block), for `~ClientResends` |
| | `RelayImplementsFeed` | `FeedIsImplemented` (in order always, whole under the same condition), for `~ClientResends` |
| | `NoPanicWithoutGap` | `RelayNeverPanics`, for `~ClientResends` and `MaxGap = 0` |
| | `NoBlockTwice` | `FreshRange`, for `~ClientResends`, `MaxGap = 0` and ranges of one block |
| `BlockPipelineProofs` | `PipelineTypeCorrect` | `TypeOK` |
| | `AcknowledgedIsRouted` | `AckedIsRouted` |
| | `AnnouncedIsStored` | `LatestIsStored` |
| | `StoreHasNoGap` | `NoGap` |
| `CachedStoreProofs` | `BlocksAreKept` | `NoBlockLost` |
| | `CacheHasTheNewest` | `CacheIsNewest` |
| | `StoreTypes` | `TypeOK` |
| | `BlocksAreComplete` | `GetBlocksComplete` |
| | `BlocksAreContiguous` | `GetBlocksContiguous` |
| | `LatestBlockIsLatest` | `GetLatestBlockIsLatest` |
| | `LatestBlocksAreComplete` | `GetLatestBlocksComplete`, for limits up to `FirstHeight` |
| `WebhookApiProofs` | `ApiTypeCorrect` | `ApiTypeOK` |
| | `ActiveAreRegistered` | `ActiveIsRegistered` |
| | `SuccessIsComplete` | `SuccessMeansActive` |
| | `ApiImplementsLife` | `ApiSpec => Life!Spec` |
| `WebhooksPageProofs` | `PageTypes` | `TypeOK` |
| | `TableIsCurrent` | `ViewIsCurrent` |
| | `WalkIsComplete` | `WalkComplete` |
| `CheckoutProofs` | `CheckoutTypeCorrect` | `TypeOK` |
| | `OneLinkAtATime` | `OneLinkIfFresh` |
| | `LinkIsRecorded` | `ShownIsRecorded` |
| | `OneCustomerAtATime` | `OneCustomer` |
| | `UserIsKnown` | `CachedIsKnown` |

Every invariant of every passing run is stated by one of them.

**WebhookRelayProofs**, with `ClientResends = FALSE`. `OneJobPerWebhook` is not
inductive: that acknowledging an entry removes exactly the webhook's only job
needs to know that the worker in its handler holds exactly one entry and that its
cursor is on it (`WorkerOK`, `OneInFlight`), and that a worker asks for a new job
only with an empty backlog. The inductive invariant is

    IInv == TypeOK /\ OneInFlight /\ WorkerOK /\ OneJobPerWebhook /\ NoLostWakeup

with one lemma per action of `Next`. The lemmas they share say how the sets of
webhooks of a sequence change: taking its head, appending a job, appending the
jobs of the pending set in any order ZPOPMIN can pop them (`PopOrders` is a
bijection). `Min` and `Max` of a set of heights, defined by CHOOSE, get their
lemmas from the well-foundedness of the naturals. The assumption `~ClientResends`
is needed: with it `OneJobPerWebhook` and `OneInFlight` fail (`ReplaceTwice`
doubles a job, `ReadAgain` gives a worker a second one).

**RelayRetryProofs**, for either value of `ClientResends`: what survives when
the redis client sends commands again. A worker can then hold several entries,
and a webhook several jobs, so nothing of `IInv`'s second half is left to build
on. The inductive invariant is

    RetryInv == TypeOK /\ NoJobLost /\ NoLostWakeup
                  /\ \A c : CursorOK(c) /\ \A i \in 1 .. Len(pel[c]) : RetryOK(c, i)

`CursorOK` keeps the message in hand among the worker's entries, wherever in a
backlog of any length it is. `RetryOK` says of every entry that calls never
outnumber deliveries, that the entry about to be called for is one delivery
ahead, and that a delivery from the backlog gets that far only below the limit; a
delivery that only a lost reply knows of makes the count larger and the limit
stricter. `NoJobLost` needs no uniqueness: the script that removes a job adds its
successor or takes the webhook out of the set.

What the block store answers has lemmas of its own there, for every content of
the cache: an answer consists of stored blocks of the range (`AnswerStored`) and is
not empty when a block of the range is stored (`AnswerThere`); of one block it is
one (`OneBlock`). `AnswerWhole` says that nothing stored is missing between the
range's first height and its last block, nor between two blocks of a first batch:
without a repeated batch because the cache is an upper end of the store, so that
`RangeComplete` can compare the count of the cached blocks with the length of the
range and `LatestConvex` the ranks of two blocks, and with ranges of one block
because there is nothing in between.

**RelayFeedProofs** (also without resent commands). A job promises that nothing
stored was left out behind it while batches are whole (`JobOK`): its feed has begun,
and what is stored between the feed's first block and the job's height was sent or
given up. A batch that was repeated stays repeated (`StoreGrows`), so the promise
never has to come back. That a
later batch cannot slip in behind a job needs an upper bound, at most one height
above a stored one, and a stricter one for jobs that wait for no block
(`InReach`), which the retry limit moves by one height without sending anything;
both rest on the shard's and the router's heights being stored ones
(`HeightsOK`). A worker between fetching and acknowledging a whole batch holds all that
is stored from the job's height to its last block, though the store may have grown
meanwhile (`HandOK`). That another worker cannot send to the same webhook is
`OneJobPerWebhook`. With no gap between batches the store is an interval from 1
on (`Gapless`), so that `InReach` is a block for every job on its way, which the
store finds in either tier, repeated batches or not: of the two
reasons for an empty range in blockrelay/main.go:143-150, a range in the future
never occurs, and one too far in the past needs a store that evicts blocks, which
neither tier does (cachedstore/main.go:28 asks for `noeviction`).

`FreshInv` adds for `NoBlockTwice` that, while nothing has failed, all that was
sent to a webhook is below its job (`FreshJob`), but for a job that is between
the POST request and its replacement (`Acking`): there all that was sent is at or
below a block of the worker's range (`HandFresh`). The three hypotheses are
needed: resent scripts double a job; in a store with gaps a worker that panics
takes the other workers of its process along, between sending and replacing; and
`relay_resent_blocks` shows what a longer first batch does.

`RelayImplementsFeed` maps every step to one of `WebhookFeed` or to a stutter. A
webhook has one job (`OneJobEach`), so a step that only moves jobs leaves `next` as
it is (`JobsMove`): a job that is still registered is still the same (`NextSame`).
The POST request is `Begin` or `Deliver`, because the blocks in a worker's hands are
a batch of their range, and all that is stored of it while batches are whole: for
the latest blocks that is `InHands`, which survives the growth of the store between
fetching and sending. `RouterReplay` is `Repeat`. Replacing a job is
`Advance` or `GiveUp` (`ReplaceMaps`), from `HandOK` and `InReach`, and dropping it
is `End`, because a row that was gone when the worker looked does not come back. The
hypothesis is needed: a job that is there twice makes `next` two places.

**BlockPipelineProofs**. A block may leave the backlog because of what the
handler knows of the batch in hand, so the invariant says how far it has come
(`Progress`): after storing, the batch is stored; while no flush has failed,
every shard that is not to do has been told of all of it; before the
acknowledgement all shards have. `InHand` keeps the batch inside the backlog and
not empty, whatever a crash, a kept batch or a repeated delivery does to the
cursor.

`GapInv`, for `NoGap`, is about the order of things, and needs it from one end of
the pipeline to the other: the headers that wait follow the header handled last
(`Subscription`); the forwarder goes on at a block that is stored or forwarded, or
right behind one (`Forwarding`), which is where a start height from the store, the
catch-up loop and a header that arrived meanwhile meet; and storing the backlog and
then the stream, block by block, leaves a set without gaps at every point
(`Unbroken`), because the backlog is one batch that is repeated as a whole
(`OneBatch`). The last three hold while the conditions of `NoGap` do (`Orderly`).

**CachedStoreProofs**. `NoBlockLost` needs only that a batch about to be deleted
is in the database, by height: INSERT keeps the first version of the batch's
blocks (`InsertedCovers`). `CacheIsNewest`, while no height is repeated, needs
that heights have one version and the next is new (`OneVersion`), that the
flusher's batch is the oldest part of the cache (`BatchIsOldest`, from a
cardinality argument about ZRANGE, `EarliestAreOldest`), and that a row the cache
does not have is older than the cache (`RowsAreOlder`).

The reads rest on a second invariant, `RInv`, proved on top of the first. What a
read puts together is a sequence that rises or falls by one height per block
(`Rising`, `Falling`), although ZRANGE and ORDER BY choose it by cardinality: that
holds because the store is an interval from the first height on and the database
has everything of the cache below its own highest row (`Filled`). `BlocksRead` and
`LatestRead` say at each of a call's steps what it has, what the database already
has of the rest, and that a flush in between only moves blocks to where the next
step looks. `LatestBlocksAreComplete` assumes that no limit is larger than the
first height (`LimitsFit`), since below it the lower bound wraps (section 4).

**WebhookApiProofs**. The invariant adds to the two properties that jobs and
members are the same webhooks, none of them absent, and `CallInv` for every
mutation under way: webhooks whose script has run have a job unless removed, and
while no shard has failed an inactive webhook of the request still has a shard to
go. Steps of other clients only move statuses forward (`Forward`), which keeps
`CallInv`. The refinement maps every step to one of `WebhookLife` or to a
stutter: the script to `Deliver`, the statement to `Show`, the relay's `Drop` to
`Release`.

**WebhooksPageProofs**, on top of the invariant of `WebhookApiProofs`. The list is
sorted by counting: `RankOrders`, `RankIsOnto` and `FoundIsSorted` show that taking
the row with `i - 1` others before it lists the rows in order, and `AnswerIsPage`
says which rows a page has and when there is a next or previous one. `View`, for
`ViewIsCurrent`: while no mutation is under way, the cursor a request has read and
the answer it will give are those of the database now, and at rest the table is.
`Walk`, for `WalkComplete`: all that is still owed to the user is behind the cursor
of the page shown and of the one under way (`Behind`), unless the cursor's row was
removed, when the code starts from the first page. Webhook numbers are assumed to
be a finite set of positive numbers, and searches to be any or the new URL.

**CheckoutProofs**. `Typed` is stronger than `TypeOK` by what a request may rely on:
one that asks Stripe has read a row, one that records a session has created it.
`LinkInv` holds while no stale entry decided and no late event deleted a newer row
(`Fresh`), the condition of the properties themselves. Its parts: Stripe's books
hang together (`Books`); nobody knows of a session that is not there yet
(`Unborn`); a session object, however old, is right about what is final
(`Snapshots`), so that a session that is replaced is dead (`Wants`); a session that
was just created is its creator's alone (`News`); a transaction commits the row as
it is or with the successor of a dead session (`Drafts`); what was shown and is not
dead is the row's (`Recorded`); and the row's customer is the only one that is not
deleted (`SameCustomer`, `OfRow`). `CachedIsKnown` needs an argument of its own: a
request is let in only once the user is known, and nothing of the user precedes
that (`KnownFirst`); an open transaction's draft counts, as it may be committed.

Only model-checked: the temporal properties (`JobsProgress`,
`BlocksReachWebhooks`, `CacheDrains`, `BlocksAreRouted`, `CancelRevokes`,
`PaidIsGranted`, `EventsDrain` and the liveness of `WebhookLife` in
`LifeIsImplemented`), since fairness is out of the prover's reach. `NoSilentGap`,
`RelayNeverPanics`, `FreshRange` and `FeedIsImplemented` are claimed without resent
commands only. Nothing is claimed about which blocks of a longer range are sent
after a repeated batch, because the code does not send them all.

## 6. Not modelled

* *Flow source and backoff.* The deployment has the module commented out
  (deployment/local/main.tf:64), and what its reconnect sees is decided by the
  SDK's subscription.
* *LRU cache and redis cluster connections* of the dashboard: created for every
  request and never shared.
* *Landing page, layout, form fields*: presentation. *Mongo store*: not used by
  any service. *Generated clients, models, migrations, configuration, test
  utilities*: no behaviour of their own.
* *Deployment*: gives the models their constants and their fairness.
* *JWT verification* is a precondition of a request; a request whose client gave
  up is served to its end or broken off with its work (`Receive`, `BreakOff`).

## 7. Plan

Done: relay, store, pipeline, webhook API, the abstract specifications of the relay
and of the API, page, checkout, events, and a proof of every invariant the runs
check. Left: an abstract block source (every height from the start on, in order, at
least once), refined by the forwarder of `BlockPipeline`, and `FlowSource`.
