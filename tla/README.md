# baldsky in TLA+

baldsky is a Bluesky feed generator: it reads the network's firehose of
commits, selects the posts that belong to its feeds, keeps one row per selected
post in PostgreSQL and serves the feeds page by page over HTTP. This directory
holds TLA+ models of it, TLC configurations that check them on small instances,
and proofs, checked by TLAPS, for every value of the constants.

## The system

| part | code | state | operations | what must hold |
|---|---|---|---|---|
| firehose connection | `firehose/firehose.go`, `atproto/atproto.go` | one connection, indigo's parallel scheduler (active map, queues, workers) | `Run`: dial with the cursor, read, hand over, shut down | commits of a repo are handled in order, none gets stuck |
| pipeline filter | `subscription.Pipeline` | none | `NewPipeline`, `matches`, `MatchesPost`, `shouldInsert` | part of what the rows should be |
| event processor | `subscription.Processor` | none of its own, writes `post` | `ProcessEvent`, `handleCreate`, `handleDelete` | rows agree with the network |
| standalone subscription | `subscription.Subscription` | the service's row of `sub_state` (the cursor) | `Listen`, `subscribe`, `HandleCommit` | at-least-once handling; rows agree with the log |
| publisher | `publisher/publisher.go` | a NATS client's write buffer, the cursor | `Listen`, `subscribe`, `handleCommit` | the cursor moves only past commits the broker has had |
| workers | `worker/worker.go` | a NATS client's pending messages, the cursor | `Run` and its callback | a message is handled or lost to a failure that hit it |
| feed service | `feed/feed.go`, `db/gen` | tables `post`, `sub_state` | `InsertPost`, `DeletePost(s)`, `GetFeedPage`, `GetCursor`, `UpsertCursor` | a traversal shows what stayed, once, and ends |
| rate limiter | `server/ratelimit.go`, `cache/cache.go` | a map of token buckets | `Allow`, cleanup | one bucket per address, a map that shrinks |
| HTTP server | `server/server.go` | none of its own | handlers, `Run`, health check | the health check says what was so |
| view metrics | `feed/metrics.go` | a bounded channel, table `feed_stats` | `RecordView`, `Run`, `Close` | each view counted once, none lost without a reason; no request blocked |
| feed publishing | `feed/feed.go`, `cmd/feed.go` | records on a PDS | `Publish`, `Update`, `Delete` | no update overwrites another; what is reported is what was done |
| purge | `cmd/purge.go` | none | traversal, batches, deletions by request | what was stale is found, nothing else; it goes |
| serve | `cmd/serve.go`, `db/postgres.go` | the goroutines | start, stop | a signal ends it; nothing is closed under its users |

How they interact. The standalone deployment is one process: the scheduler's
goroutines call `HandleCommit`, which processes the commit and then saves its
sequence number as the cursor from which the next connection starts. In the
distributed deployment the same scheduler calls `Publisher.handleCommit`, which
publishes the commit, waits for the broker's confirmation and saves the cursor;
workers in one queue group process the messages and save the cursor too. The
HTTP server reads and deletes rows of the same `post` table in other goroutines
and puts the views it served into the channel of the metrics. `serve` starts all
of them as its configuration asks and waits for the server alone. Publishing and
purging are commands of their own, run beside it: the one talks to a PDS, the
other reads the table and sends its deletions to the server.

What is hard about it:

- *Concurrency.* Scheduler workers run side by side on one table and one cursor;
  so do queue-group members, HTTP requests on the rate limiter's cache and the
  cleanup, and readers of a feed next to ingestion.
- *Failure.* Every database call may fail and is only logged; connections fail
  and are made again from the cursor; the process may die between any two calls.
- *Delivery.* Reconnections deliver commits again; core NATS loses messages when
  nobody listens, when a buffer is full, when a client is closed and when a
  connection breaks under what was on its way, confirmed or not.
- *The end.* Nobody waits for the firehose, the workers or the metrics; a handler
  can outlive the server, a call can arrive after its command gave up, and calls
  without a deadline can outlast a signal.
- *Order and time.* Only the commits of one repo are ordered, and the queue group
  gives up even that; flush timeouts race the broker's answer.

The list of hazards, each at its line, with the properties that cover it or the
reason why none does yet, is in `PROJECT.json`.

## The modules

- **Network**: commits, their operations, the order of operations in a log. A
  text is the set of words that the word-boundary regexps can find in it.
- **Pipeline** (extends Network): the filter, as operators on sets.
- **FeedStore**: what the SQL statements do to a table and to the cursor.
- **Firehose** (extends Network): connection and scheduler. Its actions are
  `Connect`, `ConnectFails`, `BackoffOver`, `Read`, `Drop`, `Drained`,
  `Dispatch`, `Finish`, `Restart`. `present` is the key set of the scheduler's
  active map, `waiting` what was appended to its entries, `held` the commit
  `AddWork` is blocked on, `task` what each goroutine handles. It leaves open what
  a handler does: a module that extends it conjoins its own updates to these
  actions.
- **Processor** (extends Pipeline and FeedStore): `ProcessEvent` as steps of any
  number of executors, one database call per step, each of which may fail; also
  `Expected`, the row that the relay's log calls for, defined from the log alone.
- **Subscription** (extends Firehose and Processor): the standalone deployment.
  An action is a database call or a step of the scheduler.
- **Delivery**: what a caller of `FirehoseConn.Run` may rely on: one queue per
  repo, no readers or workers. `DeliversInOrder` of Subscription and of
  NatsPipeline is that the deployment implements it.
- **NatsPipeline** (extends Firehose and Processor): publisher, broker, workers.
  `stage` is how far a handler is in `handleCommit`, `outbox` what was published
  and the broker has not read, `wire` what the broker holds for a worker or has sent
  it and its client not read, `inbox` that client's pending messages, `job` what its
  callback handles, `interest` the members the broker knows. A message goes from one
  to the next by `Publish`, `Deliver`, `Arrive`, `Take` and `Consume`; `Flush` only
  waits for it to leave `outbox`, which is all that the PONG says.
- **AtMostOnce**: what core NATS and a publisher that never tries twice promise,
  by counting copies. `HandledAtMostOnce` is that NatsPipeline implements it.
- **FeedPage** (extends FeedStore): one `SELECT` per step, next to insertions with
  time stamps taken earlier, deletions and the passing of seconds.
- **TokenBucket**: what a rate limiter promises, one balance per address.
- **RateLimiter**: the calls of `getLimiter` on the cache as separate steps, the
  buckets, the cleanup and time; `KeepsPromise` is that it implements TokenBucket.
- **ViewMetrics**: the channel, `RecordView`, `Run` one write at a time, `Close`.
- **Serve** (extends ViewMetrics): the command. `main` is how far it is, from the
  first Ping of the database to its exit; `enabled` the roles; `firehose` and
  `worker` what the health check can see of the other goroutines; `handler` the
  requests for a feed, `check` a health check, one read per step. In `db.New` the
  signal is noticed between two Pings and nowhere else (`GiveUp`), and a dial that
  was under way when it came may still say that the firehose is connected.
- **FeedPublishing**: any number of commands, each a loop over its entries with at
  most one call under way; `call` is what has become of it on the PDS, which may be
  something else than what the command believes; `since` who has written to a record
  since an update fetched it.
- **Purge** (extends Pipeline and FeedStore, and has an instance of FeedPage): the
  pipelines one after the other, a query, a batch, the end of a page or a request
  per step. `params` is the key in the query's parameters, `rows` what it returned,
  `checked` how far the loop over the batches is; `GetFeedPage`, `CheckBatch` and
  `PageEnds` are that loop. Of FeedPage it uses what a statement selects. The instance
  sees each pipeline's traversal as a client's: its page is `rows`, its cursor the one
  the server would have sent with them (`Cursor`). `ReadsFeed`, that Purge
  implements FeedPage so seen, says that the parameters the command makes are as good.
- **IngestionProofs** (lemmas on Firehose and Processor that both deployments use),
  **SubscriptionProofs**, **NatsProofs**, **FeedPageProofs**, **RateLimiterProofs**,
  **ServeProofs**, **PublishingProofs**, **PurgeProofs**: the proofs.
- **MCSubscription**, **MCNats**, **MCFeedPage**, **MCRateLimiter**, **MCServe**,
  **MCFeedPublishing**, **MCPurge**: constants of the runs.

`origin`, `handled`, `excused`, `consumed`, `hit`, `reconnected`, `failed` (of the
events), `balance`, `verdict`, `reading`, `page`, `before`, `earlier`, `steady`,
`viewed`, `missed`, `seen`, `wrote`, `since`, `sawStale` and `sawFresh` are history
variables: the properties read
them, no guard of the code's does (`MaxViews` counts with `viewed`). `forced` tells
apart two ways for the server to return. `trouble` only caps the failures of a
behaviour.
Operators called "Mutant" in their comment are wrong variants of the next one;
each property of a passing run is violated when one of them takes its place.

## The runs

| run | properties | instance |
|---|---|---|
| `two_workers` | `TypeOK`, `RepoOrder`, `NoOrphan`, `NoSilentLoss`, `Converged`, `DeliversInOrder` | 2 scheduler workers, 2 repos, 2 pipelines, logs of 3 commits out of 7 |
| `one_worker` | `NoSilentLoss`, `CursorMonotone`, `EventuallyCaughtUp` | the same with 1 worker |
| `pipelines_isolated` | `PipelinesIsolated` (violated) | 2 workers, logs of 2 |
| `nats` | `TypeOK`, `NoSilentLoss`, `EventuallyQuiet`, `HandledAtMostOnce` | 1 handler, 2 workers, `OutboxLimit` 2, `WireLimit` 2, `InboxLimit` 1, `MaxTrouble` 2, logs of 2 |
| `nats_one_worker` | `ConvergedWithOneWorker` | 2 handlers, 1 worker, `OutboxLimit` 1, `WireLimit` 1, `InboxLimit` 2, `MaxTrouble` 2, logs of 3 |
| `nats_two_workers` | `DeletedPostGone` (violated) | 2 workers |
| `feed_page` | `Descending`, `Complete`, `EveryTraversalEnds` | 2 posts, 2 feeds, 1 client, `DefaultLimit` 1, `LimitCap` 2, `MaxClock` 1, `MaxCid` 2 |
| `rate_limiter` | `TypeOK`, `PromiseInv`, `KeepsPromise`, `Forgotten` | 2 addresses, 2 requests at a time, `Rate` 1, `Burst` 2, `MaxAge` 5 |
| `serve` | `TypeOK`, `ViewsCounted`, `PanicOnlyWhenForced`, `HealthSound`, `StopEnds`, `QueueMoves` | every set of roles, 2 workers; 2 requests at a time for 1 feed, or a health check; `BufferSize` 1, `MaxViews` 2 |
| `publishing` | `TypeOK`, `ReportsMatch`, `NoLostUpdate` | 4 feeds of which 2 are records, 2 commands of any kind, 2 contents |
| `purge` | `TypeOK`, `OnlyStaleJudged`, `StaleComplete`, `ReadsFeed` | 2 pipelines, 3 posts that say what the first selects or are gone, `PageLimit` 2, `BatchSize` 1, `MaxTrouble` 2, `MaxClock` 1, `MaxCid` 1 |
| `purge_deletes` | `PurgedMatch` (violated) | as `purge`, `MaxTrouble` 0 |

Why the bounds are enough. `MaxLog` bounds the relay's log. With 3 commits a repo
has a creation, a deletion and another creation, or two commits of one repo queue
up behind each other while another repo's runs past them; that, a crash and a
replay is all that the ordering and loss arguments tell apart. Crashes, failed
connections and failed database calls are not bounded in Subscription; in
NatsPipeline `MaxTrouble` bounds them together, and two are enough for a crash
after a failed flush or a lost member. `OutboxLimit`, `WireLimit` and `InboxLimit`
stand for the buffers of the publisher's client, of the broker with the connection, and
of the worker's client: their sizes only decide when the one before waits or a message
is dropped. Pages
of 1 or 2 rows out of 2 are full, partial and empty and end in ties, two seconds
let a row appear with an old time stamp, and the proofs cover every number of
posts. `MaxAge` 5 is the least that meets the assumption below with 2 requests
and `Burst` 2; one token a tick means that a bucket needs two ticks to fill.

A channel of one view is full, empty and closed with one left in it. Requests are let
in while fewer than `MaxViews` views are recorded, so that two at a time record up to
three: they fill the channel, the hand of `Run` and the missed ones. Views and health checks share no
state but `main`, so `Loads` takes one of them at a time. Two commands on two
records have every order of fetch, call, give-up and late arrival; a third only
repeats what one of the two did before. Three posts on pages of two make a full
page and a partial one, of two batches and one; with two pipelines a post stale for
one is wanted by the other, and the second traverses a table that lost and
gained rows since the first. With `MaxCid` 1 all rows of one second tie, which is what a cursor of the
wrong row loses or repeats; the proof of `ReadsFeedHolds` is for every set of CIDs.
`MaxTrouble` starts to count when the command does and stops when it ends: the table
and the AppView begin in every state the bounds allow. What the bounds cut off in
`publishing` and `purge`, and in the safety properties of `serve`, is covered by the
proofs.

Deadlock is not checked where the system may come to rest: NATS with a used-up log
and failure budget, and the three programs that end. It is in the other runs.

What the violated runs show (details under "findings" in `PROJECT.json`): a post
two feeds select is in one of them only; with two workers in the queue group a
deleted post can reappear; and no deletion `purge` asks for is routed to the
handler that would carry it out.

Smaller things met on the way. `worker.go:90`-`93` drains, closes at once and logs
"drained subscription", whatever is left in the buffer; a message lost so is one of
those `NoSilentLoss` excuses. `postgres.go:37` and `:44` ping without a context while
the signal is already caught, and `Migrate` has none either: a database that does not
answer, or a migration lock held by somebody else, keeps a signalled program alive.
`purge.go:188` makes its URL of `server.hostname` as it stands, so that a host name
without a scheme fails before the router is met. `ratelimit_test.go` has "rejects after burst exhausted",
which is right for one request after the other; two first requests at once get a
burst each, which is the overdraft of `KeepsPromise`. The comment at
`feed.go:292` says that Publish "writes (or updates)" the records, but it only
creates them and fails on one that exists, as `Update` fails on one that does not;
the map of what was done before an error is returned by the service and dropped by the
commands. `MatchesPost` does not look at blocked DIDs, so purging does not remove the posts
of a newly blocked one, and it skips disabled pipelines. Views still in the
channel when the process ends are lost. A worker counts as connected to the
health check until its `Run` returns, whatever has become of the broker.

## Fairness

- `Subscription`: weak fairness of the steps of `Listen`'s loop, the reader, the
  scheduler's hand-over and each worker's handler: each is a goroutine that is
  never blocked for ever once its step is possible. None for the relay, for crashes or for
  failures, and a database call may fail whenever it is made.
  `EventuallyCaughtUp` assumes that crashes, failed connections and failed
  attempts end.
- `NatsPipeline`: the same, and the broker delivers or forgets what it was sent.
  Workers that stopped or lost the broker need not come back.
- `Serve`: weak fairness of the command except in Ping and Migrate, between two
  Pings, and while it serves; of starting to shut down once the signal is there; and of
  `MetricsService.Run`, whose writes have a deadline. Shutdown, `RecordView` and
  `nats.Connect` have deadlines too. Strong fairness of giving up between two Pings:
  with both the ticker and the signal ready, Go's `select` picks one at random.
  None for Ping and Migrate, which have neither a context nor a deadline and may hang:
  `StopEnds` has as its premise that the program does not stay in them for ever
  (`[]<>~AtDatabase`). None for requests, which may take for ever, nor for the
  firehose and the workers.
- `FeedPage`: only that a client who has begun asks for the next page.
- `RateLimiter`: every request is answered and the cleanup gets its turn (weak).
  Time passes (strong), and since the model lets it pass only between requests,
  there are moments between requests for ever (`[]<>Gap`): `Allow` takes
  microseconds.

## What is proved

Everything here is for all values of the constants that satisfy the named
assumptions of their modules (`NetworkAssumption`, `FirehoseAssumption`,
`ProcessorAssumption`, `RowAssumption`, `NatsAssumption`, `FeedPageAssumption`,
`RateLimiterAssumption`, `RetentionAssumption`, `LimiterAssumption`,
`ViewMetricsAssumption`, `ServeAssumption`, `FeedPublishingAssumption`,
`PurgeAssumption`): any number of repos, workers, posts, requests and commands,
and any bounds.

*Subscription*: `TypeCorrect`, `RepoOrderHolds`, `NoOrphanHolds`,
`NoSilentLossHolds`, `CursorMonotoneHolds`, `DeliversInOrderHolds`, `ConvergedHolds`.

- The inductive invariant is `TypeOK /\ SchedulerInv`. Order alone is not
  inductive: it needs that the active
  map has an entry for a repo exactly while somebody has a commit of it
  (`EntriesInHand`), that the commit the reader holds is the newest and nothing
  waits behind it (`HeldIsNewest`), that everything in the scheduler was read
  before `pos` (`AlreadyRead`), and that a scheduler is empty when a new connection
  starts (`EmptyUnlessConnected`, from what `Shutdown` waits for).
- IngestionProofs has one lemma per action of Firehose, and those on a processing
  step, so that both deployments inherit them.
- For `DeliversInOrder`, IngestionProofs shows that each action of Firehose maps to a
  step of Delivery, with the commits held and waiting as what is due. It rests on a
  commit being in one place only (`OnePlace`) and on a free worker meaning that
  nothing older of that repo is left.
- For the loss, `LossInv` adds that the
  cursor is never ahead of what the connection has read (`CursorBehind`) and that
  with one worker everything in flight is newer than the cursor
  (`OneWorkerBehindNone`): the latter is why a crash costs nothing then, and why
  two workers break it. What may be missed is recorded commit by commit (`excused`):
  at a crash with several workers what they had in hand, at a connection without a
  cursor what the log holds by then. Every other commit is accounted for, before and
  after.
- `Converged` compares a row with `Expected`, which looks at the whole log. It is
  proved place by place: a row is `OnTrack` while a later operation that is still
  to be carried out will decide it, or it is already what the log calls for, or
  something lost or failed has spoilt it. `Left` are the places in the log still to
  be carried out; the places of one post leave it in order, because the commits of
  its repo are handled in order. IngestionProofs shows that every processing step keeps a row on
  track while it takes its place out of `Left` (`ProcessOnTrack`), that a longer log
  does (`GrownOnTrack`), and that a row on track with nothing left is the expected one
  (`TrackEnds`); `CommitsInv` supplies that nothing falls out of `Left` without being
  carried out, failed or given up.

*NatsPipeline*: `TypeCorrect`, `NoSilentLossHolds`, `DeliversInOrderHolds`,
`ConvergedWithOneWorkerHolds`, `HandledAtMostOnceHolds`. Its
`LossInv` keeps a set of marks, the places where a connection may start or end
(`Marks`: the cursor, what was delivered or published, and the place in the log of
a live connection), and says that up to each of them every commit was sent on by the
broker, is in a handler, or was hit (`Accounted`). That needs how far a handler is
with its commit (`Sending`, `StillSent`: what is flushed was sent on or hit, what is not
yet confirmed may still be in the buffer) and that nothing happened before the first
connection (`Untouched`). A commit is excused only if a mishap hit a copy of it (`hit`)
or, with several handlers, a crash of the publisher found it in their hands
(`excused`): every other commit is accounted for, however many mishaps there were.

`ConvergedWithOneWorkerHolds` uses the same lemmas on rows. What replaces the
scheduler's order is that a commit passes six stations, unsent, in the
publisher's buffer, on its way from the broker, in the worker's buffer, in its
callback and consumed, and that of each repo those at a later station are older
(`WayInOrder`): each step moves one commit from one station to the next, or gives it
up, and it is always the oldest of its repo at that station that moves. All this is for
the first connection (`~reconnected`): a second one sends commits again that are still
on their way.

`HandledAtMostOnceHolds` is the refinement of AtMostOnce, step by step: a
commit's copies are counted by station (`Copies`), lemmas say what appending to a
buffer, taking from it, emptying it and giving a callback its message do to the
count, and each action of NatsPipeline is then one of AtMostOnce or loses copies. It
needs that what a handler has sent is its own and nobody else's (`Sending`, and that a
commit is in one place in the scheduler) and that the clients keep to their
buffers' sizes (`Bounded`).

The two inductive invariants of the rows, Subscription's and NatsPipeline's `ConvergenceInv`, were
checked by TLC too, as invariants of `two_workers` and `nats_one_worker`. The
configurations leave them out because they slow the runs down and the proofs stand.

*FeedPage*: `DescendingHolds` and `CompleteHolds`, from `TypeOK /\ PageInv`: no
page has a row below the cursor, and a post that was there all the time was
shown, is tied with one that was, or is still below the cursor.

*Purge*: `TypeCorrect`, `ReadsFeedHolds`, `OnlyStaleJudgedHolds`,
`StaleCompleteHolds`. For the refinement, `InStep` says how the command's loop and a
client's cursor correspond: before a query the parameters are where that cursor is,
which `PageEnds` has to bring about (`InStepKept`); a query is then the client's
request (`QueryIsRequest`), a change of the table one of FeedPage's (`TableIsReaders`),
and everything else leaves what FeedPage sees alone (`LoopIsIdle`). `JudgedSoFar`
says that every row shown but those the loop has not come to was found stale or was
seen fresh. FeedPageProofs' lemmas hold for the instance, so that the completeness of
the pages is not proved again.

*RateLimiter*: `TypeCorrect`, `PromiseInvHolds`, `KeepsPromiseHolds`. That it
implements TokenBucket needs two bounds on the balance nobody keeps. A request is
turned away only if a single bucket would be empty as well, because every bucket an
address can draw on holds at least the balance (`Covered`). The balance never falls
further than the slack, because all coins in all the buckets of an address
(`Purse`), with a full bucket for each request about to install one, exceed the
balance by at most a burst per request (`Solvent`). What makes the latter
inductive is the cleanup: an entry is removed only when the balance has
recovered (`Recovers`, with the assumption on retention below), else an
address could collect one burst per removal. TLC checks `PromiseInv` in the run.

*Serve*: `TypeCorrect`, `ViewsCountedHolds`, `PanicOnlyWhenForcedHolds`,
`HealthSoundHolds`. `Quiet` says that the channel is closed only after the server
has returned, with no request under way unless by force; `ReadIsSeen` that what
the health check has read so far was seen and what is so now is being seen. The count of views is
an equation that every action keeps, from lemmas on how appending and taking out
change the number of a feed's views in the channel.

*FeedPublishing*: `TypeCorrect`, `ReportsMatchHolds`, `NoLostUpdateHolds`, from
`CommandInv`, that a command has at most one call in doubt, for an entry its loop has
yet to leave, and before it makes one all that was done is known; and from `Guarded`,
that a record which still is what an update fetched has either not been written since,
or somebody put that content back. Nothing like it holds of the other commands: a late
`createRecord` restores what was deleted since, and `deleteRecord` has no swap
(`feed.go:508`) and removes what others wrote.

So every safety property of the passing runs is proved. Only model-checked are
the liveness properties, which are out of the prover's reach:
`EventuallyCaughtUp`, `EventuallyQuiet`, `EveryTraversalEnds`, `Forgotten`,
`StopEnds`, `QueueMoves`.

## Assumptions and abstractions

- A sequence number is a place in the relay's log; the relay keeps its log. A
  commit names a record once, and creates only what the repo lacks.
- indigo's scheduler, the NATS client and broker, `rate.Limiter` and PostgreSQL are
  external; they are modelled from how the code uses them. A statement is atomic.
- `Restart` stands for a crash and for SIGTERM: the goroutines are not waited for
  and their database calls fail once the context is cancelled.
- Core NATS: at most once, in order per connection. A connection that breaks takes
  with it all that is in `outbox`, or in a member's `wire`, at that moment; what is
  published while the client is away waits in `outbox` for the broker. A message that
  does not unmarshal and a subscription that fails are left out.
- Feed pages: the clock does not go back; the two parts of a cursor contain no
  `::`, so parsing gives back what was built; CIDs are compared by their place in
  the order. Requests that are refused (unknown feed, malformed cursor) change
  nothing and are left out.
- Rate limiter: a tick passes only between requests, since `Allow` is a few calls in
  memory and a tick the tenth of a second that earns a token by default. The
  slack is one burst per concurrent request, and `KeepsPromise` needs
  `(MaxAge + 1) * Rate >= (n + 1) * Burst` for n requests at a time: by the time
  an entry is removed even an overdrawn balance is full again. With 10 tokens a second, a
  burst of 20 and three minutes this is so for up to 89.
- Serve: a health check runs alone, which only costs the overlap of two.
  `HealthSound` is about each part of its answer by itself: nothing in the code makes
  them true at the same time. `main`
  reaches the goroutines' start in one order. What a goroutine still does after the
  deferred calls and before the exit is there, except where nothing can see it.
- Publishing: a record is its content, which stands for its CID too: a swap compares
  CIDs, and equal contents have equal ones (`createdAt` is in seconds, so two updates
  of one second may write the same). A call is carried out at most once and
  may be refused for any reason.
- Purge: what the AppView returns for a post changes at any time, which covers a
  post edited, deleted, created again and an index that lags. `Reached` is what
  the router of mux makes of the path the client sends.

## Not modelled

Bearer tokens, request logging, CORS headers, the handlers that only read the
configuration or a table (descriptions, DID document, feed metrics), the count of
unique viewers, reading configuration files and environment variables, what a
migration does to the schema, logging, version and generated mocks: none has state
another part depends on. A message a worker cannot unmarshal is left out, because
the publisher only sends what it marshalled. In the modelled parts the code
without callers in the program (`purgeStale`, `Cache.Cleanup`, `Size`, `Keys`) is
left out too.

## Plan

Done, in the order of importance: Firehose, Processor and Subscription with their
invariants and proofs; NatsPipeline and its proofs; FeedPage with its proofs;
RateLimiter with its abstract specification and the proofs; ViewMetrics and Serve;
FeedPublishing; Purge with its own loop, on FeedPage; the abstract specifications
Delivery and AtMostOnce; the proofs that the rows agree with the log in both
deployments. Next: what the queue group of several workers still keeps of the rows, for
a post with a single operation in the log is not out of order with itself; and for
which orders of its reads the health check's answer was true as a whole.
