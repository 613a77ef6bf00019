# Linktracker in TLA+

This directory holds TLA+ models of linktracker (three Go services that watch
GitHub repositories and StackOverflow questions and tell Telegram chats what
changed), the TLC runs that check them, and proofs that TLAPS checks. All paths
below are relative to `src/`; `PROJECT.json` maps every definition to the lines
it models.

## 1. The system

```
 GitHub, StackOverflow                              Telegram
        | SearchResource                         ^        | commands
        v                                        |        v
 +--------------+  raw   +-----------+ processed +--------------+
 |   scrapper   |------->|   agent   |---------->|     bot      |
 | crawl, relay | Kafka  | inbox ->  |  Kafka    | inbox->send  |
 | subscriptions|        | outbox    |           | dialogues    |
 +------^-------+        +-----------+           +------+-------+
        |  gRPC / HTTP: start, track, untrack, tags, list  |
        +--------------------------------------------------+
   PostgreSQL: users, links, subscriptions, outbox, agent_inbox, agent_outbox,
   bot_inbox.   Valkey: the list of a chat's links.
```

| Component | State | Operations | Hard because of | Correct when |
|---|---|---|---|---|
| Walk over the links (`NotifySubscribers`, `GetLinksBatch`) | the cursor `created_at` of each walk | batches, strictly after the cursor | links commit behind the cursor; links share a `created_at`; walks overlap | no link is passed over or visited twice |
| Crawl of a link (`internal/scrapper/application/crawler_*.go`) | `subscriptions.last_update` | `processLink`: read subscribers, HTTP call, one transaction for cursors and outbox rows | the crawl job is not a singleton; subscribers change during the call; a worker pool; rollbacks | no change is skipped, none told twice but for an overlap, the cursor never runs ahead of the outbox |
| Scrapper outbox (`.../repository/*/outbox_repo.go`, `.../scheduler`) | `outbox` | `AddBatch`, `FetchPending`, `SendUpdate`, `UpdateStatus`, `Cleanup` | sends inside a transaction, crashes, status updates that fail | at least once; extra copies only after failures; the table drains |
| Subscription service (`subscription_*.go`) | `users`, `links`, `subscriptions` | `AddClient`, `RemoveClient`, `Subscribe`, `UnSubscribe`, `AddTags`, `ClearTags`, `GetLinks` | commands interleave between the read and the write of a transaction; a link has many spellings | keys hold; a removed chat keeps nothing; answers are true |
| Read cache (`subscription_cached_case.go`, `valkey`) | one entry per chat | `Get`, `Set`, `Delete`, TTL | Set of rows read before a concurrent write; a Delete that fails; a commit whose answer is lost | a chat reads its own writes |
| Agent inbox (`internal/agent/...`) | `agent_inbox`, consumer offset | `Consume`, `AddRecord`, `HandleUpdatesWindow`, `MarkProcessed`, `Cleanup` | store and commit are two steps; overlapping relay runs; errors swallowed; a consumer that stops | a committed event is recorded; a window loses and doubles nothing |
| Agent outbox | `agent_outbox` | `AddBatch`, `FetchPending`, `Publish`, `UpdateStatus`, `Cleanup` | overlapping runs, marking by a non-unique id, lock waits | a marked row was published; no resend without a failure; the table drains |
| Bot inbox and delivery (`internal/bot/infrastructure/{kafka,scheduler,repository}`) | `bot_inbox`, offset | `PostUpdates`, `processMessage`, `sendTelegram`, `MarkProcessed`, `Cleanup` | redelivery, sends that cannot be rolled back, overlapping runs, marking by a non-unique id | a processed row is told, or a send of it failed, or a processed row of its shot was sent in its place; twice only after a failure |
| Dialogue of a chat (`internal/bot/application`) | in-memory state per chat | `Handle` in three states | concurrent updates of a chat, restarts | the stored dialogue stays sound under concurrent messages; every message is answered |
| Clients of the scrapper (`internal/bot/infrastructure/{grpc,http}/client`, `pkg/retry`, `config/mappers.go`) | circuit breaker | calls with retries | retry of what was already done; a breaker shared by all chats | a chat is told "done" once per execution, and of every execution unless something failed |
| Life of a process (`cmd/*/app.go`, the `fx_module.go` files, `internal/infrastructure/server`) | which hooks ran, what is closed, who is still at work | start, SIGTERM, the `OnStop` hooks in reverse order, timeouts, kill | hooks close what the consumer, jobs and requests still use; waits for goroutines; errors of a stopping process that are swallowed | nothing acknowledged is lost, nothing begun is cut off, every stop ends |

The components meet at tables and topics only: the crawl writes what the relay
reads; a topic's messages are the next consumer's input. This is why each half
is a module of its own, and the interface (a pending row, a message) the state
they share. `EndToEnd` puts three of them together again.

Left out, with the reason in `PROJECT.json`: the summarizer (one HTTP call, no
state), the idempotency tracker and the notifiers that call the bot directly
(nothing uses them), the bot's servers for updates (superseded by Kafka),
middleware, the values of the configuration, telemetry, generated code.

## 2. The plan

Modules, in the order of what matters most. A module's `...Proofs` module holds
its theorems, its `MC...` module is what TLC runs.

| # | Module | State |
|---|---|---|
| 1 | `ScrapperPipeline` (crawl of a link, outbox, relay), `AtLeastOnce` (what an outbox or inbox promises) | modelled, checked, proved |
| 2 | `Subscriptions` (service behind its cache) | modelled, checked, proved |
| 3 | `AgentInbox` (consumer, inbox, window) | modelled, checked, proved |
| 4 | `AgentOutbox` (overlapping relay runs) | modelled, checked, proved |
| 5 | `BotDelivery` (consumer, inbox, Telegram) | modelled, checked, proved |
| 6 | `ChatSession` (dialogue, calls with retries) | modelled, checked, proved |
| 7 | `LinkBatches` (walk over the links) | modelled, checked, proved |
| 8 | `Lifecycle` (start and stop of each service) | modelled, checked, proved |
| 9 | `EndToEnd` (agent inbox, agent outbox and bot composed over their table and topic) | modelled, checked, proved |
| 10 | `AgentPolicy`: `CheckEvent`, `findPriority`, `MaxPriority` (`internal/agent/domain`) as operators against a reference definition | not done: the policy is the constant `Ignored` (section 8) |
| 11 | a source in `ScrapperPipeline` whose new answers carry the time 0 (StackOverflow, section 8) | not done |

A module for the circuit breaker was planned and given up: what it counts and when
it resets is gobreaker's, and of `ReadyToTrip` (`config/mappers.go:53-67`) only a
comparison of two counters would be the code's own. `ChatSession` lets the breaker
refuse any call at any time, which contains whatever it does.

`AtLeastOnce` is the abstract specification of every hand-over: `ScrapperPipeline`
(outbox to Kafka) and `AgentInbox` (inbox to outbox) are shown to implement it.

## 3. Modules and code

`PROJECT.json` ("map") has the lines of every definition. Actions carry the names
of the functions where one action is one function; a suffix says which outcome of
it (`SendFails`, `UpdateStatusFails`).

* **`ScrapperPipeline`**. A worker (`crawl[w]`) is in `processLink`:
  `ReadSubscribers`, then the HTTP call (`SearchResource`, `SearchFails`), then one
  of the two transactions: `ProcessLinkTx`, which moves the cursors of the
  addressees and adds the outbox rows in one step; `ProcessLinkRollback` when an
  addressee has unsubscribed and its `UPDATE` hits no row; `ProcessErrLinkTx` for a
  failed crawl; `CrawlTxFails`. Nothing keeps a second crawl of the link from beginning
  meanwhile; `overlaps[l]` counts those that do. The relay's transaction is open
  (`relayTx`) from `FetchPending` to `RelayCommit`: `SendUpdate`, `SendFails`,
  `MarkProcessed`, `UpdateStatusFails`; it is `"doomed"` once a statement of it has
  failed, for PostgreSQL aborts it while the loop goes on sending. `Access` picks one of
  the two implementations of the repository: the query builder's `AddBatch` is refused
  by the database (`AddBatchRefused`, section 7), and with it the transaction. Times are
  whole seconds, as in the APIs.
* **`Subscriptions`**. A request (`req[h]`) looks up chat and link (`Find`) and writes
  (`Subscribe`, `UnSubscribe`, `ChangeTags`, `RemoveClient`), other requests commit in
  between; the keys of the tables are guards of the inserts (`StillRegistered`,
  `Tracked`). A transaction fails (`TxFails`) and leaves the tables as they were, or it
  takes effect and its answer is lost (`CommitUnanswered`, `AddClientUnanswered`): to
  the service both are an error. After a commit that was answered the cache entry is
  deleted (`CacheDelete`); a list reads the entry (`CacheHit`, `CacheMiss`) or the
  tables (`ReadSubscriptions`) and then stores what it read (`CacheSet`). A text is a
  pair of a path and a spelling; `Path` is `NewTrackedLink(text).Path()`.
* **`AgentInbox`**. The consumer is between two messages (`"fetch"`), between the
  insert and the commit of an offset (`"commit"`), or over (`"stopped"`): any error
  ends `Consume`. Failures are counted by kind, so that a property can say which of
  them pays for what. A relay run locks its window (`FetchPending`) and hands it on or
  fails as a whole (`RelayInbox`, `RelayInboxFails`); `Singles` and `Groups` are the
  two kinds of messages `HandleUpdatesWindow` makes of it.
* **`AgentOutbox`**. Runs overlap: rows are locked by `FetchPending`, published one
  by one, and marked by `update_id`, which may wait for rows another run holds
  (`UpdateWaits`) and may deadlock (`Deadlock`).
* **`BotDelivery`**. `Write` is the agent's producer with its repeated keys; the
  consumer sends what it cannot store to the dead letters and goes on; a run sends
  row by row, chat by chat (`SendMessage`), a failed send ends its row (`SendFails`),
  and at the end it marks by `shot_id` (`StartMark`, `MarkProcessed`), which may wait
  for another run (`MarkWaits`) and deadlock with it (`Deadlock`).
* **`ChatSession`**. A message is a goroutine (`work[h]`) that has read the session
  (`Receive`) and goes through the steps of its handler; every access to the map is
  an action, for other messages of the chat come in between. A call is executed and
  answered (`Reply`), executed with its answer lost (`ReplyLost`), not executed
  (`Unreachable`), refused by the breaker or out of time (`GiveUp`), or left in the
  scrapper's hands (`Abandon`, `ExecuteLate`). `transport` picks the status mapping
  and what is retried.
* **`LinkBatches`**. A walk is `NotifySubscribers`: `GetLinksBatch`, `ProcessLink` for
  each link of the batch in any order (the worker pool), `NextBatch`. `opened` are
  the transactions that track a link: `created_at` is taken when they begin, the row
  appears when they commit.
* **`Lifecycle`**. One process of any of the three services. A hook is a sequence of
  steps (`ScrapperStop` is server, jobs, cancel, await, producer), `AgentHooks`,
  `BotHooks` and `ScrapperHooks` are the orders in which `NewApp` has them appended,
  and `StopScript` is their reversal. A step takes effect (`BeginStep`) and is done
  when those it waits for are (`StepIsDone`: `pool.Close` waits for connections, a
  server for its requests, a scheduler for its runs), or gives up (`StepTimesOut`,
  `ServerStopsHard`). Beside it go on the consumer (`Fetch` to `CommitMessages`), runs of
  the relay (`JobBegins` to `JobMarks`) and requests, each with what it does when
  something it needs is closed under it (`...Refused`, `...Fails`). fx's own rule is
  taken from how `cmd/` uses it: hooks are appended in the order of the `fx.Invoke`s,
  those of nested modules first, and stopped in reverse.
* **`EndToEnd`** instantiates `AgentInbox`, `AgentOutbox` and `BotDelivery` and joins their
  steps where the code does: the rows that `HandleUpdatesWindow` makes are `AddBatch`'s
  (`RelayInbox`, one transaction), and every `Publish` is a message with a new key
  (`Write`). `parts` and `carried` remember which event a message came from.
  `OnItsWay` lists the places where an event may be before a chat is told of it,
  `Excused` and `Losing` what keeps it from a chat for good (section 7).

## 4. What the runs check

Every property of a passing run has a mutant (a `Fault...` operator next to the
definition it changes) under which TLC finds it violated.

| Run | Bounds | States | What it shows |
|---|---|---|---|
| `crawl_overlap` | 2 chats, 1 link, 1 shot, 2 workers on the same link, 2 subscriptions in a row, 1 overlap, no failure | 3.5 M (symmetry) | Overlapping crawls neither advance a cursor past the outbox (`CursorBacked`) nor hide a change (`NoSilentSkip`), and report a change once per subscription and overlap (`OncePerSubscription`), while chats leave and come back. |
| `pipeline_live` | 1 chat, 1 link, 1 shot, 2 workers, 1 overlap, 2 failures | 323 k | `OncePerSubscription` again, now with failures, `ResendOnlyAfterFailure`, the refinement `DeliversAtLeastOnce`, and the liveness `ChangeIsNoticed`, `OutboxDrains`. |
| `crawl_builder` | 1 worker, no failure at all | violation | The query builder never writes a row, and no change is noticed (section 7): `ChangeIsNoticed`. |
| `subscriptions` | 1 chat, 1 link in 2 spellings, 2 requests at a time, 2 failures | 250 k | `RemovedChatIsForgotten`, `CacheIsCurrent`. |
| `agent_inbox` | 2 messages, 3 ids (1 ignored), 2 chats, messages without chats, 2 relay runs, 2 failures of any of 5 kinds | 183 k | `HandedOnOnce` (which has one message per chat and window in it), `CommittedIsRecorded`, the refinement `DeliversAtLeastOnce`, `ConsumerProgress`. |
| `agent_outbox` | 1 window of up to 3 rows, 2 ids, 2 runs, 1 failure, 2 deadlocks | 347 k | `SettledSharesId`, `ResendOnlyAfterFailure`, `OutboxDrains`. |
| `bot_delivery` | 2 messages, 2 shots, 2 chats, 2 runs, batches of 2, 1 failure of any of 8 kinds, 2 deadlocks | 158 k | `NotifiedAgainOnlyAfterFailure`, `UnnotifiedHasCause`, `CommittedIsAccounted`, `ConsumerProgress`, `InboxDrains`. |
| `end_to_end` | 2 events, 2 ids, 2 chats, one run of each relay, batches of 1, 3 messages to the bot, 1 failure of any kind anywhere | 240 k | `CopiesArePaid`, `NoEventIsLost`, `EventIsTold`. |
| `shutdown` | each service; 2 runs of the job, 1 row, 1 request, 1 connection, 2 messages (1 that cannot be decoded), 2 stops, 1 kill, timeout or crash | 89 k | `BotKeepsAcknowledged`, `GraceIsKept`, `StopEnds`. |
| `agent_shutdown` | the agent alone, 1 run of the job, 1 stop, no timeout, no kill | violation | A stopping agent acknowledges a message it did not record (section 7). |
| `chat_session` | 1 chat, 1 link, 2 messages at once, 2 attempts, 2 failures | 370 k | `SessionsAreSound`, `DoneIsBacked`, `EffectIsReported`, `EveryMessageAnswered`, over both transports. |
| `link_batches` | 4 links, batches of 2, 3 times, 2 failures | 95 k | `SkippedHasTwin`, `CrawledAgain`. |

Why the bounds are enough: the hazards are between two of a kind (two crawls of a
link, two requests of a chat, two runs of a job, two rows of one id), and each run has
two of those its properties are about. Chats meet only in a row or message they are
addressed in together, which two chats show; links only in a batch. A failure per step
and one more lets a retry fail as well. In `end_to_end` update ids and chats are
numbered in the order in which they first occur (`InOrder`), since nothing depends on
which they are; two events suffice for grouping, for a shared id, and for one being
marked with another, and overlapping runs are the matter of the modules' own runs. In
`shutdown` one connection is the tightest pool, and a second run and the consumer have
to wait for it. Bounds on counters (`MaxTime`, `MaxEpochs`, `MaxOverlaps`, `MaxMessages`, `MaxTxs`,
`MaxAttempts`, `MaxFailures`, `MaxDeadlocks`, `MaxEvents`, `MaxProcessed`,
`MaxWindows`, `MaxStops`, `MaxCuts`) are constants named as bounds; the theorems of
section 6 hold for every value of them. Symmetry is used in `crawl_overlap` only,
which has no liveness. Deadlock checking is off only where a model can stop because
its bounded input is used up and delivered (`AgentInbox`, `AgentOutbox`,
`BotDelivery`, `EndToEnd`) or its stops are (`Lifecycle`); that it does not stop
earlier is what `InboxDrains`, `OutboxDrains`, `ConsumerProgress`, `EventIsTold` and
`StopEnds` say.

## 5. Fairness

* gocron runs a job again and again, and a goroutine that was started goes on: weak
  fairness of the steps of a worker, a walk, a relay run (`WF_vars(RelayStep)`), a
  consumer that has not stopped, and a handler of a message.
* `ScrapperPipeline` assumes that every link is crawled again and again:
  `SF_vars(ReadSubscribers)`. It is strong because the step is enabled off and on while
  workers are busy and, once the overlaps of a run are used up, while the link is in a
  worker's hands. `LinkBatches` has its ground:
  `CrawledAgain`, from weak fairness of the walk alone. It excepts a link with a
  twin (section 7), and so neither does `ChangeIsNoticed` for the
  subscribers of such a link.
* `EndToEnd` has the fairness of its three modules and no more.
* `Lifecycle`: weak fairness of the hooks, the consumer and the server, none of a stop,
  a timeout, a message or a request. A run of a job and a request are strongly fair:
  they wait for a connection that others take and give back, and pgxpool hands it to
  those who wait in turn. `StopEnds` says that the hooks end without their timeouts.
* `Subscriptions` has no fairness: no request is assumed to arrive, nor an entry to
  expire.
* Failures, the environment and the cleaners are never assumed to happen, and every
  failure is bounded in number: liveness is claimed for failures that end. `EventIsTold`
  and `InboxDrains` are `[]<>`: they hold again and again, whatever arrives.

## 6. Proofs

TLAPS checks every theorem for all values of the constants, from the named
assumption of each module: bounds are naturals, batches are not empty, idle values
are distinct from real ones, and the goroutines of a process (`Jobs`, `Handlers`) are
finitely many where an account adds over them. `Typed` of a module is its type
invariant without the bounds of the runs.

* **`ScrapperPipelineProofs`**. `TypeCorrect`. `SettledRowsWerePublished` from
  `RelayInv`: what the open transaction has marked has been sent, so a commit takes only
  published rows out of the pending ones. `OutboxDeliversAtLeastOnce`: the step
  simulation of `AtLeastOnce`, from the same invariant. `ResendsArePaid`: `CopiesPaid`
  counts by where a row is: one that is pending and not marked has cost a failure for
  every copy, and in a doomed transaction the failure that doomed it still pays for the
  copies to come; `RowsInOrder` (created_at order) makes new rows new. `CursorIsBacked`:
  the transaction that moves a cursor inserts the row. `NothingIsSkipped` needs
  `NoSkipInv`, since the property says nothing of the workers: every cursor, and every
  cursor a worker has read, is `Fresh`: it is `Backed` by a row that told the chat of
  its time, and `Skipless` (each change is newer than it or was told); and what a worker
  has found is `Complete`: a change that its transaction will not report was told or is
  newer than all it reports. It holds with any number of overlapping crawls, and so does
  `ChangesAreReportedOnce`, from `ToldOnceInv`. The property alone is not inductive, for
  it does not say why the next commit may add a row. The account does: `Telling` are the
  rows that report the change to the chat, `Behind` the workers that have read a cursor
  older than it, each of which may add a row or move the cursor back, and a subscription
  whose cursor is older may start one more. A crawl that begins alone takes that one's
  place, a crawl that begins beside another is an overlap, and `UpdatesAreDue` says that
  a worker reports a change only to readers that are behind it. At its end the walks
  (`LinkBatches`, as the instance `Batches`, under the assumption of that module):
  `WalksAreTyped` contains that no walk visits a link twice; `WalksAreComplete` from
  `WalkOK`: what was read is not after the cursor, and what is not after the cursor was
  read or has a twin that was; behind the last batch all links are. It holds for both
  orders of the rows.
* **`SubscriptionsProofs`**. `TypeCorrect` contains `UNIQUE(user_id, res_id)`.
  `SubscribersAreRegistered`: the foreign key at the insert, for every interleaving.
  `ChatsReadTheirWrites` from `CacheInv`: `Alone` (an undisturbed chat has one request
  at most) and `ReadsCurrent` (what its list has read is what the table says) next to
  the property. A commit that was applied and answered with an error counts among what
  disturbs the chat: without it the property fails.
* **`AgentInboxProofs`**. `UpdatesAreHandedOnOnce`: locked rows are pending, held by
  one run, and no other row has their update_id (`LocksInv`: without it, marking by
  update_id could mark a row that nobody handed on); what went into the agent's outbox
  is no longer pending (`OutboxInv`); and lemmas on `Singles` and `Groups` say that a
  window sends a chat one message (`OneDeliveryPerChat`) and leaves none of its updates
  out (`DeliveriesComplete`). `InboxDeliversAtLeastOnce`: the step simulation of
  `AtLeastOnce`, with `SettledInv`, a row that is no longer pending reached each of its
  chats. `CommittedMessagesAreRecorded`: a commit passes one message, and `CommitInv`
  says, before the commit, that this one is recorded or that one failure more has been
  counted than messages are missing.
* **`AgentOutboxProofs`**. `RunsInv`: a run with a live transaction holds what it sends
  and marks, and what it has yet to send is pending. `SettledRowsShareId` from
  `MarksInv`: what a run has marked, or will mark once its lock wait ends, shares its id
  with a row that was sent. `ResendsArePaid` from `PaidInv`, an account per row: `Copies`
  are those sent and those that runs with a lost transaction will still send
  (`DoomedSends`), since nothing stops them before their end; each but one is paid for by
  a failure or a deadlock, and that one too as long as the row is pending and no live run
  is about to settle it. `TypeCorrect` adds the bounds of the runs.
* **`BotDeliveryProofs`**. `KeysInv`: a key is stored once, and a row that the cleaner took
  has a key that comes no more. `UnnotifiedRowsHaveCause` from `PassedInv`: a live run has
  passed over a chat of its row only when it sent to it or when a send of this row failed,
  so that the row whose shot it marks is `Finished`, and stays processed (`StaysOut`).
  `RepeatsArePaid`: the account of `AgentOutboxProofs`, for a row and a chat.
  `CommittedMessagesAreAccounted`: as in the agent. `DeadInv` (a dead letter is a
  failure that was counted) is there for `EndToEndProofs`.
* **`ChatSessionProofs`**. One invariant, `Inv`: the shapes of tasks, requests and sessions,
  `SessionsAreSound` (an entry that `SetTags` made alone has a handler that will remove
  it), and the account of requests: an execution without an answer, or one that may
  still come, was paid for (`Accounts`). `ToldIsEffect` is the point of `DoneStaysBacked`:
  no status of another answer, over either transport, is taken for "done", and it is never
  retried. The proof needed the alternatives of `NextStep` and `Status` to exclude one
  another as the `switch` statements do; they are conditionals, not overlapping arms.
* **`LifecycleProofs`**. The stop scripts are unfolded first (`Flatten`, `StopScripts`), and
  `Ordered` keeps of them, for every stop, what the properties need: which step is
  begun only after which (`Before`), and which do not fail to come (`Comes`).
  `BotAcknowledgesWhatItKept` from `Kept`: a commit of a message that was not kept meets
  a closed reader or a cancelled context. `StopsFinishWhatWasBegun` from `Working` (who is at
  work with which row, and that runs share none), `Graceful` (whoever works when it is
  too late, has a kill, timeout or crash behind him) and `Copies`, which reserves a cut for
  the copy that such a job may still make.

* **`EndToEndProofs`**. `InboxIsItsModule`, `OutboxIsItsModule` and `BotIsItsModule`: a
  step of the composition is a step of each part or leaves it alone, so that the
  theorems of the three modules hold of the composition too. The bot's needs an
  invariant, that a message has chats. Between the parts stand four invariants:
  `StoredInv` (a stored row is its event), `RowsInv` and `HandedInv` (the rows of the
  agent's outbox are the messages that the windows made, one for one), `CarriedInv` (the
  topic holds as many messages of a row as the row has sends), and `BotRowsInv` (a row
  of the bot is its message). `CopiesArePaidFor` multiplies: an event is in one row for
  a chat (`HandedOnOnce`), the row is in so many messages (`ResendOnlyAfterFailure`),
  and each of them was told so often (`NotifiedAgainOnlyAfterFailure`).
  `EventsAreNotLost` follows an event that is nowhere on its way: its offset is
  committed, so it is recorded (`CommittedIsRecorded`, with no error of the network);
  its row is not pending, so it was handed on (`SettledInv`) and is in a row of the
  outbox (`HandedInv`); that one is not pending either, so it was sent
  (`SettledSharesId`) and is in the topic (`CarriedInv`); that message is committed, so
  it is stored or a dead letter (`CommittedIsAccounted`, `DeadInv`); and the stored row
  is not pending, so it or a processed row of its shot was finished
  (`UnnotifiedHasCause`), which tells the chats unless a send failed. At each stage the
  clause of `Excused` is used that names the way out. `TypeCorrect` needs `Budgeted`,
  the failures of all three within the one bound.

`CopiesArePaid` and `TypeOK` of `EndToEnd` add up functions with `SumFunction`, a fold that
the community modules define by a recursive choice. What it computes is proved at the head of
`EndToEndProofs`: `Induct` is the induction over numbers from the minimum of a
non-empty set (`WFMin`), taken over a set and not an operator, and from it, by the size
of the set, follow that the iterator exists (`IterExists`), that a sum is an element and
the sum of the rest, and its bounds. Where an account counts a set
(`Cardinality`), the proofs follow it step by step: one element more, or one less.

Every safety property of a passing run is proved. Only model-checked is all liveness
(fairness and `ENABLED`). Only proved are `SettledWasPublished`, for `pipeline_live`
checks `DeliversAtLeastOnce`, whose abstract state says the same of each item, and
`TypeOK` of `LinkBatches`. No module declares a recursive operator.

## 7. Known divergences

Two have runs of their own:

* **The query builder never writes a row** (`crawl_builder`): `AddBatch` of
  `query_builder/outbox_repo.go:43` hands goqu the chats as a Go slice, which goqu
  expands to a tuple, and PostgreSQL refuses that for `chat_ids BIGINT[]`
  (`migrations/000003:9`); `subs_repo.go:40` of the same package avoids it for tags with
  a literal. `processLinkTx` rolls back, and with `DB_ACCESS_TYPE=builder`
  (deploy/.env.example:101) no chat is ever told of a change, against README.md:36. Its
  `UpdateStatus` would fail too, for it passes its arguments unspread (`:137`), but no
  row gets that far.
* **A stopping agent loses a message** (`agent_shutdown`): `cmd/agent/app.go:31-33` lists
  the consumer before the repository, so the pool is closed (`fx_module.go:59`) while
  `Consume` still fetches; the insert's error is no `PgError` and is swallowed
  (`inbox_repo.go:73`), and the offset is committed. README.md:156: the consumer "first
  records the event in the database ... This correctly handles restarts". The bot lists
  its hooks the other way round, and `BotKeepsAcknowledged` holds.

The others are in the models as the code has them, and the properties are stated so
that they hold (the clause named here is the price; `Excused` and `Losing` of `EndToEnd`
name those that keep an event from a chat once more):

* `agent_inbox` is unique in `update_id`, the id of the issue or answer: a second
  event of it is dropped as a duplicate until the cleaner has deleted the first
  (`migrations/000005:16`; docs/data_flow.md:67 speaks of the idempotency key).
  `CommittedIsRecorded` accepts "an earlier message with the same update_id".
* One failed send ends the delivery of a row, which is marked processed all the same
  (`bot/.../scheduler.go:169`; docs/data_flow.md:59-60), and rows are marked by
  `shot_id`, a row of the same issue that was never sent among them
  (`bot/.../repository/inbox.go:39`). `UnnotifiedHasCause` names both causes: a row that
  was not sent was marked with a processed one that was.
* Crawls of one link may overlap, for the crawl job is not a singleton
  (`scrapper/.../scheduler.go:89`): both report what they find, and the later commit may
  move a cursor back, so that a change is reported again. `OncePerSubscription` counts
  one more report per crawl that began beside another.
* A commit that PostgreSQL applied and whose answer was lost is an error to the service
  (`transactor.go:64`), which then leaves the cache entry as it is
  (`subscription_cached_case.go:41`): the chat's lists are stale until `VALKEY_TTL` has
  passed or its next command has succeeded. `CacheIsCurrent` names it, as it does a
  deletion of the entry that failed.
* The agent's outbox marks by `update_id` a row that was never sent
  (`agent/.../outbox_repo.go:39`; README.md:150): `SettledSharesId`.
* A message that is not valid, an update without chats from a failed crawl among
  them, stops the agent's consumer for good (`consumer.go:108`; docs/data_flow.md:68
  has it go to the DLQ): `StoppedForCause` in `ConsumerProgress`.
* An insert error that is no `PgError` is answered with nil in both inboxes, and the
  message is lost (`inbox_repo.go:73`, `inbox.go:66`; README.md:156).
  `CommittedIsRecorded` and `CommittedIsAccounted` count: one message at most per
  failure of the kind `"net"`.
* The relays make a new idempotency key for every send (`producer.go:94`): a row sent
  again is a new message to the bot (README.md:156). `SentAgain` of `BotDelivery`; in
  `CopiesArePaid` it is why the failures of the two relays multiply.
* Links of one `created_at` that the boundary of a batch separates are skipped by every
  crawl, for the next batch begins strictly after it (`sql/link_repo.go:61`); migration
  000002 gave every link that was there one `created_at`: more of them than
  `SCRAPPER_BATCH_SIZE`, and the rest is never crawled (deploy/.env.example:37: "How
  often crawl all links"). `SkippedHasTwin` and `CrawledAgain` except such twins.
* When the scrapper's server cannot listen, the context of the jobs is cancelled and the
  process lives on without crawling (`cmd/scrapper/app.go:279`): `ServerCrashes` of
  `Lifecycle`, a cut in `GraceIsKept`. Nothing restarts it but a stop from outside.
* With `UPDATES_PROTOCOL=http` the scrapper's closer is nil (`cmd/scrapper/app.go:177`)
  and is closed without the check the bot makes (`:310`): the stop panics. `Lifecycle`
  models `kafka` only.
* Two chats track a new link at the same time: the loser is told that it is already
  tracked (`subscription_tx.go:30`; scrapper-api.yml:122). `SubscribeRefused`.
* A link untracked under another spelling than it was tracked under is not found
  (`subs_repo.go:25` against `:156`, where tags do not look at the spelling).
* Over HTTP a chat that is not registered gets 400 or 500 instead of 404: the service
  answers `ErrNotFound` (`subscription_case.go:176`), the server looks for
  `ErrChatNotFound` (scrapper-api.yml:81-82). `Find` of `Subscriptions` answers
  `"NotFound"`, and `Status` of `ChatSession` what the server makes of it.
* A chat without subscriptions cannot be removed: `ErrNotFound` of
  `RemoveSubscriptionsByUserID` rolls the removal back (`subscription_tx.go:108`).
* `BOT_RETRY_HTTP_CODES` (deploy/.env.example:10) has no effect: the function given to
  `DoWithCode` returns no error with a status (`bot/.../http/client/client.go:74`).
  `IsRetryable` of `ChatSession`.

## 8. What the models leave out

* Texts, formatting, priorities and the summarizer. Which updates the policy lets
  pass is the constant `Ignored`.
* Topics have one partition. A consumer meets its messages in order.
* `BotDelivery` lets the cleaner take a row only when its key comes no more, which is
  what a long enough `BOT_INBOX_CLEAN` gives; with a shorter one a redelivered message
  is told again. A message that cannot be decoded is the fault `"pg"`.
* `AgentOutbox` and `BotDelivery` bound deadlocks: nothing in the code keeps two runs
  from deadlocking for ever, and `OutboxDrains` and `InboxDrains` are claimed while they
  do not.
* `EndToEnd` leaves the cleaners to the modules, so that its tables remember what they
  have seen, and begins at the agent: the scrapper's relay is `ScrapperPipeline`, whose
  copies are events with the same update_id to the agent.
* `Lifecycle` has the services with `UPDATES_PROTOCOL=kafka`, one row that waits and a
  job in three steps; what a relay does to its tables is in the modules of the relays.
  A hook that fails is taken for done, as fx goes on with the next.
* The client-side cache of `DoCache` in the scrapper's process: Valkey invalidates it
  asynchronously, which adds staleness of the length of a message.
* `AddTags` without tags is refused at once (`subscription_tx.go:128`) and changes
  nothing; `Arrive` leaves it out.
* In `ChatSession` the scrapper executes a request in one step (`Subscriptions` has
  its transactions), tags carry no values, nobody removes chats (the bot has no such
  command), and the breaker may refuse any call at any time.
* The crawlers read the first page of an answer only; changes beyond it are outside
  `SourceChanges`.
* The StackOverflow crawler takes `last_edit_date` as the time of an answer
  (`crawlers/stackoverflow.go:22,93`). When the source leaves it out, for answers
  nobody has edited, the time is 1970, and such an answer given after one was reported
  is not after the cursor: it is not reported until it is edited. `SourceChanges` gives
  every change the time it happened at, so this is not in the model; section 2 plans
  it.
