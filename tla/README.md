# Verification of the nezha-rust dashboard

TLA+ models of the concurrent core of the dashboard process, the TLC
configurations that check them on small instances, and TLAPS proofs of their
main safety properties. Paths are relative to the repository.

## 1. The system

The dashboard is one tokio process. Agents on monitored machines talk gRPC to
it, browsers HTTP and WebSocket. Its state is `AppState`
(`crates/nezha-service/src/state.rs`): `DashMap`s in memory, a SQLite database,
a time-series store (TSDB), and channels to background loops.

| Component | State | Operations | Talks to |
|---|---|---|---|
| Server registry (`auth.rs`, `handlers/server.rs`, `state.rs`) | table `servers` (uuid UNIQUE, id AUTOINCREMENT) and its copy `AppState.servers` | `check_auth`, `auto_register_server`, `create`, `update`, `batch_delete`, `load_servers` | everything that names a server |
| Agent task channels (`handler.rs` 150–177, `ws.rs` 93–100) | `task_senders`: one mpsc sender (128) per server | `request_task`, its reader's cleanup, the terminal handler's send, the cron's send | terminal, cron |
| Agent reports (`handler.rs` 30–150) | snapshot, host, last_active of each server | `report_system_state`, `report_system_info2`, `report_geo_ip` | TSDB, DDNS, alerts |
| Service monitor (`sentinel.rs`, `handlers/service.rs`) | `services`, a semaphore of 64, a channel of 2048, a batch of 128 | 5 s scheduler tick, check tasks, batch writer, admin edits | TSDB |
| Alerts (`alert.rs`, `handlers/alert_rule.rs`) | table `alert_rules`, compiled `rules_cache`, deduplication table | 15 s check, 60 s reload, admin edits | notifications |
| Notifications (`notification.rs`) | semaphore of 16, retry delays 0/1/3 s | send, retry, groups | HTTP |
| Scheduled tasks (`cron.rs`) | table `crons` | tick, `should_run`, `dispatch_command` | `task_senders` |
| Terminal and file sessions (`handlers/terminal.rs`, `ws.rs`, `handler.rs` 180–260) | `pending_terminals`, `active_streams`, two channels (128) and four pumps per session | create, WebSocket, `io_stream` | task channels |
| Dynamic DNS (`ddns.rs`) | none of its own | one task per update, retries | HTTP |
| TSDB (`nezha-tsdb/src/sqlite.rs`, one of three stores) | tables `server_metrics`, `service_metrics` | write, daily statistics, data points, hourly maintenance, close | service monitor, reports, `get_history` |
| Configuration (`config.rs`, `handlers/setting.rs`) | YAML file and `AppState.config` behind a `tokio::sync::RwLock` | load, environment override, missing keys, `update_config`, save | login, middleware, OAuth, agents' keys |
| Users, login, OAuth (`handlers/auth.rs`, `oauth2.rs`, `middleware.rs`) | `users`, tokens | login, refresh, callback | configuration; the `RateLimiter` of `middleware.rs` is installed nowhere |
| Start and shutdown (`src/main.rs`) | – | load, serve, hourly maintenance, close | everything |

Where it is hard:

* **Two copies.** Servers, services and rules live in a table and in memory,
  written in separate steps with an `.await` between them; failing statements
  and restarts fall in between, and so do clients that go away: hyper drops the
  future of their handler at the await it has reached.
* **Reconnects.** An agent opens a new stream long before the server notices
  that the old one is dead; the old one's cleanup then runs late.
* **Bounded channels.** Full task, result and terminal channels: who waits,
  who drops, and what does the waiter hold meanwhile?
* **Late results.** Checks end after the service they belong to was edited,
  deleted, or checked again.
* **Intervals that catch up.** tokio intervals fire in bursts when a loop was
  late; the deduplication of alerts has to survive it.
* **Files and clocks.** The configuration is truncated before it is written;
  rows wait in queues while midnight passes and maintenance runs.
* **Guards across awaits.** A `DashMap` guard that lives across an `.await`
  keeps its shard locked while its task is on no thread, and a task that wants
  that shard blocks a worker thread, not itself.
* **Teardown.** A terminal is four tasks in two handlers: any side may leave
  first and only dropped channel ends tell the others.

What makes each part correct:

* *Registry*: one id per uuid, never reused; memory and table differ only for
  reasons one can name; every agent gets an id in the end.
* *Task channels*: an entry has a reader that removes it; what was accepted
  reaches an agent that stays.
* *Service monitor*: a due service is checked, whatever the database does; the
  status settles on the truth; a deletion is final; table and memory have the
  same services.
* *Shard locks*: no handler waits for ever. The code does not have this; what it
  has is that two patterns are the only causes.
* *Alerts*: not twice within the interval, and no alert of a loaded rule held
  back for longer; silence after a rule is removed.
* *Sessions*: used once; bytes in order; neither side outlives the other.
* *TSDB*: nothing within the retention is deleted, everything beyond it is; the
  statistics of a day are those of that calendar day.
* *Configuration*: never an empty key; a restart loads what users saw; tokens
  and agents survive it; the lock serves everybody.
* *Scheduled tasks*: a task that is due runs.
* *Notifications*: an alert reaches every working webhook of its group, and no
  more often than its calls failed.

`PROJECT.json` lists the hazards, each at its line, with the properties that
cover it.

## 2. The modules

| Module | Models | Checked with | Proved in |
|---|---|---|---|
| `Directory` | what the registry promises, every change at once | (as a property of `ServerRegistry`) | |
| `Relay` | what a terminal promises: two ends and nothing between | (as a property of `TerminalSession`) | |
| `ServerRegistry` | the registry of servers | `MCServerRegistry` | `ServerRegistryProofs` |
| `AgentTasks` | task channels | `MCAgentTasks` | `AgentTasksProofs` |
| `ShardGuard` | worker threads and the shard locks of `servers` and `services` | `MCShardGuard` | `ShardGuardProofs` |
| `ServiceSentinel` | scheduler and checks | `MCServiceSentinel` | `MetricsStoreProofs`, as `Checks` |
| `ServiceRegistry` | the services table and its copy in memory | `MCServiceRegistry` | `ServiceRegistryProofs` |
| `MetricsStore` | batch writer, time-series store, maintenance, statistics | `MCMetricsStore` | `MetricsStoreProofs` |
| `AlertSentinel` | alert loop | `MCAlertSentinel` | `NotificationProofs`, as `Alert` |
| `Notification` | alert tasks, webhooks, permits, retries | `MCNotification` | `NotificationProofs` |
| `Cron` | the scheduler loop and its table | `MCCron` | – |
| `TerminalSession` | sessions, streams, pumps | `MCTerminalSession` | `TerminalSessionProofs` |
| `ConfigStore` | configuration file, memory, lock, keys | `MCConfigStore` | `ConfigStoreProofs` |

Every module has one action per stretch of code between two awaits at which
another task can be seen to interfere. Operators whose comment starts with
"Deviation:" are not part of the specification: each is the definition next to
it with a plausible bug, and `PROJECT.json` ("mutants") says which property
notices it.

### ServerRegistry

`db` and `servers` map ids to rows; `nextId` is SQLite's AUTOINCREMENT counter.
A request in flight is a record in `req[w]` that carries exactly the locals its
next step uses.

| Code | Actions |
|---|---|
| `check_auth` finds the uuid in memory | `AuthKnown` |
| `check_auth` → `auto_register_server` | `AuthUnknown`, `InsertRow` / `InsertRefused`, `InsertMem` |
| `create` | `Create`, then the same inserts |
| `update`: `contains_key`, UPDATE with its error dropped, `get_mut` | `UpdateCheck`, `UpdateRow`, `UpdateMem` |
| `batch_delete`: `remove` of each id, one DELETE with its error dropped | `DeleteStart`, `DeleteMem` per id, `DeleteRows` |
| the agent or client is gone, and the future with it | `Drop`, at any of these awaits |
| the process dies; `load_servers` | `Crash`, `LoadServers` |

`Drop` leaves what the handler had done: a row that will not get its entry, a
table that memory does not follow, a memory without rows that the table keeps. A
statement that SQLite finishes after its handler was dropped is the statement
first and `Drop` next. A row keeps its uuid, a `name` (for the fields `create`
writes to both copies) and `hidden` (for `hide_for_guest`, `note`,
`display_index`, `enable_ddns`, which `create` writes to the table only:
`FreshEntry`). Ids an administrator deletes are those somebody could have been
shown (`Shown`): every allocated id except one whose handler is between its two
inserts.

`Directory` is the abstract specification: ids are assigned once, told to
their owner, and retired, each at once. `IsDirectory` maps the table to it
(`owner` is the uuid of a row, `given` the ids below `nextId`, `told` the ids of
open streams). What is left of the implementation in that view is the point:
`check_auth` answers from memory, which lags behind the table, and must never
tell an agent an id the table gave to another or has taken back.

`InsertMem` is one step here. In the code it can wait for itself when the new
id hashes to the last shard of the map; that is `ShardGuard`'s subject.

`split` and `stranded` are history variables. They name the reasons for which
the code lets the two copies differ (an UPDATE that failed, was overtaken or was
dropped before memory; a DELETE that failed or was never sent, an INSERT whose
handler was dropped), so that `CopiesAgree` and `NoLostRow` can say that there is
no other.

### AgentTasks

A stream is one call of `request_task`. `conn` tells apart a stream whose agent
is there (`up`), one whose agent is gone without the server having noticed
(`lost`) and one the server has given up (`closed`). `Register` is
`task_senders.insert` and the spawn of the reader, `Cleanup` the reader's
`remove`, `Finish` the end of the response when its sender was dropped and the
channel is drained. `Lookup`, `Send`, `SendFails`, `Refuse` are the terminal
handler. A handler suspended in `send().await` holds a read guard on a shard of
the DashMap, so `Register` and `Cleanup` have the guard `~Guarded`. Blocked
operations block their own task only: that a blocked insert also occupies a
worker thread is what `ShardGuard` is about, for the other two maps.

### ShardGuard

A handler is the sequence of what it does to shard locks: `Read`, `Write`,
`Drop`, `Await`. `Programs` gives the sequences of every handler that touches
`servers` or `services`, in the order of the code, temporaries included: the
`RefMut` of `report_system_state` lives across the TSDB write (handler.rs
40–92), the iterator in the scrutinee of the match of `check_auth` (auth.rs 27)
lives until the match ends, across the INSERT, and still holds its last shard.
DashMap's `Iter` takes the next shard before it drops the one it has (`Scan`).
A task is `queued`, `running` on one of `Threads` threads, or in `io`; a task on
a thread that cannot take its lock keeps the thread. DashMap's locks are not
reentrant, so a task can wait for itself.

A handler whose client is gone is dropped at the await it has reached, and its
guards with it (`Abandon`); reports, checks and the status push are spawned and
go on.

Nothing in the code keeps these sequences from a deadlock, and nothing is
assumed to: there may be fewer threads than requests, and any id may hash to the
last shard. `NoOtherDeadlock` says that whenever no task can go on it is for one
of two reasons. `WaitsForThread`: every thread is taken, one by a task that waits
for a guard that `report_system_state` or a registration has kept across its
await, and whose owner is ready and has no thread. `WaitsForItself`: a
registration whose new id hashes to the last shard wants to write it under its own
iterator (auth.rs 27 and 78). So the many other guards, the handlers that iterate
over one map inside an iteration over the other, and the order in which shards are
taken, are not a deadlock. `shard_stuck` is a trace of the first reason.

### ServiceSentinel

Time is counted in scheduler ticks. `Tick` ages every service and queues one
task for every due one, in any order (DashMap iteration, then the semaphore's
FIFO); `Acquire`, `Check`, `Record`, `TrySend` are a check task; `Create`,
`Retarget`, `Delete` the admin handlers' effect on memory; `TargetFlips` the
world. Of the channel to the writer only the number of results counts here
(`backlog`), and `Receive` is owed by nobody.

### ServiceRegistry

`table` and `services` map ids to rows and entries of four columns: `target`
(a string bound first), `duration` and `trigger` (numbers), `skip` (one of the
JSON lists, a string whose placeholder comes last). That is the least that
shows `update`'s two orders: the SET clause names the numbers before the lists,
the values are bound strings first. `Bound` pairs the n-th placeholder with the
n-th value, so a form with a list and a number writes each into the other's
column. SQLite stores it; memory gets what the form says (`UpdateMem`).

`load_services` runs once per process, beside the handlers that are already
served: `LoadSelect` reads the table, and fails as a whole if one row cannot be
decoded, which `unwrap_or_default` turns into "no services". A number column may
hold a text, from an UPDATE that mixed up its values; and four columns are asked
for as `bool` that the migrations declare INTEGER, which sqlx's Any driver does
not give as one (`Undecoded`): with SQLite as it is, any row is an error and no
service is loaded at a start. Elsewhere the code casts and reads an i32
(state.rs 123). The other outcome, that the rows are read, is a disjunct of its
own, so that what happens after a load that works is checked too. `LoadRow`
inserts one row, clamps durations below 5 to 30 and drops the seventeenth
column (`enable_trigger_task`), which the SELECT cannot hold. `Crash` and
`Restart` let the next process meet what the last one wrote.

History variables name the reasons for which the copies may part: `crossed`
(mixed-up UPDATE), `split` (failed, overtaken, early or dropped UPDATE), `unread`
(rows of a load that got nothing), `ghosts` (entries put in memory after their
deletion began), `stranded` (a DELETE that failed, a handler dropped between table
and memory). `Drop` is as in `ServerRegistry`.

### MetricsStore

A row lives in a slot, from the moment its check ends (`Accept`) to some time
after maintenance deleted it (`purged`, a history variable, so that statistics
can be compared with what was ever stored). It carries its age in clock steps;
`Day` steps are a calendar day and `phase` is the time of day, so "midnights
since" (`DaysAgo`) is what SQLite's `DATE(timestamp)` distinguishes.

| Code | Actions |
|---|---|
| check task: `try_send` | `Accept` (a full channel drops the result, which then never was a row) |
| batch writer: `select!` of `recv` and the flush interval | `Receive`, `FlushTick` |
| `flush_batch`: one INSERT per result, errors logged | `WriteOne` |
| `report_system_state`: its own INSERT | `Report` |
| `maintenance`: cutoff, two tables, `DELETE ... LIMIT 10000` until none is left, `_ => break` | `MaintStart`, `Purge`, `PurgeFails` |
| `main` after the servers stopped: `close`, return | `Close`, `Exit`, and `Boot` of the next process |

`DailyStats` is `query_service_daily_stats`.

### AlertSentinel

Time is counted in checks of 15 s. `Advance` lets both intervals fire and
accumulates what the loop has not served (burst behaviour of tokio intervals);
`Check` is `check_all`, including the cleaning of the deduplication table,
`Reload` is `reload_rules`, in which a SELECT that fails is taken for an empty
table (`unwrap_or_default`), `EditRules` one statement of an admin handler,
`Report` a `report_system_state`. Rules watch two metrics: one that reports set
(load) and one that time sets (offline). A server that never reported to this
process has no snapshot and is skipped. Ages stop counting at the last value
any comparison tells apart.

`Fetched` is what a reload gets out of its SELECT: the enabled rules, or nothing.
With SQLite as it is, it is nothing whenever there is a rule to get: `enabled` is
asked for as a `bool` (alert.rs 109) and declared INTEGER (db.rs 137), sqlx's Any
driver takes that for an error, and **no rule is ever in the cache and none ever
alerts**. No property says that a condition alerts, therefore; the properties are
about the cache, whatever the reloads put there, and hold for both outcomes in any
order. `NothingSuppressed` is the other half of `MinIntervalKept`: what is in the
cache, matches and was quiet for `min_interval` alerts at the next check, also
when its rule left the cache and came back.

### Notification

`Raise` is the task `check_all` spawns for the alerts of a round; it calls
`send_notification` for one after the other: `SelectGroup`, `SelectHooks`. Each
row of the second SELECT becomes a notice, a task that takes one of the permits
(`Acquire`; the semaphore is fair, `queue`) and keeps it through up to three
calls and the delays between them (`CallSucceeds`, `CallFails`, `End`). A call
that failed may have been heard. A group is a list of ids as it was sent, with
duplicates and dangling ids, or text that is no list (`Junk`); `id IN (...)`
returns a row once. The handlers change both tables under the sending.

`owed` is a history variable: who had to hear of an alert when it was raised.
An entry is excused by a failing statement, or an edit of its webhook or group
before the notice was spawned, and by nothing else. The module is one life of
the process: alerts are stored nowhere, a restart forgets them.

### Cron

`Select` is the first statement of `tick`: it succeeds if the columns it names
are in `Columns`, which for the real table they are not, so `loop` goes back to
`Waiting` for ever. The rest is modelled as the code has it: `NextRow` with
`ShouldRun` and its `u32` arithmetic (`Period` is 0 for `@every 0m` and for
factors that wrap to 0: the loop panics and is `dead`), `Dispatch` with the
`remove` of an entry whose `Ref` the loop holds (`stuck`), `Record`. With the
column named right, the same property finds these two: `@every 0m` in the table
ends the loop for all tasks, and a channel that closes while the loop sends to it
stops it for good. (A debug build panics on overflow before the remainder.)

### TerminalSession

`pending` and `active` are the two maps. A tab is one run of
`handle_terminal_ws` and names its stream; a call is one run of `io_stream`.
`Read`/`Push` are `ws_recv_task`, `Show` is `ws_send_task`, `PumpUp` and
`PumpDown` the two tasks of `io_stream`, `Respond` the response of the call
(`mpsc::channel(128)` and `ReceiverStream`), which hyper polls; a message is a
number. `got` is what `PumpUp` has taken, `reached` how much of it the agent has
received: the rest is in the response channel and, if it is full, one message in
the pump's hands (`InHand`). A pump waits
for room in its channel and fails when the other end was dropped; which task
holds the other end follows from `active` and `call` (`Received`, `Fed`).
`Return` is the `select!` that ends the handler. The task channel that carries
the request to the agent is `AgentTasks`; here it works or fails.

`Relay` is the abstract specification: a session goes to one tab, a tab is paired
with one call, both for good, and from then on either end receives the next
message the other has sent, or leaves and receives no more. `IsRelay` maps a tab
to its session and a call to the tab it is bound to; what was sent and what came
out (of `got`, the part that `reached` counts) are mapped to themselves. `Open` is
`Start`, `Bind` is `Pair`, `Respond` is `ToAgent`, `Show` is `ToBrowser`, `Return` and
`AskFails` are `BrowserGone`; maps, channels, tasks and what they hold are not
in that view, and all their other steps stutter.

### ConfigStore

`file` is what is on disk (`Absent`, `Bad` when YAML refuses it), `conf` is
`AppState.config`. `Start` is `Config::load`: file over defaults, environment
over both, empty keys drawn, saved if any was. `Save` has three outcomes: done,
refused before the file is touched, and cut short after `fs::write` truncated
it (`Torn`: a prefix may still parse, what follows the cut is at its default).
`queue` and `holders` are tokio's RwLock, which serves in order: `Admitted`.
`Apply` and `UpdateSave` are `update_config` with its write guard held
throughout; `OauthBegin`, `OauthAnswer`, `OauthDatabase` the callback with its
read guard held across two HTTP requests; `Answer` every reader without an
await under its guard; `Cancel` the client that goes away. `tokens` and
`agents` are history variables: the keys under which tokens were signed and
install commands handed out, less those the operator replaced or an unsaved
configuration lost. A `Config` is the language, one more field of the settings
form and the two keys; the other fields are treated as that one. The language is
apart because `NZ_LANGUAGE` overrides it: the form changes it all the same, in
memory and in the file, and the next start is back at the variable's, which is
what `RestartKeepsSettings` says (`WithEnvLang`).

### How they compose

`AgentTasks` takes its server ids from the registry, of which it needs what
`Directory` says: an id is told to its owner only, and never changes hands.
`TerminalSession` uses one outcome of `AgentTasks`: `Asked` is `Send`,
`AskFails` is `SendFails`, and `Open` with stage `failed` is `Refuse`.
`ServiceSentinel` and `MetricsStore` meet in the channel: `TrySend` with room is
`Accept`, and `Receive` is the same action, of which `ServiceSentinel` assumes
nothing, so what it shows holds for every writer. `ServiceSentinel` takes its
services from memory; `ServiceRegistry` says what memory has to do with the
table. `ConfigStore` provides the keys every agent stream is compared with.
`AlertSentinel` sees of the agents' reports what `Report` says, and an alert it
finds is a `Raise` of `Notification`, from the task that carries it on.
`ShardGuard` cuts across: it has the lock steps of the handlers whose effects
are in `ServerRegistry`, `ServiceRegistry`, `ServiceSentinel` and
`AlertSentinel`, and justifies that those modules take each access to a map as
one step that happens.

## 3. The runs

| Run | Asks | Answer |
|---|---|---|
| `registry` | When registrations, edits, deletions, one failed statement or dropped handler, and a restart interleave: does the registry implement the directory (`IsDirectory`), is every entry in memory backed by a row (`BackedByRow`), is no row lost (`NoLostRow`) and no copy stale (`CopiesAgree`) but for named reasons, and is every agent registered in the end unless a row left behind keeps its uuid (`AgentsGetRegistered`)? | holds, 586,044 states |
| `tasks` | Does a send return (`SendReturns`), is an accepted task delivered (`AcceptedIsDelivered`), does a dead entry go away (`DeadEntryRemoved`)? | holds |
| `sentinel` | Is a due service checked (`DueIsChecked`) and does the status settle on the truth (`StatusConverges`) when nothing obliges the writer, and does a late result leave a deleted service deleted (`DeletedStaysDeleted`)? | holds |
| `services` | With `load_services` beside the handlers, faults, dropped handlers and a restart: do table and memory have the same services (`SameServices`) and show the same (`CopiesAgree`), but for the reasons named? | holds, 1.8 million states |
| `metrics` | Does maintenance delete nothing within the retention (`RetentionKept`) and everything beyond it in the end (`OldRowsGo`), are the statistics of each calendar day complete (`DailyStatsComplete`), is an accepted result handed to the database (`AcceptedIsWritten`)? | holds |
| `alert` | Are alerts `min_interval` apart in bursts and with a full deduplication table (`MinIntervalKept`), is none held back for longer (`NothingSuppressed`), does a removed rule fall silent (`RemovedRuleIsSilent`), whether reloads give the rules or nothing? | holds, 202,340 states |
| `notify` | Is no permit lost (in `TypeOK`), does a webhook hear of an alert once and once more per failed call (`HeardOnce`), does an alert reach every working webhook of its group (`AlertsReachLiveHooks`)? | holds, 179,075 states |
| `terminal` | Are maps, channels and pumps a relay between one browser and one agent (`IsRelay`: a session used once, a stream bound once, everything received in order, after it was sent, by somebody who is there), is what is typed delivered (`TypedIsDelivered`), does either side's departure end the other (`AgentLossEndsTab`, `LeavingEndsCall`)? | holds, 67,140 states |
| `config` | Would a restart load what readers saw but for a language the environment sets (`RestartKeepsSettings`), do tokens and agents survive (`KeysSurvive`), is the lock served (`LockServed`)? | holds, 450,236 states |
| `shards` | With three requests on two threads, and new ids in any shard: when no task moves, is it for one of the two reasons above (`NoOtherDeadlock`)? | holds, 1.3 million states |
| `shard_stuck` | Can `monitor_history` iterate over the servers without a deadlock (`HistoryNoDeadlock`, service.rs:266)? | **violated**: it blocks the one thread left, and the holder of the shard, whose TSDB write has ended, cannot go on |
| `cron_never` | Does a task that is always due run (`AlwaysDueRuns`, cron.rs:30)? | **violated**: the SELECT names `servers`, the table has `servers_raw` (db.rs:181), and the error is taken for no tasks |

The two violations are listed under "findings" in `PROJECT.json` with the line
of the repository that says otherwise.

### Bounds

* `registry`: two workers, two uuids, three ids, one deletion, one
  mishap (a failed INSERT, UPDATE or DELETE, or a dropped handler), one restart. The races of this module are between two handlers (two
  registrations of a uuid, registration and deletion, two updates) and every
  one fits; the third id lets an id be allocated after a deletion. Three ids
  are never too few: `MCServerRegistry` assumes
  `Cardinality(Uuids) + MaxDeletes <= MaxId`, so `InsertRow` is never disabled
  by the bound. The run has a liveness property and hence no symmetry set.
* `tasks`: two servers that share a shard, two streams, two handlers, channels
  of one. Two streams are an old and a new one; one slot is enough to be full.
* `sentinel`: one service (services meet only in the semaphore and the
  channel, which are full with one permit or one slot), two targets to retarget
  between, two permits so that checks of one service overlap.
* `metrics`: two rows at a time, of either table; a day of two steps, so that
  midnight falls between; a retention of two days and statistics of three, so
  that one of the days asked for is beyond the retention and one is partial; a
  DELETE of one row, so that a run takes several; one end of the process.
  `MaxAge` is beyond every comparison (`AgesAreEnough`). A run of maintenance
  sees a bounded number of clock steps.
* `services`: two workers, one entry to create, three forms: one whose values
  keep their order and two that mix a list with a number of either kind; two ids,
  updates and deletions, so that an update can overtake another and a deletion
  meet the load; one mishap and one restart. Workers are symmetric and the
  properties are invariants, hence the symmetry set.
* `notify`: one permit, so that a dead webhook is in the way of everybody; a
  group that lists a dead webhook and twice a live one; a round of up to two
  alerts; two failing calls of the live webhook, the most that must not lose the
  alert; one failing statement, one edit. Everything may be sent and over:
  deadlock is not checked.
* `shards`: three requests: one that keeps a guard, one that waits for it and
  somebody else; two threads, so that they can be exhausted while the keeper is
  ready, and two shards, the least in which an iteration holds two locks at once;
  new ids in either. Every request may be answered: deadlock is not checked.
  `shard_stuck` has two requests and one thread; with n threads it takes n blocked
  handlers.
* `cron_never`: one task due each minute or each hour. The clock starts again
  after two minutes (`Horizon`), `Modulus` stands for 2^32.
* `config`: two requests at once (one that holds, one that waits), two keys so
  that a new one can differ, one of them set in the environment, two texts and two
  languages, and one form that changes both. Longer queues are in the theorems.
* `alert`: one rule, two servers, a deduplication table of one entry so that it
  overflows; two late ticks; any reload may give nothing.
* `terminal`: one session and two tabs that want it, two calls for the same
  stream, channels of one and three messages to the agent: enough to fill the
  response channel and keep its pump waiting. One message goes to the browser
  (a second takes the run past its time); more are in the theorems. Deadlock is not checked, as everything may be over here: sessions
  used, sockets closed.

### Fairness

`Spec` assumes none. The liveness runs assume what the runtime provides: tokio
polls a task that can move (weak fairness of handler and pump steps), hyper
writes what a live agent can take and closes a dead connection by its HTTP/2
keep-alive (`main.rs` 140–152), intervals keep firing, and a `select!`, which
polls its branches in random order, serves each of them (strong fairness of
`Receive` and `FlushTick`). Two strong fairness conditions exist because of a
bound and not because of the code: `Tick` (the bound `MaxWaiting` can hold it
back) and `AuthUnknown` (the bound `Workers` can). In `AgentTasks` hyper hands
an agent that is there its next task (`Transmit`): an agent that answers pings
and takes nothing, which no keep-alive ends, is outside what its liveness says.
`ServiceSentinel` says nothing of the writer, as the database may hang.
`MetricsStore`: the writer's `WriteOne` is weakly and its two branches strongly
fair; once the pool is closed the process ends and a supervisor starts it again;
the hourly interval keeps firing and a run of maintenance goes on. DELETEs may
fail, but not all of them for ever, and the index hands out the rows of a table
oldest first, hence strong fairness of the deletion of each row. `ConfigStore`:
handlers with an admitted guard run; `LockServed` has the premise that no
provider keeps a callback waiting for ever, since `reqwest::Client::new()` sets
no timeout. `Notification`: tasks are polled, statements return and a call ends
within the client's 30 s, so each alert task and each notice is weakly fair;
which way a call ends is owed by nobody, except that a live webhook fails at
most twice (`MaxGlitches`). `Cron`: time passes and the loop is polled. Agents,
browsers and administrators owe nothing, except that an agent without an id
tries again (`AgentsGetRegistered`) and that a browser or an agent that is there
takes what is written to it (`Show` and `Respond` of `TerminalSession`).

## 4. The proofs

`ServerRegistryProofs`, for any number of uuids, workers, ids, faults and
restarts, from `RegistryAssumption`:

* `TypeCorrect`: each request carries what its next step reads.
* `MemoryBackedByTable`, `NoDuplicateServer`, `IdsAreNotReused`,
  `StreamIdentity`. None of `BackedByRow`, `OneServerPerUuid`,
  `StreamKeepsIdentity` is inductive: they depend on what the handlers in
  flight are about to write. The inductive invariant adds that uuids are unique
  in the table, that ids at or above `nextId` are unused everywhere, that a
  handler with `insertMem` still owns the row it inserted (nobody else has it
  in memory, and nobody can delete an id that was never shown), and that a
  handler of `batch_delete` about to run its DELETE has cleared these ids from
  memory.
* `RegistryIsDirectory`: the refinement. The initial state maps to the
  directory's; `InsertRow` is `Assign`, a DELETE that succeeds is `Retire`,
  `AuthKnown` and `InsertMem` are `Tell`, `Disconnect` and `Crash` are `Hangup`,
  and the rest stutter. It needs the inductive invariant above: that what memory
  shows is in the table is what makes `Tell` possible.
* `RowsAreInMemory` and `MemoryShowsTable`, from a second invariant about the
  handlers in flight and those that were dropped: who accounts for a row memory
  lacks, and which step of an update stands, or stood when it was dropped, between
  two copies that differ.

`ShardGuardProofs`, for any number of requests, shards and threads, from
`GuardAssumption` alone: `TypeCorrect`, `LocksAreExclusive`, `NobodyElseStuck`.
The lock sequences are shown `Tidy` one by one: who holds a write lock takes no
other lock, and who holds a read lock and wants a write lock holds the last
shard's. So the task a waiting one waits for waits for nobody, or for somebody who
waits for nobody, or is a registration that wants the last shard it holds itself.
Who is waited for and can go on is on a thread, or at an await, or ready; if it is
ready and there is no thread for it, it is one that keeps its guard across an
await, a report or a registration.

`AgentTasksProofs`, from `TasksAssumption`: `TypeCorrect`, and, inductive with the
types, `EntriesAreOwned` and `SendsToRegistered` (because no write to a shard
happens while a handler holds a guard on it: that is what `~Guarded`
contributes). Two theorems
are the safety beneath `AcceptedIsDelivered`. `TasksAreAccountedFor`: what a
channel holds was accepted by that stream for its server and is there once, what
an agent received was meant for it and is queued no more, and a stream that is
over holds nothing, so the agent that uses its name next starts empty; that a
queued task is not sent twice needs that nobody sends it again once it is
`sent`. `TasksLeaveInOrder`: in each step a queued task keeps its place, moves up
one, leaves as the first for its server's agent, or goes with its whole channel
once the agent has left. `DeadEntriesGo` is the safety beneath
`DeadEntryRemoved`: the entry of an agent that has left keeps the reader that will
remove it and no call revives its stream, until the entry goes, to nobody or to a
stream that is not over, and never under a handler in `send()`.

`TerminalSessionProofs`, from `TerminalAssumption`: `TypeCorrect`,
`OneTabPerSession` (a session that is pending has no tab), `OneCallPerStream` (a
stream in the map has no call) and `BytesArriveInOrder`. A message on its way is
in a channel or held by a pump that waits for room in one. The invariant
(`Order`) says that what was delivered (to the agent: to its call's pump, whose
response channel comes after), what is in the channel and what the pump holds
are consecutive numbers up to the last one the pump has read, for a tab and the
call bound to it; that nothing of a stream no call is bound to was delivered;
and that a handler that has not yet sent its task has empty channels. That a
stream has one call is what keeps two calls from taking turns in it.

* `TerminalIsRelay` is the refinement. `ToAgent` may give the agent only what the
  browser has sent, so the invariant gains `Causal`: no pump has read more than
  its end has sent. With `Order` the head of a channel is then the next number,
  and at most the last one sent. That a session is used once and a stream bound
  once is what makes `Start` and `Pair` possible.
* `BackPressure`: a pump with a full channel stops reading. To the browser at most
  `Capacity + 1` messages have been read and not shown; to the agent, on whose way
  there are two channels and two pumps, at most `2 * Capacity + 2` have been read
  and not received (`Response`: the response channel holds no more than its
  capacity and what its pump has in hand). TLC finds states at that bound.
* `NobodyIsStuck` and `TerminalsWindDown` are the safety beneath
  `AgentLossEndsTab` and `LeavingEndsCall`. Once a side of a bound terminal has
  left, the work that remains (`UpWork`, `DownWork`: messages not read, in hand
  and in the channel, tasks not ended, a handler not returned) is a natural number
  that no step raises, whoever takes it, and every step of the tasks concerned
  lowers; and while the goal is not reached the guard of one of them holds. What
  is left to TLC is that fairness then takes these steps. The guards are written
  out (`UpCanMove`, `DownCanMove`), as ENABLED is out of the prover's reach; that
  they are the guards of the actions (`GuardsAreGuards`) TLC has checked on the
  constants of the run.
* `TerminalIsKept` and `SentMoves` are about a terminal whose browser and agent
  are both there, the safety beneath `TypedIsDelivered`: the handler is in its
  proxy and all four pumps run, so nothing but a departure of its own two ends
  tears a terminal down; and what one end has sent and the other not received can
  always go one step further. The invariant (`Kept`) adds to that what holds
  before the agent has answered: a browser that is there has a handler, and a
  stream no call has taken is in the map with its pumps running, so the call finds
  it alive.

`ConfigStoreProofs`, from `ConfigAssumption` and `FileAssumption`:
`KeysNeverEmpty`, `FileAgreesWithMemory`, `KeysOutliveRestarts`, for any number
of handlers, keys, texts, languages and forms. They need one another: the keys
survive a restart because the file would load what memory holds, which during an
update is true only of the keys, because the guard is held until the save has
ended. So the inductive invariant says what a handler that is saving holds, and
what the file agrees on with the keys handed out while the process is down. A
second invariant is about the lock: its queue holds the handlers that wait, each
once (`QueueExact`), and a write guard is the only guard. It gives `TypeCorrect`
and `UpdateHoldsLockAlone`: nobody reads a configuration that is being saved.
Two theorems are the safety beneath `LockServed`. `LockServesInOrder`: who waits
keeps its place while the first one does or moves up one, and leaves as the
first or because its client is gone, so readers never overtake a writer
(admitting readers first breaks it with three handlers).
`NobodyWaitsForWaiters`: whom the first in the queue waits for is at a provider,
at the database or saving, and not in the queue.

`ServiceRegistryProofs`, from `ServiceAssumption`, for any columns' values, forms,
entries, workers, restarts and faults: `TypeCorrect`,
`TableAndMemoryHaveSameServices`, `EntriesShowTheirRows`. The invariant adds: ids
at or above the counter are in neither copy and in no request (`IdsPast`), and
there is an id for every insert (`RoomToInsert`, a matter of the bounds); a row
that no UPDATE has mixed up has values of its columns' types (`RowsTyped`), which
is what lets an entry be compared with it; a row the load has read and not yet
inserted is the row of the table unless an UPDATE or a deletion has come in
between, which its history variable then names (`RowsRead`); an entry about to be
inserted, and a form about to be put in memory, are those the table has
(`EntryWritten`, `FormWritten`); and an entry without a row comes from a deletion
(`GhostsOfDeletion`). That an UPDATE writes what the form says when the form has
no list together with a number follows from lemmas about `Bound` and `Rank`: a
column's rank among a form's columns is its own, and where both orders agree on a
form, each value is bound to its column.

`NotificationProofs`, from `NotificationAssumption`: `TypeCorrect`, which
includes that the permits add up, and `AlertHeardOnce`, for any groups, webhooks,
permits, rounds and failures. A webhook has one notice of an alert because an
alert task moves on when it spawns the notices of one (`Behind`: every notice is
of an alert before the task's `next`), and a SELECT gives a row once. It hears
once more per failed call because a notice that still goes on has heard no more
often than its calls failed, and has an attempt left (`AttemptLeft`). A permit
that is given back goes to the first in the queue, and the queue has exactly the
notices that wait, each once; so `permits` and the notices that are calling add up
to `Permits`. `NoAlertDropped` is the safety beneath `AlertsReachLiveHooks`: an
alert that is owed to a webhook is with a task that has not come to it and finds
the webhook when it does, or has a notice to a live url, and that notice is lost
only after `Attempts` glitches. It rests on `SetToSeq` leaving no row of the
SELECT out, and on a live webhook failing by glitches only (`LostAfterAttempts`).
It holds for any `MaxGlitches`; the run has fewer glitches than attempts, so there
no owed notice is lost.

The last part of `NotificationProofs` is about the producer of these alerts,
`AlertSentinel`, which it instantiates as `Alert`: `AlertTypeCorrect` and
`AlertsAreSpaced`, which is `MinIntervalKept`. The invariant `QuietIsDedup` ties
the table of last firings to the history variable: an entry below `MinInterval`
is the time since the last alert, and where there is none, or an older one, the
pair has been quiet for `MinInterval`. Cleaning the table drops entries of three
intervals only. From the same invariant, `NothingIsSuppressed`, which is
`NothingSuppressed`: a check alerts for exactly the pairs that match and have
been quiet for `MinInterval`. The theorems have `Alert!AlertAssumption` as a
hypothesis, which the run `alert` evaluates for its constants.

`MetricsStoreProofs`, from `StoreAssumption` and `AgesAreEnough`: `TypeCorrect`,
`RowsOutliveRetention` and `StatisticsAreComplete`, for any retention, length of
day, batch size, capacity and number of rows. The inductive invariant adds that
the cutoff of a run of maintenance is never younger than the retention, that a
slot is in one place only (channel, batch, store or deleted) and filled there,
and that a deleted row is old. The statistics then follow from calendar lemmas
about `\div`: a row's bucket is its number of midnights counted from the oldest
day, and a row made on a day within the retention is too young to be deleted.
`ResultsWrittenInOrder` is the safety beneath `AcceptedIsWritten`: batch and
channel are one line, which a result enters at the end and leaves from the front,
into the database or lost to an INSERT that failed; only the end of the process
empties it. `MaintenanceDeletesAll` is the safety beneath `OldRowsGo`: a run
goes on to the next table only when the one it is at has no row left that is older
than the cutoff, or a DELETE failed, or the process ends; what is due stays due
while the clock goes on (row and cutoff age together), each DELETE takes some of
it, and nothing else goes.

The last part of `MetricsStoreProofs` is about the producer of the results,
`ServiceSentinel`, which it instantiates as `Checks`: `ChecksTypeCorrect` (a
permit is free or with one task; `try_send` never overfills the channel) and
`DeletedServicesStayDeleted`, for any services, targets, permits and capacity,
from `Checks!SentinelAssumption`. The safety beneath `DueIsChecked` is in two
theorems. `DueServicesHaveTasks`: a service that was checked before and is due
again has a task that waits for a permit or has not yet set `last_check`; this is
inductive as it stands, since between two ticks only a new service becomes due
(`DueSinceTick`) and a task that ends resets the age. `TasksStayUnderway`: a tick
gives every due service a task, new ones included, and the service has one until
it is checked or deleted. `LateResultsRunOut` is the safety beneath
`StatusConverges`: while a service keeps its target and the target its health, no
task falls behind and no result becomes late but one of a task spawned for an
earlier target. What is shown becomes wrong only by a late result, which is used
up by that, and right by any other, so a wrong status lasts until the next check
at most as often as there are late ones.

Each module proves frame lemmas first (which step changes what), then the
inductive invariant one action at a time. TLC has checked the inductive
invariants, and the properties that only theorems state, on the constants of the
runs before they were proved.

What the assumptions say of the constants: the tables a process of
`Notification` starts with are sequences of rows (ids count from 1 and the
AUTOINCREMENT counter is at the last); the services of `ServiceSentinel` and the
workers of `ServiceRegistry` are finitely many; the fields of an update form of
`ServiceRegistry` have the types serde gives them, the columns of the table have
none (SQLite stores what it is given).

Only model-checked: the liveness properties themselves, since liveness under
fairness and ENABLED are out of the proof system's reach, as is induction over
data, and everything about `Cron`, of which there is no property that holds: its
run shows a violation. Beneath `AcceptedIsDelivered`, `DeadEntryRemoved`,
`AcceptedIsWritten`, `OldRowsGo`, `AlertsReachLiveHooks`, `LockServed`,
`AgentLossEndsTab`, `LeavingEndsCall`, `TypedIsDelivered`, `DueIsChecked` and
`StatusConverges` the theorems above say what fairness
adds to; `AgentsGetRegistered`, `SendReturns` and `RemovedRuleIsSilent` have no such
theorem of their own. Every invariant and every action property of a run that passes is a
theorem, as is each refinement; `TypeOK` of `ServiceSentinel` and of
`AlertSentinel` and the properties of their runs that are not liveness are stated
through the instances `Checks` and `Alert`.

## 5. Limits

* `ShardGuard` does not say that the dashboard never locks up: it does, in the two
  ways `NoOtherDeadlock` names. Tokio has a thread per core, a server has any number
  of requests, and DashMap hashes new ids where it likes.
* No rule ever alerts, and no service is loaded at a start, as long as the database
  is SQLite and `enabled` and the four columns of `services` are asked for as
  `bool` without a cast (alert.rs 109, sentinel.rs 243–250). The models have both
  outcomes; nothing in them says that the good one happens.
* A blocked shard of `task_senders` blocks a task in `AgentTasks`, a worker
  thread in the code.
* A DELETE that fails or is never sent (server.rs 186), and an agent that goes away
  during its INSERT (auth.rs 65), leave a row whose uuid no registration gets past
  until a restart loads it: `Blocked`, the exception in `AgentsGetRegistered`.
* An agent that goes on answering pings and takes no task keeps a sender waiting
  for ever: `SendReturns` covers its loss, not this.
* A browser that is lost without closing its socket is not noticed until something
  is sent to it (ws.rs sends no ping): `LeavingEndsCall` is about one that closes.
* The reader of an old stream removes the agent's entry whichever stream it
  belongs to (handler.rs 170): a connected agent may not be in `task_senders`,
  which terminal.rs 38 takes for not connected. No property says the contrary.
* Checks are stored under server 0 (sentinel.rs 165), and `monitor_history` asks
  for the rows of covered servers (service.rs 283): the chart of a service shows
  none of its checks. The rows of `MetricsStore` have no server.
* The OAuth callback names a column that `users` does not have (oauth2.rs 167)
  and takes the error for "no such user": each callback ends in an error
  (`OauthDatabase`).
* An update of a notification group without "notifications" in its body empties
  the group (setting.rs 176); one with a text there makes it `Junk`.
* An administrator deletes ids that have been in memory. An id guessed while
  its row is between the two inserts is outside the model.
* `LeavingEndsCall` is stated for bound streams. Before the agent has bound the
  stream, a browser that fills the channel and leaves is not noticed:
  `ws_recv_task` waits for room and `ws_send_task` for data, for ever.
* A server that has not reported since the dashboard started is never found
  offline: it has no snapshot, and `check_all` skips it.
* Nothing says that a save cut short or refused loses no key: `KeysSurvive` excepts
  it (`dirty`), and the start after it draws new ones.
* Results in channel and batch at shutdown are lost: the pool is closed before
  the writer, and `AcceptedIsWritten` says "handed to the database", not stored.
* The oldest of the days `get_history` shows starts at the present time of day
  and is partial; `DailyStatsComplete` is about the other days.
* `BufferedWriter` (`writer.rs`) is constructed nowhere.
* Checks of one service overlap: `last_check` is set when a check ends, so a slow
  one is spawned again at the next tick, where sentinel.rs:18 speaks of a
  precise schedule.
* Two early returns of the terminal handler (ws.rs 96 and 99) leave an entry in
  `active_streams` for ever, and a session nobody opens stays in
  `pending_terminals`; nothing in the repository refers to either.
* The file and the environment are edited only while the dashboard is down. An
  empty `NZ_AGENT_SECRET_KEY` makes every start draw a new agent key, which is
  why `RestartKeepsSettings` and `KeysSurvive` except it. A language set in the
  form does not outlive a restart while `NZ_LANGUAGE` is set (config.rs 459). The ids parsed from
  `ignored_ip_notification` are those of the last load (`ids`).
* The OAuth callback is modelled with a provider that is configured.

### Not modelled

* Dynamic DNS (`ddns.rs`): nothing sets `Server.ddns_profiles`, so `update`
  returns before it does anything, and its SELECT names `domains` where the table
  has `domains_raw`.
* The MySQL and PostgreSQL stores: the control of the SQLite store in another
  dialect.
* What a host report and a geo-ip report write: a field each, overwritten whole.
* Read-only handlers but for their locks, formatting, authentication tokens, the
  stub handlers (`ddns`, `nat`, `server_group`, `user`, `manual_trigger`), plain
  records, and generated code (`generated.rs`).

## 6. Plan

Done: every component with state that changes, the refinements of the registry
and of the terminal, the locks, and the proofs above. What would extend it, most
important first:

1. `ServiceSentinel` and `MetricsStore` as implementations of one lossy channel,
   and `ConfigStore`'s lock as a readers-writer lock, by refinement mapping.
2. Safety beneath the liveness properties that have none yet,
   `AgentsGetRegistered` first.
3. `task_senders` in `ShardGuard`: the `Ref` the terminal handler and the
   scheduler hold across `send().await`.

A new module's safety and liveness share a run.
