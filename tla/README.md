# Verification of the Kalshi trading bots

TLA+ models of the live NBA bot (`src/nba_trading`, with the client in `src/kalshi`) and of the three programs beside it
(`agent_trader`, `sportsbook_sourced`, `misprice_discovery`), model-checked with TLC and proved about with TLAPS.

The NBA bot spends real money once per game: shortly before tip-off it buys the favourite with a limit order that rests until
the game starts. What can go wrong is never in one function. It lies between the ledger write, the POST, the reply that
may not come, the process that may die, and the three other routes on which the bot learns about the same order. The
project therefore starts there. The other programs share no state with it; each is a module of its own.

## Inventory

| Component | State | Operations | Talks to | What is hard |
|---|---|---|---|---|
| Order path (`main.py` `pre_game_job`, `_pre_game_body`, `_resolve_order`, `recover_orders`, `_sync_positions`, `sync_fills`, `confirm_fill_job`) | `_TRADE_LOCK`, scheduler jobs, a fire's local variables | evaluate, write ahead, send, record the reply, look up, adopt, attribute fills | ledger, portfolio, Kalshi, scheduler, kill switch | crash between any two steps, lost and late requests, `sync_fills` outside the lock, failed ledger writes |
| Ledger (`ledger.py`) | SQLite `orders`, `schedule`, `lots`, `meta`, `events` | `begin_order`, `set_order_outcome`, `mark_placed`, `apply_order_state`, `adopt_order`, `attach_order_id`, settlement, legacy import, instance lock | everything in the bot; replication | legal outcome transitions, import once, two processes |
| Portfolio (`portfolio.py`) | lots by ticker, Kalshi's last positions | `add_position`, `reconcile`, `exposure_cents`, `HighWaterMark` | ledger, Kalshi | a resting order Kalshi does not show is dropped too early or never |
| Game schedule (`setup_daily_schedule`, `nba_scheduler.py`) | today's games, fired marks, APScheduler jobs | build a day, recover a day, schedule, retry, mark fired, roll over at 00:05 UTC | ledger, order path | restart in mid-day, a job and the setup write the same document |
| Kill switch and remote pause (`control.py`, `_kill_switch_source`) | flag, latch file, `control/pause.json`, `control/ack.json` | poll, latch, acknowledge, let go, pause, resume | object store, dashboard, admin | reads and writes without a common lock, a resume that crosses a poll, restart |
| Replication (`replication/`) | snapshots, manifest, sequence floor, subscriber's copy | publish, prune, sync, restore | object store, ledger | crash between snapshot and manifest, stale and reordered reads |
| Settlement (`settle_open_orders`, `record_settlement_from_fills`) | settled flag, profit per row | settle markets, fees, paper trades | ledger, Kalshi | incomplete fills, settling twice |
| Sizing (`strategy.py`) | none | `compute_shares_to_buy`, `cap_shares` | portfolio | integer division at the limits |
| Alerts, beacon, health ping | cooldown per kind, timestamps | notify, ping | third parties | little state |
| Dashboard (`dashboard/`) | login attempts, cached pages | log in, request a pause, show freshness | control store, ledger copy | attempt budget, stale data shown as fresh |
| Kalshi client (`kalshi/`) | none | `place_limit_order`, `get_order_by_client_id`, listings | Kalshi | which failures mean "not placed" and which "unknown" |
| `agent_trader` | SQLite tables cycles, orders, `chain_log`; killswitch counters; per-worker budgets | fire a cycle, discover, filter, triage, research in a pool, order, reflect | LLM, Kalshi, the scheduler's threads, signals | parallel workers on copies of one budget, failures counted over cycles, signals and crashes in mid-cycle |
| `sportsbook_sourced` | SQLite tables of odds, opportunities, paper orders, evaluations | scan, pair, price, buy on paper, check settlements | odds API, Kalshi data | matching by names and times, one bet per event and scan, overlapping checks |
| `misprice_discovery` | one CSV file of settled games | list, join with schedules, price, append; offline statistics | Kalshi's two endpoints, three schedule APIs, the file | doubleheaders and days that differ in UTC, partial runs, overlapping and killed appends |

What makes each component correct: *order path* - an order is sent at most once, no order Kalshi has or may get is
forgotten, the ledger claims nothing Kalshi does not have, one row per trade, every fill is booked in the end, committed
money counts when the next order is sized. *Schedule* - a game marked fired stays fired; a game not evaluated is evaluated.
*Kill switch* - no order before the channel has been read and found clear; an acknowledged pause survives a restart; a pause
takes hold, a resume is final. *Replication* - the manifest is readable, its number only grows, the copy never goes back and catches up.
*Settlement* - each row is settled once, from complete fills. *Sizing* - never above cash, cap or exposure limit.
*`agent_trader`* - budgets bound the spend, every order is explained by the log, a halt is a halt. *`sportsbook_sourced`* -
one bet per event and scan, worth its price, scored once and rightly. *`misprice_discovery`* - one row per event, about the
right game, never lost, and none missing when nothing failed. The
hazards of the code, line by line, are listed in `PROJECT.json`.

## Modules

| Module | What it is |
|---|---|
| `OrderPromise` | abstract: the intent precedes the request, one request per order, beliefs that are final are true |
| `OrderLifecycle` | the order path, with Kalshi and the network as environment |
| `MCOrderLifecycle` | small instances: which team belongs to which game |
| `OrderLifecycleProofs` | type correctness and seven safety properties, for any number of games, tickers, crashes and failed writes; `OrderLifecycle` implements `OrderPromise` |
| `RemotePause` | the kill switch: poller threads, latch file, acknowledgement, the two checks of an evaluation, the admin's commands |
| `RemotePauseProofs` | type correctness and two safety properties of the kill switch |
| `Replica` | abstract: a copy that never goes back, is never ahead of the ledger and that no restore falls behind |
| `Replication` | publisher, bucket, subscriber and restore |
| `ReplicationProofs` | type correctness, three safety properties, and that `Replication` implements `Replica` |
| `GameSchedule` | the daily setup, the scheduler's jobs, retries and the saved schedule with its fired marks |
| `GameScheduleProofs` | type correctness, marks stand and end a game's evaluations, a mark stands for a decision, no saved game is forgotten |
| `Account` | the money: balance, lots, exposure, high-water mark, share count, settlement and booked profit |
| `AccountProofs` | type correctness, the books balance, orders stay within the cap, for any number of games |
| `AgentTrader` | the LLM trader: scheduler, cycle, workers, budgets, killswitch, log, reflection |
| `AgentTraderProofs` | type correctness and six properties of the agent |
| `SportsbookPaper` | a scan of the sportsbook comparison, its paper fills and the settlement checks |
| `SportsbookPaperProofs` | one bet per event, bets worth their price, true and final scores, complete checks, for any markets, names, odds, scans and checks |
| `ResearchDataset` | the multi-sport dataset: runs, endpoints, schedules, rows, the append |
| `ResearchDatasetProofs` | what runs rely on, one row per event, about its own game, kept, and none missing |
| `MCGameSchedule`, `MCAccount`, `MCAgentTrader`, `MCSportsbookPaper`, `MCResearchDataset` | small instances |

### OrderLifecycle

A market ticker belongs to one game, and `_client_order_id` is a function of game and ticker, so a ticker names the order:
`order[t]`, `row[t]` and `posts[t]` are Kalshi's order, the ledger's row and the number of POSTs under that identifier.

*Threads.* One pre-game job per game (`PreGame(g)`), the health thread, which is also the startup path (`Resolving`,
`HealthJob`), and the fill checks (`FillChecks`). `lock` is `_TRADE_LOCK`. The health thread runs `recover_orders`, then a
health cycle, then the recovery path of `setup_daily_schedule` at start; later it takes the lock with a timeout and goes
on without it when the lock is busy. `sync_fills` runs outside the lock.

*One evaluation* is `Start`, `EvalSync`, `EvalAdopt`, `Buy` or `Skip`, `BeginOrder` (or `BeginOrderFails`: the write-ahead
failed and the order goes out all the same), `Recheck` of the kill switch, `Post`, then the reply: `Accepted`, `Refused`
or `OutcomeUnknown`, which leads into `_resolve_order` (`LookupFails`, `LookupMisses`, `WriteAbsent`, `LookupFinds`,
`Track`) and, when there is no row, into `GuessFromPositions`. `Release` frees the lock and `MarkFired` marks the game, or
queues a retry. Every call of `Ledger` and of Kalshi that another thread can fall between is a step of its own. `Sync` is one
step: it reads positions, replaces the lots in memory and reads the rows; the insert that follows from what it
has read is another step (`EvalAdopt`, `HealthAdopt`, `FillCheckAdopt`), as are the listing, the routing and each write of
`sync_fills` (`ListFills`, `Route`, `AttachFill`, `BookFill`).

*Environment.* A POST is on the `wire` until Kalshi accepts it, rejects it as a duplicate, refuses it, or it is lost. All
of that may happen after the client stopped waiting and after the process died: `wire` holds the sender's epoch, and only
the reply to a sender that still waits reaches it (`Waiting`, `answer`). `Fill` and `TipOff` are Kalshi's; the unfilled
orders of a game expire at tip-off. `Crash` takes everything in memory away and leaves `row`, `adopted`, `lots`, `fired`.

*Data left out.* Prices, the band, lot sizes and cash are one choice (`Buy` or `Skip`); `Skip` stands for every early
return between the sync and the write-ahead, `Retry` for those that queue a retry. Three retries, 90 s of lock timeout, the 48 h after which a row
that was never found is no longer looked up, and APScheduler's misfire grace become "may or may not": jobs may run late,
also after tip-off. `reconcile` keeps a lot Kalshi does not show for 30 minutes while an order rests for at most 15, so
`MayDrop` lets go only of lots of games that have tipped off. `get_order_by_client_id` scans resting, executed
and cancelled orders, so "not found" means absent when the lookup began; what arrives later arrives over the wire.
Tickers the bot never traded, dry runs, partial quantities and settlement are not in this module.

### OrderPromise and the refinement

`RequestOf(t)` reads off wire, Kalshi and `posts` whether a request is unsent, open, landed or dead; `BeliefOf(t)` reads off
the row whether the ledger believes nothing, "maybe", "traded" or "not traded". An order sent without a row (`blind`) is
*disowned* by the promise: for it the code relies on Kalshi's rejection of duplicates. Confirming several orders in one
step is allowed because one positions response resolves several rows; giving up is about one order.

### RemotePause

`Daemon` is the polling thread and `First` the helper thread of `first_poll`, which may outlive its timeout and go on
beside the daemon; both run `Poll(p)`: `Read`, `Success`, then `Latch` and `WriteAck`, or `CheckFile` and `LetGo`. An evaluation
asks the switch in three reads (file, flag, `verified`) and does so twice, `round` 1 at its start and `round` 2 before the POST;
it is sent only after the second (`Send`). `RequestPause`, `LoseKey`, the two steps of `pause` and the three of `resume` happen at any time. `fate`
remembers of each request whether a resume has undone it, or was under way when it was made ("crossed"); `clean` whether
this process has read the channel and found no pause. A missing key and `{"paused": false}` are one document, `NoPause`. A
read that fails or finds a corrupt document only raises alerts and is no step. The assignments of `_on_success` under its
lock are one step: no I/O separates them, whereas an evaluation calls Kalshi between its two checks.

### Replication and Replica

The states of the ledger are numbered as they come about; the number stands for the contents, for their sha256 and for
`data_version`. A tick of the publisher is `Tick` (something changed or a heartbeat is due), `ChooseSeq`, `Build`, `Upload`,
`EnsureFloor`, `WriteManifest`, `Prune`; a heartbeat, or a snapshot equal to the last one, skips the upload. A PUT that raises has taken effect
(the `Failed` branch of its step) or not (`Abort`); either way `_fail` makes the next tick derive its number from the
bucket. `PublisherDies` forgets all of the process's memory at any step. A pass of the subscriber is `ReadManifest`, `GetSnapshot`, `Install`
(`os.replace`), `WriteState`; `PassEnds` stands for a failed pass, an unwritable state file and the death of the dashboard.
`Commit` is any write of the bot, so the ledger may change between the read of `data_version` and the snapshot. `LoseManifest` is a
missing, corrupt or oversized `latest.json`. `top`, the last manifest there was, is history.

*Left out.* The reads of `next_seq` are one step (there is one writer). A PUT the client gave up does not land later than the next
step of the publisher; `--force` and `--once` are not modelled; a restore is onto a new server with the old one stopped, as
`restore.py:16` demands. The checks of a downloaded snapshot, alerts, and the freshness figures are left out. Heartbeats are bounded
only while the manifest is there, so that the bound never keeps a lost one from being written again.

`Replica` sees `ledger` and `copy` only: `Install` is its `Deliver`, a restore takes the ledger back, but to no state older than the copy.

### GameSchedule

`saved` is the `schedule_games` table of the day `date`, a function from games to their fired mark; `jobs` is APScheduler's
in-memory queue with due times; `setup[p]` is a run of `setup_daily_schedule` by the main thread at start, by the 00:05 cron
job or by the retry job; `evals` are the calls of `pre_game_job` under way, in the pool or inside a setup (`by`). A setup
whose day is saved recovers it (`Recover`: job again, evaluate at once, or tipped off); any other fetches a fresh day
(`FetchFails`, `FetchNoGames`, `Fetch`, `Markets`) and goes through its games in order (`Plan`), saving the schedule before
each evaluation of its own and at the end. `Save` is `_replace_schedule_locked`: a mark in the database survives it. `Judge` ends an evaluation
with a decision or a queued retry, `Mark` writes the mark, or fails and is noticed. `StartEvaluation` and `StartSetup` respect the grace and the
one-instance rule, `Miss` is the listener's event for a job dropped late. `Crash` leaves `date` and `saved`.

Four variables are history: `marked`, the games whose mark has been in the database; `lost`, those of them whose mark was gone with its
row when a setup read the schedule or wrote the game anew; `shown`, the open games each day's listings showed; `torn`, the days whose
planning a crash cut short. `FiredIsKept` is about `marked` games that are not `lost`: the mark stands, and once nobody works on the
game any more (`Open`: a job, an evaluation, a setup that has yet to come to it) nobody takes it up. The loss is real and the instance is
chosen so that it happens: a retried setup and the rollover overlap, the second one's partial save deletes the row of a game the first has marked.
`ScheduleArrives` asks for a schedule that holds all that one of the day's listings showed; a failed fetch is no listing.

Time is an integer clock; what the code compares with it (triggers, windows, graces, the retry's stop) is compared in the
model. A setup's `at` is the `now` it read at its start and uses to its end. What an evaluation orders is `OrderLifecycle`'s.

### Account

`cash`, `qty`, `filled`, `phase` are Kalshi's; `lots`, `row`, `known`, `status`, `stored`, `pnl` the bot's; `peak` the
high-water mark. An evaluation is `ReadBalance` (under `_TRADE_LOCK`), `Price` (reconcile, equity, peak, breaker), `Order`
(`compute_shares_to_buy`, `cap_shares`, the POST, row and lot) or `GiveUp`. The health job is `HealthBalance` before the
lock, `HealthPositions` under it, `HealthEquity` after it, then `SyncFills` and, per open row, `NotYet`, `SettleFromFills`
or `SettleFromOrder`. `SyncFills` may see fewer fills than there are, `Counts` may leave a fill count out. `short` remembers the rows booked
from an order whose count Kalshi left out, `uncounted` what exposure leaves out of partly filled orders.

Both known deviations are in the properties, named: the remainder of a partly filled order is not in `exposure_cents`
(`OrdersWithinCap` allows for it), and a missing count books too few contracts (`BooksBalance` excepts it).

### AgentTrader

`cyc` is the cycle under way, its `stage` the position in `run_cycle`; `wk[s]` is the worker of triage's s-th pick with its
own `BudgetTracker`, which starts from the cycle's spend when it was submitted; `ks` is the killswitch with its three counters;
`row`, `log` and `booked` are the three tables, `orders` Kalshi's. `Fire` opens a cycle, `CycleStep` is the funnel with each of its early ends
(which close the row as "ok", "aborted" or "killswitch", or leave it "running"), `WorkerStep` is `process_market`: a call
within budget is answered, malformed or raises. `Post` leaves open whether Kalshi took the order; `Record` writes the rows whatever
the answer. `Signal` is SIGTERM as the code answers it, `Crash` and `Start` the process, `Halt` the halt file, `Reflect` and
`ReflectAnswer` the job beside the cycle. The 30-minute window of errors is "any number of the old ones is still in it".

### SportsbookPaper

Names are sets of words, so that the similarity of `mapper.py` is a computed number, as are the fit of times, the ambiguity
gap, implied and no-vig probabilities, the weighted fair price, disagreement, fee, buffers, edge and Kelly's count: they
are integer arithmetic at fixed scales where the code uses floats. A scan picks a market (`PassOver`, `Pick`), prices it
(`Price`, `Unpriced`, `PriceFails`), fills in memory (`Buy`, `Reject`) and writes the row (`Book`, `BookFails`); `End` also
stands for a kill. A settlement check lists the pending bets, asks for each market's result and writes the score; `Checkers` may
overlap, fail and be killed. `paid`, `due` and `clean` are history.

### ResearchDataset

A run goes through its sports independently (`part`): both endpoints are listed (`List`), the schedule of the new events' days is fetched,
padded by a day for MLB and NFL (`Fetch`), and the rows are computed (`Collect`); a sport may raise (`SportFails`). `LookAtFile`, `Reread`, `Write` are the steps of
`append_rows` between which another run fits; `WriteDies` leaves a piece of the output. `Window`, `AverageAsk`, `Favourites`, `Pnl` are the
figures of a row, with Python's `round`; the sum of a window's asks is counted cent by cent (`Cents`). The modelled schedule is the padded one of MLB and NFL. `clash` (two runs in
`append_rows` at once), `due` (what the run had to find) and `whole` (it saw all games of the doubleheader) are history.

## Runs

| Run | Instance | Question | Result |
|---|---|---|---|
| `order_core` | one game, both teams, 1 crash, 1 failed write | at most one POST per order, nothing lost, rows true, one row per trade, one order per evaluation, fired is final, the promise is kept | holds |
| `order_two_games` | two games, one ticker each, no crash | is a resting order of the other game counted when an order is sized? | holds |
| `order_liveness` | one order, 1 crash, 1 failed write, fairness | is every fill booked and every landed order learned of? | holds |
| `order_two_teams` | as `order_core`, no failed write | does the fixed identifier prevent a second order on the game? | violated |
| `remote_pause` | one pause, 1 restart, 1 failed latch file, fairness | are acknowledgements true, does the switch fail closed, does a pause take hold? | holds |
| `replication` | 2 states of the ledger, 1 heartbeat, 1 failed call, 1 crash or restore, 1 lost manifest, reserve 2, 1 snapshot kept, fairness | is the manifest readable and its number new, does the copy never go back, does it catch up? | holds |
| `game_schedule` | two days of 8 instants, two games after the rollover, first start at one of three times, 1 crash, 1 fault, 1 retry, fairness | is no saved game forgotten, does a mark mean a decision and end a game's evaluations, do the last day's games arrive? | holds |
| `account` | two games, 8 units of cash, orders of 1 or 2 contracts, 1 fault, fairness | do the books balance, do orders stay within the cap, is every trade settled? | holds |
| `phantom_peak` | as `account`, no fault | is the peak never above the equity? | violated |
| `agent_trader` | one market named up to twice, 2 workers, 3 cycles, 2 starts, 2 faults, fairness | do budgets bound the spend, are orders explained and booked, do failures and the halt file stop cycles, does a signalled process end? | holds |
| `sportsbook` | four markets of two games, 3 sets of odds, 2 quotes, 2 checks, 1 scan, 2 faults | one bet per event, worth its price, scored rightly, completely and once? | holds |
| `dataset` | a doubleheader across midnight UTC and a game of another sport, 2 runs, 1 market that settles or moves, 1 fault | are rows unique, kept, about the right game, and complete? | holds |

*Bounds.* One crash is enough to separate every pair of adjacent steps, and the restart after it runs the whole recovery;
one failed write reaches every handler of a failed write. Both teams of one game give the only interaction between orders
of a game; two games give the only interaction across games (the lock, the sizing, the queue of checks).
`order_two_games` has no crash because the property is about a process that has been up (a crash between `mark_placed` and
`add_position` breaks it, see below). `remote_pause` has a single pause: what more than one adds to its safety
properties is covered by the theorems. `replication` shrinks `SEQ_FLOOR_RESERVE` (100) to 2 and `DEFAULT_KEEP` (60) to 1, so that a short
run passes the floor and prunes all it may. `game_schedule` shrinks the day to eight instants but keeps the order of the
code's intervals (retry before stop before lead before window) and places both games on the far side of the rollover,
one due before it and one after; a setup that is late, or retried, may meet the rollover with both games due. `account` makes an order a few contracts, so that rounding, the cap and
partial fills all bite; two games are the smallest number that can size against the same headroom. `agent_trader` lets triage name the same market twice,
which is the only way two workers meet; the caps are a few calls wide, and three cycles with a limit of two failures let the counter trip and be reset.
`sportsbook` has for each branch of the matching a market that takes it (nickname, no date, no close time, ambiguous city). `dataset` has one change
at Kalshi and one fault, which may fall in either run and anywhere in it. Where a theorem is listed below, it does not depend on these numbers.

*Fairness.* `OrderLifecycle`: weak fairness of each thread, of a restart and of tip-off (threads run, Docker restarts a dead
process, games start). Strong fairness of the health job's lock (its holders finish, and it is tried every hour), of the next
lookup of the recovery, and of the Kalshi calls that must succeed in the end (`LookupFinds(Health)`, `HealthSync`,
`ListFills`): an outage ends. Nothing is assumed of the network's requests, of the admin or of the dashboard. `RemotePause`: the
daemon polls for ever and a read it tries again and again succeeds again and again. `Replication`: weak fairness of
the publisher's steps and of the subscriber's; both are loops that catch every exception (`publisher.py:286`, `subscriber.py:341`).
`GameSchedule`: setups and evaluations return, the scheduler runs, the clock goes on, and Docker starts the process again. `Account`: the
health job's interval comes round and an evaluation that holds the lock returns; no game need fill, end or be checked. `AgentTrader`: calls have timeouts, so threads that
run get on. `SportsbookPaper` and `ResearchDataset` are started by hand: nothing is assumed and no liveness is claimed.

*Deadlock* is not checked where the system may stop: the agent after its last start, a scan or a run that is over, the schedule at the end of its clock.

## Where the code and its comments differ

Two runs of TLC show it:

* `order_two_teams`. After a restart the game is evaluated anew. If the favourite has changed meanwhile, the order for the
  other team has another `client_order_id`, and `has_position` asks about the new ticker only: both teams are bought.
  The comments at `main.py:362` and `main.py:374` say a double buy is prevented.
* `phantom_peak`. `health_job` reads the balance before the lock and prices equity after it (`main.py:1209`, `1236`). An order placed in between
  is in its lot and still in the balance; the persisted peak is raised by its cost for good, and every later drawdown is
  measured from it. The comment at `main.py:1214` says nothing can interleave with an order being placed. An order that
  expires unfilled has the same effect until its fill check.

The models allow for the following, which were seen on the way and are no run's subject.

*Order path.* With a failed write-ahead, `_adopt_unknown_positions` and `sync_fills` may each insert a row for the same trade
(`main.py:471`, `1105`; `main.py:1069` says one row per trade; `OneRowPerTrade` is about orders with a row). A crash after `mark_placed` and
before `add_position` leaves a resting order no lot counts (`main.py:885`, against `portfolio.py:97`).

*Pause.* A poll that read the pause before an admin's `resume` latches it again afterwards (`control.py:289`); the bot
stays paused until a second resume, against `docs/deployment.md:246`. The failure is on the safe side. A pause requested while a resume is under way is acknowledged as latched and loses its file until the next poll.

*Schedule.* A crash during an evaluation inside a fresh-day setup leaves the schedule of the games before it with today's
date, so the restart recovers only those (`main.py:1023`, against `docs/system-architecture.md:613`). A job that marks its game
before the setup has saved it updates no row (`main.py:1032`). When two fresh-day setups overlap (the retry of a failed fetch and the
rollover), the partial save of one deletes the rows the other has marked and the game is evaluated again, against `ledger.py:715`. The fresh-day path marks a game fired whose retry is queued
(`main.py:1026`, against the docstring at `main.py:371`). A game that tips off between 00:05 and 00:20 UTC is only
evaluated by the rollover, late. A retry may start within the misfire grace of 300 s, nearer to tip-off than the 180 s of `config.py:80`. A
second fetch that fails reads as "no games" and saves an empty day (`main.py:963`).

*Agent.* The SIGTERM handler takes one argument and is called with two (`runtime.py:222`): the signal raises out of the
scheduler, and a cycle in progress loses its pools and may leave its row "running", against `scheduler.py:24`.
`list_markets` answers a failed request with no markets, so that cycle ends "ok" and resets the count of failed cycles. An API error of triage is counted
nowhere. Triage may name a ticker twice: two orders, under one key of `chain_log`. A malformed filter answer's cost and a raised worker's spend are not charged. All workers size
against one snapshot of cash.

*Sportsbook.* The depth used for a side is that of its own bids, although buying lifts the other side's (`scanner.py:103`).
Staleness is that of the fresher side. A missing YES ask reads as a price of 0 and hides a NO edge. The first market of an event, failed or not, hides every other of that event for the scan.

*Dataset.* Two first runs that both see no file open it with "w": the later takes the earlier's rows out, and so may two runs in `append_rows`
write an event twice (`clash`). A run that sees only one game of a doubleheader (the other is in the file already, or its schedule day was lost) may pair it with the wrong one, against the
docstring at `build_multisport_research_dataset.py:633`. A line cut by a kill keeps its key, so its row is never completed; half a header makes every later run raise. The
schedule weeks of the NHL are not padded by a day.

## Proofs

The theorems hold for every value of the constants under the named assumptions of the modules (`GameOfType`, `BoundsType`,
`DistinctActors`; `DistinctDocuments`, `DistinctPollers`; `NoManifestType`, `NumbersType`; `ScheduleAssumption`; `AccountAssumption`;
`AgentAssumption`; `PaperAssumption`; `DatasetAssumption`). Most say that names differ and bounds are naturals. The others:
`Keep` is not 0 (`prune_snapshots` takes at least 1) and the agent's pool has a worker; games, books and events are finitely many, and
so are the words of a name; the exposure limit is a percentage from 0 to 100 (`strategy_config.py:18`); a quote is from 0 to 100 cents, and no
side is offered at more than +999900 (beyond that an implied probability, in ten-thousandths, rounds to nothing);
tickers' times order the games of a doubleheader, an event has a market for each of its two teams (`process_event` takes no other), and a
schedule files a game at most a day from its ticker's day (which is what the code's padding is for). The type invariants are proved
and not model-checked.

`OrderLifecycleProofs`. `SentAtMostOnce`, `NoOrderLost` and `LedgerIsReal` are not inductive alone. The
strengthening is built up in layers, each preserved using the ones before:

1. `Typed`: `TypeOK`, and a thread that works on an order has picked one, a job one of its own game.
2. `Exclusive`: a job between its sync and its release, a recovery that resolves, and an adoption hold `_TRADE_LOCK`.
3. `SendOnce`: an order with a POST behind it has a row, and a job about to send under a row has not sent yet.
4. `Unfired`: a game with a queued or running job is not marked fired, and its job is queued or running, not both.
5. `FromKalshi`: what is held, waits to be booked, or was answered "ok", is an order Kalshi has.
6. `Accounted`: an order never sent is nowhere; an order has at most one request on the wire; a refusal that waits to
   be written is about an order that is neither on the wire nor at Kalshi.
7. `Adopting`: only a trade without a row is adopted; a fill that `sync_fills` still has to route is of an order that is placed,
   was unresolved when the rows were read, or has no row. It needs layers 5 and 6: a position without a lot is an order Kalshi
   has, so `NothingLost` gives it a standing row. `BookedOnce` follows.
8. `OneChoice`: until the process dies, a game that has had an order sent has no job that could pick another (`OneTeamOrdered`).
9. `Committed`: until the process dies, a placed order that rests has a lot, a position, or a thread about to make the lot, and
   that thread holds the lock; nothing rests after tip-off, which is when lots may be dropped (`ExposureIsComplete`).

Frame lemmas (`RowsStay`, `SendFrame`, `JobFrame`, `OrdersStay`, `StandingStays`, `KalshiFrame`, `JobAt`, `PlacedStays`, `BlindStays`, `StaysUp`, `EpochStays`, `AwayFromKalshi`) say which actions leave which part alone, so
that each layer is argued only for the actions that disturb it. `FiredForGood` is the action property.

`OrderLifecycleProofs` proves `PromiseIsKept` from these invariants too: `KalshiKeeps` for the environment, `PostKeeps` for the sending, `RowStep`
and `Learned` for what a ledger write may do to a belief, `LedgerKeeps` for the actions of the bot; every step maps to a step of
`OrderPromise` or to a stutter.

`RemotePauseProofs`. `AcknowledgementIsTrue` rests on: a pause nobody has made is nowhere (`Unheard`), and a poll that has
made a pause durable leaves the file in place until a resume undoes the pause (`Durable`). `SwitchFailsClosed` rests
on: a process that has read the channel found it clear once or holds the pause, and only a poll that found it clear lets go
(`ReadIsClean`); the second look at the flag comes after a read (`SecondLook`). This is why one check before the POST would not do.

`ReplicationProofs`. One invariant in five parts: `Typed`; `Remembered` (the manifest is gone or the last one there was, and what the
publisher remembers is that one unless its last attempt failed); `Numbers` (the floor bounds every number there has been, the
draft is above them: the floor goes first, which is why a lost manifest repeats nothing); `Objects` (what a manifest refers to
or is about to refer to is in the bucket); `Contents` (copy, pass, bucket, draft and ledger hold states in this order of
age). `SeqsAreNew` is the lemma about `next_seq`; `PromiseStep` maps each step to one of `Replica` or a stutter.

`GameScheduleProofs`. `FiredForGood` needs `Stands`: the mark of a game that is not `lost` is the one in its row. So a save that keeps the row
keeps the mark (`SaveKeeps`), and a setup that begins either finds the mark or counts it as lost (`BegunKnows`); `SetupGoesOn` and `SetupTakes` say that a
setup under way comes back to no game and takes up only the one it has come to. `MarkIsJudged` needs `Marks`: not only the
saved marks but those a setup carries in memory, old and new, are judged, and an evaluation about to write one has decided. Without it the setup's final save could bring in a mark nobody answers for.

`NoneForgotten` needs `Answered`: not only the saved games of today but all that a setup has planned and not saved
are `Held` (queued, yet to be recovered, decided, reported, or tipped off), for a save makes them the saved ones. A fetched list of games does not
count, since the setup that holds it may drop it; a setup is never ahead of the clock, so what it saves is never of a later day.

`AccountProofs`. `BooksBalance` and `OrdersWithinCap` are about sums over all games. Induction over the set is not available to
the provers, so the first section builds sums by hand: `SumsExist` takes the smallest set of games without a sum and shows that it has
one, `PartialIs` and `SumIsPartial` say that `SumFunction` is that sum, and `SumAdds`, `SumChanges`, `SumAtMost` and `SumOfZeroes` are
what the proofs cite: a step that changes one game's term changes the sum by the difference. `Books` then says term by term where the money
is (`cash` is the starting cash and every game's `Gains`), and `RowTells` that a settled row has booked just that. `Sizing` relates what an
evaluation has read to what is true when it orders: it holds the lock, so what is at risk was in the equity it read, and once it has priced,
what is at risk is in the cost it counts but for the remainders `OrdersWithinCap` names (`SizesAlone`); that cost is read off the
lots, and the lot of an order nothing of which is filled is the whole order (`LotStands`).

`AgentTraderProofs`. `Core`: types, cycles are numbered in the order they open, a cycle under way has a running row, workers
are in the pool stage only. Then `Logged` (the log holds the steps a worker has been through), `Booked` (an order that is not in the table has
a worker about to record it, or a row that stays "running"), `Heeded` (a cycle past its check began before the halt), `Passed`
(a cycle past its check found the switch untripped and the counter below its limit; a troubled one knows it or will) and `Counted` (the counter is no smaller than
any run of troubled cycles since this process started). `FailuresHalt` needs all of `Core`, `Passed` and `Counted`, because cycles whose row stays "running" are not counted.

`ResearchDatasetProofs`. `Gathered`: what a sport has listed is of that sport, and only finished sports have given rows, one per event;
this is why the rows of two sports never collide. `Current`: while no two runs are in `append_rows` at once, the file is as
the run that writes has seen it: `file.head = "none"` if it makes the file, and its fresh events are not among the keys. `Lands` combines both.

`Honest` (rows gathered or written are `Good`) is `RowIsOfItsGame` one step earlier. It rests on `OwnGame`: in a doubleheader seen whole
the number of earlier starts and the number of earlier tickers agree for the right game only. `Complete` follows what is awaited of a run
through its steps (`Onto`): while its sport is listed every market of it at an endpoint already asked has been seen, with the schedule
there its whole doubleheader is in it, and when the sport is done it has a row; after that it is among the rows gathered, among the fresh
ones or in the file. Its markets cannot have moved (`Steady`), because `due` lets go of an event whose market does.

`SportsbookPaperProofs`. `Unused`: the market at hand and those still listed have no order of this scan, so what a check has read of a
bet stays (`BetsStay`). `Graded`: each score is the one that bet and result give, and a check has scored, lists or is about to write all
that was due; checks that overlap therefore write the same. `Single` needs `OneEvent`: the ambiguity gap leaves a market one event at most. `BuysAreWorthIt` goes the way of the
money: `ConsensusIsProbability` (a weighted mean of probabilities is one; its sums are built as in `AccountProofs`, whose section is repeated here
because the two modules share nothing else), `BuyIsSound` (an opportunity to buy has the edge it claims, at the ask of its side),
`FillIs` (what is filled is some contracts at that price, within the cash), `FeeIsCovered` (the order's fee is rounded up by less than a cent, and the
required edge is three cents a contract). `Told` says that every row tells of the fill it is about, from which
`PnlIsOfTheFill` follows, whichever check writes.

Only model-checked: the liveness properties `FilledIsBooked`, `LandedIsLearned`, `PauseTakesHold`, `Converges`, `ScheduleArrives`,
`EveryTradeIsSettled` and `LeavesWhenTold`. They rest on fairness, which is out of the prover's reach. Every safety property a passing run checks is
also a theorem.

## What could come next

1. `Replication`: a PUT the client gave up that lands late, and `restore --force` beside a running publisher.
2. Lot quantities and partial fills in `OrderLifecycle`, so that `Account` refines it.
3. The login budget and the freshness shown by the dashboard; the legacy import's once-only markers.

## Not modelled

* Ledger schema, migrations, legacy import and instance lock: run once at start, in one transaction, by one process.
* Alerts, beacon, health ping: a cooldown per kind, the rest is HTTP to third parties that changes no trading state.
* Dashboard: pages and read-only queries; its pause request and its ledger copy are in `RemotePause` and `Replication`.
* Kalshi client: signing, pagination and parsing; what its two order calls answer is in `OrderLifecycle`.
* `agent_trader`: prompts, grades, the proposals that reflection writes, the size and price of an order, `dry_run.py`.
* `sportsbook_sourced`: the HTTP client and rate limiter of the odds API, parsing of dates and prices.
* `misprice_discovery`: the NBA-only builder's own listing and append, and the analyses (bootstrap, Kelly, friction,
  walk-forward, plots), which are floating-point statistics without shared state.
* Dry runs of the NBA bot, postponed games, sold fills and the NO side, deployment scripts and CI.
