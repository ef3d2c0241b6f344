# obadiah in TLA+

obadiah records what crypto-currency exchanges publish about their order books, keeps it in PostgreSQL as
*chains of order events*, and serves order books, depth, spreads and trading analytics computed from them. This
directory models the parts of it whose correctness depends on the order of steps, checks them with TLC on small
instances, and proves the central invariants with TLAPS.

All paths below are relative to the repository's root (`src/` in `PROJECT.json`).

## The system

    exchange --websocket--> capture process --COPY--> transient tables --pga_capture_transient()--> level3
             (python/obadiah)                         (db/bitfinex_schema.sql)              (db/obanalytics_schema.sql)
                                                                                                  |
             R client and cache <--get.* functions-- depth/spread by episode (C++ extension) <----+
             (R/)                 (db/get_schema.sql)  (db/c/obadiah_db)

| Component | State | Operations | What makes it hard |
|---|---|---|---|
| Capture process, `python/obadiah/capture.py`, `__main__.py`, `systemd/obadiah@.service` | sessions (queue + handler task), `wait_list`, a pool of one connection | connect, subscribe, receive, lose a session, reconnect, stop on SIGINT, be killed and restarted | sessions overlap; the connection is shared; cancellation, timeouts and failures arrive at every `await` |
| Book handler, `python/obadiah/bitfinex.py` | accumulated rows of the current episode(s), last timestamps | snapshot, event, flush by `COPY`, close | episodes are inferred from the kinds of events; timestamps of the exchange go backwards; a `COPY` may fail |
| level3 and its triggers, `db/obanalytics_schema.sql` | rows (a chain per order), eras | insert, continue a chain, remember the era's end, delete | chains cross loads, constraints do not cross partitions |
| Episode repair, `db/obanalytics_schema.sql` | level3, eras | merge episodes, split and delete eras, uncross books | a repair rewrites keys that other rows refer to, and loops until nothing is left to repair |
| Bitfinex loading, `db/bitfinex_schema.sql` | transient events and channels | diff of a snapshot with the book, chain building, month and era boundaries | any cut of the events into loads must give the same table |
| Depth and spread, `db/c/obadiah_db/` | order book by side, a cursor, a queue of changes | fetch, next episode, emit | batches, episodes and emitted rows do not line up |
| Query functions and R cache, `db/get_schema.sql`, `R/cache.R` | cached periods | query, cut, merge | pieces put together must be what one query would give |
| Trading analytics, `src/src/` | strategies over a stream of spreads | position discovery, draws, resampling | many cases per step, sentinels |
| Reorderer, `python/obadiah/reorder.py` | a delay queue | put, get | late messages; nothing imports it |
| Trade matching, Bitstamp capture and loading (`db/*.sql`, `python/obadiah/bitstamp.py`) | rows of level3 and matches | heuristics | depends on data |

The properties that make the components correct:

* capture: what is saved is a prefix, in order, of the complete episodes received; sessions do not interleave; an
  orderly end loses nothing; the process ends when told to at `recv()`;
* handler: an episode is saved whole or not at all; the stamps (`episode_timestamp`) grow along the table;
* loading: level3 *replays the book*: at every loaded instant the live rows are the exchange's book, however the
  events were cut into channels, eras and loads; chains are linked; a load never raises;
* repairs: they keep chains linked and price times, touch only the books they are meant to, and end;
* depth: the changes returned replay the depth of level3, once per level and instant, whatever the batch size;
* cache: what is served is what the database would return.

## The modules

| Module | Kind | Models |
|---|---|---|
| `BookEpisodes` | operators | the attributes of one `BitfinexBookDataHandler` and what each message does to them |
| `BookHandler` | specification | one book channel, from its snapshot to `close()`, with any timestamps and a failing `COPY` |
| `Capture` | specification | `capture()`, all handler tasks, the connection, the exchange, signals, kills, restarts |
| `EpisodeLog` | abstract specification | what the capture promises to readers of its table: a log of complete episodes |
| `Level3Table` | operators | rows, constraints, triggers and `order_book()` of `obanalytics.level3` |
| `Level3Loading`, `MCLevel3Loading` | specification | `pga_capture_transient()` against a growing set of transient events |
| `Level3Repairs`, `MCLevel3Repairs` | specification | `merge_episodes()`, `fix_crossed_books()`, `insert_level3_era()`, deletion of eras and rows |
| `DepthChanges`, `MCDepthChanges` | specification | the C++ functions `depth_change_by_episode()` and `spread_by_episode()` |
| `DepthQueries` | operators | `get.depth()`, `get._starting_depth()`, `level2_continuous()` |
| `DepthCache`, `MCDepthCache` | specification | `depth()` of the R client and its cache, while the database is loaded |
| `TradingStrategy`, `MCTradingStrategy` | specification | `TradingStrategy` of `src/src/position_discovery.cpp` next to a rival trader |
| `BookEpisodesProofs`, `BookHandlerProofs`, `CaptureProofs`, `Level3LoadingProofs`, `Level3RepairsProofs`, `DepthChangesProofs`, `DepthCacheProofs`, `TradingStrategyProofs` | proofs | theorems of the module they are named after |

How they compose: `Capture` and `BookHandler` take a handler's steps from `BookEpisodes`, and both implement `EpisodeLog`;
`Level3Loading`, `Level3Repairs` and `DepthChanges` take the table from `Level3Table`; `DepthCache` takes the database from `DepthQueries`. Operators whose
comment says *slip* are no part of a specification: each is a plausible bug in the definition that follows it, kept
to show that a property notices it (see *Mutants* below).

### From code to state and actions

**BookEpisodes.** A handler is the record `[acc, records, rts, ...]` of the attributes of the Python object. An event is
its number in the session, its kind (a snapshot's row, a change, a deletion) and its timestamp. `OnSnapshot` and
`OnEvent` are the branches of `data()`: a snapshot is an episode of its own; a deletion after an addition ends the episode before it;
its events are stamped with the latest timestamp seen and flushed when more than `MinSaveCount` records have accumulated. Prices and
amounts are left out. Strings are not compared by the code's logic, so nothing depends on them.

**Capture.** An action is what one task does between two `await`s that another task can see. `pc` names the `await` at
which `capture()` is. `Connect`, `Refused` and `ConnectFails` are the outcomes of `websockets.connect`; `Receive`,
`ReceiveClosed` and `Timeout` those of `recv()` under `wait_for`; `LoseSession` is the `except` clause which they share.
`isClosing`, `waitList`, `session` are the local variables of `capture()`. The bound variables `q` and `mh` survive an
iteration of the loop, hence a refused reconnection gives the *previous* session another `None` and adds its task
again. A handler task is `acquire`, `run`, `close`, `done` or `failed`; `holder` is the task that has the pool's only
connection. `InterruptReceive` is SIGINT at `recv()`, `InterruptElsewhere`, `InterruptGather` and `InterruptClosePool` at the
other `await`s; `Crash` is a kill, `Restart` what systemd does afterwards. `delivered` is a history variable.

**EpisodeLog.** `received` are the events of each session, `log` the rows of the table with their sessions, and `saved` how many rows
each session has. A step receives events of one session, saves one or more whole episodes of it, or both. `BookHandler` implements it
with the one session 1, `Capture` with its sessions; `ImplementsLog` is the abstract specification under that mapping.

**Level3Table, Level3Loading.** A row has the columns `microtimestamp` (`mts`), `order_id`, `event_no`, price, amount,
`next_microtimestamp`, `next_event_no`, `price_microtimestamp`, `price_event_no`. A load is one
call of `pga_capture_transient()`, in steps. `BeginLoad` chooses its period (older than the delay, not over a month's end, not too long) and adds
the snapshot with which a month begins. `CaptureChannel` is one iteration of the loop of `capture_transient_raw_book_events()`: it takes the events
of one channel, starts an era or makes the diff of the channel's snapshot with the open orders, and inserts the rows the query makes of them (`RowsToInsert`). `EndLoad`
is the end of the transaction. `load` holds the period and the channels to come, `saved` the tables when the load began. `InsertRows`
inserts by time and lets the trigger `Incorporate` each row; rows of one instant are of different orders and do not meet (`InsertInstant`).
`Consistent` is the conjunction of the partition's constraints; if it is violated in the end, or an era exists already (`EraExists`), the load raises and
changes nothing. A load is one transaction, so nothing is captured between its steps (`~load.running`). The capture side is reduced to its interface, which `Capture` establishes: whole episodes, in
order, a channel per session (`ImplementsLog`).

An event has two times of the exchange, as in the code: `ts` is `episode_timestamp`, which becomes the row's `microtimestamp`, and `stamp` is
`exchange_timestamp`. By the second (and then the local time, `Precedes`) the query picks the last event of an order in an episode and orders its rows for `lag` and
`lead`; the groups of a price go by the first. The episode's time is the latest stamp seen so far (`bitfinex.py:79-100`), so the stamps of its events (`Stamps`)
are at most that time and one is equal to it. Stamps may go back, and then the two orders may differ. `inStep` is a history variable: the orders whose events were all stamped
in the order in which they came and, if stamped before their episode, after everything the loading knows of the order (`Known`, `KeepsStep`). Stamps of different orders may be in any order.
`BookReplayed` and `ChainsLinked` are about the orders that are in step, whatever the others do; `LoadsSucceed` says that a load raises only if an order is not. They cannot
say more, because the code goes wrong for an order that is out of step:

* a deletion stamped before the addition is sorted before it and dropped as a lonely deletion: the order stays in the book for ever;
* a change stamped before the addition makes it a row whose `next_microtimestamp` is before its `microtimestamp`, against the table's check, and the load raises each time it is tried;
* the same happens across loads when a stamp is not after the time of the order's open row, because the open row enters with its `microtimestamp` as its stamp and without a local time
  (`bitfinex_schema.sql:327-329`), and likewise with the deletions inferred from a channel's snapshot and with the snapshot of a month.

**Level3Repairs.** `Episode` inserts the event of one order through the trigger, `StartEra` starts an era; a repair may be called at any time, and
then nothing else is loaded. `Merge`, `InsertEra`, `Delete` and `DeleteEra` are each one transaction: the new tables are computed as the
code does, statement by statement, and `Commit` demands the constraints. `Update` is an `UPDATE` of keys with its cascades. `FixCrossedBooks`,
`Repair` and `NextPiece` are the steps of `fix_crossed_books()`: `Repair` is one round of its inner loop, which makes the first repair
it can and looks at the crossed books again, `NextPiece` the merge at the end of a piece. `CrossedBooks` is the query over
`level1_continuous()` with its window functions, `IsMaker` and `IsCrossed` are the columns of `order_book()`. An exception restores
the tables from `saved`. The foreign keys are deferred to the end of the call, the primary key is not: `DeleteOrders` raises at once when an event
finds its key taken or several rows to follow. Hence `ChainsLinked` speaks of committed tables: inside a fix a merge may take a row from the one that
points at it, and it is the end of the call that raises. A history ends with its first repair, which is called on tables as loading left them.

**DepthChanges.** `FirstCall` opens the cursor and takes the starting order book; `Fetch`, `Take`, `Complete` and
`NoMoreData` are the branches of `episode::next()`, with `current_episode` and the rows taken so far (`episode`); `UpdateOrder` is `order_book_side::update()` for
one row: it saves the volumes of the levels the row changes (`touched`) before the book changes; `StartingDepth`, `UpdateForDepth`, `ReturnChange`,
`UpdateForSpread` are the rest of the two set-returning functions. The maps of the C++ classes are functions; the cursor, the deque and an episode are sets of
rows whose order is the cursor's (`Before`). What level3 may hold is the constant `Tables`; `IsTable` says what every table must satisfy: a row that is not a
deletion lasts until the next row of its order (in the order of the cursor), or for ever. The trigger sees to that when rows are inserted, and TLC finds
it true of every era in all states of `Level3Loading`. It is *not* true after `merge_episodes()`: a deletion and the order's
return merged into one instant are numbered 2 and 1, the cursor returns the deletion last, and the extension loses the live order that
`order_book()` shows (TLC finds such a table among those of `Level3Repairs`). Such tables are left out of `DepthChanges`.

**DepthQueries, DepthCache.** The database is a function from the times of episodes to books by level, and a set of eras.
`history` is the database in the end, `loaded` how much of it is there; `Load` makes another instant visible, also between two queries
of a call. `call` holds the local variables of the call of `depth()` that is running: `Begin` fixes `cache.bound` (15 minutes before now) and queries the
starting depth; `QueryGap`, `TakeOver` and `QueryRest` are the branches of an iteration of `.update_cache()`'s loop, with `start.time`, `end.time`,
`current.time` and `new.cache.entry` as `from`, `to`, `current` and `changes`; `Store` adds the entry and `Served` finds it cached already;
`Direct` queries what cannot be cached. A query may raise: `Fail` ends the call, and the periods taken out of the cache by then are
lost. `known` and `kept`, what was loaded and cached when the call began, are history variables.

**TradingStrategy.** `sl_`, `el_`, `ss_`, `es_` are `sl`, `el`, `ss`, `es`; every branch of `operator>>` is an action. The rival
opens and closes positions at the same spreads at will: `Ideal` compares what it has earned with the strategy's profit.

## What is checked

| Run | Question | Result |
|---|---|---|
| `book_handler` | Are episodes kept whole, in order and well stamped, with any timestamps? Does a channel implement `EpisodeLog`? | holds |
| `capture` | The same over two overlapping sessions, refusals, faults, interrupts, a kill and a restart; does a clean exit leave nothing behind? Does the process implement `EpisodeLog`? | holds |
| `capture_live` | Does every lost session get flushed? Does a SIGINT at `recv()` end the process, and does one elsewhere end it but for one way of waiting? | holds |
| `capture_interrupt` | Does SIGINT save everything received, as the service unit says? | **violated** |
| `level3_loading` | Does level3 replay the exchange's book for any cut into channels, months and loads, with several events of an order in an episode, for every order that is in step? Do loads succeed if all are? | holds |
| `level3_price_time` | Is `price_microtimestamp` independent of the cuts? | **violated** |
| `level3_month_start` | Is an event at the first instant of a month kept? | **violated** |
| `level3_repairs` | Do repairs keep chains and price times, touch only the books they should, and end? | holds |
| `depth_changes` | Do the C++ functions return exactly the changes between the schema's order books? | holds |
| `depth_cache` | Is the depth served that of the order book, in whatever pieces it is put together? | holds |
| `depth_interruptions` | Also over interruptions, as the documentation of `depth()` says? | **violated** |
| `trading_strategy` | Is the discovered strategy the best possible? | holds |

### What the violated runs show

* `capture_interrupt`: SIGINT is handled around `recv()` only. At any other `await` of `capture()` the `CancelledError` leaves
  the loop: the queue gets no `None` if it has none yet, the handler is not waited for, and messages received are not saved. The process may not end either. Leaving `async with pool` awaits
  `pool.close()`, which waits until the only connection is given back; the handler that has it waits for the `None`. This state is `LeftWaiting`. It is reached by one SIGINT at
  `subscribe_channels` or at the `ws.close()` after a timeout (`capture.py:132`, `148`), or by a second one at the `ws.close()` after the first (`153`). At a reconnection's `connect` (`124`) every session has had its `None`;
  there the handler that has the connection ends, and those still waiting for the connection end with the process, their messages unsaved.
  `capture_live` shows that it is the only way not to end: `InterruptEnds`. Another SIGINT ends the process, or systemd after its 10 minutes.
* `level3_price_time`: within a load an open order enters with its last `microtimestamp` instead of its
  `price_microtimestamp`, so the second event of an order in a load gets a later price time than the first.
* `level3_month_start`: `pga_capture_transient()` writes a snapshot at the first instant of a month with a null local
  time. SQL sorts null first in a descending order, so a real event of that very instant is dropped in favour of the older
  state. The runs that hold keep episodes off that instant (`MonthStartEvents = FALSE`).
* `depth_interruptions`: `level2_continuous()` closes the levels of an era only if the next era is in the same query.
  A request the client cuts between the two (at `cache.bound`, or between cached periods) never gets the closing.

### The bounds, and why they are enough

* `book_handler`: an episode ends at a deletion after an addition and a flush needs more than
  `MinSaveCount` = 2 records; six events with three timestamps contain several episodes, flushes in between and after them, and
  all orders of timestamps.
* `capture`: two sessions suffice for overlap (an old handler draining while the new one waits); a third only repeats the
  relation between neighbours, and the order of *all* sessions is proved. Three events per session are the snapshot, an addition and the
  deletion that completes an episode, with `MinSaveCount` = 1 so that some are copied at once and others by `close()`; a notice may come in between. Each
  fault may happen at any point; two interrupts give an interrupted shutdown. A message the handler raises on happens in `capture_live`; for the table it is
  a failed `COPY` with less to save.
* `capture_live`: two sessions again, of two events each, and no restart, because the claims are about one life of the process. Two interrupts, so that the second may come wherever the
  first has left the process.
* `level3_loading`: months of three instants and five instants in all put a month's boundary inside a channel, between channels and
  inside and between loads; a backlog of three instants gives every cut into loads (with months this short `MaxInterval` never cuts more than they do; the theorems hold for all of both). Two orders show that chains do not mix, two prices
  and two events per episode the choice of the latest event and the groups of a price. A stamp is at most one instant before its episode (`MaxLag`): that is enough to be before, at and after the order's
  other events, its open row and the start of the channel or the month. Once an order is out of step no stamp goes back any more (`MaxOutOfStep` = 1), so the other one stays in step and shows that it is not disturbed. Snapshots have one price (`SnapshotPrices`), episodes both. The two orders are alike in everything, so permuting them is sound.
* `level3_price_time`, `level3_month_start`: the shortest history that shows the violation fits into the bounds. No stamp goes back (`MaxLag` = 0): the violations have other causes.
* `level3_repairs`: two bids and an ask at two prices give books that are crossed by one order or by two, orders that come back, and levels of
  two orders; four instants with pieces of two and a `MaxChange` of one give crossed books within and over the end of a piece, and merges
  that are allowed and that are not. The bids are alike.
* `depth_changes`: every table that the trigger makes of orders opened at the first instant and two later events (`MaxEvents`); batches of two rows against episodes of up to three and the frequencies 1 and 2 make batches end at,
  before and after the end of an episode; two bids at two prices make levels move, join and vanish.
* `depth_cache`: seconds of two instants distinguish rounding from not rounding; six instants give three seconds, hence two
  cached periods with a gap, touching, covering and covered ones, and requests that start in one piece and end in another. A level that
  changes at most twice (`MaxChanges`) in at most two eras opens, closes and opens again. `depth_interruptions` has two levels whose books do not change
  within an era. The theorems hold for any number of instants, levels, eras and changes.
* `trading_strategy`: three prices, costs of one unit and of two per transaction pair and four instants reach every branch
  (discover, extend, reverse, restart and hold, of both sides); the theorems hold for every instance.

Deadlock is checked in `depth_changes`, `depth_cache` and `depth_interruptions`. The other systems really stop: the process
exits, a channel closes, a stream ends.

### Fairness

Only `Capture` claims liveness. `Fairness` assumes weak fairness of `capture()`'s own steps and of each handler's steps: the
asyncio loop runs every task that is ready, the timer of `wait_for` fires, and `ws.close()` has a timeout of its own.
Connecting is not in it: whether a connection is granted is the exchange's business, so no claim is made that an interrupted session
is ever resumed. The exchange, faults, signals and restarts are unfair. In `capture_live` the database may raise but a `COPY` does not hang.

### Mutants

Every property of a passing run has a definition of the code's model and a slip of it (`PROJECT.json`, `mutants`) with
which the run finds the property violated: a forgotten `None`, a task left out of `wait_list`, a period not rounded to
seconds, a level that is not erased when it becomes empty, and so on. So no property holds because the run never
reaches what it is about.

### The refinement

`EpisodeLog` says what a reader of `transient_raw_book_events` may rely on, without handlers, tasks and connections: rows are only added; what is
added are whole episodes of one session, following those it already has there; a row's stamp is the one its episode has in the stream; and a session
that has rows ends those of earlier sessions. Both detailed modules implement it, with the history of received events as the abstract
stream. The refinement is stronger than invariants on the table: it also says that no step rewrites, reorders or removes a row,
and that a stamp, once written, is what the stream says however the stream goes on.

## What is proved

All theorems hold for every value of the constants that satisfies the modules' `ASSUME`s: any number of sessions,
messages, restarts, timestamps, prices, and any length of a stream.

**BookHandlerProofs** -- `TypeCorrect`, `StampsAlwaysInOrder`, `EpisodesAlwaysKept`, `OnlyWholeEpisodes`, `ChannelImplementsLog`. Stamps in the
table are in order because they are maxima over a growing prefix; the invariant `StampInv` says so of the rows in the table
*followed by* the rows still kept, and bounds all of them by the handler's `rts`. `EpisodesKept` compares what the handler has
grouped one event at a time with the episodes the whole stream is cut into. `EpisodeInv` strengthens it: the handler's
attributes are what they must be for the events received (`Accumulates`: saved and kept rows are those of the complete
episodes, `episode_events` those after the last one, `rts` the latest timestamp), and the saved rows end with an episode
(`HasRows`; `HasLastEnd` says that there is a last one). The second part does not follow from the first, because a failed `COPY` leaves the table behind what was received
for good; it stays true because more events only add episodes after those there are (`EndsAfterEvent`, `RowsStay`). `ChannelImplementsLog` follows: by `EpisodeInv` the table before and after a step holds the
first rows of `CompleteEpisodes(received)`, up to the end of an episode, so what a step adds is `NewRows` (`LogStep`).

**CaptureProofs** -- `TypeCorrect`, `SessionsAlwaysInOrder`, `CleanExitIsComplete`. That the rows of sessions do not
interleave is not inductive. `TaskInv` adds why: only opened sessions have tasks (`OpenedTasks`), only the holder of the
connection runs (`HolderRuns`), the pool serves the oldest waiting task, so tasks that have not ended are the last
ones (`OldestFirst`, `UnendedAreLast`) and every session before a row's one has ended (`EarlierEnded`). `LoopInv` adds what `capture()`
waits for: every session but the current one is in `waitList` (`WaitedFor`), and a clean outcome means that all of them are done
(`CleanlyDone`). One lemma per group of actions, combined in `NextInv`.

The second half of the module proves `EndedHandlersSavedAll` (`DoneSavedAll`) and `CaptureImplementsLog` (`ImplementsLog`), for any number of sessions, messages and
restarts and all faults. That a handler has saved everything when it ends depends on every place an event can be between the network and the table:
the websocket's buffer, the queue, the handler's `episode_events` and `records`, the table. `LogInv` follows an event through them. `RowsInv` says
that a live handler has taken the first `Taken(s)` events of its session's stream and that its saved rows, its records and its current episode are what
those events make (`Made`, from `BookEpisodesProofs`). `QueueInv` says that what is pending, in the queue and for the connected session in the buffer
behind it, goes on where the handler stopped, in order and without a gap (`Follows`); that it reaches to the stream's end (`AllThere`) while
`capture()` goes on, and for a session whose `None` is in its queue for good (`NothingMissing`): an exception that leaves the loop drops the buffer, which is
why the `None` matters; and that nothing follows a `None`. `BufferInv` says when the buffer must be empty: a connection that was lost is given up only when
`recv()` has returned everything. So a handler that has reached its `None` has no event left (`FinishTakesAll`), and `close()` saves all complete episodes.
For the refinement, `StepKinds` sorts the steps: one leaves stream and table alone, one receives an event, one adds rows that continue those saved;
that no younger session has rows yet (`YoungerHaveNone`) comes from `CaptureInv`.

**TradingStrategyProofs** -- `TypeCorrect`, `StrategyIsIdeal`, `OnePosition`, `PositionsAreInOrder`, for any prices, any
monotone `Log` into the integers and any `phi` and `rho`. The argument is that of dynamic programming. `Value` is what the
strategy has earned when the stream ends now; `LongWorth` and `ShortWorth` are the worths of the best long and short
position one could have opened by now: what was earned before it, the price paid or got, and the interest up to
its opening. A rival who holds nothing has earned at most `Value`, and one who holds a position at most its worth
(`RivalInv`). `WorthInv` relates the worths with `Value` by the commission and the last spread, `StartInv` bounds the
start of the next position by the end of the current one, `OrderInv` orders the instants, `PhaseInv` says what is set
when. For every branch of `operator>>` a lemma `...Worth` shows that the worths never fall and take in the new spread, so that no rival
gains on them, and a lemma `...Order` that instants stay in order.

**Level3LoadingProofs** -- `LoadingTyped` (`TypeOK`), `BookIsReplayed` (`BookReplayed`), `ChainsAreLinked` (`ChainsLinked`) and `ErasFollowLevel3`
(`ErasUpToDate`), for any orders, prices, lengths of a month, thresholds and delays, any number of episodes, channels, eras and loads, any cut of the
events into loads and loads that raise. There are two hypotheses. One is `MonthStartEvents = FALSE`, no episode at the very first instant of a month;
`level3_month_start` shows that `BookReplayed` fails without it. The other is in the theorems, `[](inStep = Orders => ...)`: as long as every order has been in step.
This is less than the run checks, where one order stays right while another is out of step; the proofs do not follow that, since a wrong row of one order would have to be carried through every lemma on the table.
`inStep` only shrinks (`InStepShrinks`), so the invariant `inStep = Orders => IInv` is inductive (`LoadingInvariant`). What it takes from the stamps is `StampsSound`: those of the events still to be loaded are after the
order's rows, the starts of channels and the month's, and go up with the order in which the events came. Then `Precedes` is the order of the episodes on the events of an order (`KeptOrder`), also
with the open row and the events that the loading adds, and the rest of the argument is about episodes.
`Sound` says up to an instant what the tables are and after it what the transient events must be. Up to it (`Level3Sound`) rows have their types and
form chains (`RowsSound`, `Linked`), the live rows are the exchange's book at every instant of an era (`Replays`) and `level3_eras` is up to date
(`ErasSound`). After it (`StreamSound`) the events show how the book goes on: a channel starts with the whole book (`ShowsAll`), every other episode with what changed
(`Continues`), and a channel covers each of them. Between loads `IInv` demands `Sound` at `loaded`; during a load (`Running`) at the end of the last piece captured
(`GotTo`), and for the saved tables (`SavedSound`), to which an exception returns. A month's snapshot shows the book of level3 at the month's start, which is right
only if everything before has been loaded. `MonthKept` says so: unless a row shows that the month has begun, the last load went up to its end, or the next one will (`MonthEnds`).
The heart is one piece, a channel's events in the period of a load (`PieceLoads`, `PieceCaptured`, `PieceSound`): the query numbers and links the rows of an order by looking at the
piece only, leaves the first row of a chain that goes on to the trigger (`LeftToTrigger`), and the trigger sees only rows inserted before; they agree, because the row the
trigger finds is the open order with which the query began to number. From there `ReplaysAfter`, `ErasAfter` and `MonthsAfter` are about the table
after the piece; `QuietStretch` covers instants without events, `MonthSnapshotSound` the splitting of a channel by a month's
snapshot, `SoundGrows` what the capture adds meanwhile. One lemma per action (`EpisodeKeeps`, `SubscribeKeeps`, `TickKeeps`, `BeginKeeps`, `CaptureKeeps`, `EndKeeps`), combined
in `NextKeeps`. `InsertRows` is a recursive function over instants: `InsertsInSteps` unfolds it, and what would be an induction over instants
is the search for a first instant at which a claim fails (`NatMinimum`).

**DepthChangesProofs** -- `DepthTyped`, `BookFollowsSchema` (`BookIsLive`) and `ChangesExact` (`AnswerExact`), for all tables (`IsTable`), any number of
rows in a batch and all starts and frequencies. The invariant `IInv` follows a row from the cursor to the answer. `RowsInOrder`: the rows of the episode come
before those of the deque and these before the cursor's, and all of them after the processed rows of the same order. `EpisodesWhole`: an episode that is being put together has one time, and no
row processed has it; one that is complete has all rows of its time; so wherever a batch ends, the rows not *settled* are later than those that are.
`BookUpToDate`: the book holds the last row of each order among the rows processed (`BookOf`), unless it is a deletion. It is said of rows and not of times, because
inside an episode there is no book of the schema to compare with; that it is `order_book()` between episodes is shown by `LiveIsBook`, the one place where
`IsTable` is needed, and `LiveAfterRows`. `TouchedSaved`: the levels saved have the volumes before the episode, and a level that is not saved still has that volume. Hence
`clean_touched()` yields exactly the difference of the books before and after it (`Changes` against `DepthChange`). `DepthUpToDate`: the depth kept for the spread has exactly the
levels of the book after the settled episodes. `AnsweredSoFar`: what has been returned and what waits in `l2` is what is expected of the settled episodes, in
order. One lemma per action, combined in `NextInv`.

**DepthCacheProofs** -- `CacheTyped`, `PeriodsStayApart`, `NothingCachedForgotten` and `DepthServedExactly` (`ServedExactly`), for any number of
instants, levels, volumes and eras, any history (`IsHistory`, in `CacheAssumption`: episodes an instant apart within an era, eras more than
that), any length of a second and all requests, with loading between any two queries and queries that raise.
The first half of the module is about the queries of the database: what is loaded of a history is a history again (`LoadedIsHistory`), whose
order books and books before an episode are those of the history in the end (`BookAfter`, `BookBefore`, `LoadedPrior`), so that what any query
returns is *sound*, a change of an episode of the history or one that closes an era (`DepthSound`, `QuerySound`), and what is returned for a period is
*complete*: it has all changes of every episode in it that is followed by another one in its era and loaded (`DepthComplete`, `QueryComplete`).
The condition on the next episode is needed: `_periods_within_eras()` drops parts without length, hence a query whose period starts with the last
episode loaded returns nothing of it. `IInv` says that of the cache (`CacheInv`, the conditions on loading being gone: what is cached is loaded for
good), of the entry being made, up to `call.current` (`EntryInv`), and of the answer (`AnswerInv`). `EntryApart` is why cached periods stay
apart although the entry grows to both sides: it is apart from everything left in the cache unless nothing has been visited, and
it may outgrow the request only at the loop's end (`EntryTimes`). One lemma per action, combined in `Invariance`. From `IInv` to `ServedExactly` one
level at a time: the last episode up to `t` that changes the level is in the answer by completeness, no later change is by soundness, and the
level keeps its volume from there to `t` (`LevelStays`, `LevelServed`). Extreme elements (the last episode, `Max` and `Min` in the queries, the first
instant at which a level differs) come from `NatMinimum`, the well-foundedness of `<` in the library, instead of induction over data.

**Level3RepairsProofs** -- `TypesKept` (`TypeOK`), `ChainsKept` (`ChainsLinked`), `ErasKept` (`ErasUpToDate`), `MergesKeepBooks` (`MergeKeepsBooks`),
`SplitsKeepBooks` (`SplitKeepsBooks`), `DeletionsAreLocal` (`DeletionIsLocal`), and `OnceAndPricedOutsideFixes`, which is `OrdersOnce` and
`PriceTimeKept` except during and after a fix. They hold for any orders and sides, prices, eras, lengths of a piece and limits on the change of a time, and
any history loaded before the repair; of the constants the proofs need that the first instant exists (`MaxTime >= 1`).
`RepairInv` (`RepairInvHolds`) was first checked by TLC on the instance of `level3_repairs` and on a larger one with six instants. It has three parts.
`Loaded` is what loading leaves: chains without gaps within an era, one event an instant, and no row live when the next one of its order begins. It is what a repair starts from,
and what an exception returns to. `Repaired` is what a repair leaves; from it the invariants follow. `InRepair` is what holds between the steps of a fix, where chains may
be broken: every reference counts up by one, stays in its era and is to a time before some row there (`Reached`), there are at least as many references
as there are rows to refer to (`Referring`, `Following`), and `level3_eras` is right. That is enough: when the call commits, every reference is to a row, and no two are
to the same one; so by counting no row is left without (`RepairedLinked`), and a failed commit undoes all.
That each step of a fix keeps `InRepair` is shown apart for its two kinds of `INSERT` and `UPDATE`: ending orders with deletions (`Removing`, where
the trigger links each new row), and a merge, whose moves keep the order of a chain (`MovesInOrder`) and never move the last row of an era.
A merge called by hand starts from `Loaded`, so its effect on the books is found order by order: the last death of an order in the period at which it comes back later (`NextDeath`)
tells to which instant its rows move, and `MergeKeepsAt` compares the rows live before and after. A split renumbers the chains that cross the start of the new era from their
first row there (`Heads`, `NumberOver`) and opens the last row before it; a deletion removes the row and all that follow (`ChainIs` says that the recursive function `within`
of `ChainAfter` finds exactly those). Where one would use induction over chains, instants or crossed books, the proofs take the first
step at which the claim fails (`NatMinimum`) from equations that unfold the recursive functions (`WithinSteps`, `InsertSteps`, `MergeSteps`).

**BookEpisodesProofs** holds the lemmas on the operators of `BookEpisodes`: types, the stamps of a running maximum, and what a
snapshot or an event does to the episodes of a stream.

### What is only model-checked

* `LoadsSucceed` of `Level3Loading`: that no load breaks a constraint. The proofs allow loads that raise, so they do not rest on it. For all
  constants it is not true: a load whose first and last events lie in two months that are both later than level3's last row makes no month snapshot, and
  leaves the open orders in another partition than their next events (the hazard at `src/db/bitfinex_schema.sql:686`). The backlog of the run (`MaxBacklog`) is shorter than a month.
* `OrdersOnce` and `PriceTimeKept` inside `fix_crossed_books()` and after it. `InRepair` allows broken chains and several rows of an order at
  one instant, and from such tables the next merge could do anything to books; that it does not is checked for all histories of the run's bounds.
* `RepairsEnd`, `FixUncrosses` and `FixRemovesCrossingOnly`: how often a fix repairs and what it leaves depends on the books the whole call goes through,
  so they would need an invariant that relates each merge to the crossed books of the piece, on top of the one above.
* `BookReplayed` and `ChainsLinked` for an order in step while others are not.
* Liveness under fairness (`LostSessionsEnd`, `InterruptEnds`), which is out of their reach, too.

## Abstractions

* Prices, amounts, profits are integers or members of a set instead of doubles, `long double`s and `numeric`s: rounding
  (and the comparison of volumes with an epsilon) is not modelled.
* Times are small integers; a month, a second and a frequency are numbers of instants.
* SQL statements are atomic: a load is one transaction, one load runs at a time, and a query sees one state of the
  database.
* An order stays on its side of the book.
* `DepthQueries` and `DepthCache` have no frequency. Requests are of whole seconds: the client formats times without
  fractions, so another start would be that of its second for the query and itself for the cache's filter.
* `DepthCache` assumes that what is older than `cache.bound`, and the second it is in, has been loaded; the code does
  too. Parts of a period without length are dropped by `_periods_within_eras()`, so `ServedExactly` speaks of the instants before an era's last episode.
* In `Level3Loading` an instant has at most one episode, loaded as a whole: episodes of the same time are one for the query. In the code an episode all of whose stamps have gone back gets the time of the
  one before it; the model has it as a part of that one. Only a channel's snapshot has its instant for itself: that an event right after the snapshot is stamped no later than it, and so
  becomes part of what `_diff_order_books()` compares, is left out.
* Which orders are out of step is decided by what the loading knows when the event is captured (`Known`), so an order may be counted out of step although its rows come out right; `BookReplayed` claims nothing of it then.

## What is not modelled

* Bitstamp's capture: it shares `capture()` and the message loop with Bitfinex's, which are modelled; its handlers buffer messages without
  episodes. Its loading (`capture_transient_orders()`, the triggers of `live_orders`) builds the same chains from data whose order depends on several
  channels of the exchange; the repairs its `pga_transfer()` calls are modelled.
* The trades handler and trade matching: heuristics over prices and amounts within time windows, which depend on real data more than on
  an order of steps.
* The reorderer: nothing in the repository imports it.
* The sampling by a frequency in the query functions, and the other streams of `src/src` (`DepthResampler`, `EpsilonDraws`, `TradingPeriod`).
* The earlier Python order book, which `order_book.cpp` has replaced.
* Table definitions, seed data, plots, the Shiny application: there is no behaviour of the system to model. The JavaScript under `docs/` belongs to
  the themes of the rendered documents (bootstrap, gitbook, jquery): none of it is part of the system.

## Plan

1. Proofs: `FixRemovesCrossingOnly` and `OrdersOnce` through a fix; `LoadsSucceed` with months that are loaded one after another; `BookReplayed` of one order in step
   next to others that are not.
2. Query functions with a frequency (`get._date_floor`, `get._date_ceiling`), `spread()` of the client.
3. The streams of `src/src`, each against a reference definition over its whole input.
4. Bitstamp: handlers, `live_orders` triggers, `capture_transient_orders()`, and the same `BookReplayed` as for Bitfinex.
