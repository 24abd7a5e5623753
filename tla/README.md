# A TLA+ model of xmlx_vlm

This directory holds a verification project for `src/`: TLA+ modules that
translate the parts of the program where control is hard, TLC configurations
that check them on small instances, and theorems checked by TLAPS. Paths below
are relative to `src/xmlx_vlm/`.

The repository is a vision-language inference server with an automatic prefix
cache, an agent runtime, and a trading system (`ai_trader/`) that uses both.
The components that carry the program's own shared state are modelled:

* the **kanban board** with its dispatch loops and trading pipeline;
* the **order manager** (OMS): the engine over its paper venue, the same orders
  over the **live exchange** with the worker that synchronises them, and the
  **execution algorithms** with their scheduler;
* the **prefix cache**: the pool of blocks in memory with the batches that use
  it, and the **disk store** with its writer threads;
* the **generation thread** of the server with its batch generator and the
  handlers that wait for it;
* the **model store**, which the routes load, swap and unload models through.

They meet in few places: an agent's decision reaches the OMS as a call, and a
market alert the kanban board as a task, whose last stage, the executor, submits
nothing to the OMS: it only logs that an order was submitted
(`ai_trader/runtime/kanban_bridge.py:125`). The model behind the agents is served by a generation
thread, which the model store starts and stops and whose batches use
the prefix cache. No two of them share a variable, except that the generation
thread is seen twice: from inside in `GenerationLoop`, and from outside, as one
of several that replace each other, in `ModelStore`.

## 1. Inventory

`PROJECT.json` lists every component. The ones with state of their own:

| Component (code) | State | Operations | Talks to | What is hard |
|---|---|---|---|---|
| Kanban board (`kanban/board.py`) | one SQLite table of tasks: status, owner, heartbeat, failure count | create, claim, heartbeat, complete, fail, block, reclaim | dispatch loops of several processes, through the file; one lock per board object | two statements per method, reclaim against live workers, crashes |
| Dispatcher and pipeline (`kanban/dispatcher.py`, `ai_trader/runtime/kanban_bridge.py`) | one loop and one heartbeat thread per task | dispatch_once, the stages scout to executor | board | stale workers, a database error in any statement, a crash between two stages |
| OMS engine (`ai_trader/oms/core/`) | orders, portfolio, kill switch, breakers | submit, cancel, close, sync, emergency stop, algorithms | venue adapter; callers are asyncio tasks | awaits inside operations, objects shared by two books |
| Paper venue (`oms/execution/paper/`) | orders, positions | submit, cancel, query | engine, market data | partial fills, resting orders |
| Router, algorithms (`oms/routing/`, `oms/execution/algo/`) | parent orders, tasks | slice, route, cancel | paper venue directly, past the engine | slices after the lock, cancellation in an await |
| Block pool (`apc/manager.py`) | reference counts, hash table, linked free queue | lookup, store, release, evict, clear | generation thread, routes | multiple references, eviction, exceptions in the middle of loops |
| Batching (`generate/batch/`) | waiting prompts, prompt batch, decode batch | insert, remove, next | block pool, generation thread | rows that leave a batch early |
| Generation thread (`engine/generation.py`) | request queue, cancellations, active requests | admit, step, cancel, idle release | routes (other threads), batching | a request between queue and batch when something fails |
| Disk store (`apc/disk_store/`) | index, in-flight shards, byte count | save, load, evict | writer threads, pool | writers, loaders and eviction on one directory |
| Order sync, exchange adapter (`oms/order_sync/`, `oms/execution/hyperliquid/`) | orders, seen fills | submit, cancel, poll, merge | exchange (external), engine | one fill seen twice or under another order, unknown outcome of a call |
| Model store (`model_store.py`), completion routes (`routes/`) | the model in memory, its generator and cache manager | get_or_load, unload, generate, release | generation threads, executor threads of the routes | the event loop blocks while a model loads or a thread is joined; the generator is read again later |
| Risk rules, breakers (`oms/risk/`, `oms/circuit/`) | windows, counters, trip flags | evaluate, record, reset | engine | counts of orders that were refused later |
| Grid strategy, runtime, agent (`ai_trader/strategies`, `runtime`, `agent`, `decision`) | levels, active orders, running instances | start, stop, cycle | OMS, market service, models | stop from inside one's own task, changes during an iteration |
| Market service (`ai_trader/market_service/`) | bars, subscriptions | candle, tick, reconnect | stores, alerts | late candles, changes during a reconnect |
| MCP client, agent core (`mcp/`, `agent_core/`) | connections, batches of calls | connect, call, delegate | tool servers | one call of several failing |

Everything else (model implementations, kernels, text parsers, training,
evaluation, front ends) is tensor arithmetic, text or presentation. It has no
control a model checker would add to and stays out of scope.

What makes each modelled component correct:

* **Kanban**: a loop works on a task only while it owns it; failures are counted
  and retries end; a task is run again only because of a fault, once for each;
  no alert disappears between two stages; every alert gets through the executor
  stage or ends as a blocked task.
* **OMS engine**: an order goes through its life once, whoever interleaves with
  it; the books add up to the fills; an emergency stop ends with the engine
  locked and the venue flat.
* **Live orders**: whatever reply is lost, an order the worker ends has at least
  the quantity booked that the exchange filled of it, what is booked beyond the
  order's quantity is at most one trade, and what ended at the exchange with a
  status the adapter knows ends here.
* **Algorithms**: a parent order says what its children executed, and executes
  no more than was ordered.
* **Block pool**: a lookup returns only the content asked for; a block in use is
  never evicted; the free queue is exactly the unused blocks, least recently
  released first; whatever is acquired is given back.
* **Disk store**: a block in flight always has a write to come; the byte count
  covers the files; the index names files that exist; at rest the directory is
  within its cap, or holds one file that alone is larger.
* **Generation thread**: a token reaches its own request; whoever is answered
  has a row; nobody is ended by another's cancellation; a request that waits is
  somewhere, and ends once and in the end.
* **Model store**: the model in memory has its own running generator; a request
  is answered by the model it named; the event loop comes back.

`PROJECT.json` lists the hazards at their lines. Hazards of components that are
not modelled: `oms/core/oms_engine.py:611` (a losing close that never reaches
the consecutive-loss breaker), `execution/hyperliquid/adapter.py:440` (a failed
query that looks like a flat account), `risk/rules/rate_limit_rule.py:67` (an
order counted although a later rule refuses it),
`strategies/grid/grid_engine.py:238` (the cancel loop raises, so an emergency
stop does not reach the OMS), `market_service/ws_client.py:132` (subscriptions
change while a reconnect iterates over them), `market_service/state.py:277` (a
late candle closes the newer bar), `runtime/trader_manager.py:68` and `:135` (a
running instance replaced; the dictionary changed across awaits),
`mcp/manager.py:169` and `mcp/client.py:218` (one failing call or close of
several), `engine/generation.py:622` (an exception of the speculative loop is
only printed, and the callers in hand are never told).

## 2. Modules

| Module | Models |
|---|---|
| `KanbanBoard` | rows of the task table and each SQL statement as one operator |
| `KanbanFleet` | dispatch loops, heartbeat threads, processes with their lock, pipeline stages, faults |
| `TaskLease` | abstract: exclusive leases on tasks |
| `OmsOrder` | order states, the transition table, `apply_fill` of an order |
| `OmsPosition` | `Position.apply_fill` and what it is made of |
| `OmsEngine` | engine, router, algorithms and paper venue as coroutines |
| `OrderLifecycle` | abstract: the life of an order |
| `OmsLive` | submit and cancel over the live adapter, the exchange, the worker's rounds |
| `OmsAlgo` | one parent order: scheduler, the four algorithms, what the venue answers |
| `ApcPool` | the block pool, and batches that look up, store and release |
| `LruCache` | abstract: reference-counted blocks and a least-recently-released queue |
| `ApcDisk` | the disk store: write queue, writers, index, byte count, eviction, restart |
| `GenerationLoop` | the generation thread, its batch generator, the handlers and their queues |
| `ModelStore` | get_or_load and unload on the event loop, completions, generation threads from outside |
| `MC...` | instances for TLC; `MCOmsVenues` and `MCApcTiers` put several components in one run |
| `..._proofs` | theorems |

Definitions named after a slip, each with a comment that says which one, are
used by no specification. They are the plausible bugs that `PROJECT.json` puts
in the place of a definition to show that a property can fail.

### Kanban

A state variable is a column: `status`, `owner` (worker_id), `hb`
(heartbeat_at), `failures`, `stage` (assignee_profile), `origin` (the alert in
the metadata). `pc[w]` is the place of loop `w` in `dispatch_once`: `reclaim`,
then for each profile `select` and `update` (the two statements of
`claim_task`), `run`, `complete`, or `fail_read` and `fail_write` (the two of
`fail_task`). Between two statements a loop holds the `threading.Lock` of its
process's board, so `MayUse` keeps the other loops of that process out, never
those of another process. The heartbeat thread is `beats[w]` and the action
`Heartbeat`; one error ends it (`HeartbeatRaises`), since `_heartbeat_loop`
catches nothing. `RunStage` is a worker function of `TradingKanbanBridge`: it
creates the next stage's task, or in the last stage just returns:
`_executor_worker` logs "Order submitted successfully" and calls nobody. `ran[t]`
(history) counts the returns of a worker function for task `t`, so that
`RerunsArePaid` can compare them with the faults: a `complete_task` that raises
after the function has acted sends the task through `fail_task` and back to
`todo`, and the function runs twice. `Finished(t)` is a done executor task whose
function has run.

Abstractions: time is what `reclaim_stale_tasks` compares, a heartbeat that is
null, fresh or stale; task ids grow, so they stand for `created_at`; all tasks
have the priority of their alert, left at its default; worker ids are the loops
(the code draws a new one per claim, and a `todo` row has none). The faults are
a crash of a process, a stall long enough for a live heartbeat to expire, a
statement that raises, and `block_task` by an operator. `MaxFaults` bounds how
many happen, `MaxTasks` the rows.

### OMS

The callers (web routes, agent loop, decision engine, strategies) are
coroutines of one event loop that share one engine. An action runs from one
suspension point to the next. Over the paper venue the only awaits that suspend
are the latency and the market-data reads inside a submit (`pc = "matching"`),
the router's reads (`"routing"`) and the pauses of an algorithm (`"slicing"`).
`emergency_stop` works through its list without suspending except in its
submits, which is `LoopIsFree`. `sync` hands out the venue's own `Position`
objects, so positions live in `heap` and the two books, `portfolio` and
`venue`, hold references to them; a fill of an order reaches the venue's book
and then, through `_process_fill`, the portfolio, and an object the two share
is filled twice.

Abstractions: the verdict of the risk rules and the trip of a breaker are
choices, so every sequence of them is covered; prices are 1, cash, margin and
profit are left out; audit records, events, dry run, the live guard and order
expiry are left out; `kill_switch.reset` has no caller in `src/`. Of an
algorithm only the slices are here; the parent's quantities are in `OmsAlgo`. Tools that
call the engine from another thread with a loop of their own are not modelled.
`Orders`, `OpenIds`, `Objects` and `MaxQty` are bounds; `IdsAreLeft` starts a
stop only while ids are left for its flatten orders.

### Live exchange

`live[o]` is the local `Order`; `exState`, `exFilled` and `trades` are what the
exchange knows, and only its own actions (`ExchangeTrades`, `ExchangeEnds`)
and the requests that reach it change them. Its statuses are open, the three the
adapter has a case for, and `"unlisted"`, any other one an order may end with:
`RemoteState` is `_hl_status_to_state`, which takes that, and an open order with
nothing left, for ACKNOWLEDGED. An order that ends with an unlisted status is
therefore asked for in every round and never closed here. `closedHere` (history)
are the orders that ended by a reply to `submit_order` or by `cancel_order`, not
by the worker. The client's calls are synchronous,
so a submit, a cancel and each request of a round are atomic for the event
loop; the exchange moves between two requests of a round. `SubmitLive` covers
every reply: resting, filled at once (which ends REJECTED, see the findings),
refused, silent, or lost after the exchange took the order. A round is
`SyncStarts`, one `PollOrder` for each order that was open (a poll may fail),
`ReadFills`, one `BookFill` for each trade not seen before, `SyncEnds`. A trade
of the account never carries the local id, so `_apply_fill` gives it to an open
order of its side, among them one that booked it already through its poll, or
one it does not belong to: `Candidates` and `IsCandidate` are that search. The
positions the fills go to, accounts, signing and market data are left out.
`LiveFaults` and `MaxLiveFaults` choose and bound the lost and failing calls,
`LiveQty` the quantities, `Histories` the trades from before this process.

### Algorithms

`parent` is the `ParentOrder`, `child` the quantity of the child in hand,
`executed` (history) what the venue executed. The pauses and the listing of
prices are one place of the loop, `at = "head"`, where `cancel_algo` may come,
as it may while a child is at the venue and after the end. Quantities count the
smallest unit; `Rounded` is `quantize_qty`, which rounds half up. At the paper
venue a child fills when it is sent or never; at the live one nothing it fills
is seen on it, since the algorithm's children are not registered with the
engine. `MaxUnseen` bounds what the live venue executes.

### Prefix cache

`ref`, `hash`, `table` and `head`, `tail`, `prev`, `next` are the fields of the
manager and its blocks; `Nil` is the missing link. A hash chains all tokens of
a prefix and is taken to be free of collisions, so a key stands for a block of
tokens with its whole prefix, and a prompt is the sequence of its keys. The
generation thread takes a batch through `lookup` (with `unpick` for a hit that
is given up), `prefill`, and per row `store` and `release`; `cleanup` is
`_release_apc_meta_blocks`. Methods of the pool hold its lock, but the
iterations of their loops are separate steps, `lock` being set in between, so
that an exception in the middle leaves what it leaves. `held` is history: the
slots of a batch that are still to be released.

Disturbances (`Faults`): a request removed during its prefill, a step that
raises, a harvest that raises while it copies a block, a reset from the
server's thread. `ReleaseIdleKv` is no fault and always possible. `DiskTier`
says whether the pool has a disk tier, as in a process that `from_env` sets up:
then a harvest does not stop at a full pool or at the tensor limit
(`StoreEnds`) but passes the block over (`StoreSkips`) and shares a later one
that is there, so what a row has recorded may have gaps, which `Release` steps
over (`ReleasePasses`). Not modelled: what is read from and written to the disk,
which is `ApcDisk`'s matter, the contents of
the exact and layer-major caches (they appear as a longer prefix that replaces
a hit), statistics, the single-request pipeline, which acquires, stores and
releases like one row. `NumRows`, `MaxLen` and `LeakBound` are bounds; a row
may be unused.

The disk store has `files` (the directory), `index`, `inFlight`, `wq` (the
write queue) and `diskBytes`; `wpc[w]` is where writer `w` is: `WriteShard`
replaces the file, `Count` and `AddBytes` are the two halves of the unlocked
`+=`, `IndexBlocks`, the eviction with one step per file (`EvictStart`,
`EvictOne`, `DropIndex`, `EvictEnds`), `Finish` the finally clause. `SaveShard`
and `Dedup` are `_enqueue_shard` on the generation thread, the latter between
the look at the file system and the `setdefault` that follows. `Restart` may
come anywhere; the next process has only the files, one of which may be
unreadable. A shard file is named by its blocks; temporary files, reading a
shard back, the exact-cache files and the age that orders eviction (left to
choice) are not modelled. `MaxStores` and `MaxDiskFaults` are bounds.

### Generation thread

`queue` is the bounded request queue, `rq[r]` the queue each caller reads,
`hand` the items of one poll, `active` the requests the thread answers, and
`waiting`, `prompt`, `rows` the three places of the batch generator. A row is
named by its request, and `uid[r]` is the number the code matches rows and
requests by, which starts again at 0 with every generator. `pc` follows one
iteration of `_run`: `poll`, `insert` per item, `flush` before a prompt with
embeddings, `step`. `Decode` leaves to choice which rows end and how long a
prefill takes (`MaxChunks`). Faults: a step, an embedding or an insert that
raises, the stop of the thread, and the idle release (a matter of time, hence
counted with them). `harm` is history: what was dropped, and what was lost.
Not modelled: `_run_speculative` and `_run_diffusion`, start-up, the text of
tokens; a timeout of the token queue is `Leave`.

### Model store

The event loop stands still while a model is loaded or unloaded; `loop` says
where (`stop`, `join`, `create`, `ready`, or `release` for the route that puts
`release_kv` with a blocking `put`), and threads go on meanwhile. `at[h]` is
where a request is: between `loaded` and `calling` it reads
`response_generator` again, a stream on the loop and a whole answer in the
executor. Each generator has its queue, its thread (`worker`), `stopped` and
the request it serves; a thread whose join timed out goes on beside the next.
`LoadModel` fails by choice. A key is `<<model, adapter>>`, with the path
"default" and the adapter to inherit.

Abstractions: requests are served one at a time; no token is counted (`Round`
is a round with tokens, the last ones or not); a `release_kv` item does nothing
but take its place in the queue; a client that gives up is in `GenerationLoop`;
what makes `generate` raise besides a failed load and a full queue is left out;
the 256 threads of the executor are not counted. `Generators` bounds the loads.

## 3. Runs

| Run | Instance | Asks |
|---|---|---|
| `kanban_one_process` | two loops, one process, two faults of any kind, two stages, 3.7 million states | until something other than a crash happens the claim is an exclusive lease and the fleet implements `TaskLease`; done and blocked are final; no failure is lost from the count, retries stop, no alert is lost; without faults a task runs once, and otherwise each further run has a fault of its own |
| `kanban_liveness` | one loop in each of two processes, one fault, 185 000 states | every alert settles: done at the executor, or blocked |
| `kanban_claim_race` | two processes, no fault | *violated*: see findings |
| `oms_venues` | paper: two coroutines, three orders of up to two units that may all fill, four position objects; live: two orders, one fault; seven parent orders at both venues; 1.7 million states | nothing lost, books agree after any fills; no end is short, overbooking is bounded, what ended is noticed; parents execute what they say |
| `oms_all_calls` | all operations at once, 210 000 states | ownership of orders in flight, `OrderLifecycle`, a stop ends locked |
| `oms_stop` | one caller, two symbols, syncs, GTC and FOK orders, 165 000 states | types; a stop leaves the venue flat |
| `oms_phantom`, `oms_live_missed` | | *violated*: see findings |
| `apc_tiers` | pool: two rows, three blocks; with a disk tier, removals and failed steps, with a tensor limit above the pool and one of two, and undisturbed without a disk tier; disk: one writer, four shards, one of them above the cap, two faults; store: four calls, two generators, a queue of one; 850 000 states | pool: the queue is the unused blocks, blocks in use are kept, `LruCache`; disk: in flight, count, at rest, index, writes settle; store: coherence, answers by the model asked, waiters known, the loop comes back |
| `apc_faults` | pool with a disk tier: two blocks, every disturbance, 1.4 million states | lookups stay exact |
| `apc_leak` | removal during prefill | *violated*: see findings |
| `generation` | three requests, two slots, one fault, both modes, 580 000 states | whoever is answered has a row, tokens stay apart, nothing vanishes, every request ends, once |

`oms_venues` and `apc_tiers` check components that share no variable: a first
step chooses one of them, and only that one moves. So each behaviour is one of
a single component, and nothing is claimed of their combination. An engine is
created with one adapter. A process usually has the pool and the disk tier
together; what the second does to the first is `DiskTier`, and the blocks a
harvest hands over are, for `ApcDisk`, any prompt whose blocks are not indexed.

**Why these bounds.** A race on a claim or a count takes two loops; two stages
have one boundary between them; two failures reach the limit of two with one
retry in between (`kanban_liveness` has a limit of one to stay small: there the
retries that matter come from reclaimed tasks); two faults allow one in the
recovery from another. The life of an order is disturbed by one other
coroutine; three orders are one in flight, one resting and one done; two units
make a partial fill and a fill larger than the opposite position, which turns
it around. A fill that opens a position takes an object of each book, so four
objects let a position go flat and open again: in `oms_venues` second and third
fills happen, which add to a position, reduce it, turn it around and open it
again, each reached by TLC when its absence is asserted. Only GTC orders are
there, the ones that can rest; FOK is in `oms_stop`. Two symbols make a stop
with one flatten order left to send. Two live orders are enough for a trade to
go to the wrong one, and two units for a partial fill and a trade booked on top
of it; an old trade, which belongs to no order, is in `oms_live_missed`
(`Past`), not in `oms_venues` (`NoPast`). The parent orders make shares that
round up, a bucket without volume, a last slice that is smaller, and a retry
that gives up. Three blocks are the fewest that make a linked queue with a
first, a middle and a last element, prompts of two blocks with a common first
share one block and compete for the rest. `HashLimit` above the pool size lets
blocks be evicted; with one of two (`Limited`) nothing that is cached is ever
evicted, but a harvest passes over a block it may not store and finds a later
one, which TLC reaches; at an exhausted pool without a failed harvest the later
one cannot be there. Without a disk tier (`Alone`) a harvest ends at the full
pool instead. `apc_faults` has two blocks, which are enough for one to be in
use while the other is damaged. The shards are two single ones, the two
together and one that shares nothing, with a cap of two so that a third write
evicts, and three bytes for the two together, which are left alone above the
cap; one writer is the default. Two slots and three requests let one wait, one
with embeddings force a flush, and one release make an orphan. In the model
store two requests share a path and differ in adapter, a third names another
model, an unload comes any time; the queue of one is full at once; and one load
while a model is in memory makes the old and the new generator.

**Fairness.** `KanbanFleet!FairSpec`: the loop and heartbeat threads are
scheduled, statements end, worker functions return, and a heartbeat nobody
refreshes grows old, since time passes. Nothing is assumed about a restart of a
process that died, and every fault is bounded, so `AlertSettles` rests on the
other process reclaiming the task. `OmsEngine!FairSpec`: an await on the venue
ends (the paper venue sleeps and reads) and the event loop runs what is ready;
no caller is assumed to call anything. `OmsLive!LiveFairness`: the worker's loop
sleeps and goes on whatever a round raised; the exchange need not move.
`GenerationLoop!FairSpec`: the thread goes on, and a handler reads what it is
sent; nobody has to submit, leave or release. `ApcDisk!DiskFairness`: a writer
goes on with what it has and takes what is queued. `ModelStore!StoreFairness`:
the loop goes on when what it waits for is there, threads are scheduled and
loads end. `MCApcTiers` assumes the last two each for the behaviours of its own
tier, since it never takes the steps of the others. The other runs check safety
only.

**Deadlock** is checked in the runs of the pool alone. The others switch it off:
an instance is really at its end when every task or request is settled, or a
bound on rows, ids, stores or generators is reached, and callers may stop
calling. That the model store can stand still for ever is a matter of
`LoopComesBack`.

**What is not claimed.** `HasLease` is about one process with crashes: a stalled
process, a dead heartbeat thread or an operator's `block_task` may leave a
worker with a task it has lost, by the design of the board. `NothingIsLost` and
`BooksAgree` are about submits and cancels. After `sync` the two books share
objects, so the portfolio no longer adds up (`oms_phantom`), and an abandoned
coroutine leaves an order SUBMITTED. `StopFlattens` has one caller: with two, an
order in flight when the stop reads its positions fills after it, and the lock
comes last. `QueueIsFree` and `KeptAlive` fail once a harvest has raised or the
pool was reset under the thread, so they are checked and proved without these
two disturbances. `NoEndIsShort` is about the orders a poll or a trade ended,
not about those that `submit_order` or `cancel_order` did, and about quantities
only: a trade of another order, or an old one, may fill an order and its own
trade is then dropped. `DoneIsNoticed` leaves out an order that ends with a
status the adapter has no case for: it stays open for ever. Only vwap has a
bound at the live venue. `RetriesStopAtLimit` and `RerunsArePaid` hold in one
process. `IndexLeadsToFile`, `CountCoversFiles` and `AtRestWithinCap` have one
writer, and the first ends where a store indexes a file that was evicted
meanwhile. The
properties of the generation thread name the harm that takes them away:
`AnsweredHasRow` an early `release_kv` without serialized requests,
`NoRequestVanishes` that and a failed embedding. `AnsweredByAsked` excludes calls whose model went before they
reached its generator, and `LoopComesBack` the stop of a thread whose queue is
full.

### Findings

* `kanban_claim_race`: `claim_task` does not look at the row count of its
  UPDATE; a second process whose SELECT came before returns the same task and
  runs it, against "Atomically claim" (`kanban/board.py:211`).
* `oms_phantom`: `emergency_stop` syncs and then closes; its fills are applied
  twice to the shared object and the portfolio ends with the opposite position.
* `oms_live_missed`: an order that fills as it is submitted would go from
  SUBMITTED to FILLED, which the table does not allow; the exception makes the
  adapter reject it, the worker never polls it, and its trade is booked to no
  order or to another one, against "so that none is missed"
  (`oms/order_sync/hyperliquid_worker.py:27`).
* `apc_leak`: `BatchGenerator.remove` drops the batch of a single prefilling
  request with the blocks its lookup acquired; they stay referenced until the
  pool is cleared, against "Caller must release the blocks"
  (`apc/manager.py:438`).

Met while modelling, without a run of their own:

* the executor stage reports "Order submitted successfully" without submitting
  (`ai_trader/runtime/kanban_bridge.py:125`);
* with two processes a lost update of `failure_count` puts a blocked task back on
  offer (`kanban/board.py:281`);
* an exchange status without a case in `_hl_status_to_state` keeps an order open
  for ever (`oms/execution/hyperliquid/adapter.py:408`);
* a shard larger than `APC_DISK_MAX_GB` empties the directory of all others and
  stays until the next write (`apc/disk_store/base.py:241`);
* the router goes on sending child orders after the lock
  (`oms/routing/router.py:106`), where `oms/circuit/kill_switch.py:18` says that
  the lock blocks new orders;
* the paper venue cancels the shared `Order`, then `cancel_order` moves it to
  CANCELLED again and raises, so the caller is told of an error when the cancel
  has worked;
* `cancel_algo` overwrites a parent that was FILLED with CANCELLED; twap,
  iceberg and liquidity seeking end PARTIAL_FILLED with nothing filled; shares
  rounded up may exceed the total (11 units in 7 buckets send 12); at the live
  venue nothing is seen on children, so liquidity seeking does not end and an
  IOC iceberg loops without suspending;
* with fewer slots than `prefill_batch_size` (8) no prompt is ever admitted
  (`generate/batch/generator.py:598`);
* with a full queue (64 by default) `stop_and_join` blocks the event loop for
  ever when the thread has already seen `_stop`
  (`engine/generation.py:188`); a request put on the queue of a stopped
  generator is never answered and keeps its executor thread (`:287`);
* a shard queued twice is counted twice (`apc/disk_store/saver.py:467`); a
  failed write leaves its temporary file until the next start; eviction may
  take the head of a chain before its tail, where `base.py:241` says
  "tail-first".

## 4. Proofs

Each proof module extends its component and proves, for all values of the
constants that satisfy the named assumptions (sets of any size, any bound):

* `KanbanFleet_proofs`: `FleetTypeCorrect` from
  `IInv == TypeOK /\ HandInv /\ OfferedBelowLimit`. `HandInv` says that a loop
  past its claim holds an existing row and that a row not yet created has no
  failures; without it `fail_task` could raise the count of a row that
  `create_task` then offers. It holds for any processes and any faults, but
  `OfferedBelowLimit` is about the column, which a lost update lowers. Under
  `SingleProcess`, and until something other than a crash happens, `FleetLease`
  and `FleetSingleRunner` follow from `LeaseInv`: the lock admits one loop
  between the two statements, the row selected is still `todo`, and the row of a
  working loop is in progress, its own, and kept fresh by a heartbeat thread
  that is alive. On the same invariant rest `FleetTerminalIsFinal`, since
  `complete_task` and `fail_task` write without looking at the row, and
  `FleetImplementsLease`, one step simulation per action with
  `reclaim_stale_tasks` as any number of revocations at once.
  `FleetNoLostFailure` needs one process but no absence of faults (`CountInv`:
  the count read by the holder of the lock is still the row's); with it the
  column is the number of calls of `fail_task`, and `FleetRetriesStop` follows:
  a task for which it was called `failure_limit` times is never offered again.
  `FleetAlertNotLost` needs neither: `AlertInv` says that a loop about to
  complete has left an open task of a later stage behind, or holds an executor
  task whose function has run. `FleetExactlyOnce` (one process, no fault yet) is
  the longest of them: `OnceInv` makes a task the only one of its alert and stage
  and its creator a task that will not run again. `FleetRerunsArePaid` (one
  process, every fault) counts chances: a run still to come is in the hand of a
  loop (`Hands`) or loose (`Loose`: on offer, or in progress with nobody who
  beats for it). The runs had, the hands and the loose row are together at most
  one more than the faults (`PaidInv`), since a step turns one of these into
  another and only a fault makes a new one.
* `OmsEngine_proofs`: `EngineInvariant` proves
  `IInv == TypeOK /\ OrderInv /\ TaskInv /\ InFlightIsOwned`, from which
  `EngineTypeCorrect` and `EngineOwnsInFlight` are immediate and
  `EngineImplementsLifecycle` is a step simulation. `OrderInv` is needed since
  a cancel may pick any order of the venue: none of these is in flight.
  `FillIsSignedAddition` is about the operator: `Position.apply_fill` in its
  three branches is addition of signed quantities and keeps a position well
  formed. These allow every call and assume `ConstantsAssumption` only.
  `EngineLosesNothing` excludes the two calls that do lose an order: a caller
  cancelled while it waits leaves its order SUBMITTED, and nobody registers the
  children of an algorithm. `EngineBooksAgree` (any number of submits,
  cancels and abandoned submits) is where `FillIsSignedAddition` is used:
  `BooksInv` says that the books have objects of their own, and a fill adds the
  same to both and to the sum of the fills. `EngineStopFlattens` (every call, one
  caller) has the largest invariant, `FlattenInv`: objects are shared between
  the books only and for one symbol; while a stop runs clean, whatever the
  venue holds is on its list or is being closed by the order it waits for, which
  is as large as the position; once locked, nothing brings a position back.
* `OmsLive_proofs`: `LiveNoEndIsShort` and `LiveOverbookingIsBounded` from
  `LiveInv`, which relates each order to the status it has at the exchange, to
  what was filled of it there and to the polls still to come in this round:
  every trade has at most `LiveQty` units, an order that works is not booked past
  its quantity, and one the worker gave up had ended at the exchange with no more
  filled than is booked. Any orders, quantities, past trades and faults; nothing
  is said of which trades were booked.
* `OmsAlgo_proofs`: `AlgoParentIsTrue` from the types, the existence of the
  bucket in hand and `ParentIsTrue` itself, for any algorithm, parameters and
  venue. `AlgoExecutesWhatItSays` adds `ExecutionBounded`: what was executed and
  carried over before bucket b is `Within` the first b shares, each rounded up by
  half a unit, and the child of a bucket stays within them with its own; for
  iceberg and seek, a child or the rest of a slice is no more than what is left
  of the order. `WithinLimit` turns this into the bound on the units, for any
  weights and any number of buckets.
* `ApcPool_proofs`, with a disk tier or without: `PoolTypeCorrect` and
  `PoolLookupIsExact` under every disturbance, `PoolKeepsAlive` under
  `Undisturbed`. Its invariant adds to the
  types and the table that the links are those of some sequence of exactly the
  blocks without a user (`FreeLinks`, `IsQueue`) and where the thread is
  (`RecordedIsHeld`, which allows a harvest its gaps, `PrefixIsRecorded`,
  `LookupOrder`). A block with a user is
  then never the head, hence never evicted. A count of holders (`CountTake`,
  `CountGive`) connects the references with the slots of the batch.
  `PoolQueueIsFree` shows that `FreeQueue`, which walks the links from the head,
  returns this sequence (`WalkIsUnique`, `QueueIsRead`): unlinking, appending and
  popping keep the queue whole wherever a block is taken out.
  `PoolImplementsLru` is the step simulation by `LruCache`, where the queue is
  the sequence itself and `table` and `ref` are what they are in the pool.
* `ApcDisk_proofs`: `DiskTypeCorrect`, with the bound of the queue, and
  `DiskInFlightIsPending` for any number of writers; `DiskIndexLeadsToFile`
  under `OneWriter`, from `IndexInv`: what the index names is there, or is the
  file a writer has just unlinked and is about to drop. `DiskCountCoversFiles`
  and `DiskAtRestWithinCap`, also under `OneWriter`: with `CoverInv` the count
  and what the writer is about to add cover the files, and by `RestInv` an
  eviction ends either with the count under the cap or with no file but the
  shard just written. No size is assumed to fit: one file above the cap may be
  left, alone.
* `GenerationLoop_proofs`: `TypesHold` with `HandOk` (active and hand together
  stay within the slots); `RowsAreBounded`, `AnsweredHaveRows` and
  `AnswersAreApart` from `BatchInv`, whose `UidsOk` says that no other active
  request has the uid of a row, which is what makes restarted uids harmless;
  `AnswersEndOnce`, `RequestsStay` and `OthersAreNotCut` from `MailInv` and
  `CutInv`, which follow each request from the queue to the last message.
* `ModelStore_proofs`: `StoreStaysCoherent`, `AnswersAreAsked` and
  `WaitersStayKnown` from `StoreInv`. `LoopInv` says for each place the loop may
  be held up at what is in memory; `GenInv` that a queue has only calls that
  wait for that generator, each once, that a thread ends only when told, and
  that it is the current one's unless a join timed out; `CallInv` that a call
  which has loaded its model and was not passed finds it in memory.

**What the hypotheses exclude.** `SingleProcess` excludes what
`kanban_claim_race` exhibits, two boards on one file that run a task twice, and
with it the lost update of the failure count. The two sets of `Calls` exclude operations after which the property
is false, as said above. `OneCaller`: an order another caller has in flight
while a stop reads the positions fills after it. `OneWriter` is
the default of the code; with two, `_disk_bytes +=` loses an addition and an
index may be written after an eviction. `Undisturbed` excludes a harvest that
raises inside a loop of the pool and a reset from another thread. All of these
are satisfied by the passing run that checks the property.

**Sums and walks.** The community modules add by recursion over subsets and
`FreeQueue` by recursion over numbers, and an induction over them is beyond the
prover, since the library's induction theorems take an operator. Here each is an
argument by a least counterexample instead: a set of sets of shards or buckets
for which the claim fails has a member that is least under inclusion
(`LeastSet`), a set of positions a least one (`LeastPlace`), by the library's
theorem on well-founded relations, which takes none. From it follow that the
recursion has a solution and only one (`SumIsUnique`, `WalkIsUnique`), what one
element contributes (`BytesTake`, `SumTakes`) and the bounds.

**Only model-checked** are the liveness properties (`AlertSettles`, `StopLocks`,
`DoneIsNoticed`, `WritesSettle`, `RequestsSettle`, `LoopComesBack`): they need
ENABLED, which is out of the prover's reach. Every other property of a passing
run is stated by a theorem. One theorem has no run: `OthersAreNotCut` says that
until a generator is dropped only requests whose handler gave them up are
cancelled.

## 5. Not modelled, and what is left

More than half of the repository's 178 000 lines are tensor code, one family of
models after another, and most of the rest are text formats, indicators,
front ends and batch programs. They keep no state that two actors share, and a
definition for them would be arithmetic on arrays or a property about strings,
so the share of the implementation the modules cover stays small by nature.
`PROJECT.json` gives the reason for every component. What would still gain from
a model, in this order:

1. `OmsBook`: `_process_fill` with the breakers' counters, and what a reduce-only
   order is worth when two callers close one position.
2. `OmsRisk`: the rate window, with the orders other rules refuse.
3. `GridEngine` with the strategy runtime: levels, order table, a stop from
   inside one's own task.
4. `_run_speculative` as a second thread of `GenerationLoop`; reading shards
   back in `ApcDisk`, with the eviction between index and open.
5. `MarketBars` and the MCP client.
6. Proofs for several processes: what is left of the lease when another process
   claims too; for several writers: by how much the count of bytes can be short.
