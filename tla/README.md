# A verification development of cryptarch

cryptarch is an asyncio trading engine: three strategy layers that share one
Postgres database, a dry-run simulator, pre-trade safeguards, and a pool of
exchange clients. This directory holds TLA+ modules translated from its source,
the TLC configurations that check them on small instances, and TLAPS proofs.
Paths below are relative to `src/cryptarch/` unless they start with `src/`.

## The system

| component | state it keeps | operations | interacts with |
|---|---|---|---|
| `db/store.py`, `db/schema.sql` | tables `position`, `fill`, `system_state` (one row), `funding_event`, `oi_observation` | one SQL statement or transaction per method | everything |
| `core/safeguards.py` | none | `check_order` | called by L1 and L2 with totals they read |
| `strategies/l1_executor.py`, `l1_funding.py` | rows of layer `l1_funding` | scan, close loop, entry loop; two legs per position | store, pool, simulator or exchange |
| `strategies/l2_executor.py`, `l2_cascade.py` | rows of layer `l2_cascade`, with metadata that drive exits | refresh, pending rungs, filled rungs, scan and place | store, pool, simulator, OI signal |
| `strategies/l3_executor.py`, `l3_tail.py` | rows of layer `l3_tail` | open a strangle, roll, expire | store, Deribit client |
| `core/allocator.py`, `strategies/allocator_executor.py` | `system_state.dynamic_alloc_*` | compute and write a target mix | L1, L2 scans; read by L1 and L2 entries |
| `strategies/l2_signal.py` | table `oi_observation` | observe, percentile, prune | L2, allocator |
| `exchanges/pool.py` | client per key, lock per key | `get`, `close_all` | every scan, in parallel |
| `core/engine.py`, `__main__.py` | last reconciliation | run executors in turn with a 90 s timeout, reconcile, sleep | all |
| `sim/realistic.py` | none | market and limit fills over a book snapshot | L1, L2 |
| `core/risk.py`, `core/attribution.py` | none | reports | called only by their tests |
| `exchanges/*client*.py`, `core/config.py`, scripts | - | I/O, constants, offline tools | - |

There is one process. The engine awaits one executor at a time, so two executors
never interleave; what makes the code hard is elsewhere:

* `asyncio.wait_for(run_once(), 90)` may cancel a run at any `await`, an exchange
  or database call may raise at any `await`, and the process may die (a supervisor
  restarts it). What a run had written stays, its locals are gone, and the next
  run, of this or another layer, starts on the result.
* A position is several writes: the row, one fill row per order, the state, for
  L2 the metadata as well.
* Decisions rest on snapshots: `halt_reason`, the held pairs or symbols, the open
  positions and the totals of a ladder are read once per run.
* Rows being closed are in no query: `closing` is neither summed nor listed.
* The scans use the client pool from many tasks at once.

## Modules

| module | models | notes |
|---|---|---|
| `Store` | `db/store.py` | tables as variables, one operator per method; extended by the executors |
| `Safeguards` | `core/safeguards.py` | `CheckOrder`, the conjunction of the guards |
| `L1Executor` | `strategies/l1_executor.py` | `StartRun` .. `RunDone` follow `run_once`; `CreateEntry`, `SubmitSpot`, `SubmitPerp`, `SettleEntry` follow `_open_position`; `BeginClose`, `CloseCleared`, `CloseRefused`, `SubmitSpotClose`, `SubmitPerpClose`, `SettleClose` follow `_close_position` |
| `L2Executor` | `strategies/l2_executor.py` | `RefreshRung`; `KeepRung`, `CancelRung`, `FillRung`, `MarkRungOpen`, `UpdateMetadata`; `KeepFilled`, `SellRung`, `CloseRung`; `DesignLadder`, `PlaceRung`, `RefuseRung`, `RecordPending`, `LadderDone` |
| `Simulator` | `sim/realistic.py` | `MarketBuy`, `MarketSell`, `LimitBuyFills`, `LimitSellFills`: pure, over a book of a few levels |
| `RungPrices` | the prices of `l2_cascade.py` and `l2_executor.py` | one rung against every order book; each visit is one step |
| `L3Executor` | `strategies/l3_executor.py`, `l3_tail.py` | `HoldStrangle`, `RollStrangle`; `ChooseExpiry`, `SizeStrangle`, `CreateStrangle`, `RecordCall`, `RecordPut`, `MarkStrangleOpen`; `TargetExpiry`, `Contracts` are the pure parts; `Tick` moves the clock |
| `OISignal` | `strategies/l2_signal.py`, the score of `l2_cascade.py` | `Observe`, `ObserveAndPrune` over the table by age; `Score` as an exact fraction |
| `Allocator` | `core/allocator.py` | `ComputeTargetAllocation` in exact fractions |
| `AllocatorExecutor` | `strategies/allocator_executor.py` | the turns of the observer and of the allocator, `Sleep`, and `Restart` under other settings |
| `System` | `core/engine.py`, `__main__.py` | Layers 1 and 2 in turn over one store; timeouts, reconciliation, halt, crash |
| `ExchangePool` | `exchanges/pool.py` | `get` by any number of tasks, failed and cancelled starts, `close_all` |
| `ClientRegistry` | what the pool promises | the abstract specification `ExchangePool` implements |
| `Store_proofs` | - | lemmas about the statements, the sums and least elements, which the proofs of the layers share |
| `L1Executor_proofs`, `L2Executor_proofs`, `L3Executor_proofs` | - | theorems about the layers |
| `ExchangePool_proofs` | - | theorems about the pool, and that it implements `ClientRegistry` |
| `RungPrices_proofs` | - | theorems about fills, market orders and profits in the dry run |
| `System_proofs` | - | the two refinements, the profits, and what the layers promise carried over to the whole |
| `AllocatorExecutor_proofs` | - | the arithmetic of tilt and score; theorems about the observer and the allocator |
| `MC*` | - | values of the constants for TLC |

**Where a step begins and ends.** Nothing else runs in the process while an
executor is suspended, so reads not separated by a write of the same run are one
step with the decision they feed. Every write is a step of its own, and between
two steps `Interrupt` can end the run: it stands for the exception, the timeout
and the crash, which leave the same state behind. In L1 `pc` names the await the
run is suspended at, in L2 the loop it is in or the write that comes next. The
observer and the allocator write once per run, so a run of theirs is one step.

**What the environment does** between two runs of a layer is `BetweenRuns`: the
engine reconciles the counter, the allocator writes an allocation, other layers
open (within the total cap) and close positions, fail and halt, an operator clears
a halt, and for L2 the process restarts under other settings, with a symbol
listed or not.

**How the parts are composed.** `System` takes the two layers as they are
(`INSTANCE L1Executor`, `INSTANCE L2Executor`) over the same store, gives each its
turn in the order of `__main__.py`, and puts the engine's reconciliation, the
operator and the death of the process around them. That each layer on its own was
given a large enough environment is then a refinement: `SeenByL1` maps the store
to what Layer 1 can tell of it (rows of Layer 2 keep their size and whether they
are summed, and lose what only Layer 2 reads), and `L1Spec` says that every
behaviour of the system is one of `L1Executor`; `L2Spec` is the same for Layer 2.
`System_proofs` proves both, so that what is proved of the safety of a layer holds in
the system too (liveness does not carry over: `System` has no fairness). In the
same way `RungPrices` opens up what `L2Executor` leaves to chance (whether a rung
fills, which exit is due, the sign of what it realizes), and `AllocatorExecutor` what
the layers see as `DynamicAllocs` and as a score.

**What is abstracted.** Dollars are whole units. A pair's prices and funding are
one of three outlooks: attractive, decayed, quiet. In the executors a book, score or
ticker is a choice between the actions it leads to. A client order id is the
position and a tag: the code builds it from a uuid kept with the position.
`halt_reason` is the position it names. A rung's size is its share of the budget,
rounded down to units so that a ladder adds up to the budget (`UpTo`). The shares
are the constant `Share`: of `Share[l][l]` parts the first `n` of `l` rungs get
`Share[l][n]`, which any `size_decay` defines, and `MCShare` does for 3/2. Powers of
a symbolic number are thereby kept out of the module, since the provers know nothing
of them. `L2Assumption` keeps a unit small enough that no rung rounds to nothing. `cash_usd`,
`daily_pnl` and `cumulative_pnl` move together and are one field. The 48 h window of
`recent_client_order_ids` covers every run. Allocations and scores are exact
fractions, where the code has floats and the columns round to four digits; the
table of observations is kept by age, and ages past the retention are one.

## Runs

| run | instance | shows |
|---|---|---|
| `l1_orders` | 2 rows, 2 pairs, simulated orders, another layer, allocations below and above | no pair entered twice; a half done hedge that a run settles halts it; a closed row has both exits and a row put back has none; total and layer caps; the counter never overstates |
| `l1_live` | fair, 2 rows, 2 pairs, live orders with lost answers, a raised allocation | the exchange takes each order at most once; a decayed pair is left, also after its exit was refused |
| `l2_rungs` | 3 rows, 1 symbol, ladder of 2 rungs, another layer | one ladder per symbol; a ladder checked against totals read once keeps the cap |
| `l2_alloc` | 2 rows, 2 symbols, ladders of 1 and 2 rungs, a raised allocation | sizing and safeguard agree; layer cap; a refreshed row is final |
| `l2_config` | fair, 2 rows, two designs, versions that do not list the symbol | fills only at the current design; old rungs go away; every managed rung is sold |
| `rung_prices` | books of up to 2 levels a side over 5 prices, 4 rungs | a profit stays one after slippage, a stop never earns; no fill is a gift; a smaller order is never treated worse |
| `l3_strangles` | fair, 3 rows, 2 underlyings, 3 days, 2 expiries of which one is listed later, Layer 1 beside it | one strangle per underlying; open ones have both legs; no expiry already due is chosen when the loaded chain has one in range; due ones are rolled |
| `pool` | fair, 3 tasks, 2 keys, 4 clients, 2 lost starts | one start per key, a lock is held from within `get`, waiters return, refines `ClientRegistry` |
| `allocation` | fair, 1 symbol, a window of 3 ticks, 3 mixes of base allocations | what triggers a ladder; what pruning takes, and that it happens; what is written stays near the settings and follows them |
| `system` | 2 rows, 1 pair, 1 symbol, ladders of 2 rungs | the booked profit is what the closed rows realized; the system implements both layers' specifications |

Bounds. Rows are the bound on how long a history can be, and no action reuses
one. Two rows let a position meet every other (same pair, other pair, other layer);
L2 needs three for a complete ladder and a rung of another one. The pool needs a
third task to have a waiter behind a waiter, and two losses so that a retry can
fail too. Caps are chosen so that entries are refused and admitted in the same
run. In `l1_live` positions of 4 and 2 stand under a static allocation of 4 and a
dynamic one of 6: the exit of the second is refused while the first is held and
fits when that has left. `MCL1Executor` has the bounds of the steps: in both runs of
Layer 1 no scan is `quiet`, which for a held pair is as good as attractive and for
another as decayed (`ScanDecides`); in `l1_live` the counter, which Layer 1 never
reads, is not reconciled, and the orders of the first position are answered, while
those of the second fail and get lost in every way (`LiveSpec`).

Days are few: the target is 3 and the threshold 2 days away, so that one tick
makes a strangle due, and an expiry is met above, within and below the range. Of
the expiries 2 and 5 the chain loaded at the start has only the first, since an
expiry is listed 4 days ahead; the second is listed from day 1 on, and seen only
after a restart.
A book of two levels is the least in which an order is walked, exhausts a level or
the side, and is refused for depth or for slippage; prices are around the one spot
so that the rungs, the take-profit and the stop-loss all lie among them; the sizes
compared with the rung's are a third, a half and all but one dollar of it. The
history of `allocation` has up to three rows in its window, the cold start ends at
two, retention is a day of three ticks; every other cycle prunes, every other
recomputes. Scores are in halves, so that a layer has no signal, some or all of
it. Two of the three mixes add up to one, and the third is the default of
`config.py`, which does not. `system` has one design; changing it
is `l2_config`.

### Disagreements

Two runs each state what the repository says and end in a counterexample:

| run | the repository says | the code does |
|---|---|---|
| `l2_filled_rung_exits` | `l2_executor.py:478` sold regardless | not without the metadata a cut run never wrote |
| `allocator_gets_to_write` | `config.py:43` the dynamic allocator can push higher | the default allocations add up to 1.15, so `compute_target_allocation` raises in every cycle and nothing is ever written |

Others are visible in the same modules and have no run of their own.

Halt and exits.
* `schema.sql:16` says no new entries until cleared; the halt is read once per run
  (`l1_executor.py:134`), before the loop that sets it.
* `src/README.md:121` has the capital at risk within a half; an unfilled exit stays
  `closing`, out of every sum and every query, so that exposure can exceed the cap
  (`l1_executor.py:511`).
* A halt set by Layer 1 also stops the exits of Layer 2 (`l2_executor.py:174`).
* A run cut between the two legs leaves one filled and no halt, where
  `l1_executor.py:355` speaks of leaving it halted for review; a second half done
  position overwrites the halt reason of the first (`l1_executor.py:362`); an
  `opening` row whose legs never filled is exited all the same
  (`l1_executor.py:454`).
* An exit is held against the static cap where its entry used the dynamic one
  (`l1_executor.py:474` passes no `layer_cap_usd`). `l1_executor.py:484` will "retry
  next cycle", and `l1_funding.py:176` closes a position whose funding is gone; but
  with a static allocation of 2, a dynamic one of 6 and positions of 4 and 2, both
  exits are refused for ever, each for the other's sake. `DecayedPairIsLeft` therefore
  has `ExitFits` among its conditions. (It needs settings other than the defaults,
  under which the allocator never writes.)
* In live mode a lost answer can leave half a hedge without a halt: `_submit_leg`
  answers False alike when the exchange refused the order, took it, or took it and
  the row was written (`l1_executor.py:432`). If that happens to one leg and the
  other is refused, the run sees no leg filled and does not halt, although the
  exchange, and perhaps the store, has half a hedge; `HalfDoneHalts` is about dry
  run for this reason.

Layer 2.
* `should_refresh_ladder` (`l2_cascade.py:285`) is about spot moving away from the
  rungs; it takes the absolute drift, so that a fall of more than 3 % withdraws the
  rung 4 % down which it was about to reach.
* A sale the simulator refuses for depth or slippage is only tried again: in a book
  that stays thin a stop-loss does not stop. What is sold is `size_usd` dollars of
  bids, while what is recorded is `size_usd / fill_price` of base
  (`l2_executor.py:524`): the amounts differ by the profit or loss.
* A rung cut between its fill row and `mark_position_open` is later cancelled at $0
  (`l2_executor.py:231`); the id of an exit ends in its reason, so a retry for another
  reason sells twice (`src/README.md:171`); the minimum trade size is compared with a
  ladder and not with its rungs (`config.py:52`).
* A symbol dropped from `DEFAULT_SYMBOLS` takes its filled rungs out of management
  until it is listed again.
* Any failed fetch scores 0, which is below the hold threshold and so withdraws
  every waiting rung.

Signal and allocator.
* The cold start counts observations and not hours: 24 of them, which
  `l2_signal.py:26` takes for a day, are 12 minutes of a 30 s cycle. The observer
  registers "whether or not L2 is firing" (`__main__.py:196`) only within the branch
  that enables Layer 2.
* The floor of half the base (`allocator.py:154`) is undone by the normalisation that
  follows it: two strong signals leave the third layer
  with 38 % of its base. A rationale of
  `near_baseline` can still raise a layer by a tenth of the tilt.
* The executors take the larger of static and dynamic allocation, where
  `allocator_executor.py:4` says the dynamic one is used in place of the static; so a
  layer tilted down loses nothing, and no executor reads that of Layer 3.

Layer 3.
* `l3_tail.py:35` has a fresh strangle at 45 days; the nearest expiry may already be
  below the roll threshold of 30. With 29 and 64 days to go the first is the nearer
  to 45, and every cycle closes a strangle at a full loss to buy the same one. The
  option chain is the one loaded at the start of the process, so the gaps grow
  while it runs, and an expiry in range that was listed since is not seen
  (`deribit_options.py:84`). The clock is read for the choice, again for the size and
  the row is written after more awaits (`l3_executor.py:155`, `183`, `202`): an expiry
  just far enough away when chosen can be due when its row is inserted.
  `OpensClearWhenLoaded` is what does hold: of the loaded chain, on the day of
  the choice.
* A strangle passes no safeguard, and with the default settings one of 45 days at $10
  a day has about $450 of premium where the layer is allotted $300
  (`src/README.md:122`); its contracts are rounded to the nearest tenth where
  `l3_executor.py:190` says down, so it may exceed the theta budget.

Elsewhere: a client whose start failed is in no cache and is never closed
(`pool.py:3`); nothing adds a new row to the counter that `store.py:185` calls
accurate; `simulate_market_buy` is called by no executor.

## Fairness

* `WF(StartRun)`: `run_forever` starts a run every cycle. A halted layer returns
  at once, and no operator is promised, so liveness properties assume `~Halted`.
* `WF(RunStep \/ Interrupt)`: a run moves on or is cut after 90 s.
* L1, `SF(BeginClose(p))`: the exchange is not down in every single scan.
* L2, `RunsComplete`: not every run is cut; `SF(SellRung(p, "closed_time"))`: an
  aged rung finds bids deep enough if tried for ever; `SF(CloseRung)`: not every
  run is cut right after a sale.
* L3: as for L2, not every run is cut. The clock is never promised to move.
* Pool: the event loop wakes the head of a lock's queue, and a start ends one way
  or the other (the 90 s timeout sees to it).
* `AllocatorExecutor`: `WF(CycleGoesOn)`, the engine gives every executor its turn
  and then sleeps; `SF(ObserverTurnPrunes)` and `SF(Recompute)`: in the cycles in
  which they are due, the pruning and the write are not cut off or failing every
  single time. Both counts start anew with the process, so the liveness properties
  assume that restarts come to an end (`NoMoreRestarts`); with restarts for ever
  neither holds.
* `System` and `RungPrices` have no liveness properties and no fairness.

## Proofs

Every theorem is for all values of the constants that the named assumptions admit:
any number of rows, pairs, symbols, underlyings, tasks, caps and allocations. The
assumptions stand in the modules that declare the constants, and TLC evaluates each
on the runs. What they say beyond the types of the constants: no position is larger
than a row may be, the rungs of a design have weights, a tilt is at most a quarter,
the window of the signal is no longer than the retention, and the profit a rung asks
for outweighs the slippage of its sale. Two theorems have a hypothesis of their own,
named below.

**The store** (`Store_proofs`). Sums of notionals are cardinalities of sets of
`<<row, unit>>` pairs (`Store!Units`), so that the library's facts about finite sets
give `SumAdd`, `SumOne` and `SumMonotone` without induction; `RiskGains`,
`RiskLoses`, `RiskStays` and their like say what one written row does to a total.
`LeastOf` gives the least of any naturals, which the loops in order of id and the
nearest expiry need.

**Layer 1** (`L1Executor_proofs`). All rests on `ShapeHolds` (`InHand`, `RowInHand`,
`RowsNamePairs`, `ManagedAreLive`), which says what a suspended run has in hand.

* `TypeCorrect`: `Spec => []TypeOK`.
* `CapHolds`: `Spec => []TotalWithinCap`. By itself the cap is not inductive: a
  close takes the row out of the sum, and a refused one puts it back. The
  strengthening `RoomToReopen` says that its room is kept meanwhile.
* `OnePerPair`: `Spec => []OneLivePerPair`. The strengthening `HeldCovers` says
  what `held_group_keys` must still cover at each point of the run: every live
  position during the close loop, the pair being closed too, and later every pair
  still to be visited that has one.
* `TakenAtMostOnce`, `ClosedHasExited`, and the action properties `HalfHedgeHalts`
  and `ReopenedIsUntouched`, from one invariant about orders (`OrdersInv`). The
  exchange may take an order whose answer is lost, so that neither `fill` nor the
  run's `legs` knows of it; what keeps it from being sent again is that no handler
  comes to the same row and side twice. `RowsUntouched` says so of rows no handler
  has come to, and `LegsHold` of the row in hand: what is still to be sent
  (`ToSend`) never was, and the legs the run holds to have filled are so in the store.
  The converse is true in dry run only, where no answer can be lost, and so
  `HalfHedgeHalts`, which needs it, is about dry run.
* `EntriesWithinAllocation`: `Spec => EntryWithinAllocation`. `RowWrites` lists who
  may write a row and what becomes of it.
* `CounterNeverTooHigh`: `Spec => []CounterNeverOverstates`, which is inductive given
  the shape; a close takes out of the sum at least what it takes off the counter
  (`CloseReleases`), the clamp at zero included.

**Layer 2** (`L2Executor_proofs`). `ShapeHolds` says that rows are rungs and never
`closing`, that what a run read of them still holds when it comes to them
(`SnapshotHolds`), and which row and ladder are in hand (`HandHolds`, `LadderHolds`).

* `TypeCorrect`: `Spec => []TypeOK`.
* `OneLadder`: `Spec => []OneLadderPerSymbol`. `HeldCovers` says that a live rung is
  on a held symbol or on one the scan is past, `EarlierRungs` that the rungs on the
  symbol of the ladder in hand are its own earlier ones.
* `TotalStaysWithinCap`: `Spec => []TotalWithinCap`. A ladder is checked against
  totals read before its first rung. `CapInv` says that these, with the cost of all
  the rungs before (`Spent`), are never below the sum of the rows as it is; that the
  sizes add up in spite of rounding is `SizesAddUp`.
* `EntriesWithinAllocation`: the same for the layer's cap (`AllocInv`).
* `RefusalsAreForTotal`: `Spec => []RefusedOnlyForTotal`, if no design is larger than
  the cap on one position (by default 12 % of the bankroll against 25 %). It needs
  that a new row's order ids are unused, which is `OrdersInv`.
* `ClosedStaysClosed`, `FillsAtItsDesign`: the action properties `ClosedIsFinal` and
  `FilledAtCurrentDesign`. Every handler writes a row only in the state in which it
  read it (`RowWrites`), and a rung it may fill has passed the refresh.

**Layer 3** (`L3Executor_proofs`).

* `TypeCorrect`: `Spec => []TypeOK`.
* `OneStrangle`: `Spec => []OneStranglePerUnderlying`. For each underlying the run
  has not decided on, the strangles it read are exactly the live ones (`RunInv`).
* `OpenMeansBothLegs`: `Spec => []OpenHasBothLegs`, where `LegsInv` says which leg
  of the strangle in hand is on record.
* `OpensClear`: `Spec => OpensClearWhenLoaded`, for every calendar, target and
  threshold. `TargetIsNearest` shows that the expiry chosen is in the chain and
  none is nearer to the target; `ChosenClear` keeps what follows of it, on the day
  of the choice (`plan.on`), while the clock moves on to the row.

**The pool** (`ExchangePool_proofs`). `PoolInv` says that a task is in the queue of a
lock at most once, that the queued tasks are exactly those inside `get` for the key,
that only the head starts a client, and that it is in no cell. From it follow
`StartsOnce` (`OneStartPerKey`), `LockStaysLive` (`LockIsLive`) and `NoOneForgotten`.
`PoolImplementsRegistry` is the refinement: a successful start maps to the registry's
step, each other step to a stutter.

**Prices** (`RungPrices_proofs`), for books of any depth, any prices and sizes.

* `TypeCorrect`: `Spec => []TypeOK`. `NoSpreadToEarn`: `Spec => []NoPaperSpread`.
* `NoGiftAtTheFill`: `Spec => FillIsNoGift`, if the profit asked for is no less than
  the tolerance of a fill (by default 1.2 % against 0.05 %). It is about two rounded
  percentages of one price and one book.
* `SmallerNeverWorse`: `Spec => []SmallerFillsToo`, where `LesserSizes` may be every
  size up to the rung's. `Walk` is a recursive function over the number of levels
  taken; `WalkIs` shows that the recursion has a solution and that its value is the
  last account. The library's induction cannot be instantiated here, but `LeastOf`
  (naturals have least elements) gives `StepByStep`, which takes a set instead of a
  predicate and serves for every induction below. `Fair` is invariant along a walk:
  what it has paid on average lies between the best price and every price still to
  come. `Beside` is invariant along two walks down the same levels: they are one walk
  until the smaller order is done, and from then on its average is no worse, because
  what the larger one still takes is, by `Fair`, no better than the average of the
  smaller. `NoWorse` has bids and asks in one argument. `BoundCarriesOver` takes the
  slippage check from the larger order to the smaller one.
* `ExitKeepsItsSign`: `Spec => []ExitHasItsSign`, which is inductive given `Shape`. For
  a profit, the slippage check bounds the sale from below and the assumption that the
  profit asked for outweighs the slippage admitted does the rest
  (`ProfitSurvivesSlippage`); for a stop, `Fair` says that no sale is better than the
  best bid (`StopNeverEarns`). The slippage check is needed: without it a deep walk
  turns a profit into a loss.

**Observer and allocator** (`AllocatorExecutor_proofs`), for all histories, windows,
base allocations and resolutions of the scores:

* `TypeCorrect`: scores stay within 0 and 1, and what is written is an allocation.
  The inductive invariant adds that every symbol has finitely many rows
  (`FiniteRows`), without which they have no number.
* `TriggerHolds`: `Spec => []TriggerMeansLeverage`. Funding and volatility give at
  most 45 of the 60 hundredths, and the ramp of open interest gives the 15 that are
  missing only above the 75th percentile (`RampBounds`, `CascadeBounds`, `ScoreBounds`).
* `WindowKept`: `Spec => WindowSurvivesPrune`, from the assumption that the window
  is no longer than the retention (168 h and 14 days in the code).
* `WritesNearBase`: `Spec => WriteWithinBounds`. After the floors the targets add up
  to at least 1 and at most 3/2 (`SumBounds`): tilts of all layers but one are at most
  half of the whole when `4 * MaxTilt <= Whole`, which `AllocatorExecutorAssumption`
  has from `max_tilt_pp = 0.20`. Dividing by such a sum leaves each layer below its
  tilted target and above a third of its base (`ShareBounds`).

**The whole** (`System_proofs`), for every number of rows, pairs, symbols, designs
and caps that `SystemAssumption` admits; it asks of the constants what the two layers
ask of theirs (`L1Assumed`, `L2Assumed`).

* `ImplementsL1`, `ImplementsL2`: `Spec => L1Spec` and `Spec => L2Spec`. Neither
  refinement can be proved alone: that an entry of Layer 1 is within the cap, which
  is what Layer 2's specification says of its environment, rests on Layer 1's own
  invariants, and these hold only if Layer 2 does no more than Layer 1's environment
  may. `SystemInv` therefore has, together, both layers' `Shape` and `CapInv`, each
  of the store as the layer sees it; the types of the store and `RealizedAddsUp`
  (`StoreInv`); that a run is under way only in its layer's turn (`TurnInv`); and
  that a sale realizes a unit or loses one (`SaleIsUnit`).
* The steps are taken statement by statement. `CreateViews`, `CloseViews`,
  `PhaseViews`, `FillViews`, `MarkViews`, `HaltViews`, `ReconcileViews` say what each
  statement is in either view: the same statement for the layer whose row it is, and
  for the other one that statement, a smaller one or nothing at all. `L1Reads` and
  `L2Reads` say that what a run reads is what it sees. From these `L1Does` and
  `L2Does` have the steps of a run, as that layer's steps and as something the other
  finds done between two runs, and `SystemStep` has those of the cycle.
* `ProfitsAddUp`: `Spec => []RealizedAddsUp`. The gains and losses are cardinalities of
  sets of rows, to which only a close adds (`RealizedSame`, `RealizedAdds`).
* `OnePerPair`, `OneLadder`, `TotalStaysWithinCap`, `TakenAtMostOnce`,
  `CounterNeverTooHigh`: what was proved of a layer and its environment, of both layers
  over the one store (`L1!OneLivePerPair` and so on name the real store, not a
  view). The theorems of the layers are used as they are, through the refinement.
* `V1` and `V2` are the layers' proof modules over the same substitution as
  `SeenByL1` and `SeenByL2` of `System`; that the two agree operator by operator is
  `SeenByL1IsV1` and `SeenByL2IsV2`.

Only model-checked: liveness under fairness, for which the prover has no rules
(`WaiterReturns`, `DecayedPairIsLeft`, `LaddersFollowConfig`, `TimeStopSells`,
`DueStrangleRolls`, `OldRowsArePruned`, `AllocationFollowsSettings`). Every invariant,
action property and refinement that a run checks is stated by a theorem.

## Not modelled

* `core/risk.py`, `core/attribution.py` and the break-even report of `l3_tail.py`:
  sums over rows for a reader; nothing but their tests calls the first two, and no
  state depends on any of them.
* `core/config.py`: its values are the constants of the modules.
* ccxt and Deribit clients: I/O and renaming of fields; that they fail, answer late
  or with an old chain is in the executors.
* Table `funding_event`, which no executor writes, so that the sum Layer 1 reads of
  it when it closes is 0; table `cascade_event`, which nothing uses.
* The CLI, logging, the backtest and probe scripts, the supervisor beyond the
  restart it causes.
* Layer 3 in `System`: it shares with the other layers only the store, and its
  entries pass no safeguard, so no cap of the whole would hold beside it;
  `l3_strangles` has Layer 1's entries beside it instead.
