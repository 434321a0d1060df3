# Formal models of direct-index

TLA+ models of the direct-indexing tool in `direct_index/`: what its commands do
to a brokerage account and to the tax-lot ledger kept beside it, checked with TLC
on small instances and, where stated, proved with TLAPS for every size.

The tool keeps two records of the same shares. The broker knows what the account
holds; `state/lots.json` knows in which tax lots. Nothing ties them together but the
order of a few statements in `cli.py`, so most properties here are about that
order: what an order, a partial fill, a timeout, a crash or a dividend does to the
agreement of the two, and what `reconcile` can repair.

## 1. Inventory

| Component | State it keeps | Operations | What makes it correct |
|---|---|---|---|
| Trading commands (`cli.py`) | the process: ledger object, account snapshot, plan, current order | `rebalance --execute`, `reconcile --apply`; read-only: `targets`, `status`, `lots`, `fetch-holdings`, dry runs; paper: `set-prices` | every executed share is recorded once; nothing is ordered on books known to be wrong |
| Reconciliation (`tax/reconcile.py`) | none (works on the ledger) | `diff_positions`, `apply_reconciliation` | after it, the ledger's counts are the broker's, or nothing changed |
| Tax lots (`tax/lots.py`) | lots per symbol, id counter; `state/lots.json` | `load`, `save`, `record_buy`, `record_sell`, `remove_shares`, `apply_fill`, lot selection | ids are unique, counts move by what was asked, HIFO minimises the gain, basis never moves between lots |
| Rebalance engine (`rebalance/engine.py`) | none | `blend_targets`, `plan_rebalance`, `drift_report` | plans are executable, move towards the target, do not churn, do not overspend |
| Paper broker (`broker/paper.py`) | cash, positions, quotes; `state/paper_account.json` | `get_account`, `get_prices`, `execute`, `set_prices`, `deposit` | cash and shares move together; no short positions |
| IBKR adapter (`broker/ibkr.py`, `broker/base.py`) | the connection; the order being waited for and its reports | `connect`, `disconnect`, `get_account`, `get_prices`, `execute` with deadline and cancel | a fill reports what executed; no order is left behind; no order is waited for without end |
| Index providers (`indexes/`) | download cache | fetch, parse, normalise weights | weights sum to one over what was published |
| Configuration (`config.py`) | none | parse and validate TOML | only usable settings get through |

Interactions. A command is a sequential process. `rebalance --execute` loads the
ledger, fetches targets, reads the account and the prices, plans, compares ledger
and account, and then, trade by trade (sells first), sends an order, waits for a
terminal state, applies the fill to the ledger object and saves the file.
`reconcile --apply` loads, reads, compares, corrects in memory and saves once.
The broker runs concurrently with all of it, and so does the rest of the world.
Nothing keeps two commands from running at once but the gateway, which takes one
connection per `client_id`; the ledger file has no lock.

Hard behaviours: a crash between any two steps, inside the save too; orders that
execute in pieces, late or never; the account read at the start being stale when
its plan is carried out; tolerated differences; executions reported after the status that ends their order;
a connection lost while an order works; a ledger loaded before another command
changed it; an error in the middle of a loop whose earlier rounds have taken effect; text order of lot ids; rounding.
`PROJECT.json` lists these hazards at their lines with the properties that cover
them.

## 2. Modules

| Module | Models |
|---|---|
| `ShareCounts` | What the program decides from share counts alone: comparison, tolerance, correction, order of trades. |
| `TradingSession` | The two commands that change something, against a live broker, with crashes, timeouts and outside movements. The ledger is a share count per symbol. |
| `TradingSession_proofs` | Type correctness; the inductive invariant `Books` and the safety theorems. |
| `IbkrSession` | The same commands seen from inside the IBKR adapter: connection, portfolio items, execution reports, statuses and the deadline. Implements `TradingSession` under an orderly gateway. |
| `IbkrSession_proofs` | The refinement, and what is left of the books under any gateway. |
| `ConcurrentCommands` | Several processes on one ledger file and one account. |
| `ConcurrentCommands_proofs` | What overlapping commands still guarantee, for any number of them. |
| `ShareLedger` | Abstract: what the ledger promises about share counts and its file. `LotLedger` implements it; `TradingSession` uses no more. |
| `LotSelection` | `select_lots` with its three policies, `_consume`, the gain estimate. |
| `LotLedger` | The ledger object and its file, lot by lot; implements `ShareLedger`. |
| `LotLedger_proofs` | Which lots sales and corrections take, for any lots; that ids stay unique; the refinement of `ShareLedger`. |
| `RebalancePlan` | Blending and planning as operators, in exact integer arithmetic. |
| `PaperRebalance` | Plans carried out by the paper broker, run after run, with prices, deposits and targets changing in between. |
| `PaperRebalance_proofs` | What a planned trade guarantees for all numbers, and a whole rebalance over any symbols. |
| `PaperFiles` | The commands against the paper account: its state file beside the ledger file, and a crash at any step. |
| `PaperFiles_proofs` | Type correctness, how far crashes drive the files apart, and that no money is lost. |
| `IndexSources` | From a configuration and published holdings files to blended targets. |
| `IndexSources_proofs` | What the targets guarantee for any configuration and files. |
| `SumLemmas` | Sums and products over finite sets, for the proofs. |
| `MCTradingSession`, `MCIbkrSession`, `MCConcurrentCommands`, `MCLotLedger`, `MCPaperRebalance`, `MCPaperFiles`, `MCIndexSources` | Instances for TLC. |

How they fit, from the top: `IbkrSession` implements `TradingSession`
(`ImplementsSession`); `TradingSession` does to the ledger only what `ShareLedger`
allows (`UsesShareLedger`), and `LotLedger` provides that (`CountsShares`); all three
are proved.
`TradingSession` trades on any plan with `ValidPlan` (no sale above the holding), and
`PlanSellsHoldingsOnly` proves it of `RebalancePlan!Plan`. `ConcurrentCommands` takes
the session's commands as processes beside one another, in bigger steps.
`PaperFiles` is the same commands over the other broker: its orders fill at once and
whole, but its account is a file that can be torn. Session, `ConcurrentCommands` and
`PaperFiles` decide by the same operators (`ShareCounts`).

### TradingSession

`pc` is where the command is; each action is a stretch of code without a call to
the outside and without a write.

| Action | Code |
|---|---|
| `OpenLedger` | `LotLedger.load` at the start of both commands; a file that does not parse ends the command (`main` turns `ValueError` into exit 1) |
| `ReadAccount`, `ReadAccountFails` | `_fetch_targets`, `get_account`, `get_prices` |
| `NothingToTrade`, `RefuseOutOfSync`, `StartTrading` | the empty plan, the reconcile check (exit 3), the loop's start |
| `PlaceOrder`, `OrderDone`, `OrderTimesOut` | `IBKRBroker.execute`: `placeOrder`, the wait loop, the deadline with `cancelOrder` |
| `ApplyFill` | `LotLedger.apply_fill`; raises when a sale exceeds the lots |
| `TruncateLedger`, `WriteLedger` | the two effects of `write_text` in `save` |
| `NothingToReconcile`, `StartCorrecting` | `cmd_reconcile` with the report of `diff_positions` |
| `Correct` | one round of `apply_reconciliation`'s loop; `remove_shares` raises for a short position |
| `Crash` | the process ends at any step; an open order stays at work |
| `Execute`, `CloseUnfilled`, `StrayExecutes`, `StrayCloses`, `OutsideMovement` | the brokerage and the world (external) |

`opened` (the ledger as loaded) and `outside` (movements since the account was
read that the command did not order) are history variables: no guard reads them.
`acct` and `order` keep their last value after a command ends, for the properties
only. An order that times out may have been closed at the broker by then: the
process has just not seen it. Which plan is made is left open, except for what
`ValidPlan` says; a plan may be made whatever the targets, so no property depends
on them. The file's first creation is the case of an initial ledger of zeros.

### IbkrSession

`TradingSession` takes an execution to be known when it happens, and the account read
to be the one held. `IbkrSession` keeps all of its variables and adds what lies
between: `conn`, the reports on their way (`wire`) and received (`seen`), `terminal`,
`expired`. `order.done` is what has executed, whoever knows of it.

| Action | Code |
|---|---|
| `Connect`, `Disconnect` | `connect`, and `__exit__` with whatever ends the command |
| `ReadPortfolio` | `get_account`: the later of two items with one symbol stays |
| `SendOrder` | `execute` up to the wait loop |
| `ReturnFill` | the loop left by `isDone()`: the fills added up, or none and an error |
| `GiveUp` | the loop left by the deadline: `cancelOrder` and `TimeoutError` |
| `RaiseDisconnected` | the `ib` property without a connection; `main` does not catch its `RuntimeError` |
| `BookFill` | `apply_fill` with the `Fill` that was returned |
| `Local`, `StartCommand`, `Die` | steps of `TradingSession` as they are |
| `Fill`, `ReportExecutions`, `ReportStatus`, `DeadlinePasses`, `LoseConnection`, `Elsewhere` | the gateway, the clock and the brokerage (external) |

Two things about the outside are chosen at the start and never change. `orderly`:
whether the gateway reports every execution before the final status. `other`: items
of the portfolio that share a symbol with a holding, as an option does. `truth` and
`late` are history.

### ConcurrentCommands

| Action | Code |
|---|---|
| `Open` | `LotLedger.load`, before the `with` block |
| `Connect` | `__enter__`; waits for no one, a refusal is a `Stop` |
| `ReadAccount` | `get_account`; `reconcile` leaves the `with` block with it |
| `StartTrading`, `PlaceOrder`, `BookFill` | the rebalance, its check and its loop |
| `Reconcile` | `apply_reconciliation`, on the ledger as loaded |
| `Truncate`, `Write` | `save`; two of them may leave a text that does not parse (`Garbled`) |
| `Stop` | every way to end: done, refused, timed out, an error, a crash |
| `Execute`, `ExecuteAdrift` | the brokerage (external) |

That the gateway refuses a second connection under a client id in use is a property
of the gateway, assumed by `Connect`. Both commands of an installation use the id of
its configuration. `--skip-reconcile-check` and outside movements are left to
`TradingSession`, a connection lost while a rebalance holds it to `IbkrSession`; an
order executes whole. A surplus whose price and basis are both
unknown is not booked (`basis`). `untracked` names the symbols whose last fill was
lost with its process, or whose order executes after the process has gone; it is
history, as are `first`, `start` and `ran`.

### LotSelection and LotLedger

A lot is `[id, sym, qty, cost, day]`. `lot_id` is the text `SYM-<n>`; among lots of
one symbol only `<n>` matters, and `IdBefore` compares it as text, as the sort keys
do. A selection is a set of sales, one per lot, and `_consume` matches them by id.
`select_lots`'s running `remaining` is expressed by what the lots before a lot hold
(`Taken`). `saved` is history: every lot that was ever saved. `Close` is any way a process ends, so the error exits of `record_sell`
and a crash in the middle of `save` (`phase = "saving"`) are the same step.

### RebalancePlan and PaperRebalance

Amounts are integers: weights and the drift band in units of `1/W`, quantities in
the smallest fraction an account holds (`Quantum` of them is the tradable step, so
that holdings off the grid occur), prices per fraction. Comparisons are multiplied
out, so nothing is rounded but what `_round_shares` rounds. The program divides
`Decimal`s at 28 digits; differences in the last digit are outside the model.
`MakePlan` is `cmd_rebalance` up to the plan, `Execute` is `PaperBroker.execute`.
`DriftReport` is `drift_report`, which `status` prints and which reckons by a formula of
its own, with a missing price as zero; `Skips` is the plan's list of skipped symbols.
The planner's lot preview and the ledger are left out here: they change neither
the trades nor the account.

### PaperFiles

| Action | Code |
|---|---|
| `Open` | `LotLedger.load` and `PaperBroker._load`; either file may not parse. `set-prices` reads only the second |
| `NothingToTrade`, `RefuseOutOfSync`, `StartTrading` | `cmd_rebalance` up to the loop; `rebalance_unchecked` is `--skip-reconcile-check` or `block_rebalance = false` |
| `Execute`, `TruncateState`, `WriteState` | `PaperBroker.execute`, the last two its `_save` |
| `ApplyFill`, `TruncateLedger`, `WriteLedger` | the fill in the ledger, and `LotLedger.save` |
| `NothingToReconcile`, `Reconcile`, `SetPrices` | the other two commands |
| `Crash` | the process ends at any step |

`opened`, `skipped` and `trade` (after its command ended) serve the properties
only. The account reports no cost, so a surplus is booked at the quote or skipped.
Quotes are positive, as a market's are; `set-prices` itself does not check.

### IndexSources

One command's way to its targets: `LoadConfig` (`_parse`), `FetchNext` (one round of
`_fetch_targets`, the download's copy in the cache included), `BlendTargets`. The
outcome is `rejected`, `failed` or `done`. A cell of a file is what the parsers tell
apart: a number, empty, not a number, or past the end of its row; a ticker
(alphanumeric or, as BRK.B, `Dotted`), the name of a cash line, or blank. The
providers differ where it matters: a blank
ticker is skipped by the CSV provider and ends the iShares file; an unreadable
weight fails the one and drops the row of the other; a dotted ticker is a security
to the one, and dropped with the cash lines by the other. Weights are integers over
their total, so that normalising and blending are exact; rows of one ticker are
added in `Normalized`, which the code does only in `blend_targets`.

## 3. Runs

| Run | Asks | Result |
|---|---|---|
| `session_safety` | Do the books stay right whatever stops a command? | pass, 1.35 million states |
| `ibkr_session` | Is the adapter what the session takes it for, what is left when it is not, and what can keep a command? | pass, 0.23 million states |
| `session_crash_file` | Does the file survive a crash? | refuted |
| `session_dust_sale` | Does a checked rebalance ever oversell the lots? | refuted (it does) |
| `session_partial_timeout` | Do partial fills never desynchronise the ledger? | refuted |
| `ledger_lots` | Are the right lots taken, ids never reused, and counts those of `ShareLedger`, over reloads? | pass, 75 thousand states |
| `concurrent_commands` | What do the commands guarantee when they overlap? | pass, 1.53 million states |
| `paper_runs` | Are plans executable, convergent, bounded in cash and as `status` says? | pass, 2.2 million states |
| `paper_overspend` | Do sales always fund the buys? | refuted |
| `paper_files` | How far can crashes drive the two files apart, and what becomes of a torn one? | pass, 2.7 million states |
| `index_blend` | Do the targets spend what the configuration allocates, on what the files list? | pass, 0.29 million states |
| `index_partial` | Does every equity in the files get a target, or is the file refused? | refuted |

Passing properties, in words. `TypeOK` and `AdapterTypeOK` are the type invariants;
the second also says that, while `execute` waits, what it was told and what is on its
way are what its order executed, nothing being left from the order before.

- `CompletedRunKeepsBooks`: a rebalance that ends normally has recorded exactly
  what its orders moved. `OnlyLastFillCanBeLost`: one that ends in any other way,
  or is still running, misses at most what the last order executed.
  `OrdersFollowSavedBooks`: because no order goes out before the previous fill is
  in the file. These are counted against the broker's holdings, less what others
  moved, not against the program's own idea of its fills.
- `SalesCoveredWithinTolerance`, `CleanRunStaysInSync`: the reconcile check is made
  once, on a snapshot; it still covers every later trade of the run, up to the
  tolerance, and a clean run passes the next check.
- `ReconcileIsAllOrNothing`: corrections are made in memory symbol by symbol, in any
  order (`sorted` in the code), and reach the file together or not at all. A short
  position is where it could break: `remove_shares` raises for it in the middle
  of the loop (`Correct`), and the corrections of all other symbols are lost
  with it, until the position is gone. Saving in the loop, as `rebalance` does, would
  break it.
- `UsesShareLedger`: the commands load only what can be read, save only what a ledger
  object holds, and keep no object from one command to the next.
- `ImplementsSession`: when the gateway is orderly and no two items share a symbol,
  every step of the adapter is a step of `TradingSession` or none at all, a lost
  connection being no worse than a crash. `OnlyLateReportsAreMissing`: under any
  gateway and portfolio, a rebalance that ends normally misses exactly the executions
  reported after the status that ended the wait. `isDone()` can precede the last of
  them, and nothing reads them afterwards: these are the losses to expect.
  `MisreadAccountIsNotTraded`: an item that overwrites another makes the account
  wrong, and the reconcile check stops the rebalance, if the ledger is right.
- `CommandsEndOrAwaitAReply`, `TimedOutOrdersStop`: the deadline and the cancel do their
  job, with reports that are late or never come and connections that break: no order
  keeps a command for ever. What can is a request to the gateway, as the code sets no
  deadline for `qualifyContracts` (`ibkr.py:108` and `127`) and `reqTickers` (`114`); a
  command that does not end waits for one of these, with the connection up.
- `RebalanceSavesTruth`: whatever other commands load, correct and save meanwhile,
  each ledger that a rebalance saves is in sync with the shares then held.
  `OverlappingRebalancesKeepBooks`: rebalances alone keep the books of an installation
  that was in sync, fill by fill, although one may have loaded the ledger before
  another traded: it finds out by the check. `SurplusIsBookedOnce`: two reconciles
  that find one surplus do not add it twice, since each saves the whole of what it
  corrected. A reconcile beside a rebalance has no such guarantee: it may save a ledger
  from before the trades, and the next check reports it.
- `SaleMinimisesGain`: among *all* ways to take the shares from the lots, HIFO's has
  the smallest gain, and the estimate foretells it. `CorrectionFollowsDates`:
  exact retirement, by date under FIFO and LIFO. `SplitSalesCompose`: selling in
  two fills leaves the lots that one fill would. `LotsIdentified`: `_consume`, which
  finds lots by id alone, finds the right ones. `BasisIsPermanent`: a lot that any
  save wrote keeps its symbol, cost and date in every later process and only loses
  shares, and after it is sold out its id is not given to another lot; the counter in
  the file sees to that, over sales, reloads and crashes (numbering after the last lot
  in the file would not).
- `CountsShares`: `LotLedger` implements `ShareLedger`.
- `PlanIsExecutable`, `NoOvershoot`, `PlanSettles`, `OverspendIsBounded`: trades can
  be executed in order, approach the target, leave nothing to repeat, and spend
  beyond the cash only by what was left unsold (and by what allocations
  beyond 1 ask for: `_parse` lets them sum to 1.0001, `Excess`). `DriftIsExplained`:
  `drift_report` and `plan_rebalance` reckon by formulas of their own, and take a missing
  price in different ways: the one values the position at zero, as the account itself
  does, the other leaves it out (`base.py:36` tells callers not to take a missing price
  as zero). Still a trade goes against the drift that `status` shows; a drift that
  reaches the band is traded or listed as skipped, so that the user is told; and what
  is listed is not traded, and beyond the band unless it has no price.
- `CrashesDoNotAddUp`: every crash can lose a fill to the ledger, but a rebalance
  starts only on books in sync, so the loss of one crash is repaired, or refused,
  before the next can happen: the files never differ by more than the tolerance
  plus the last order. `WorthIsConserved`: trading keeps the account's worth at the
  prices it was loaded with. `DamageIsNotOverwritten`: a torn file is an error to
  every command, and none makes it an empty account.
- `TargetsAddUp`: the weights of all targets sum to the allocations, whatever was
  dropped on the way. `TargetsMatchListings`, said of the files and not of what the
  providers make of them: no file is left out that cannot be read, and a symbol has a
  target exactly when a file lists it (`Listed`: with a weight above zero; in an
  iShares file among the alphanumeric equities above the disclaimer). The listed symbols
  are not all of an index: what else is lost of a file is the subject of
  `PartialDataIsRefused`, which is refuted. `UnitOfWeightsIsIrrelevant`: a file in
  percent and one in fractions blend.

### Bounds

- Sessions: two symbols, order and execution sizes 1 and 2 (so that an order fills
  at once, in pieces or in part), two commands (one leaves damage, a stray order or
  a torn file, the other meets it), one outside movement, tolerance 1 (a match that
  is not equality, next to a mismatch). One symbol suffices for the refutations that
  need no second one.
- Adapter: one symbol, since at most one order is waited for at a time and items
  collide within a symbol; sizes 1 and 2, two commands, items of 2 and 4 beside a
  holding of 1 (within the tolerance and beyond it). Outside movements are left to
  `session_safety`; the proofs allow any number of everything.
- Lots: one symbol, as lots are kept per symbol and only the id counter is shared;
  three lots, two costs, two dates and sizes 1 and 2, which gives every tie of cost
  and date, split lots and sales over several lots; ids start at 9 (`FirstSeq` is the
  counter before) so that `X-10` and `X-9` meet; two processes, of which one may tear
  the file.
- Concurrent commands: two processes, two symbols, three commands (one ends while
  another runs and a third starts), orders of 2 against a tolerance of 1, so that one
  unsaved order is a difference that shows, initial counts 1 to 3 (in sync with and
  without a difference, and out of sync).
- Paper: two symbols with prices 1, 2 and 5 or none, holdings on and off the
  trading grid, three index sets (invested in part, overlapping, one that drops a
  symbol), a band and a minimum trade that both matter, two rebalances.
  `paper_overspend` needs three symbols: two a little overweight, one short.
- Paper files: two symbols, orders of 1 and 2, two prices or none, tolerance 1 and
  three commands: one crashes, one meets the damage, one follows. Cash may go
  negative, so one initial amount will do.
- Indexes: up to two indexes over every pair of providers, and files of up to two
  rows out of nine kinds, so that each kind stands alone, first and last. W is 4:
  allocations of half, a quarter and too much. `Epsilon` is 0, as no multiple of a
  quarter lies within 0.0001 of one; two indexes are fetched in turn, so that the
  second can fail after the first succeeded.

Symbols are declared symmetric in `session_safety` and `concurrent_commands`, and the
processes in the latter; `ibkr_session`, which checks liveness, declares nothing.
`CHECK_DEADLOCK FALSE` everywhere: when the bounded commands are used up, nothing
has to happen.

### Fairness

`IbkrFairSpec` assumes weak fairness of the program's own steps where it does not wait
for a reply (the process is scheduled, so the wait loop comes round every second; in
`AwaitsReply`, a request without a deadline is on its way and nothing is assumed), of the
passing of the deadline
(the clock advances and `order_timeout` is finite), and of the broker acting on a
cancel request it received. It assumes no report: an execution or a status that was
sent may stay on its way for ever, and the connection may break at any time. Fills,
crashes, outside movements and the user are not forced either. One `WF` of the
program is enough since a command is sequential: no two of its steps compete for ever.
`ib_async` bounds connecting by a timeout of its own, and the index downloads have one
(`ishares.py`), so these are fair.

### What the refuted runs show

1. `session_crash_file`. `save` truncates the file before it writes; a crash in
   between leaves a ledger that no command can load. "persist after each fill to
   stay crash-safe" (`cli.py:147`) holds for the fills, not for the file.
2. `session_dust_sale`. The check accepts a broker position larger than the ledger's
   by up to the tolerance; liquidating it sells the broker's quantity; the lots do
   not cover it; `apply_fill` raises after the shares are gone, and *none* of the
   sale is recorded. `lots.py:46` rules that request out.
3. `session_partial_timeout`. What an order executed before its deadline is in the
   account, but the `TimeoutError` carries no fill.
4. `paper_overspend`. Three holdings 7, 7, 6 at price 1, targets 30/30/40 %, band
   10 %, no cash: the two overweights are within the band, the third is not, two
   shares are bought with nothing sold, and cash is -2. The sells being first does
   not make them enough. `OverspendIsBounded` says how far it can go.
5. `index_partial`. `_row_to_constituent` returns `None` for an equity whose weight
   is not a number (`ishares.py:172`), and for one whose ticker is not alphanumeric
   (`ishares.py:161`), BRK.B among them. The index is then blended without it, and a
   position in it is sold. The CSV provider raises for the same cell and keeps the
   same ticker, and `base.py:19` asks all providers not to return partial data.

## 4. Proofs

Every property of the passing runs but the two of liveness is also a theorem. The
theorems hold for any constants that satisfy the named ASSUMEs: amounts, prices and
allocations as the code admits them, any number of symbols, commands, lots, indexes and
rows, as long as each is finite, sentinels outside the values they are mixed with.

- `TypeCorrect` (and `PaperTypeCorrect` for the paper account). Its one difficult
  part is that counts in memory and in the file stay natural numbers: `ApplyFill` by
  its guard, `Reconcile` since `CannotRetire` excludes negative counts. `TypeInv` adds
  what typing needs: there is an order while one is awaited, and an account snapshot
  from `decide` on.
- The session's safety. None of the properties is inductive by itself; `Books` is.
  `SnapshotInv`: before trading, file, memory and history agree and nothing was
  moved. `FillInv`: between orders memory and file have recorded everything; while an
  order is awaited or applied, both miss exactly what it has executed; during a
  save, memory misses nothing and the file misses that order's shares or is torn;
  after the end, one of these remains. `PlanInv`: a symbol still to be traded is
  untouched in memory, and its order is within the snapshot's holding.
  `ReconcileInv`: during the correction loop a symbol waits as it was loaded, its delta
  still right, or is settled, and the file is untouched; therefore what is saved after
  the loop is corrected. `FailureKeepsBooks` treats all error exits
  and crashes at once, outside movements are neutral by definition of `outside`,
  and each remaining action has its own step. The six properties follow.
- `UsesShareLedgerHolds`. The session's ledger variables, with `pc` for the phase, take
  only steps of `ShareLedger`; the invariant it needs is `Closed`, that no ledger object
  outlives its command.
- `IbkrSession_proofs`. `AdapterInv` is the session's type invariant, that reports add
  up, and `ReportInv`: a final status belongs to a closed order, and behind an orderly
  gateway nothing is on the wire by then. With it `PlainStep` maps each step of the
  adapter to one of the session, under `Plain`, and `PlainSessionsKeepBooks` carries
  the session's main theorem over. Without `Plain` the session's theorems say nothing,
  so the two properties have invariants of their own: `LateInv` is the accounting of
  `Books` with `late` in it, from the shares really held, and `CheckedInv` keeps the
  snapshot that passed the check.
- `ConcurrentCommands_proofs`. `Exclusive`: from the account it reads to its last save,
  a rebalance holds the connection, so nobody else orders. `Checked`: therefore its
  ledger object follows the shares held, but for the order in hand, whatever happens
  to the file. `RebalanceSavesTruth` follows. `FileInv` says the same of the file
  while only rebalances run; the difference is what the connected process has in hand.
  `SurplusInv`: with reconciles alone, every count, in memory or in the file, is the
  first one or the one held.
- `PaperFiles_proofs`. `CrashesDoNotAddUp` speaks of the two files only, and a step
  that saves one of them says nothing unless memory is right; `Files` adds that. On
  books in sync an order goes out; from then until `apply_fill` the ledger object
  lacks this order and nothing else (`Due`); before each save the object about to be
  written is near the other file. Whatever ends the command leaves files and last
  order as they are (`ExitKeepsFiles`), a correction brings no symbol further apart
  (`CorrectionIsNear`). `DamageIsNotOverwritten` needs one more thought: a torn ledger
  does not stop `set-prices`, which must then not reach a step that saves it
  (`TornLedger`).
- `WorthIsConservedHolds` rests on `MoneyInv`: the account object and, when it can be
  read, its file are worth what the command found, at the prices it found, which no
  step of a command that trades changes. A trade moves one term of the sum and the cash
  by the same amount (`SumChange`).
- `SumLemmas`. Quantities, worths and weights are sums over sets, which the community
  modules define by recursion. Citing an induction rule with an operator for a
  parameter is beyond the provers; `SubsetInduction` states it with a set of sets,
  which they can instantiate. From it: the recursion defines a function, the order of
  the elements does not matter (`SumElement`), and what the components need: one
  term changes (`SumChange`), bounds, scaling, adding up a table by rows or columns
  (`SumSwap`), or class by class (`SumByClass`); and the same for products.
- `LotLedger_proofs`. `LotOrder`: under every policy the sort keys put lots of distinct
  ids in one strict order, although ids are compared as text, `X-10` before `X-9`. So a
  sale takes an initial segment of the lots (`SegmentTaken`, `UsedUpInOrder`): lots are
  used up in order, and all but one of those taken are taken whole. `TakingIsAWay`,
  that this takes what was asked, and `SalesCompose`, that what a second sale finds
  are the lots after the segment, give `SplitSalesComposeHolds`. `HighestCostFirst`
  compares HIFO's choice with any other lot by lot: of a lot dearer than the last one
  taken it takes at least as much, of a cheaper one no more, which is
  `SaleMinimisesGainHolds`. `LedgerInv` says that ids are at most the counter and
  distinct, in memory and in the file, and that nothing is in memory when the ledger is
  closed; with it, the two action properties and `LotsIdentifiedHolds` are statements
  about single steps. `SavedInv` adds for `BasisIsPermanentHolds` that memory and file
  know every saved lot: their counter is past it, and if it is there it is what remains
  of it (`Remains`), which a sale keeps and a purchase cannot disturb. For `CountsSharesHolds` each operation changes one symbol's sum.
- `PaperRebalance_proofs`, first for one trade: sales are capped, a trade stays between
  the old gap and zero and closes it to less than a tradable step, and it leaves no
  further trade; lifted to plans in `PlanSellsHoldingsOnly`. Then for a rebalance.
  `RunInv`: the worth of the account is the one the plan was made for, since each trade
  exchanges cash for shares at one price, and every symbol either waits with its holding
  as it was or has been traded as planned. The gaps of the plan are therefore the gaps
  of the account at any time, and the single trade's lemmas give `NoOvershootHolds` and
  `PlanSettlesHolds`. `DriftIsExplainedHolds` compares the two formulas of the drift and
  asks why an untraded symbol is not traded (`UntradedIsListed`). For `OverspendIsBoundedHolds` the gaps of all symbols are added
  up: W times the cash is what all holdings together miss of their targets, less
  `Excess`, and of an overweight symbol nothing is missing beyond its `Slack`. While
  sales remain, cash has not fallen.
- `IndexSources_proofs`. What a provider hands on has weights that add up to their total
  (`FetchIsGood`, by `SumByClass`, as rows of one ticker are added), and scales with the
  file's unit (`FetchScales`). The blend of such results distributes what is allocated
  (`BlendAddsUp`: a table of indexes by tickers, added up both ways), has a ticker exactly
  when one of them has it (`BlendCountsAll`; of a provider and its file,
  `FetchCountsListed`), and scales when one result does, that result's total being a factor
  of everyone's denominator (`BlendScales`). `SourcesInv` ties them to the command:
  `fetched[k]` is what the k-th provider makes of its file, none of them failed, and the
  targets are the blend of all. `AnyUnitOfWeights` is `UnitOfWeightsIsIrrelevant` for
  every unit, percentages included.

Only model-checked: liveness (`CommandsEndOrAwaitAReply`, `TimedOutOrdersStop`), since the
proofs would have to reason about fairness. The refuted properties have their
counterexamples from TLC.

## 5. Not modelled

- Commands that only print (`targets`, `status` but for its figures, `lots`,
  `fetch-holdings`, dry runs, `reconcile` without `--apply`), formatting and argument
  parsing: they change nothing.
- Settings other than the indexes. `config.py` checks each by itself against a range;
  the settings are constants here and the ranges the ASSUMEs. One is not checked:
  `order_timeout` may be infinite in TOML, and then `execute` waits for ever; or not a
  number, and then it cancels every order at once, as `monotonic() < nan` is false.
- Prices, cash and average fill price of the IBKR adapter. They choose the plan, which
  `TradingSession` leaves open, and the cost of a lot, which `LotLedger` leaves open.
- The paper account used by several commands at once. It has no connection that would
  keep them apart, so there is nothing to hold: `set-prices` writes back the positions
  it loaded and so undoes a trade made meanwhile.
- File errors other than a torn write or an unreadable text; a file edited by hand;
  the directory `save` creates.
- The smoke script, the tests, and the modules that only re-export (`__init__.py`) or
  choose a class by name.

## 6. How it was built, and what could follow

In this order: the session, the ledger, the plan and their theorems, being the tool's
main promise; the paper account's files and the index sources; then the layer below the
session (`IbkrSession`), the other side of its use of the ledger (`UsesShareLedger`),
and several commands at once. What is left:

1. A session over lots instead of counts. It would join `LotLedger` to the session by
   more than their shared interface: that the lots a plan previews are those a fill
   consumes unless the ledger changed in between.
2. `ConcurrentCommands` with partial fills and `--skip-reconcile-check`.
3. A theorem that joins `IndexSources` to `RebalancePlan`: the blend is a target that
   the plan's assumptions admit, over the blend's denominator.
