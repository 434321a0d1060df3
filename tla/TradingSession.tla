--------------------------- MODULE TradingSession ---------------------------
(***************************************************************************)
(* The commands that change something, run one after the other against a   *)
(* live brokerage account: `rebalance --execute` (cli.cmd_rebalance) and   *)
(* `reconcile --apply` (cli.cmd_reconcile), with the order wait loop of    *)
(* broker.ibkr.IBKRBroker.execute, the comparison and the correction of    *)
(* tax.reconcile, and the ledger file of tax.lots.                         *)
(*                                                                         *)
(* The ledger is seen through its share counts, LotLedger.quantity(sym):   *)
(* module ShareLedger states what the lots promise about them, and         *)
(* LotLedger keeps that promise.  The plan is any plan that satisfies      *)
(* ValidPlan, which module RebalancePlan shows of plan_rebalance.          *)
(*                                                                         *)
(* Around the program: the process may die at any step, an order executes  *)
(* in pieces and may close before it is filled, an abandoned order may     *)
(* still execute, and shares move without the tool (dividends reinvested,  *)
(* splits, manual trades, transfers).                                      *)
(***************************************************************************)
EXTENDS ShareCounts

CONSTANTS
  Amounts,        \* share amounts of orders, executions and outside movements
  InitialShares,  \* share counts an installation may start from
  MaxRuns,        \* bound: commands started
  MaxMoves,       \* bound: movements of shares the tool did not order
  Torn,           \* the ledger file after truncation, before the write
  NoAccount,      \* no account snapshot has been read yet
  NoOrder         \* the command has not placed an order yet

ASSUME AmountsAssumption   == Amounts \subseteq Nat \ {0}
ASSUME InitialAssumption   == InitialShares \subseteq Nat
ASSUME BoundsAssumption    == MaxRuns \in Nat /\ MaxMoves \in Nat

VARIABLES
  disk,     \* the ledger file: share count per symbol, or Torn
  held,     \* positions at the broker
  stray,    \* orders no process waits for any more
  pc,       \* where the running command is; "idle" between commands
  cmd,      \* the command last started
  result,   \* how it ended
  mem,      \* the LotLedger object: share count per symbol
  acct,     \* the Account the command read
  todo,     \* trades to execute, or corrections to make: signed quantity per symbol
  order,    \* the order last placed, as the broker knows it
  opened,   \* history: the ledger as the command loaded it
  outside,  \* history: shares moved by anything else since acct was read
  runs,     \* number of commands started
  moves     \* number of outside movements

vars == <<disk, held, stray, pc, cmd, result, mem, acct, todo, order,
          opened, outside, runs, moves>>

\* "rebalance" runs the reconcile check first; "rebalance_unchecked" is run
\* with --skip-reconcile-check or with reconcile.block_rebalance = false.
Rebalances == {"rebalance", "rebalance_unchecked"}
Commands   == Rebalances \cup {"reconcile"}

Trading == {"trade", "wait", "apply", "save", "write"}
Results == {"none", "ok", "refused", "unreadable", "failed", "no_fill",
            "timeout", "oversold", "short", "crash"}

Orders == [sym : Symbols, side : {"BUY", "SELL"}, qty : Nat, done : Nat, closed : BOOLEAN]
Strays == [run : 1..MaxRuns, sym : Symbols, side : {"BUY", "SELL"}, left : Nat, cancel : BOOLEAN]

ASSUME SentinelAssumption == /\ Torn \notin [Symbols -> Nat]
                             /\ NoAccount \notin [Symbols -> Int]
                             /\ NoOrder \notin Orders

Signed(d, n)  == IF d = "BUY" THEN n ELSE -n
SignedAmounts == Amounts \cup {-n : n \in Amounts}

-----------------------------------------------------------------------------
Init ==
  /\ disk \in [Symbols -> InitialShares]
  /\ held \in [Symbols -> InitialShares]
  /\ stray = {}
  /\ pc = "idle" /\ cmd = "reconcile" /\ result = "none"
  /\ mem = NoShares /\ todo = NoShares
  /\ acct = NoAccount /\ order = NoOrder
  /\ opened = NoShares /\ outside = NoShares
  /\ runs = 0 /\ moves = 0

\* The command ends and its memory is gone.  (acct and order are kept until
\* the next command, for the properties to refer to.)
Exit(r) ==
  /\ pc' = "idle" /\ result' = r
  /\ mem' = NoShares /\ todo' = NoShares

-----------------------------------------------------------------------------
(* The commands. *)

\* Mutant: a file that does not parse is taken for an empty ledger.
OpenLedger_TornIsEmpty(c) ==
  /\ pc = "idle" /\ runs < MaxRuns
  /\ runs' = runs + 1
  /\ cmd' = c /\ acct' = NoAccount /\ order' = NoOrder /\ outside' = NoShares
  /\ LET found == IF disk = Torn THEN NoShares ELSE disk
     IN  /\ pc' = "account" /\ result' = "none"
         /\ mem' = found /\ opened' = found /\ UNCHANGED todo
  /\ UNCHANGED <<disk, held, stray, moves>>

\* The user starts a command, which loads the ledger file first.  A file that
\* does not parse is a ValueError: exit 1.
OpenLedger(c) ==
  /\ pc = "idle" /\ runs < MaxRuns
  /\ runs' = runs + 1
  /\ cmd' = c /\ acct' = NoAccount /\ order' = NoOrder /\ outside' = NoShares
  /\ IF disk = Torn
       THEN Exit("unreadable") /\ opened' = NoShares
       ELSE /\ pc' = "account" /\ result' = "none"
            /\ mem' = disk /\ opened' = disk /\ UNCHANGED todo
  /\ UNCHANGED <<disk, held, stray, moves>>

\* Targets, account and prices are read.
ReadAccount ==
  /\ pc = "account"
  /\ pc' = "decide"
  /\ acct' = held
  /\ UNCHANGED <<disk, held, stray, cmd, result, mem, todo, order, opened, outside, runs, moves>>

\* A provider, the connection or a request raises: no order has been sent.
ReadAccountFails ==
  /\ pc = "account"
  /\ Exit("failed")
  /\ UNCHANGED <<disk, held, stray, cmd, acct, order, opened, outside, runs, moves>>

\* The plan is empty: the check is not reached.
NothingToTrade ==
  /\ pc = "decide" /\ cmd \in Rebalances
  /\ Exit("ok")
  /\ UNCHANGED <<disk, held, stray, cmd, acct, order, opened, outside, runs, moves>>

\* There are trades, but the ledger and the broker disagree: exit 3.
RefuseOutOfSync ==
  /\ pc = "decide" /\ cmd = "rebalance"
  /\ ~InSync(mem, acct)
  /\ Exit("refused")
  /\ UNCHANGED <<disk, held, stray, cmd, acct, order, opened, outside, runs, moves>>

\* Mutant: the reconcile check is made but not acted on.
StartTrading_Unchecked(plan) ==
  /\ pc = "decide" /\ cmd \in Rebalances
  /\ ValidPlan(plan, acct) /\ ~Empty(plan)
  /\ pc' = "trade"
  /\ todo' = plan
  /\ UNCHANGED <<disk, held, stray, cmd, result, mem, acct, order, opened, outside, runs, moves>>

StartTrading(plan) ==
  /\ pc = "decide" /\ cmd \in Rebalances
  /\ ValidPlan(plan, acct) /\ ~Empty(plan)
  /\ cmd = "rebalance" => InSync(mem, acct)
  /\ pc' = "trade"
  /\ todo' = plan
  /\ UNCHANGED <<disk, held, stray, cmd, result, mem, acct, order, opened, outside, runs, moves>>

\* IBKRBroker.execute: the market order goes out.
PlaceOrder(s) ==
  /\ pc = "trade" /\ IsNext(todo, s)
  /\ pc' = "wait"
  /\ order' = [sym |-> s, side |-> IF todo[s] > 0 THEN "BUY" ELSE "SELL",
               qty |-> Abs(todo[s]), done |-> 0, closed |-> FALSE]
  /\ todo' = [todo EXCEPT ![s] = 0]
  /\ UNCHANGED <<disk, held, stray, cmd, result, mem, acct, opened, outside, runs, moves>>

\* The wait loop sees the order done and returns a Fill of what executed.
OrderDone ==
  /\ pc = "wait" /\ order.closed
  /\ IF order.done > 0 THEN pc' = "apply" /\ UNCHANGED <<result, mem, todo>>
                       ELSE Exit("no_fill")
  /\ UNCHANGED <<disk, held, stray, cmd, acct, order, opened, outside, runs, moves>>

\* The order leaves the process with its unexecuted part still working.
Abandon(cancel) ==
  stray' = IF order.closed THEN stray
           ELSE stray \cup {[run |-> runs, sym |-> order.sym, side |-> order.side,
                             left |-> order.qty - order.done, cancel |-> cancel]}

\* Mutant: the wait loop has no deadline.
OrderTimesOut_Never == FALSE

\* Mutant: the order is not cancelled.
OrderTimesOut_NoCancel ==
  /\ pc = "wait"
  /\ Abandon(FALSE)
  /\ Exit("timeout")
  /\ UNCHANGED <<disk, held, cmd, acct, order, opened, outside, runs, moves>>

\* The deadline passes before the loop has seen a terminal state (the broker
\* may have closed the order meanwhile): cancel, and raise TimeoutError.
OrderTimesOut ==
  /\ pc = "wait"
  /\ Abandon(TRUE)
  /\ Exit("timeout")
  /\ UNCHANGED <<disk, held, cmd, acct, order, opened, outside, runs, moves>>

\* Mutant: the quantity ordered is recorded, not the quantity executed.
ApplyFill_Ordered ==
  /\ pc = "apply"
  /\ IF order.side = "SELL" /\ order.qty > mem[order.sym]
       THEN Exit("oversold")
       ELSE /\ mem' = [mem EXCEPT ![order.sym] = @ + Signed(order.side, order.qty)]
            /\ pc' = "save" /\ UNCHANGED <<result, todo>>
  /\ UNCHANGED <<disk, held, stray, cmd, acct, order, opened, outside, runs, moves>>

\* Mutant: the ledger is not saved after each fill.
ApplyFill_Unsaved ==
  /\ pc = "apply"
  /\ IF order.side = "SELL" /\ order.done > mem[order.sym]
       THEN Exit("oversold")
       ELSE /\ mem' = [mem EXCEPT ![order.sym] = @ + Signed(order.side, order.done)]
            /\ pc' = "trade" /\ UNCHANGED <<result, todo>>
  /\ UNCHANGED <<disk, held, stray, cmd, acct, order, opened, outside, runs, moves>>

\* Mutant: a sale may take more than the lots hold.
ApplyFill_Oversells ==
  /\ pc = "apply"
  /\ mem' = [mem EXCEPT ![order.sym] = @ + Signed(order.side, order.done)]
  /\ pc' = "save"
  /\ UNCHANGED <<disk, held, stray, cmd, result, acct, todo, order, opened, outside, runs, moves>>

\* LotLedger.apply_fill with the executed quantity; a sale of more shares than
\* the lots hold raises ValueError before anything is saved.
ApplyFill ==
  /\ pc = "apply"
  /\ IF order.side = "SELL" /\ order.done > mem[order.sym]
       THEN Exit("oversold")
       ELSE /\ mem' = [mem EXCEPT ![order.sym] = @ + Signed(order.side, order.done)]
            /\ pc' = "save" /\ UNCHANGED <<result, todo>>
  /\ UNCHANGED <<disk, held, stray, cmd, acct, order, opened, outside, runs, moves>>

\* LotLedger.save: write_text truncates the file, then writes it.
TruncateLedger ==
  /\ pc = "save" \/ (pc = "correct" /\ Empty(todo))
  /\ disk' = Torn
  /\ pc' = "write"
  /\ UNCHANGED <<held, stray, cmd, result, mem, acct, todo, order, opened, outside, runs, moves>>

WriteLedger ==
  /\ pc = "write"
  /\ disk' = mem
  /\ IF cmd = "reconcile" THEN Exit("ok")
                          ELSE pc' = "trade" /\ UNCHANGED <<result, mem, todo>>
  /\ UNCHANGED <<held, stray, cmd, acct, order, opened, outside, runs, moves>>

FinishTrading ==
  /\ pc = "trade" /\ Empty(todo)
  /\ Exit("ok")
  /\ UNCHANGED <<disk, held, stray, cmd, acct, order, opened, outside, runs, moves>>

\* reconcile --apply with nothing to correct.
NothingToReconcile ==
  /\ pc = "decide" /\ cmd = "reconcile"
  /\ InSync(mem, acct)
  /\ Exit("ok")
  /\ UNCHANGED <<disk, held, stray, cmd, acct, order, opened, outside, runs, moves>>

\* reconcile --apply: the mismatches of the report, each with its delta.
StartCorrecting ==
  /\ pc = "decide" /\ cmd = "reconcile"
  /\ ~InSync(mem, acct)
  /\ pc' = "correct"
  /\ todo' = [s \in Symbols |-> IF Matches(mem, acct, s) THEN 0 ELSE acct[s] - mem[s]]
  /\ UNCHANGED <<disk, held, stray, cmd, result, mem, acct, order, opened, outside, runs, moves>>

\* Mutant: each correction is saved, as each fill of a rebalance is.
Correct_SavesEach(s, basis) ==
  /\ pc = "correct" /\ todo[s] # 0
  /\ IF todo[s] < 0 /\ -todo[s] > mem[s]
       THEN Exit("short") /\ UNCHANGED disk
       ELSE /\ mem' = IF todo[s] < 0 \/ basis THEN [mem EXCEPT ![s] = @ + todo[s]] ELSE mem
            /\ disk' = mem'
            /\ todo' = [todo EXCEPT ![s] = 0]
            /\ UNCHANGED <<pc, result>>
  /\ UNCHANGED <<held, stray, cmd, acct, order, opened, outside, runs, moves>>

\* One round of apply_reconciliation's loop: a shortfall is retired; a surplus is
\* booked when the broker reports a cost or a price (basis), otherwise skipped.
\* remove_shares raises when it must retire more than the ledger has, which is
\* when the broker reports a short position: the corrections so far are lost.
Correct(s, basis) ==
  /\ pc = "correct" /\ todo[s] # 0
  /\ IF todo[s] < 0 /\ -todo[s] > mem[s]
       THEN Exit("short")
       ELSE /\ mem' = IF todo[s] < 0 \/ basis THEN [mem EXCEPT ![s] = @ + todo[s]] ELSE mem
            /\ todo' = [todo EXCEPT ![s] = 0]
            /\ UNCHANGED <<pc, result>>
  /\ UNCHANGED <<disk, held, stray, cmd, acct, order, opened, outside, runs, moves>>

\* The process dies (a kill, a power cut, an interrupt, a full disk): what was
\* in memory is gone and a working order is left behind, not cancelled.
Crash ==
  /\ pc # "idle"
  /\ IF pc = "wait" THEN Abandon(FALSE) ELSE UNCHANGED stray
  /\ Exit("crash")
  /\ UNCHANGED <<disk, held, cmd, acct, order, opened, outside, runs, moves>>

-----------------------------------------------------------------------------
(* The brokerage and the world around it. *)

\* n more shares of the order execute; a filled order is closed.
Execute(n) ==
  /\ pc = "wait" /\ ~order.closed
  /\ n <= order.qty - order.done
  /\ order' = [order EXCEPT !.done = @ + n, !.closed = (order.done + n = order.qty)]
  /\ held' = [held EXCEPT ![order.sym] = @ + Signed(order.side, n)]
  /\ UNCHANGED <<disk, stray, pc, cmd, result, mem, acct, todo, opened, outside, runs, moves>>

\* The broker rejects the order or closes it with a part unexecuted.
CloseUnfilled ==
  /\ pc = "wait" /\ ~order.closed
  /\ order' = [order EXCEPT !.closed = TRUE]
  /\ UNCHANGED <<disk, held, stray, pc, cmd, result, mem, acct, todo, opened, outside, runs, moves>>

\* s moves by d shares and no running command ordered it.
MoveOutside(s, d) ==
  /\ held' = [held EXCEPT ![s] = @ + d]
  /\ outside' = IF acct = NoAccount THEN outside ELSE [outside EXCEPT ![s] = @ + d]

StrayExecutes(o, n) ==
  /\ n <= o.left
  /\ stray' = (stray \ {o}) \cup (IF n = o.left THEN {} ELSE {[o EXCEPT !.left = @ - n]})
  /\ MoveOutside(o.sym, Signed(o.side, n))
  /\ UNCHANGED <<disk, pc, cmd, result, mem, acct, todo, order, opened, runs, moves>>

StrayCloses(o) ==
  /\ stray' = stray \ {o}
  /\ UNCHANGED <<disk, held, pc, cmd, result, mem, acct, todo, order, opened, outside, runs, moves>>

OutsideMovement(s, d) ==
  /\ moves < MaxMoves
  /\ moves' = moves + 1
  /\ MoveOutside(s, d)
  /\ UNCHANGED <<disk, stray, pc, cmd, result, mem, acct, todo, order, opened, runs>>

-----------------------------------------------------------------------------
Decide ==
  \/ NothingToTrade \/ RefuseOutOfSync
  \/ \E plan \in [Symbols -> SignedAmounts \cup {0}] : StartTrading(plan)
  \/ NothingToReconcile \/ StartCorrecting

\* The steps of the running command.
Program ==
  \/ ReadAccount \/ ReadAccountFails
  \/ Decide
  \/ \E s \in Symbols : PlaceOrder(s)
  \/ OrderDone \/ OrderTimesOut \/ ApplyFill
  \/ \E s \in Symbols, basis \in BOOLEAN : Correct(s, basis)
  \/ TruncateLedger \/ WriteLedger \/ FinishTrading

Broker ==
  \/ \E n \in Amounts : Execute(n)
  \/ CloseUnfilled
  \/ \E o \in stray : StrayCloses(o) \/ \E n \in Amounts : StrayExecutes(o, n)
  \/ \E s \in Symbols, d \in SignedAmounts : OutsideMovement(s, d)

Next ==
  \/ \E c \in Commands : OpenLedger(c)
  \/ Program
  \/ Crash
  \/ Broker

Spec == Init /\ [][Next]_vars

-----------------------------------------------------------------------------
(* Properties. *)

\* The shape of every variable.
TypeOK ==
  /\ disk \in [Symbols -> Nat] \cup {Torn}
  /\ held \in [Symbols -> Int]
  /\ stray \subseteq Strays
  /\ pc \in {"idle", "account", "decide", "correct"} \cup Trading
  /\ cmd \in Commands
  /\ result \in Results
  /\ mem \in [Symbols -> Nat]
  /\ acct \in [Symbols -> Int] \cup {NoAccount}
  /\ todo \in [Symbols -> Int]
  /\ order \in Orders \cup {NoOrder}
  /\ opened \in [Symbols -> Nat]
  /\ outside \in [Symbols -> Int]
  /\ runs \in 0..MaxRuns
  /\ moves \in 0..MaxMoves

\* Shares of s the command's own orders moved at the broker, and the part of
\* them a ledger l has not recorded.
Moved(s)         == held[s] - acct[s] - outside[s]
Unrecorded(l, s) == Moved(s) - (l[s] - opened[s])

\* The state of a rebalance, running or ended, whose ledger file is readable.
Rebalancing == cmd \in Rebalances /\ acct # NoAccount /\ disk # Torn

\* A rebalance that ends normally has written every share its orders moved to
\* the ledger file, once, however each order was executed (cmd_rebalance saves
\* the executed quantity of every fill).
CompletedRunKeepsBooks ==
  Rebalancing /\ pc = "idle" /\ result = "ok" =>
    \A s \in Symbols : Unrecorded(disk, s) = 0

\* Wherever a rebalance stops (a crash, a timeout, an error, at any step), the
\* ledger file misses at most what the last order placed has executed: every
\* earlier fill was saved before the next order went out.
OnlyLastFillCanBeLost ==
  Rebalancing =>
    \A s \in Symbols : Unrecorded(disk, s) # 0 =>
      /\ order # NoOrder /\ order.sym = s
      /\ Unrecorded(disk, s) = Signed(order.side, order.done)

\* After the reconcile check, an order sells at most Tolerance shares more
\* than the lots in the ledger account for at that moment.
SalesCoveredWithinTolerance ==
  cmd = "rebalance" /\ pc \in {"wait", "apply"} /\ order.side = "SELL" =>
    order.qty <= mem[order.sym] + Tolerance

\* A checked rebalance that traded and ended normally, in an account nobody
\* else touched since it was read, leaves the ledger in sync: it does not make
\* the next rebalance refuse to trade.
CleanRunStaysInSync ==
  /\ cmd = "rebalance" /\ pc = "idle" /\ result = "ok" /\ order # NoOrder
  /\ \A s \in Symbols : outside[s] = 0
  => disk # Torn /\ InSync(disk, held)

\* What reconcile promises: in sync with the account it read, but for a
\* surplus it had no cost basis for, which it leaves alone.
Restored(l) ==
  \A s \in Symbols : Matches(l, acct, s) \/ (l[s] = opened[s] /\ l[s] < acct[s])

\* reconcile --apply corrects every symbol or none: a run that stops part way
\* leaves the file as it was (or truncated, if it stops inside the save), and
\* a run that ends normally has restored the counts.
ReconcileIsAllOrNothing ==
  cmd = "reconcile" /\ acct # NoAccount =>
    /\ disk \in {opened, Torn} \/ Restored(disk)
    /\ pc = "idle" /\ result = "ok" => disk # Torn /\ Restored(disk)

\* No order goes out while a fill of this command is not in the ledger file,
\* nor, unless the check is off, after ledger and account disagreed.
OrdersFollowSavedBooks ==
  [][pc = "trade" /\ pc' = "wait" =>
       /\ disk # Torn
       /\ \A s \in Symbols : Unrecorded(disk, s) = 0
       /\ cmd = "rebalance" => InSync(opened, acct)]_vars

\* What the commands do to the ledger, however their steps interleave with
\* executions, crashes and torn saves, is within what ShareLedger lets a ledger
\* do: they rely on no more than LotLedger is shown to provide.
Ledger == INSTANCE ShareLedger WITH
  phase <- IF pc = "idle" THEN "closed" ELSE IF pc = "write" THEN "saving" ELSE "open",
  count <- mem,
  file  <- disk

UsesShareLedger == Ledger!Spec

\* A timed-out order does not stay at work: the program asked to cancel it.
TimedOutOrdersStop ==
  \A r \in 1..MaxRuns :
    (result = "timeout" /\ runs = r) ~> (\A o \in stray : o.run # r)

-----------------------------------------------------------------------------
(* What comments of the code say and the runs refute. *)

\* "persist after each fill to stay crash-safe": the file survives a crash.
LedgerSurvivesCrash == result = "crash" => disk # Torn

\* "the caller must never ask for more than it holds": a checked rebalance
\* never asks the lots for more shares than they hold.
NeverAsksForMoreThanHeld ==
  cmd = "rebalance" /\ pc = "apply" /\ order.side = "SELL" =>
    order.done <= mem[order.sym]

\* "partial fills never desynchronise the ledger from real share counts":
\* whatever the last order of a checked rebalance executed, the command leaves
\* the file in sync with an account nobody else touched.
PartialFillsStayInSync ==
  /\ cmd = "rebalance" /\ pc = "idle" /\ order # NoOrder /\ result # "crash"
  /\ order.done < order.qty
  /\ \A s \in Symbols : outside[s] = 0
  => disk # Torn /\ InSync(disk, held)
=============================================================================
