----------------------------- MODULE IbkrSession -----------------------------
(***************************************************************************)
(* A session of TradingSession seen from inside broker.ibkr.IBKRBroker:    *)
(* the connection of the `with` block (broker.base.BrokerBase), the        *)
(* portfolio that get_account turns into positions, and execute, which     *)
(* learns of an order only through messages.                               *)
(*                                                                         *)
(* The gateway reports every execution of an order, and its final status,  *)
(* in messages of their own.  execute waits for the status and then adds   *)
(* up the executions it has.  TradingSession takes both to arrive at once; *)
(* here they do only if the gateway is orderly.                            *)
(***************************************************************************)
EXTENDS TradingSession

CONSTANTS
  OtherItems,  \* quantities of portfolio items that only share a symbol
  NoItem       \* there is no such item

ASSUME OtherItemsAssumption == OtherItems \subseteq Int /\ NoItem \notin Int

VARIABLES
  orderly,   \* whether executions are reported before the final status
  other,     \* per symbol, another item of that symbol in the portfolio (an
             \* option on the stock, the stock in another account), or NoItem
  conn,      \* the connection: "none" (not yet, or no longer), "up", "lost"
  wire,      \* shares executed but not reported to the waiting process
  seen,      \* shares in ib_trade.fills
  terminal,  \* ib_trade.isDone()
  expired,   \* the deadline of the wait loop has passed
  truth,     \* history: the shares held when the account was read
  late       \* history: shares whose report came after execute returned

adapter == <<orderly, other, conn, wire, seen, terminal, expired, truth, late>>
allVars == <<vars, adapter>>

order_ == <<wire, seen, terminal, expired>>

NoOthers == [s \in Symbols |-> NoItem]

-----------------------------------------------------------------------------
IbkrInit ==
  /\ Init
  /\ orderly \in BOOLEAN
  /\ other \in [Symbols -> OtherItems \cup {NoItem}]
  /\ conn = "none"
  /\ wire = 0 /\ seen = 0 /\ terminal = FALSE /\ expired = FALSE
  /\ truth = NoShares /\ late = NoShares

\* __exit__: whatever ends the command leaves the `with` block and disconnects.
Disconnect == conn' = IF pc' = "idle" THEN "none" ELSE conn

-----------------------------------------------------------------------------
(* The steps of the command that talk to the gateway. *)

\* __enter__.  A gateway that cannot be reached is a ReadAccountFails.
Connect ==
  /\ pc = "account" /\ conn = "none"
  /\ conn' = "up"
  /\ UNCHANGED <<vars, orderly, other, order_, truth, late>>

\* get_account builds a dict by symbol: of two items with one symbol the later
\* one stays.  reconcile leaves the `with` block with the account it read.
ReadPortfolio ==
  /\ pc = "account" /\ conn = "up"
  /\ pc' = "decide"
  /\ \E overwritten \in SUBSET {s \in Symbols : other[s] # NoItem} :
       acct' = [s \in Symbols |-> IF s \in overwritten THEN other[s] ELSE held[s]]
  /\ truth' = held
  /\ conn' = IF cmd = "reconcile" THEN "none" ELSE conn
  /\ UNCHANGED <<disk, held, stray, cmd, result, mem, todo, order, opened, outside, runs, moves>>
  /\ UNCHANGED <<orderly, other, order_, late>>

\* Mutant: the fills of the previous order are still there.
SendOrder_KeepsFills(s) ==
  /\ conn = "up"
  /\ PlaceOrder(s)
  /\ wire' = 0 /\ terminal' = FALSE /\ expired' = FALSE
  /\ UNCHANGED <<seen, orderly, other, conn, truth, late>>

\* placeOrder: a new ib_trade, of which nothing is known, and a new deadline.
SendOrder(s) ==
  /\ conn = "up"
  /\ PlaceOrder(s)
  /\ wire' = 0 /\ seen' = 0 /\ terminal' = FALSE /\ expired' = FALSE
  /\ UNCHANGED <<orderly, other, conn, truth, late>>

\* Mutant: every order that reached a final status counts as filled whole.
ReturnFill_Whole ==
  /\ pc = "wait" /\ terminal
  /\ seen' = order.qty
  /\ pc' = "apply" /\ UNCHANGED <<result, mem, todo>>
  /\ late' = [late EXCEPT ![order.sym] = @ + Signed(order.side, order.done - seen)]
  /\ Disconnect
  /\ UNCHANGED <<disk, held, stray, cmd, acct, order, opened, outside, runs, moves>>
  /\ UNCHANGED <<orderly, other, wire, terminal, expired, truth>>

\* Mutant: the loop ends with the first execution that is reported.
ReturnFill_Impatient ==
  /\ pc = "wait" /\ seen > 0
  /\ pc' = "apply"
  /\ late' = [late EXCEPT ![order.sym] = @ + Signed(order.side, order.done - seen)]
  /\ UNCHANGED <<disk, held, stray, cmd, result, mem, acct, todo, order, opened, outside, runs, moves>>
  /\ UNCHANGED <<orderly, other, conn, order_, truth>>

\* The loop ends with isDone: the Fill adds up the executions in fills.  With
\* none, execute raises.  What is reported from now on, nobody reads.
ReturnFill ==
  /\ pc = "wait" /\ terminal
  /\ IF seen > 0 THEN pc' = "apply" /\ UNCHANGED <<result, mem, todo>>
                 ELSE Exit("no_fill")
  /\ late' = [late EXCEPT ![order.sym] = @ + Signed(order.side, order.done - seen)]
  /\ Disconnect
  /\ UNCHANGED <<disk, held, stray, cmd, acct, order, opened, outside, runs, moves>>
  /\ UNCHANGED <<orderly, other, order_, truth>>

\* The loop ends with the deadline: cancelOrder, and raise TimeoutError.
GiveUp ==
  /\ conn = "up" /\ expired /\ ~terminal
  /\ OrderTimesOut
  /\ Disconnect
  /\ UNCHANGED <<orderly, other, order_, truth, late>>

\* Without a connection the ib property raises at the next order or at the next
\* round of the wait loop.  The order is not cancelled, and main does not catch
\* the RuntimeError: the process ends as in a crash.
RaiseDisconnected ==
  /\ conn = "lost"
  /\ \/ pc = "trade" /\ ~Empty(todo)
     \/ pc = "wait" /\ ~terminal
  /\ Crash
  /\ Disconnect
  /\ UNCHANGED <<orderly, other, order_, truth, late>>

\* apply_fill with the Fill that execute returned.
BookFill ==
  /\ pc = "apply"
  /\ IF order.side = "SELL" /\ seen > mem[order.sym]
       THEN Exit("oversold")
       ELSE /\ mem' = [mem EXCEPT ![order.sym] = @ + Signed(order.side, seen)]
            /\ pc' = "save" /\ UNCHANGED <<result, todo>>
  /\ Disconnect
  /\ UNCHANGED <<disk, held, stray, cmd, acct, order, opened, outside, runs, moves>>
  /\ UNCHANGED <<orderly, other, order_, truth, late>>

\* The steps that are TradingSession's own.
Local ==
  /\ \/ ReadAccountFails \/ Decide \/ TruncateLedger \/ WriteLedger \/ FinishTrading
     \/ \E s \in Symbols, basis \in BOOLEAN : Correct(s, basis)
  /\ Disconnect
  /\ UNCHANGED <<orderly, other, order_, truth, late>>

StartCommand(c) ==
  /\ OpenLedger(c)
  /\ truth' = NoShares /\ late' = NoShares
  /\ UNCHANGED <<orderly, other, conn, order_>>

Die ==
  /\ Crash
  /\ Disconnect
  /\ UNCHANGED <<orderly, other, order_, truth, late>>

-----------------------------------------------------------------------------
(* The gateway. *)

\* n shares of the order execute; the report is on its way.
Fill(n) ==
  /\ Execute(n)
  /\ wire' = wire + n
  /\ UNCHANGED <<orderly, other, conn, seen, terminal, expired, truth, late>>

\* Reports are processed while execute waits for an update.
ReportExecutions ==
  /\ pc = "wait" /\ conn = "up" /\ wire > 0
  /\ seen' = seen + wire /\ wire' = 0
  /\ UNCHANGED <<vars, orderly, other, conn, terminal, expired, truth, late>>

ReportStatus ==
  /\ pc = "wait" /\ conn = "up" /\ order.closed /\ ~terminal
  /\ orderly => wire = 0
  /\ terminal' = TRUE
  /\ UNCHANGED <<vars, orderly, other, conn, wire, seen, expired, truth, late>>

DeadlinePasses ==
  /\ pc = "wait" /\ ~expired
  /\ expired' = TRUE
  /\ UNCHANGED <<vars, orderly, other, conn, wire, seen, terminal, truth, late>>

LoseConnection ==
  /\ conn = "up"
  /\ conn' = "lost"
  /\ UNCHANGED <<vars, orderly, other, order_, truth, late>>

\* What happens at the broker outside the order waited for.
Elsewhere ==
  /\ \/ CloseUnfilled
     \/ \E o \in stray : StrayCloses(o) \/ \E n \in Amounts : StrayExecutes(o, n)
     \/ \E s \in Symbols, d \in SignedAmounts : OutsideMovement(s, d)
  /\ UNCHANGED adapter

-----------------------------------------------------------------------------
IbkrProgram ==
  \/ Connect \/ ReadPortfolio
  \/ \E s \in Symbols : SendOrder(s)
  \/ ReturnFill \/ GiveUp \/ RaiseDisconnected \/ BookFill
  \/ Local

Gateway ==
  \/ \E n \in Amounts : Fill(n)
  \/ ReportExecutions \/ ReportStatus \/ DeadlinePasses \/ LoseConnection
  \/ Elsewhere

IbkrNext ==
  \/ \E c \in Commands : StartCommand(c)
  \/ IbkrProgram \/ Die \/ Gateway

IbkrSpec == IbkrInit /\ [][IbkrNext]_allVars

\* The process waits for the gateway's reply to one request, for which the code
\* sets no deadline: a command reads prices (qualifyContracts, reqTickers) with
\* the account, and execute qualifies the contract before it places the order.
\* When the connection is lost, the request raises.
AwaitsReply ==
  conn = "up" /\ (pc = "account" \/ (pc = "trade" /\ ~Empty(todo)))

\* The process runs where it does not wait for a reply, the clock advances, and
\* the broker acts on a cancel request it received.  No message has to arrive.
IbkrFairSpec ==
  /\ IbkrSpec
  /\ WF_allVars(~AwaitsReply /\ IbkrProgram)
  /\ WF_allVars(DeadlinePasses)
  /\ \A r \in 1..MaxRuns :
       WF_allVars(\E o \in stray : o.run = r /\ o.cancel /\ StrayCloses(o) /\ UNCHANGED adapter)

-----------------------------------------------------------------------------
(* Properties. *)

\* The shape of every variable the adapter adds; and while execute waits, what
\* it was told and what is on the way to it is what its order executed, none of
\* it left over from the order before.
AdapterTypeOK ==
  /\ orderly \in BOOLEAN
  /\ other \in [Symbols -> Int \cup {NoItem}]
  /\ conn \in {"none", "up", "lost"}
  /\ wire \in Nat /\ seen \in Nat
  /\ terminal \in BOOLEAN /\ expired \in BOOLEAN
  /\ truth \in [Symbols -> Int] /\ late \in [Symbols -> Int]
  /\ pc = "wait" => seen + wire = order.done

\* A gateway that reports executions before the final status, and a portfolio
\* with one item per symbol.
Plain == orderly /\ other = NoOthers

\* Under a plain gateway the adapter is what TradingSession takes it for: the
\* account is the one that is held, a Fill is what has executed, a lost
\* connection is no worse than a crash, and a message or a deadline by itself
\* changes nothing.
ImplementsSession ==
  /\ Plain => Init
  /\ [][Plain => [Next]_vars]_allVars

\* Under any gateway, a rebalance that ends normally has recorded what its
\* orders moved, counted from the shares really held, but for the executions
\* that were reported too late to be in their Fill.
OnlyLateReportsAreMissing ==
  cmd \in Rebalances /\ pc = "idle" /\ result = "ok" /\ acct # NoAccount /\ disk # Torn =>
    \A s \in Symbols : held[s] - truth[s] - outside[s] = disk[s] - opened[s] + late[s]

\* The reconcile check stands between a misread portfolio and the market: if
\* the ledger was right about the shares held, a checked rebalance only trades
\* on an account that is right too, within twice the tolerance.
MisreadAccountIsNotTraded ==
  cmd = "rebalance" /\ pc \in Trading =>
    \A s \in Symbols : Abs(opened[s] - truth[s]) <= Tolerance =>
      Abs(acct[s] - truth[s]) <= 2 * Tolerance

\* No order keeps a command for ever, whatever the gateway reports of it or does
\* not report: execute gives it up at its deadline (IBKRConfig.order_timeout).
\* A command that does not end waits for ever for the reply to one request.
CommandsEndOrAwaitAReply ==
  (pc # "idle") ~> (pc = "idle" \/ []AwaitsReply)
=============================================================================
