------------------------------ MODULE PaperFiles ------------------------------
(***************************************************************************)
(* The commands against the paper account, whose shares, cash and prices   *)
(* live in a state file (broker.paper.PaperBroker) beside the ledger file: *)
(* rebalance --execute, reconcile --apply and set-prices, each of which    *)
(* may die at any step.  An order fills at once and saves the state file;  *)
(* the ledger file is saved after it.  Both are truncated, then written.   *)
(***************************************************************************)
EXTENDS ShareCounts, FiniteSets, Functions

CONSTANTS
  Amounts,        \* share amounts of orders
  InitialShares,  \* positions an account may start with
  Prices,         \* share prices
  InitialCash,    \* cash an account may start with
  MaxRuns,        \* bound: commands started
  Torn,           \* a file after truncation, before the write
  NoPrice,        \* no price is set for the symbol
  NoTrade         \* no order has been executed yet

ASSUME AmountsAssumption == Amounts \subseteq Nat \ {0} /\ Prices \subseteq Nat \ {0}
ASSUME StartAssumption   == InitialShares \subseteq Nat /\ InitialCash \subseteq Nat
ASSUME BoundAssumption   == MaxRuns \in Nat
ASSUME FiniteAssumption  == IsFiniteSet(Symbols)
ASSUME SentinelAssumption == NoTrade \notin [sym : Symbols, qty : Int] /\ NoPrice \notin Prices

VARIABLES
  state,    \* the paper state file: [cash, pos, price], or Torn
  ledger,   \* the ledger file: share count per symbol, or Torn
  pc,       \* where the running command is; "idle" between commands
  cmd,      \* the command last started
  result,   \* how it ended
  broker,   \* the PaperBroker object: [cash, pos, price]
  mem,      \* the LotLedger object: share count per symbol
  todo,     \* trades still to execute
  trade,    \* the order last executed by any command: [sym, qty], qty signed
  opened,   \* history: the account as the command loaded it
  skipped,  \* history: some rebalance ran without the reconcile check
  runs      \* number of commands started

vars == <<state, ledger, pc, cmd, result, broker, mem, todo, trade, opened, skipped, runs>>

Rebalances    == {"rebalance", "rebalance_unchecked"}
Commands      == Rebalances \cup {"reconcile", "set_prices"}
SignedAmounts == Amounts \cup {-n : n \in Amounts}
Quotes        == Prices \cup {NoPrice}
Priced(b)     == {s \in Symbols : b.price[s] # NoPrice}
NoAccount     == [cash |-> 0, pos |-> NoShares, price |-> [s \in Symbols |-> NoPrice]]

-----------------------------------------------------------------------------
\* An account whose shares the ledger agrees with.
Init ==
  /\ state \in [cash : InitialCash, pos : [Symbols -> InitialShares],
                price : [Symbols -> Quotes]]
  /\ ledger = state.pos
  /\ pc = "idle" /\ cmd = "reconcile" /\ result = "none"
  /\ broker = NoAccount /\ mem = NoShares /\ todo = NoShares
  /\ trade = NoTrade /\ opened = NoAccount
  /\ skipped = FALSE /\ runs = 0

\* The command ends; both objects are gone.
Exit(r) ==
  /\ pc' = "idle" /\ result' = r
  /\ broker' = NoAccount /\ mem' = NoShares /\ todo' = NoShares

\* Mutant: a state file that does not parse is taken for an empty account.
Open_TornIsEmpty(c) ==
  /\ pc = "idle" /\ runs < MaxRuns
  /\ runs' = runs + 1 /\ cmd' = c
  /\ skipped' = (skipped \/ c = "rebalance_unchecked")
  /\ IF c # "set_prices" /\ ledger = Torn
       THEN Exit("unreadable") /\ opened' = NoAccount
       ELSE /\ pc' = "decide" /\ result' = "none"
            /\ broker' = IF state = Torn THEN NoAccount ELSE state
            /\ opened' = broker'
            /\ mem' = IF c = "set_prices" THEN NoShares ELSE ledger
            /\ UNCHANGED todo
  /\ UNCHANGED <<state, ledger, trade>>

\* LotLedger.load (not for set-prices) and PaperBroker.__init__.  A file that
\* does not parse is a ValueError: exit 1.
Open(c) ==
  /\ pc = "idle" /\ runs < MaxRuns
  /\ runs' = runs + 1 /\ cmd' = c
  /\ skipped' = (skipped \/ c = "rebalance_unchecked")
  /\ IF state = Torn \/ (c # "set_prices" /\ ledger = Torn)
       THEN Exit("unreadable") /\ opened' = NoAccount
       ELSE /\ pc' = "decide" /\ result' = "none"
            /\ broker' = state /\ opened' = state
            /\ mem' = IF c = "set_prices" THEN NoShares ELSE ledger
            /\ UNCHANGED todo
  /\ UNCHANGED <<state, ledger, trade>>

-----------------------------------------------------------------------------
(* rebalance --execute *)

NothingToTrade ==
  /\ pc = "decide" /\ cmd \in Rebalances
  /\ Exit("ok")
  /\ UNCHANGED <<state, ledger, cmd, trade, opened, skipped, runs>>

RefuseOutOfSync ==
  /\ pc = "decide" /\ cmd = "rebalance"
  /\ ~InSync(mem, broker.pos)
  /\ Exit("refused")
  /\ UNCHANGED <<state, ledger, cmd, trade, opened, skipped, runs>>

\* Mutant: the reconcile check is made but not acted on.
StartTrading_Unchecked(plan) ==
  /\ pc = "decide" /\ cmd \in Rebalances
  /\ ValidPlan(plan, broker.pos) /\ ~Empty(plan)
  /\ \A s \in Symbols \ Priced(broker) : plan[s] = 0
  /\ pc' = "trade" /\ todo' = plan
  /\ UNCHANGED <<state, ledger, cmd, result, broker, mem, trade, opened, skipped, runs>>

\* A symbol without a price is not traded.
StartTrading(plan) ==
  /\ pc = "decide" /\ cmd \in Rebalances
  /\ ValidPlan(plan, broker.pos) /\ ~Empty(plan)
  /\ \A s \in Symbols \ Priced(broker) : plan[s] = 0
  /\ cmd = "rebalance" => InSync(mem, broker.pos)
  /\ pc' = "trade" /\ todo' = plan
  /\ UNCHANGED <<state, ledger, cmd, result, broker, mem, trade, opened, skipped, runs>>

\* Mutant: a purchase is not paid for.
Execute_FreeBuys(s) ==
  /\ pc = "trade" /\ IsNext(todo, s)
  /\ broker' = [broker EXCEPT !.pos[s] = @ + todo[s],
                              !.cash = IF todo[s] > 0 THEN @ ELSE @ - todo[s] * broker.price[s]]
  /\ trade' = [sym |-> s, qty |-> todo[s]]
  /\ todo' = [todo EXCEPT ![s] = 0]
  /\ pc' = "save_state"
  /\ UNCHANGED <<state, ledger, cmd, result, mem, opened, skipped, runs>>

\* PaperBroker.execute up to its save.  A valid plan sells no more than is
\* held, so execute does not raise.
Execute(s) ==
  /\ pc = "trade" /\ IsNext(todo, s)
  /\ broker' = [broker EXCEPT !.pos[s] = @ + todo[s],
                              !.cash = @ - todo[s] * broker.price[s]]
  /\ trade' = [sym |-> s, qty |-> todo[s]]
  /\ todo' = [todo EXCEPT ![s] = 0]
  /\ pc' = "save_state"
  /\ UNCHANGED <<state, ledger, cmd, result, mem, opened, skipped, runs>>

\* PaperBroker._save.
TruncateState ==
  /\ pc = "save_state"
  /\ state' = Torn /\ pc' = "write_state"
  /\ UNCHANGED <<ledger, cmd, result, broker, mem, todo, trade, opened, skipped, runs>>

WriteState ==
  /\ pc = "write_state"
  /\ state' = broker
  /\ IF cmd = "set_prices" THEN Exit("ok")
                           ELSE pc' = "apply" /\ UNCHANGED <<result, broker, mem, todo>>
  /\ UNCHANGED <<ledger, cmd, trade, opened, skipped, runs>>

\* Mutant: a sale may take more than the lots hold.
ApplyFill_Oversells ==
  /\ pc = "apply"
  /\ mem' = [mem EXCEPT ![trade.sym] = @ + trade.qty]
  /\ pc' = "save"
  /\ UNCHANGED <<state, ledger, cmd, result, broker, todo, trade, opened, skipped, runs>>

\* LotLedger.apply_fill; a sale of more than the lots hold raises.
ApplyFill ==
  /\ pc = "apply"
  /\ IF trade.qty + mem[trade.sym] < 0
       THEN Exit("oversold")
       ELSE /\ mem' = [mem EXCEPT ![trade.sym] = @ + trade.qty]
            /\ pc' = "save" /\ UNCHANGED <<result, broker, todo>>
  /\ UNCHANGED <<state, ledger, cmd, trade, opened, skipped, runs>>

\* LotLedger.save.
TruncateLedger ==
  /\ pc = "save"
  /\ ledger' = Torn /\ pc' = "write"
  /\ UNCHANGED <<state, cmd, result, broker, mem, todo, trade, opened, skipped, runs>>

WriteLedger ==
  /\ pc = "write"
  /\ ledger' = mem
  /\ IF cmd = "reconcile" THEN Exit("ok")
                          ELSE pc' = "trade" /\ UNCHANGED <<result, broker, mem, todo>>
  /\ UNCHANGED <<state, cmd, trade, opened, skipped, runs>>

FinishTrading ==
  /\ pc = "trade" /\ Empty(todo)
  /\ Exit("ok")
  /\ UNCHANGED <<state, ledger, cmd, trade, opened, skipped, runs>>

-----------------------------------------------------------------------------
(* reconcile --apply and set-prices *)

NothingToReconcile ==
  /\ pc = "decide" /\ cmd = "reconcile"
  /\ InSync(mem, broker.pos)
  /\ Exit("ok")
  /\ UNCHANGED <<state, ledger, cmd, trade, opened, skipped, runs>>

\* The paper account reports no cost: a surplus is booked at the price.
Reconcile ==
  /\ pc = "decide" /\ cmd = "reconcile"
  /\ ~InSync(mem, broker.pos)
  /\ mem' = Corrected(mem, broker.pos, Priced(broker))
  /\ pc' = "save"
  /\ UNCHANGED <<state, ledger, cmd, result, broker, todo, trade, opened, skipped, runs>>

\* PaperBroker.set_prices, with prices for some of the symbols.
SetPrices(quote) ==
  /\ pc = "decide" /\ cmd = "set_prices"
  /\ broker' = [broker EXCEPT !.price =
                  [s \in Symbols |-> IF quote[s] = NoPrice THEN @[s] ELSE quote[s]]]
  /\ pc' = "save_state"
  /\ UNCHANGED <<state, ledger, cmd, result, mem, todo, trade, opened, skipped, runs>>

Crash ==
  /\ pc # "idle"
  /\ Exit("crash")
  /\ UNCHANGED <<state, ledger, cmd, trade, opened, skipped, runs>>

-----------------------------------------------------------------------------
Next ==
  \/ \E c \in Commands : Open(c)
  \/ NothingToTrade \/ RefuseOutOfSync
  \/ \E plan \in [Symbols -> SignedAmounts \cup {0}] : StartTrading(plan)
  \/ \E s \in Symbols : Execute(s)
  \/ TruncateState \/ WriteState \/ ApplyFill \/ TruncateLedger \/ WriteLedger
  \/ FinishTrading
  \/ NothingToReconcile \/ Reconcile
  \/ \E quote \in [Symbols -> Quotes] : SetPrices(quote)
  \/ Crash

Spec == Init /\ [][Next]_vars

-----------------------------------------------------------------------------
(* Properties. *)

Accounts == [cash : Int, pos : [Symbols -> Nat], price : [Symbols -> Quotes]]

\* The shape of every variable.
TypeOK ==
  /\ state \in Accounts \cup {Torn}
  /\ ledger \in [Symbols -> Nat] \cup {Torn}
  /\ pc \in {"idle", "decide", "trade", "save_state", "write_state", "apply", "save", "write"}
  /\ cmd \in Commands
  /\ result \in {"none", "ok", "refused", "unreadable", "oversold", "crash"}
  /\ {broker, opened} \subseteq Accounts
  /\ mem \in [Symbols -> Nat]
  /\ todo \in [Symbols -> Int]
  /\ trade \in [sym : Symbols, qty : Int] \cup {NoTrade}
  /\ skipped \in BOOLEAN
  /\ runs \in 0..MaxRuns

Moved(s) == IF trade # NoTrade /\ trade.sym = s THEN Abs(trade.qty) ELSE 0

\* Damage does not pile up.  After any number of commands and crashes, as long
\* as every rebalance made the reconcile check, the two files differ by more
\* than the tolerance in no symbol but the one last traded, and there by at
\* most that trade more.
CrashesDoNotAddUp ==
  ~skipped /\ state # Torn /\ ledger # Torn =>
    \A s \in Symbols : Abs(state.pos[s] - ledger[s]) <= Tolerance + Moved(s)

\* What an account is worth at the prices a command found.
Worth(a) ==
  a.cash + SumFunction([s \in Priced(opened) |-> a.pos[s] * opened.price[s]])

\* Trading neither makes nor loses money: at the prices a command found, the
\* account in the file is worth what it was, wherever the command stopped, and
\* what cannot be valued is still there.
WorthIsConserved ==
  opened # NoAccount /\ state # Torn =>
    /\ Worth(state) = Worth(opened)
    /\ \A s \in Symbols \ Priced(opened) : state.pos[s] = opened.pos[s]

\* A file that a crash left unreadable stays as it is: no later command takes
\* it for an empty account or an empty ledger and saves over it.
DamageIsNotOverwritten ==
  /\ [](pc = "idle" /\ state = Torn => [](state = Torn))
  /\ [](pc = "idle" /\ ledger = Torn => [](ledger = Torn))
=============================================================================
