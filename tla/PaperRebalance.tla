---------------------------- MODULE PaperRebalance ----------------------------
(***************************************************************************)
(* Rebalances against broker.paper.PaperBroker, which fills every order at *)
(* its own price: what a plan does to cash and holdings when each trade is *)
(* executed in full, and what the next rebalance finds.  Between two runs  *)
(* prices move (set_prices), cash is deposited and the targets change.     *)
(***************************************************************************)
EXTENDS RebalancePlan, FiniteSetsExt

CONSTANTS
  Prices,    \* prices per share fraction
  Cash,      \* cash at the start, and deposits
  Holdings,  \* quantities held at the start
  Indexes,   \* possible index sets: sets of [name, allocation, weight]
  MaxRuns    \* bound: rebalances

ASSUME PricesAssumption   == Prices \subseteq Nat \ {0}
ASSUME HoldingsAssumption == Holdings \subseteq Nat /\ Cash \subseteq Nat
ASSUME RunsAssumption     == MaxRuns \in Nat
ASSUME IndexesAssumption  ==
  /\ \A indexes \in Indexes : IsFiniteSet(indexes)
  /\ \A index \in UNION Indexes : index.allocation \in Nat /\ index.weight \in [Symbols -> Nat]

VARIABLES
  cash,     \* PaperBroker._cash
  held,     \* PaperBroker._positions
  quote,    \* PaperBroker._prices
  targets,  \* blended target weights
  phase,    \* "idle", "trading" (the loop over the plan) or "done"
  todo,     \* trades of the plan still to execute
  opened,   \* history: [cash, held, investable] the plan was made for
  runs      \* number of rebalances

vars == <<cash, held, quote, targets, phase, todo, opened, runs>>

\* get_account: a position without a quote is valued at zero.
Market == [s \in Symbols |-> IF quote[s] = NoPrice THEN 0 ELSE quote[s]]

Worth == Investable(cash, held, Market)

\* Allocations are fractions that sum to at most 1 (and _ALLOC_EPSILON), the
\* weights of an index sum to 1.
Targets == {BlendTargets(i) : i \in Indexes}

NoTrades == [s \in Symbols |-> 0]

-----------------------------------------------------------------------------
Init ==
  /\ cash \in Cash
  /\ held \in [Symbols -> Holdings]
  /\ quote \in [Symbols -> Prices \cup {NoPrice}]
  /\ targets \in Targets
  /\ phase = "idle" /\ todo = NoTrades /\ runs = 0
  /\ opened = [cash |-> cash, held |-> held, investable |-> Worth]

\* cmd_rebalance up to the plan.
MakePlan ==
  /\ phase = "idle" /\ runs < MaxRuns
  /\ phase' = "trading" /\ runs' = runs + 1
  /\ todo' = Plan(targets, Worth, held, quote)
  /\ opened' = [cash |-> cash, held |-> held, investable |-> Worth]
  /\ UNCHANGED <<cash, held, quote, targets>>

\* Mutant: trades run in any order.
IsNext_AnyOrder(s) == todo[s] # 0

\* _execution_order: sells before buys.
IsNext(s) == todo[s] # 0 /\ (todo[s] > 0 => \A t \in Symbols : todo[t] >= 0)

\* Mutant: the position moves the wrong way.
Execute_SwappedPosition(s) ==
  /\ phase = "trading" /\ IsNext(s)
  /\ held[s] + todo[s] >= 0
  /\ held' = [held EXCEPT ![s] = @ - todo[s]]
  /\ cash' = cash - todo[s] * quote[s]
  /\ todo' = [todo EXCEPT ![s] = 0]
  /\ UNCHANGED <<quote, targets, phase, opened, runs>>

\* Mutant: the cash moves the wrong way.
Execute_SwappedCash(s) ==
  /\ phase = "trading" /\ IsNext(s)
  /\ held[s] + todo[s] >= 0
  /\ held' = [held EXCEPT ![s] = @ + todo[s]]
  /\ cash' = cash + todo[s] * quote[s]
  /\ todo' = [todo EXCEPT ![s] = 0]
  /\ UNCHANGED <<quote, targets, phase, opened, runs>>

\* Mutant: a trade that was executed stays in the plan.
Execute_Repeats(s) ==
  /\ phase = "trading" /\ IsNext(s)
  /\ held[s] + todo[s] >= 0
  /\ held' = [held EXCEPT ![s] = @ + todo[s]]
  /\ cash' = cash - todo[s] * quote[s]
  /\ UNCHANGED <<quote, targets, phase, todo, opened, runs>>

\* PaperBroker.execute: the position and the cash move at the book price.  It
\* raises when the account would hold less than nothing; the plan never lets
\* it (PlanIsExecutable), so the guard has no other branch.
Execute(s) ==
  /\ phase = "trading" /\ IsNext(s)
  /\ held[s] + todo[s] >= 0
  /\ held' = [held EXCEPT ![s] = @ + todo[s]]
  /\ cash' = cash - todo[s] * quote[s]
  /\ todo' = [todo EXCEPT ![s] = 0]
  /\ UNCHANGED <<quote, targets, phase, opened, runs>>

Finish ==
  /\ phase = "trading" /\ todo = NoTrades
  /\ phase' = "done"
  /\ UNCHANGED <<cash, held, quote, targets, todo, opened, runs>>

\* set_prices: a quote moves or appears; none is ever removed.
SetPrice(s, p) ==
  /\ phase # "trading"
  /\ quote' = [quote EXCEPT ![s] = p]
  /\ phase' = "idle"
  /\ UNCHANGED <<cash, held, targets, todo, opened, runs>>

Deposit(amount) ==
  /\ phase = "done"
  /\ cash' = cash + amount
  /\ phase' = "idle"
  /\ UNCHANGED <<held, quote, targets, todo, opened, runs>>

\* The indexes publish new constituents.
Retarget(t) ==
  /\ phase = "done"
  /\ targets' = t
  /\ phase' = "idle"
  /\ UNCHANGED <<cash, held, quote, todo, opened, runs>>

Next ==
  \/ MakePlan \/ Finish
  \/ \E s \in Symbols : Execute(s) \/ \E p \in Prices : SetPrice(s, p)
  \/ \E amount \in Cash : Deposit(amount)
  \/ \E t \in Targets : Retarget(t)

Spec == Init /\ [][Next]_vars

-----------------------------------------------------------------------------
(* Properties. *)

\* The shape of every variable.
TypeOK ==
  /\ cash \in Int
  /\ held \in [Symbols -> Nat]
  /\ quote \in [Symbols -> Prices \cup {NoPrice}]
  /\ targets \in [Symbols -> Nat]
  /\ phase \in {"idle", "trading", "done"}
  /\ todo \in [Symbols -> Int]
  /\ opened \in [cash : Int, held : [Symbols -> Nat], investable : Int]
  /\ runs \in 0..MaxRuns

\* No trade left in the plan sells more than is held when its turn comes, and
\* every one has a price: PaperBroker.execute never raises, and the order the
\* plan sends to a live broker does not open a short position.
PlanIsExecutable ==
  \A s \in Symbols : todo[s] # 0 => quote[s] # NoPrice /\ held[s] + todo[s] >= 0

\* What is still missing of s, W times its value, as the plan reckons it.
Missing(s) == Gap(targets[s], opened.investable, held[s], quote[s])

\* A trade moves a holding towards its target and never past it ("round toward
\* zero so we never over-buy or over-sell").
NoOvershoot ==
  phase \in {"trading", "done"} =>
    \A s \in Symbols : quote[s] # NoPrice =>
      LET before == Gap(targets[s], opened.investable, opened.held[s], quote[s])
      IN  IF before >= 0 THEN Missing(s) \in 0..before ELSE Missing(s) \in before..0

\* A rebalance that is repeated at once finds nothing to do: executing a plan
\* in full leaves no drift that the same prices and targets would trade on.
PlanSettles ==
  phase = "done" => Plan(targets, Worth, held, quote) = NoTrades

\* status and rebalance reckon drift by different formulas and treat a missing
\* price differently (drift_report as zero, plan_rebalance by leaving the symbol
\* out), and still tell the user one story: a trade goes against the drift that
\* status shows; a drift that reaches the band is traded or listed as skipped;
\* and what is listed is not traded, and out of the band unless it has no price.
DriftIsExplained ==
  Worth > 0 => \A s \in Symbols :
    LET trade   == Plan(targets, Worth, held, quote)[s]
        drift   == DriftReport(targets, Worth, held, quote)[s]
        skipped == s \in Skips(targets, Worth, held, quote)
        outside == Abs(drift) >= Band * Worth
    IN  /\ trade > 0 => drift < 0 /\ outside
        /\ trade < 0 => drift > 0 /\ outside
        /\ trade = 0 /\ drift # 0 /\ outside => skipped
        /\ skipped => trade = 0 /\ (outside \/ quote[s] = NoPrice)

\* What the plan may leave untouched of an overweight symbol, W times its
\* value: the drift band, the minimum trade or the rounding.
Slack(s) ==
  Max({Band * opened.investable, MinTrade * W, W * quote[s] * Quantum})

\* What the targets add up to beyond the whole portfolio: allocations may sum to
\* a little more than 1.
Excess == Max({0, SumFunction(targets) - W})

\* The buys may cost more than cash and sales bring in, but at no point of the
\* loop by more than what the plan left untouched of the overweight symbols,
\* and what the allocations ask for beyond the portfolio.
OverspendIsBounded ==
  phase \in {"trading", "done"} /\ opened.cash >= 0 =>
    LET overweight == {s \in Symbols : quote[s] # NoPrice /\ Missing(s) < 0}
    IN  -cash * W <= SumFunction([s \in overweight |-> Slack(s)])
                       + Excess * opened.investable

-----------------------------------------------------------------------------
\* "Sells are ordered before buys so proceeds fund the buys": an account that
\* has no debt is not in debt after a rebalance.
ProceedsFundBuys ==
  phase = "done" /\ opened.cash >= 0 => cash >= 0
=============================================================================
