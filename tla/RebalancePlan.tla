---------------------------- MODULE RebalancePlan ----------------------------
(***************************************************************************)
(* rebalance.engine: the blended targets and the trades that move an       *)
(* account towards them, in exact arithmetic.                              *)
(*                                                                         *)
(* Weights and the drift band count in 1/W of the portfolio.  Quantities   *)
(* count in the smallest share fraction an account can hold, and prices    *)
(* are per such fraction; Quantum of them is the smallest tradable amount  *)
(* (_SHARE_QUANTUM, or a whole share without allow_fractional).            *)
(***************************************************************************)
EXTENDS Integers, FiniteSets, Functions

CONSTANTS
  Symbols,   \* ticker symbols
  W,         \* weights are multiples of 1/W
  Band,      \* rebalance.drift_band, in 1/W
  MinTrade,  \* rebalance.min_trade_value
  Quantum,   \* smallest tradable amount
  NoPrice    \* prices.get(symbol) is None

ASSUME WeightAssumption   == W \in Nat \ {0}
ASSUME SettingsAssumption == Band \in Nat /\ MinTrade \in Nat /\ Quantum \in Nat \ {0}
ASSUME NoPriceAssumption  == NoPrice \notin Int
ASSUME SymbolsAssumption  == IsFiniteSet(Symbols)

Abs(n) == IF n < 0 THEN -n ELSE n

\* blend_targets: allocation times weight, added up over the indexes.
BlendTargets(indexes) ==
  [s \in Symbols |-> SumFunction([i \in indexes |-> i.allocation * i.weight[s]])]

\* W times target value minus current value.
Gap(target, investable, qty, price) == target * investable - qty * price * W

\* Mutant: rounding away from zero.
RoundShares_Up(gap, price) ==
  ((gap + W * price * Quantum - 1) \div (W * price * Quantum)) * Quantum

\* _round_shares of the shares worth a gap: towards zero.
RoundShares(gap, price) == (gap \div (W * price * Quantum)) * Quantum

\* A gap is left alone inside the drift band or below min_trade_value.
Tolerated(gap, investable) == Abs(gap) < Band * investable \/ Abs(gap) < MinTrade * W

\* The body of plan_rebalance's loop: the signed quantity traded of a symbol,
\* 0 when it is skipped.  A sale is capped at the holding (_build_sell).
TradeFor(target, investable, qty, price) ==
  LET gap    == Gap(target, investable, qty, price)
      shares == RoundShares(Abs(gap), price)
  IN  CASE Tolerated(gap, investable) -> 0
        [] ~Tolerated(gap, investable) /\ gap > 0 -> shares
        [] OTHER -> IF shares <= qty THEN -shares ELSE -qty

\* Account.investable_value: cash and positions at their market price.
Investable(cash, held, market) ==
  cash + SumFunction([s \in Symbols |-> held[s] * market[s]])

\* plan_rebalance: one trade per symbol; a symbol without a price is skipped.
Plan(targets, investable, held, prices) ==
  [s \in Symbols |->
     IF investable <= 0 \/ prices[s] = NoPrice THEN 0
     ELSE TradeFor(targets[s], investable, held[s], prices[s])]

\* Mutant: an index member that is not held yet is not listed without a price.
Skips_HeldOnly(targets, investable, held, prices) ==
  {s \in Symbols : investable > 0 /\
     IF prices[s] = NoPrice THEN held[s] # 0
     ELSE LET gap == Abs(Gap(targets[s], investable, held[s], prices[s]))
          IN  gap >= Band * investable /\ (gap < MinTrade * W \/ RoundShares(gap, prices[s]) = 0)}

\* The symbols a plan lists as skipped (RebalancePlan.skipped): it should act on
\* them, but has no price, too little to trade or less than one Quantum of it.
Skips(targets, investable, held, prices) ==
  {s \in Symbols : investable > 0 /\
     IF prices[s] = NoPrice THEN targets[s] > 0 \/ held[s] # 0
     ELSE LET gap == Abs(Gap(targets[s], investable, held[s], prices[s]))
          IN  gap >= Band * investable /\ (gap < MinTrade * W \/ RoundShares(gap, prices[s]) = 0)}

\* drift_report, which status prints: per symbol the current weight minus the
\* target weight, in 1/W of the investable value, or of 1 when there is none.
\* What has no price is worth nothing here.
DriftReport(targets, investable, held, prices) ==
  LET Price(s) == IF prices[s] = NoPrice THEN 0 ELSE prices[s]
      Current(s) == IF investable > 0 THEN held[s] * Price(s) * W ELSE 0
      whole == IF investable > 0 THEN investable ELSE 1
  IN  [s \in Symbols |-> Current(s) - targets[s] * whole]
=============================================================================
