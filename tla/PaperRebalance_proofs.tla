------------------------ MODULE PaperRebalance_proofs ------------------------
(***************************************************************************)
(* What the trades of plan_rebalance are worth, for every weight, price,   *)
(* holding, portfolio value and setting, and what a sequence of rebalances *)
(* against a PaperBroker does to its cash and holdings.                    *)
(***************************************************************************)
EXTENDS PaperRebalance, SumLemmas, TLAPS

-----------------------------------------------------------------------------
(* One trade. *)

\* Division rounds down.
LEMMA DivisionBounds ==
  ASSUME NEW a \in Nat, NEW b \in Nat \ {0}
  PROVE  a \div b \in Nat /\ (a \div b) * b <= a /\ a < (a \div b) * b + b
OBVIOUS

\* Products of natural numbers are natural numbers,
LEMMA ProductNat ==
  ASSUME NEW a \in Nat, NEW b \in Nat
  PROVE  a * b \in Nat
OBVIOUS

\* and of positive ones, positive.
LEMMA ProductPos ==
  ASSUME NEW a \in Nat \ {0}, NEW b \in Nat \ {0}
  PROVE  a * b \in Nat \ {0}
OBVIOUS

\* Rounding a gap towards zero: the shares are worth at most the gap, and what
\* is left of it is worth less than one Quantum.
LEMMA RoundingBounds ==
  ASSUME NEW gap \in Nat, NEW price \in Nat \ {0}
  PROVE  /\ RoundShares(gap, price) \in Nat
         /\ RoundShares(gap, price) * price * W <= gap
         /\ gap - RoundShares(gap, price) * price * W < W * price * Quantum
<1> DEFINE d == W * price * Quantum
           n == gap \div d
<1>1. W \in Nat \ {0} /\ Quantum \in Nat \ {0}
  BY WeightAssumption, SettingsAssumption
<1>2. d \in Nat \ {0}
  BY <1>1, ProductPos
<1>3. n \in Nat /\ n * d <= gap /\ gap < n * d + d
  BY <1>2, DivisionBounds
<1>4. RoundShares(gap, price) = n * Quantum
  BY DEF RoundShares
<1>5. n * Quantum \in Nat
  BY <1>1, <1>3, ProductNat
<1> HIDE DEF n
<1>6. (n * Quantum) * price * W = n * d
  BY <1>1, <1>3
<1>7. QED
  BY <1>2, <1>3, <1>4, <1>5, <1>6

\* A gap worth less than one Quantum rounds to nothing.
LEMMA SmallGapRoundsToZero ==
  ASSUME NEW gap \in Nat, NEW price \in Nat \ {0}, gap < W * price * Quantum
  PROVE  RoundShares(gap, price) = 0
<1> DEFINE d == W * price * Quantum
           n == gap \div d
<1>1. d \in Nat \ {0}
  BY WeightAssumption, SettingsAssumption, ProductPos
<1>2. n \in Nat /\ n * d <= gap
  BY <1>1, DivisionBounds
<1> HIDE DEF n, d
<1>3. gap < d
  BY DEF d
<1>4. n = 0
  <2>1. SUFFICES ASSUME n >= 1 PROVE FALSE
    BY <1>2
  <2>2. d <= n * d
    BY <1>1, <1>2, <2>1
  <2>3. QED
    BY <1>1, <1>2, <1>3, <2>2
<1>5. QED
  BY <1>4, SettingsAssumption DEF n, d, RoundShares

\* A gap is an integer.
LEMMA GapInt ==
  ASSUME NEW target \in Nat, NEW investable \in Int, NEW qty \in Int, NEW price \in Nat
  PROVE  Gap(target, investable, qty, price) \in Int
  BY WeightAssumption DEF Gap

\* No sale is larger than the holding (_build_sell's cap), whatever the target,
\* the prices, the holding (a short one too) and the settings.
THEOREM SalesAreCapped ==
  ASSUME NEW target \in Nat, NEW investable \in Int, NEW qty \in Int, NEW price \in Nat \ {0}
  PROVE  LET trade == TradeFor(target, investable, qty, price)
         IN  trade \in Int /\ (trade < 0 => -trade <= qty)
<1> DEFINE gap == Gap(target, investable, qty, price)
           shares == RoundShares(Abs(gap), price)
<1>1. gap \in Int
  BY GapInt
<1> HIDE DEF gap
<1>2. Abs(gap) \in Nat /\ shares \in Nat
  BY <1>1, RoundingBounds DEF Abs
<1> HIDE DEF shares
<1>3. TradeFor(target, investable, qty, price) \in {0, shares, -qty}
      \/ (TradeFor(target, investable, qty, price) = -shares /\ shares <= qty)
  BY DEF TradeFor, gap, shares
<1>4. QED
  BY <1>2, <1>3

\* A portfolio's worth of targets: what a trade leaves of the gap it closes.
LEMMA TradeClosesGap ==
  ASSUME NEW target \in Nat, NEW investable \in Nat, NEW qty \in Nat, NEW price \in Nat \ {0},
         NEW gap \in Int, gap = Gap(target, investable, qty, price),
         NEW trade, trade = TradeFor(target, investable, qty, price), trade # 0
  PROVE  /\ trade \in Int
         /\ Abs(trade) = RoundShares(Abs(gap), price)
         /\ gap >= 0 => trade > 0
         /\ gap <= 0 => trade < 0
<1> DEFINE shares == RoundShares(Abs(gap), price)
<1>1. Abs(gap) \in Nat /\ shares \in Nat /\ shares * price * W <= Abs(gap)
  BY RoundingBounds DEF Abs
<1>2. gap = 0 => trade = 0
  <2>1. ASSUME gap = 0 PROVE shares = 0
    <3>1. Abs(gap) = gap
      BY <2>1 DEF Abs
    <3>2. 0 < W * price * Quantum
      BY WeightAssumption, SettingsAssumption, ProductPos
    <3>3. QED
      BY <2>1, <3>1, <3>2, SmallGapRoundsToZero
  <2>2. QED
    BY <1>1, <2>1 DEF TradeFor
<1>3. CASE gap > 0
  <2>1. trade = shares
    BY <1>3 DEF TradeFor
  <2>2. QED
    BY <1>1, <1>3, <2>1 DEF Abs
<1>4. CASE gap < 0
  <2>1. Abs(gap) = qty * price * W - target * investable
    BY <1>4, WeightAssumption DEF Abs, Gap
  <2>2. shares * price * W <= qty * price * W
    BY <1>1, <2>1, WeightAssumption, ProductNat
  <2> HIDE DEF shares
  <2>3. shares <= qty
    <3>1. price * W \in Nat \ {0}
      BY WeightAssumption, ProductPos
    <3>2. shares * (price * W) <= qty * (price * W)
      BY <1>1, <2>2, WeightAssumption
    <3>3. QED
      BY <1>1, <3>1, <3>2
  <2>4. trade = -shares
    BY <1>4, <2>3 DEF TradeFor, shares
  <2>5. QED
    BY <1>1, <1>4, <2>4 DEF Abs, shares
<1>5. QED
  BY <1>2, <1>3, <1>4

\* Executing a trade moves W times its value out of the gap.
LEMMA GapAfter ==
  ASSUME NEW target \in Nat, NEW investable \in Nat, NEW qty \in Nat, NEW price \in Nat \ {0},
         NEW trade \in Int
  PROVE  Gap(target, investable, qty + trade, price) =
           Gap(target, investable, qty, price) - trade * price * W
<1>1. W \in Nat
  BY WeightAssumption
<1>2. (qty + trade) * price * W = qty * price * W + trade * price * W
  BY <1>1
<1>3. target * investable \in Nat /\ qty * price * W \in Nat /\ trade * price * W \in Int
  BY <1>1, ProductNat
<1>4. QED
  BY <1>2, <1>3 DEF Gap

\* A trade brings the position nearer to its target, to within one Quantum,
\* and never past it ("round toward zero so we never over-buy or over-sell").
THEOREM TradesNeverOvershoot ==
  ASSUME NEW target \in Nat, NEW investable \in Nat, NEW qty \in Nat, NEW price \in Nat \ {0},
         TradeFor(target, investable, qty, price) # 0
  PROVE  LET before == Gap(target, investable, qty, price)
             after  == Gap(target, investable, qty + TradeFor(target, investable, qty, price), price)
         IN  /\ before >= 0 => after \in 0..before
             /\ before <= 0 => after \in before..0
             /\ Abs(after) < W * price * Quantum
<1> DEFINE trade  == TradeFor(target, investable, qty, price)
           before == Gap(target, investable, qty, price)
           after  == Gap(target, investable, qty + trade, price)
           shares == RoundShares(Abs(before), price)
           worth  == shares * price * W
<1>1. before \in Int
  BY GapInt
<1>2. /\ trade \in Int /\ Abs(trade) = shares
      /\ before >= 0 => trade > 0
      /\ before <= 0 => trade < 0
  BY <1>1, TradeClosesGap
<1> HIDE DEF trade
<1>3. after = before - trade * price * W
  BY <1>2, GapAfter
<1> HIDE DEF before, after
<1>4. Abs(before) \in Nat
  BY <1>1 DEF Abs
<1>5. shares \in Nat /\ worth <= Abs(before) /\ Abs(before) - worth < W * price * Quantum
  BY <1>4, RoundingBounds
<1> HIDE DEF shares
<1>6. worth \in Nat
  BY <1>5, WeightAssumption, ProductNat
<1>7. CASE before >= 0
  <2>1. trade = shares /\ Abs(before) = before
    BY <1>1, <1>2, <1>7 DEF Abs
  <2>2. after = before - worth
    BY <1>3, <2>1
  <2> HIDE DEF worth
  <2>3. after \in 0..before /\ Abs(after) = after
    BY <1>1, <1>5, <1>6, <2>1, <2>2 DEF Abs
  <2>4. before <= 0 => after \in before..0
    BY <1>1, <1>7, <2>3
  <2>5. QED
    BY <1>5, <2>1, <2>2, <2>3, <2>4 DEF trade, before, after
<1>8. CASE before < 0
  <2>1. trade = -shares /\ Abs(before) = -before
    BY <1>1, <1>2, <1>8 DEF Abs
  <2>2. after = before + worth
    <3>1. trade * price * W = -worth
      BY <1>5, <2>1, WeightAssumption
    <3>2. QED
      BY <1>1, <1>3, <1>6, <3>1
  <2> HIDE DEF worth
  <2>3. after \in before..0 /\ Abs(after) = Abs(before) - worth
    BY <1>1, <1>5, <1>6, <2>1, <2>2 DEF Abs
  <2>4. QED
    BY <1>1, <1>5, <1>8, <2>3 DEF trade, before, after
<1>9. QED
  BY <1>1, <1>7, <1>8

\* A rebalance repeated at once, at the same prices and the same portfolio
\* value, finds nothing to trade in a symbol whose trade was executed in full.
THEOREM TradesSettle ==
  ASSUME NEW target \in Nat, NEW investable \in Nat, NEW qty \in Nat, NEW price \in Nat \ {0}
  PROVE  TradeFor(target, investable,
                  qty + TradeFor(target, investable, qty, price), price) = 0
<1> DEFINE trade == TradeFor(target, investable, qty, price)
           left  == Gap(target, investable, qty + trade, price)
<1>1. CASE trade = 0
  BY <1>1
<1>2. CASE trade # 0
  <2>1. trade \in Int /\ qty + trade \in Nat
    <3>1. trade \in Int /\ (trade < 0 => -trade <= qty)
      BY SalesAreCapped
    <3> HIDE DEF trade
    <3>2. QED
      BY <3>1
  <2>2. left \in Int
    BY <2>1, GapInt
  <2>3. Abs(left) < W * price * Quantum
    BY <1>2, TradesNeverOvershoot
  <2> HIDE DEF trade, left
  <2>4. Abs(left) \in Nat
    BY <2>2 DEF Abs
  <2>5. RoundShares(Abs(left), price) = 0
    BY <2>3, <2>4, SmallGapRoundsToZero
  <2>6. ASSUME TradeFor(target, investable, qty + trade, price) # 0 PROVE FALSE
    <3>1. Abs(TradeFor(target, investable, qty + trade, price)) = 0
          /\ TradeFor(target, investable, qty + trade, price) \in Int
      BY <2>1, <2>2, <2>5, <2>6, TradeClosesGap DEF left
    <3>2. QED
      BY <2>6, <3>1 DEF Abs
  <2>7. QED
    BY <2>6 DEF trade
<1>3. QED
  BY <1>1, <1>2

\* The plan of a whole account sells at most what it holds, symbol by symbol:
\* the property ValidPlan of module TradingSession asks of a plan.
THEOREM PlanSellsHoldingsOnly ==
  ASSUME NEW weights \in [Symbols -> Nat], NEW investable \in Int,
         NEW holdings \in [Symbols -> Int], NEW prices \in [Symbols -> (Nat \ {0}) \cup {NoPrice}]
  PROVE  LET plan == Plan(weights, investable, holdings, prices)
         IN  /\ plan \in [Symbols -> Int]
             /\ \A s \in Symbols : plan[s] < 0 => -plan[s] <= holdings[s]
<1> DEFINE plan == Plan(weights, investable, holdings, prices)
<1>1. ASSUME NEW s \in Symbols
      PROVE  plan[s] \in Int /\ (plan[s] < 0 => -plan[s] <= holdings[s])
  <2>1. CASE investable <= 0 \/ prices[s] = NoPrice
    BY <2>1 DEF Plan
  <2>2. CASE ~(investable <= 0 \/ prices[s] = NoPrice)
    <3>1. plan[s] = TradeFor(weights[s], investable, holdings[s], prices[s])
      BY <2>2 DEF Plan
    <3>2. weights[s] \in Nat /\ holdings[s] \in Int /\ prices[s] \in Nat \ {0}
      BY <2>2
    <3>3. QED
      BY <3>1, <3>2, SalesAreCapped
  <2>3. QED
    BY <2>1, <2>2
<1>2. plan \in [Symbols -> Int]
  <2>1. plan = [s \in Symbols |-> plan[s]]
    BY DEF Plan
  <2>2. QED
    BY <1>1, <2>1
<1>3. QED
  BY <1>1, <1>2

\* When the plan leaves a priced symbol alone, its gap is inside the band, below
\* the minimum trade or worth less than one Quantum.
LEMMA UntradedGapIsSmall ==
  ASSUME NEW target \in Nat, NEW investable \in Nat, NEW qty \in Nat, NEW price \in Nat \ {0},
         TradeFor(target, investable, qty, price) = 0
  PROVE  LET gap == Gap(target, investable, qty, price)
         IN  \/ Abs(gap) < Band * investable
             \/ Abs(gap) < MinTrade * W
             \/ Abs(gap) < W * price * Quantum
<1> DEFINE gap == Gap(target, investable, qty, price)
           shares == RoundShares(Abs(gap), price)
<1> SUFFICES ASSUME ~Tolerated(gap, investable) PROVE Abs(gap) < W * price * Quantum
  BY DEF Tolerated
<1>1. gap \in Int /\ Abs(gap) \in Nat
  <2>1. gap \in Int
    BY GapInt
  <2> HIDE DEF gap
  <2>2. QED
    BY <2>1 DEF Abs
<1>2. shares \in Nat /\ Abs(gap) - shares * price * W < W * price * Quantum
  BY <1>1, RoundingBounds
<1>3. CASE shares = 0
  <2>1. shares * price * W = 0
    BY <1>3, WeightAssumption
  <2> HIDE DEF shares
  <2>2. QED
    BY <1>1, <1>2, <2>1
<1>4. CASE shares # 0
  <2>1. gap <= 0 /\ ~(shares <= qty) /\ qty = 0
    BY <1>1, <1>2, <1>4 DEF TradeFor
  <2>2. gap = target * investable
    BY <2>1, WeightAssumption DEF Gap
  <2>3. gap = 0
    BY <1>1, <2>1, <2>2, ProductNat
  <2>4. 0 < W * price * Quantum
    BY WeightAssumption, SettingsAssumption, ProductPos
  <2>5. QED
    BY <2>3, <2>4 DEF Abs
<1>5. QED
  BY <1>3, <1>4

\* A trade is made against a gap that the band does not tolerate.
LEMMA TradesExceedBand ==
  ASSUME NEW target \in Nat, NEW investable \in Nat, NEW qty \in Nat, NEW price \in Nat \ {0},
         NEW gap, gap = Gap(target, investable, qty, price),
         NEW trade, trade = TradeFor(target, investable, qty, price)
  PROVE  /\ trade > 0 => gap > 0 /\ gap >= Band * investable
         /\ trade < 0 => gap < 0 /\ -gap >= Band * investable
<1>1. gap \in Int
  BY GapInt
<1>2. trade \in Int /\ (trade # 0 => ~Tolerated(gap, investable))
  <2>1. trade \in Int
    BY SalesAreCapped
  <2>2. Tolerated(gap, investable) => trade = 0
    BY DEF TradeFor
  <2>3. QED
    BY <2>1, <2>2
<1>3. trade # 0 => Abs(gap) >= Band * investable
  <2>1. Band * investable \in Nat /\ Abs(gap) \in Nat
    BY <1>1, SettingsAssumption, ProductNat DEF Abs
  <2>2. QED
    BY <1>2, <2>1 DEF Tolerated
<1>4. trade # 0 => (gap >= 0 => trade > 0) /\ (gap <= 0 => trade < 0)
  BY <1>1, TradeClosesGap
<1> DEFINE bound == Band * investable
<1>5. bound \in Nat
  BY SettingsAssumption, ProductNat
<1> HIDE DEF bound
<1>6. trade # 0 => Abs(gap) >= bound
  BY <1>3 DEF bound
<1>7. /\ trade > 0 => gap > 0 /\ gap >= bound
      /\ trade < 0 => gap < 0 /\ -gap >= bound
  BY <1>1, <1>2, <1>4, <1>5, <1>6 DEF Abs
<1>8. QED
  BY <1>7 DEF bound

-----------------------------------------------------------------------------
(* Rebalances.  What makes the types inductive, and every safety property   *)
(* follow: a trade of the plan is either still to come or executed in full. *)

\* What the plan of the rebalance last started asks for.
Planned(s) == Plan(targets, opened.investable, opened.held, quote)[s]

Waiting(s)  == todo[s] = Planned(s) /\ held[s] = opened.held[s]
Executed(s) == todo[s] = 0 /\ held[s] = opened.held[s] + Planned(s)

\* Worth is what the plan was made for.  A sale is only still to come while no
\* purchase was made, so cash is what it was or more.
RunInv ==
  /\ opened.cash <= opened.investable
  /\ phase # "trading" => todo = NoTrades
  /\ phase # "idle" =>
       /\ Worth = opened.investable
       /\ \A s \in Symbols : Waiting(s) \/ Executed(s)
       /\ opened.investable <= 0 \/ (\E s \in Symbols : todo[s] < 0) => cash >= opened.cash

Inv == TypeOK /\ RunInv

\* Market prices are numbers, positive where there is a quote.
LEMMA MarketType ==
  ASSUME quote \in [Symbols -> Prices \cup {NoPrice}]
  PROVE  /\ Market \in [Symbols -> Nat]
         /\ \A s \in Symbols : quote[s] # NoPrice =>
              quote[s] \in Nat \ {0} /\ Market[s] = quote[s]
BY PricesAssumption DEF Market

\* The worth of an account is an integer, and no less than its cash.
LEMMA WorthType ==
  ASSUME cash \in Int, held \in [Symbols -> Nat], quote \in [Symbols -> Prices \cup {NoPrice}]
  PROVE  Worth \in Int /\ cash <= Worth
<1> DEFINE value == [s \in Symbols |-> held[s] * Market[s]]
<1>1. \A s \in Symbols : value[s] \in Nat
  BY MarketType
<1>2. Worth = cash + SumFunctionOnSet(value, Symbols)
  BY DEF Worth, Investable, SumFunction
<1> HIDE DEF value
<1>3. SumFunctionOnSet(value, Symbols) \in Nat
  BY <1>1, SymbolsAssumption, SumNat
<1>4. QED
  BY <1>2, <1>3

\* Any blend of indexes is a non-negative weight for every symbol.
LEMMA TargetsAreWeights == Targets \subseteq [Symbols -> Nat]
<1> SUFFICES ASSUME NEW i \in Indexes PROVE BlendTargets(i) \in [Symbols -> Nat]
  BY DEF Targets
<1>1. ASSUME NEW s \in Symbols
      PROVE  SumFunction([x \in i |-> x.allocation * x.weight[s]]) \in Nat
  <2> DEFINE f == [x \in i |-> x.allocation * x.weight[s]]
  <2>1. IsFiniteSet(i) /\ DOMAIN f = i
    BY IndexesAssumption
  <2>2. \A x \in i : x.allocation \in Nat /\ x.weight[s] \in Nat
    BY IndexesAssumption
  <2>3. \A x \in i : f[x] \in Nat
    BY <2>2
  <2> HIDE DEF f
  <2>4. SumFunctionOnSet(f, i) \in Nat
    BY <2>1, <2>3, SumNat
  <2>5. QED
    BY <2>1, <2>4 DEF SumFunction, f
<1>2. QED
  BY <1>1 DEF BlendTargets

\* What a plan trades of a symbol: never more than is held, only at a price,
\* only when there is something to invest.
LEMMA PlannedTrade ==
  ASSUME TypeOK, NEW s \in Symbols
  PROVE  /\ Planned(s) \in Int
         /\ opened.held[s] \in Nat /\ opened.held[s] + Planned(s) \in Nat
         /\ Planned(s) # 0 =>
              /\ quote[s] # NoPrice /\ opened.investable > 0
              /\ Planned(s) = TradeFor(targets[s], opened.investable, opened.held[s], quote[s])
<1>1. /\ targets \in [Symbols -> Nat] /\ opened.investable \in Int
      /\ opened.held \in [Symbols -> Nat] /\ opened.held \in [Symbols -> Int]
      /\ quote \in [Symbols -> (Nat \ {0}) \cup {NoPrice}]
  <2>1. /\ targets \in [Symbols -> Nat] /\ opened.investable \in Int
        /\ opened.held \in [Symbols -> Nat]
    BY DEF TypeOK
  <2>2. quote \in [Symbols -> (Nat \ {0}) \cup {NoPrice}]
    BY PricesAssumption DEF TypeOK
  <2>3. QED
    BY <2>1, <2>2
<1>2. Planned(s) \in Int /\ (Planned(s) < 0 => -Planned(s) <= opened.held[s])
  BY <1>1, PlanSellsHoldingsOnly DEF Planned
<1>3. Planned(s) # 0 =>
        /\ quote[s] # NoPrice /\ ~(opened.investable <= 0)
        /\ Planned(s) = TradeFor(targets[s], opened.investable, opened.held[s], quote[s])
  BY DEF Planned, Plan
<1>4. QED
  BY <1>1, <1>2, <1>3

\* A trade at the quote moves worth between cash and shares.
LEMMA ExecuteKeepsWorth ==
  ASSUME TypeOK, NEW s \in Symbols, quote[s] # NoPrice, Execute(s)
  PROVE  Worth' = Worth /\ cash' \in Int /\ held' \in [Symbols -> Nat]
<1>1. /\ cash \in Int /\ held \in [Symbols -> Nat] /\ todo \in [Symbols -> Int]
      /\ \A t \in Symbols : Market[t] \in Int
      /\ quote[s] \in Int /\ Market[s] = quote[s]
  BY MarketType DEF TypeOK
<1>2. /\ held' = [held EXCEPT ![s] = @ + todo[s]] /\ held[s] + todo[s] >= 0
      /\ cash' = cash - todo[s] * quote[s] /\ Market' = Market
  BY DEF Execute, Market
<1>3. held[s] + todo[s] \in Nat
  BY <1>1, <1>2
<1>4. /\ held' \in [Symbols -> Nat] /\ held'[s] = held[s] + todo[s]
      /\ \A t \in Symbols \ {s} : held'[t] = held[t]
  BY <1>1, <1>2, <1>3
<1> DEFINE old  == [t \in Symbols |-> held[t] * Market[t]]
           new  == [t \in Symbols |-> held'[t] * Market[t]]
           paid == todo[s] * quote[s]
<1>5. \A t \in Symbols : old[t] \in Int /\ new[t] \in Int
  BY <1>1, <1>4
<1>6. \A t \in Symbols \ {s} : new[t] = old[t]
  BY <1>4
<1>7. new[s] - old[s] = paid /\ paid \in Int
  BY <1>1, <1>4
<1>8. /\ Worth = cash + SumFunctionOnSet(old, Symbols)
      /\ Worth' = cash' + SumFunctionOnSet(new, Symbols)
  BY <1>2 DEF Worth, Investable, SumFunction
<1> HIDE DEF old, new
<1>9. /\ SumFunctionOnSet(new, Symbols) = SumFunctionOnSet(old, Symbols) + paid
      /\ SumFunctionOnSet(old, Symbols) \in Int
  BY <1>5, <1>6, <1>7, SymbolsAssumption, SumChange, SumInt
<1>10. cash' = cash - paid
  BY <1>2
<1> HIDE DEF paid
<1>11. QED
  BY <1>1, <1>4, <1>7, <1>8, <1>9, <1>10

\* A trade keeps the invariant,
LEMMA ExecuteKeepsInv ==
  ASSUME Inv, NEW s \in Symbols, Execute(s)
  PROVE  Inv'
<1>1. /\ TypeOK /\ RunInv /\ phase = "trading" /\ IsNext(s) /\ todo[s] # 0
      /\ todo' = [todo EXCEPT ![s] = 0] /\ held' = [held EXCEPT ![s] = @ + todo[s]]
      /\ UNCHANGED <<quote, targets, phase, opened, runs>>
      /\ cash' = cash - todo[s] * quote[s]
  BY DEF Inv, Execute, IsNext
<1>2. Waiting(s)
  BY <1>1 DEF RunInv, Executed
<1>3. quote[s] # NoPrice /\ quote[s] \in Nat \ {0} /\ opened.investable > 0
  BY <1>1, <1>2, PlannedTrade, MarketType DEF Waiting, TypeOK
<1>4. Worth' = Worth /\ cash' \in Int /\ held' \in [Symbols -> Nat]
  BY <1>1, <1>3, ExecuteKeepsWorth
<1>5. /\ cash \in Int /\ held \in [Symbols -> Nat] /\ todo \in [Symbols -> Int]
      /\ opened.cash \in Int /\ opened.investable \in Int
  BY <1>1 DEF TypeOK
<1>6. TypeOK'
  <2>1. todo' \in [Symbols -> Int]
    BY <1>1, <1>5
  <2>2. QED
    BY <1>1, <1>4, <2>1 DEF TypeOK
<1>7. ASSUME NEW t \in Symbols PROVE Waiting(t)' \/ Executed(t)'
  <2>1. Planned(t)' = Planned(t)
    BY <1>1 DEF Planned
  <2>2. CASE t = s
    <3>1. todo'[t] = 0 /\ held'[t] = held[t] + todo[t]
      BY <1>1, <1>5, <2>2
    <3>2. QED
      BY <1>1, <1>2, <2>1, <2>2, <3>1 DEF Waiting, Executed
  <2>3. CASE t # s
    <3>1. todo'[t] = todo[t] /\ held'[t] = held[t]
      BY <1>1, <1>5, <2>3
    <3>2. Waiting(t) \/ Executed(t)
      BY <1>1 DEF RunInv
    <3>3. QED
      BY <1>1, <2>1, <3>1, <3>2 DEF Waiting, Executed
  <2>4. QED
    BY <2>2, <2>3
<1>8. ASSUME NEW t \in Symbols, todo'[t] < 0 PROVE cash' >= opened.cash
  <2>1. t # s /\ todo[t] < 0
    BY <1>1, <1>5, <1>8
  <2>2. cash >= opened.cash
    BY <1>1, <2>1 DEF RunInv
  <2>3. todo[s] < 0
    BY <1>1, <1>5, <2>1 DEF IsNext
  <2> DEFINE paid == todo[s] * quote[s]
  <2>4. paid \in Int /\ paid <= 0
    BY <1>3, <1>5, <2>3
  <2>5. cash' = cash - paid
    BY <1>1
  <2> HIDE DEF paid
  <2>6. QED
    BY <1>5, <2>2, <2>4, <2>5
<1>9. RunInv'
  <2>1. opened.cash <= opened.investable /\ Worth = opened.investable
    BY <1>1 DEF RunInv
  <2>2. ~(opened.investable <= 0)
    BY <1>3, <1>5
  <2>3. QED
    BY <1>1, <1>4, <1>7, <1>8, <2>1, <2>2 DEF RunInv
<1>10. QED
  BY <1>6, <1>9 DEF Inv

\* and so does a new plan.
LEMMA MakePlanKeepsInv ==
  ASSUME Inv, MakePlan
  PROVE  Inv'
<1>1. /\ TypeOK /\ phase' = "trading" /\ runs < MaxRuns /\ runs' = runs + 1
      /\ todo' = Plan(targets, Worth, held, quote)
      /\ opened' = [cash |-> cash, held |-> held, investable |-> Worth]
      /\ UNCHANGED <<cash, held, quote, targets>>
  BY DEF Inv, MakePlan
<1>2. Worth \in Int /\ cash <= Worth /\ Worth' = Worth
  BY <1>1, WorthType DEF TypeOK, Worth, Investable, Market
<1>3. todo' \in [Symbols -> Int]
  <2>1. /\ targets \in [Symbols -> Nat] /\ held \in [Symbols -> Int]
    BY <1>1 DEF TypeOK
  <2>2. quote \in [Symbols -> (Nat \ {0}) \cup {NoPrice}]
    BY <1>1, PricesAssumption DEF TypeOK
  <2>3. QED
    BY <1>1, <1>2, <2>1, <2>2, PlanSellsHoldingsOnly
<1>4. TypeOK'
  <2>1. runs' \in 0..MaxRuns
    BY <1>1, RunsAssumption DEF TypeOK
  <2>2. opened' \in [cash : Int, held : [Symbols -> Nat], investable : Int]
    BY <1>1, <1>2 DEF TypeOK
  <2>3. QED
    BY <1>1, <1>3, <2>1, <2>2 DEF TypeOK
<1>5. opened'.cash = cash /\ opened'.held = held /\ opened'.investable = Worth
  BY <1>1
<1>6. \A s \in Symbols : Waiting(s)'
  BY <1>1, <1>5 DEF Waiting, Planned
<1>7. cash >= cash
  BY <1>1 DEF TypeOK
<1>8. RunInv'
  BY <1>1, <1>2, <1>5, <1>6, <1>7 DEF RunInv
<1>9. QED
  BY <1>4, <1>8 DEF Inv

\* Every step keeps the invariant,
LEMMA InvStep == Inv /\ [Next]_vars => Inv'
<1> SUFFICES ASSUME Inv, [Next]_vars PROVE Inv'
  OBVIOUS
<1> USE DEF Inv
<1>1. TypeOK /\ RunInv
  OBVIOUS
<1>2. CASE MakePlan
  BY <1>2, MakePlanKeepsInv
<1>3. CASE Finish
  <2>1. UNCHANGED <<cash, held, quote, targets, todo, opened, runs>> /\ phase' = "done"
        /\ phase = "trading" /\ todo = NoTrades
    BY <1>3 DEF Finish
  <2>2. TypeOK'
    BY <1>1, <2>1 DEF TypeOK
  <2>3. RunInv'
    BY <1>1, <2>1
    DEF RunInv, Worth, Investable, Market, Waiting, Executed, Planned, NoTrades
  <2>4. QED
    BY <2>2, <2>3
<1>4. ASSUME NEW s \in Symbols, Execute(s) PROVE Inv'
  BY <1>4, ExecuteKeepsInv
<1>5. ASSUME NEW s \in Symbols, NEW p \in Prices, SetPrice(s, p) PROVE Inv'
  <2>1. UNCHANGED <<cash, held, targets, todo, opened, runs>> /\ phase' = "idle"
        /\ phase # "trading" /\ quote' = [quote EXCEPT ![s] = p]
    BY <1>5 DEF SetPrice
  <2>2. TypeOK'
    BY <1>1, <2>1 DEF TypeOK
  <2>3. RunInv'
    BY <1>1, <2>1 DEF RunInv, NoTrades
  <2>4. QED
    BY <2>2, <2>3
<1>6. ASSUME NEW amount \in Cash, Deposit(amount) PROVE Inv'
  <2>1. UNCHANGED <<held, quote, targets, todo, opened, runs>> /\ phase' = "idle"
        /\ phase = "done" /\ cash' = cash + amount
    BY <1>6 DEF Deposit
  <2>2. TypeOK'
    BY <1>1, <2>1, HoldingsAssumption DEF TypeOK
  <2>3. RunInv'
    BY <1>1, <2>1 DEF RunInv, NoTrades
  <2>4. QED
    BY <2>2, <2>3
<1>7. ASSUME NEW t \in Targets, Retarget(t) PROVE Inv'
  <2>1. UNCHANGED <<cash, held, quote, todo, opened, runs>> /\ phase' = "idle"
        /\ phase = "done" /\ targets' = t
    BY <1>7 DEF Retarget
  <2>2. TypeOK'
    BY <1>1, <2>1, TargetsAreWeights DEF TypeOK
  <2>3. RunInv'
    BY <1>1, <2>1 DEF RunInv, NoTrades
  <2>4. QED
    BY <2>2, <2>3
<1>8. CASE UNCHANGED vars
  BY <1>1, <1>8
  DEF vars, TypeOK, RunInv, Worth, Investable, Market, Waiting, Executed, Planned, NoTrades
<1>9. QED
  BY <1>2, <1>3, <1>4, <1>5, <1>6, <1>7, <1>8 DEF Next

\* it holds at the start,
LEMMA InvInit == Init => Inv
<1> SUFFICES ASSUME Init PROVE Inv
  OBVIOUS
<1>1. cash \in Int /\ held \in [Symbols -> Nat]
  <2>1. Holdings \subseteq Nat /\ Cash \subseteq Int
    BY HoldingsAssumption
  <2>2. [Symbols -> Holdings] \subseteq [Symbols -> Nat]
    BY <2>1
  <2>3. QED
    BY <2>1, <2>2, Zenon DEF Init
<1>2. /\ quote \in [Symbols -> Prices \cup {NoPrice}] /\ targets \in [Symbols -> Nat]
      /\ phase = "idle" /\ todo = NoTrades /\ runs = 0
      /\ opened = [cash |-> cash, held |-> held, investable |-> Worth]
  BY TargetsAreWeights DEF Init
<1>3. Worth \in Int /\ cash <= Worth
  BY <1>1, <1>2, WorthType
<1>4. TypeOK
  BY <1>1, <1>2, <1>3, RunsAssumption DEF TypeOK, NoTrades
<1>5. RunInv
  BY <1>2, <1>3 DEF RunInv
<1>6. QED
  BY <1>4, <1>5 DEF Inv

\* and therefore always.
LEMMA InvHolds == Spec => []Inv
BY InvInit, InvStep, PTL DEF Spec

\* Every variable keeps its shape; in particular no position of the account
\* becomes negative, over any number of rebalances.
THEOREM RebalanceTypeCorrect == Spec => []TypeOK
<1>1. Inv => TypeOK
  BY DEF Inv
<1>2. QED
  BY <1>1, InvHolds, PTL

\* Whatever the prices, targets and holdings, PaperBroker.execute never raises
\* in the middle of a plan.
THEOREM PlanIsExecutableHolds == Spec => []PlanIsExecutable
<1>1. ASSUME Inv PROVE PlanIsExecutable
  <2> SUFFICES ASSUME NEW s \in Symbols, todo[s] # 0
               PROVE  quote[s] # NoPrice /\ held[s] + todo[s] >= 0
    BY DEF PlanIsExecutable
  <2>1. TypeOK /\ Waiting(s)
    BY <1>1 DEF Inv, RunInv, Executed, NoTrades
  <2>2. QED
    BY <2>1, PlannedTrade DEF Waiting
<1>2. QED
  BY <1>1, InvHolds, PTL

\* A holding is between where the plan found it and its target, at every step
\* of every rebalance.
THEOREM NoOvershootHolds == Spec => []NoOvershoot
<1>1. ASSUME Inv PROVE NoOvershoot
  <2> SUFFICES ASSUME phase # "idle", NEW s \in Symbols, quote[s] # NoPrice
               PROVE  LET before == Gap(targets[s], opened.investable, opened.held[s], quote[s])
                      IN  IF before >= 0 THEN Missing(s) \in 0..before
                                         ELSE Missing(s) \in before..0
    BY DEF NoOvershoot
  <2> DEFINE before == Gap(targets[s], opened.investable, opened.held[s], quote[s])
  <2>1. /\ TypeOK /\ targets[s] \in Nat /\ opened.investable \in Int
        /\ opened.held[s] \in Nat /\ quote[s] \in Nat \ {0}
    BY <1>1, MarketType DEF Inv, TypeOK
  <2>2. before \in Int
    <3>1. opened.held[s] \in Int /\ quote[s] \in Nat
      BY <2>1
    <3>2. QED
      BY <2>1, <3>1, GapInt
  <2>3. held[s] = opened.held[s] \/ held[s] = opened.held[s] + Planned(s)
    BY <1>1 DEF Inv, RunInv, Waiting, Executed
  <2>4. CASE held[s] = opened.held[s]
    <3>1. Missing(s) = before
      BY <2>4 DEF Missing
    <3> HIDE DEF before
    <3>2. IF before >= 0 THEN Missing(s) \in 0..before ELSE Missing(s) \in before..0
      BY <2>2, <3>1
    <3>3. QED
      BY <3>2 DEF before
  <2>5. CASE held[s] # opened.held[s]
    <3>1. Planned(s) # 0
      BY <2>1, <2>3, <2>5
    <3>2. /\ opened.investable \in Nat /\ held[s] = opened.held[s] + Planned(s)
          /\ Planned(s) = TradeFor(targets[s], opened.investable, opened.held[s], quote[s])
      BY <2>1, <2>3, <2>5, <3>1, PlannedTrade
    <3>3. /\ before >= 0 => Missing(s) \in 0..before
          /\ before <= 0 => Missing(s) \in before..0
      BY <2>1, <3>1, <3>2, TradesNeverOvershoot DEF Missing
    <3> HIDE DEF before
    <3>4. IF before >= 0 THEN Missing(s) \in 0..before ELSE Missing(s) \in before..0
      BY <2>2, <3>3
    <3>5. QED
      BY <3>4 DEF before
  <2>6. QED
    BY <2>4, <2>5
<1>2. QED
  BY <1>1, InvHolds, PTL

\* A rebalance that ran to its end leaves nothing that the next one, at the
\* same prices and targets, would trade on.
THEOREM PlanSettlesHolds == Spec => []PlanSettles
<1>1. ASSUME Inv PROVE PlanSettles
  <2> SUFFICES ASSUME phase = "done", NEW s \in Symbols
               PROVE  Plan(targets, Worth, held, quote)[s] = 0
    BY DEF PlanSettles, NoTrades, Plan
  <2>1. TypeOK /\ todo = NoTrades /\ Worth = opened.investable
    BY <1>1 DEF Inv, RunInv
  <2>2. Planned(s) \in Int /\ opened.held[s] \in Nat
    BY <2>1, PlannedTrade
  <2>3. held[s] = opened.held[s] + Planned(s)
    <3>1. Waiting(s) \/ Executed(s)
      BY <1>1 DEF Inv, RunInv
    <3>2. QED
      BY <2>1, <2>2, <3>1 DEF Waiting, Executed, NoTrades
  <2>4. CASE opened.investable <= 0 \/ quote[s] = NoPrice
    BY <2>1, <2>4 DEF Plan
  <2>5. CASE ~(opened.investable <= 0 \/ quote[s] = NoPrice)
    <3>1. /\ targets[s] \in Nat /\ opened.investable \in Nat /\ quote[s] \in Nat \ {0}
      BY <2>1, <2>5, MarketType DEF TypeOK
    <3>2. Planned(s) = TradeFor(targets[s], opened.investable, opened.held[s], quote[s])
      BY <2>5 DEF Planned, Plan
    <3>3. Plan(targets, Worth, held, quote)[s] =
            TradeFor(targets[s], opened.investable, held[s], quote[s])
      BY <2>1, <2>5 DEF Plan
    <3>4. QED
      BY <2>2, <2>3, <3>1, <3>2, <3>3, TradesSettle
  <2>6. QED
    BY <2>4, <2>5
<1>2. QED
  BY <1>1, InvHolds, PTL

\* A priced symbol whose gap reaches the band is left alone exactly when it is
\* listed as skipped.
LEMMA UntradedIsListed ==
  ASSUME NEW target \in Nat, NEW investable \in Nat, NEW qty \in Nat, NEW price \in Nat \ {0},
         NEW gap \in Int, gap = Gap(target, investable, qty, price),
         Abs(gap) >= Band * investable
  PROVE  TradeFor(target, investable, qty, price) = 0 <=>
           Abs(gap) < MinTrade * W \/ RoundShares(Abs(gap), price) = 0
<1> DEFINE trade  == TradeFor(target, investable, qty, price)
           shares == RoundShares(Abs(gap), price)
           little == Abs(gap) < MinTrade * W \/ shares = 0
<1>1. Abs(gap) \in Nat /\ shares \in Nat
  BY RoundingBounds DEF Abs
<1>2. Band * investable \in Nat /\ MinTrade * W \in Nat
  BY SettingsAssumption, WeightAssumption, ProductNat
<1>3. ASSUME trade # 0 PROVE ~Tolerated(gap, investable) /\ Abs(trade) = shares /\ shares # 0
  <2>1. ~Tolerated(gap, investable)
    BY <1>3 DEF TradeFor
  <2>2. trade \in Int /\ Abs(trade) = shares
    BY <1>3, TradeClosesGap
  <2> HIDE DEF trade, shares
  <2>3. QED
    BY <1>3, <2>1, <2>2 DEF Abs
<1>4. little => trade = 0
  <2> SUFFICES ASSUME trade # 0 PROVE ~little
    OBVIOUS
  <2>1. ~(Abs(gap) < MinTrade * W) /\ shares # 0
    BY <1>3 DEF Tolerated
  <2>2. QED
    BY <2>1
<1>5. ASSUME trade = 0, ~(Abs(gap) < MinTrade * W) PROVE shares = 0
  <2>1. ~Tolerated(gap, investable)
    BY <1>1, <1>2, <1>5 DEF Tolerated
  <2>2. CASE gap > 0
    BY <1>5, <2>1, <2>2 DEF TradeFor
  <2>3. CASE ~(gap > 0)
    <3>1. shares <= qty => -shares = 0
      BY <1>5, <2>1, <2>3 DEF TradeFor
    <3>2. ~(shares <= qty) => -qty = 0
      BY <1>5, <2>1, <2>3 DEF TradeFor
    <3>3. qty = 0 => gap = 0
      <4> SUFFICES ASSUME qty = 0 PROVE gap = 0
        OBVIOUS
      <4>1. gap = target * investable
        BY WeightAssumption DEF Gap
      <4>2. target * investable \in Nat
        BY ProductNat
      <4>3. QED
        BY <2>3, <4>1, <4>2
    <3>4. gap = 0 => shares = 0
      <4> SUFFICES ASSUME gap = 0 PROVE shares = 0
        OBVIOUS
      <4>1. Abs(gap) = 0
        BY DEF Abs
      <4>2. 0 < W * price * Quantum
        BY WeightAssumption, SettingsAssumption, ProductPos
      <4>3. QED
        BY <4>1, <4>2, SmallGapRoundsToZero
    <3> HIDE DEF shares
    <3>5. QED
      BY <1>1, <3>1, <3>2, <3>3, <3>4
  <2>4. QED
    BY <2>2, <2>3
<1>6. trade = 0 => little
  BY <1>5
<1>7. QED
  BY <1>4, <1>6

\* DriftIsExplained: status never shows a drift that rebalance would trade the
\* other way, nor one outside the band that it neither trades nor lists.
THEOREM DriftIsExplainedHolds == Spec => []DriftIsExplained
<1>1. ASSUME Inv PROVE DriftIsExplained
  <2> DEFINE trade(s)   == Plan(targets, Worth, held, quote)[s]
             drift(s)   == DriftReport(targets, Worth, held, quote)[s]
             skipped(s) == s \in Skips(targets, Worth, held, quote)
             outside(s) == Abs(drift(s)) >= Band * Worth
  <2> SUFFICES ASSUME Worth > 0, NEW s \in Symbols
               PROVE  /\ trade(s) > 0 => drift(s) < 0 /\ outside(s)
                      /\ trade(s) < 0 => drift(s) > 0 /\ outside(s)
                      /\ trade(s) = 0 /\ drift(s) # 0 /\ outside(s) => skipped(s)
                      /\ skipped(s) => trade(s) = 0 /\ (outside(s) \/ quote[s] = NoPrice)
    BY DEF DriftIsExplained
  <2>1. TypeOK /\ Worth \in Nat /\ Worth > 0 /\ targets[s] \in Nat /\ held[s] \in Nat
    BY <1>1, WorthType DEF Inv, TypeOK
  <2>2. CASE quote[s] = NoPrice
    <3>1. trade(s) = 0
      BY <2>2 DEF Plan
    <3>2. drift(s) = held[s] * 0 * W - targets[s] * Worth
      BY <2>1, <2>2 DEF DriftReport
    <3>3. targets[s] = 0 => drift(s) = 0
      BY <2>1, <3>2, WeightAssumption
    <3>4. targets[s] > 0 => skipped(s)
      BY <2>1, <2>2 DEF Skips
    <3>5. drift(s) # 0 => skipped(s)
      BY <2>1, <3>3, <3>4
    <3> HIDE DEF trade, drift, skipped, outside
    <3>6. QED
      BY <2>2, <3>1, <3>5
  <2>3. CASE quote[s] # NoPrice
    <3> DEFINE gap  == Gap(targets[s], Worth, held[s], quote[s])
               band == Band * Worth
    <3>1. quote[s] \in Nat \ {0} /\ quote[s] \in Nat /\ held[s] \in Int /\ band \in Nat
      BY <2>1, <2>3, MarketType, SettingsAssumption, ProductNat DEF TypeOK
    <3>2. trade(s) = TradeFor(targets[s], Worth, held[s], quote[s])
      BY <2>1, <2>3 DEF Plan
    <3>3. gap \in Int
      BY <2>1, <3>1, GapInt
    <3>4. drift(s) = -gap
      <4>1. drift(s) = held[s] * quote[s] * W - targets[s] * Worth
        BY <2>1, <2>3 DEF DriftReport
      <4>2. gap = targets[s] * Worth - held[s] * quote[s] * W
        BY DEF Gap
      <4>3. held[s] * quote[s] * W \in Nat /\ targets[s] * Worth \in Nat
        <5>1. held[s] * quote[s] \in Nat /\ W \in Nat
          BY <2>1, <3>1, ProductNat, WeightAssumption
        <5>2. QED
          BY <2>1, <5>1, ProductNat
      <4> DEFINE x == held[s] * quote[s] * W
                 y == targets[s] * Worth
      <4> HIDE DEF x, y, gap, drift
      <4>4. drift(s) = x - y /\ gap = y - x /\ x \in Nat /\ y \in Nat
        BY <4>1, <4>2, <4>3 DEF x, y
      <4>5. QED
        BY <4>4
    <3>5. Abs(drift(s)) = Abs(gap) /\ (drift(s) < 0 <=> gap > 0) /\ (drift(s) > 0 <=> gap < 0)
      <4> HIDE DEF gap, drift
      <4>1. QED
        BY <3>3, <3>4 DEF Abs
    <3>6. skipped(s) <=> /\ Abs(gap) >= Band * Worth
                         /\ Abs(gap) < MinTrade * W \/ RoundShares(Abs(gap), quote[s]) = 0
      <4> HIDE DEF band
      <4>1. QED
        BY <2>1, <2>3 DEF Skips
    <3>7. /\ trade(s) = 0 /\ Abs(gap) >= Band * Worth => skipped(s)
          /\ skipped(s) => trade(s) = 0
      <4>1. Abs(gap) >= Band * Worth =>
              (trade(s) = 0 <=> Abs(gap) < MinTrade * W \/ RoundShares(Abs(gap), quote[s]) = 0)
        BY <2>1, <3>1, <3>2, <3>3, UntradedIsListed
      <4> HIDE DEF skipped, trade, gap
      <4>2. QED
        BY <3>6, <4>1
    <3>8. /\ trade(s) > 0 => gap > 0 /\ gap >= Band * Worth
          /\ trade(s) < 0 => gap < 0 /\ -gap >= Band * Worth
      BY <2>1, <3>1, <3>2, TradesExceedBand
    <3>9. outside(s) = (Abs(gap) >= band)
      BY <3>5
    <3>10. skipped(s) => Abs(gap) >= band
      BY <3>6
    <3> HIDE DEF trade, drift, skipped, outside, gap, band
    <3>11. /\ trade(s) > 0 => gap > 0 /\ gap >= band
           /\ trade(s) < 0 => gap < 0 /\ -gap >= band
           /\ trade(s) = 0 /\ Abs(gap) >= band => skipped(s)
      BY <3>7, <3>8 DEF band
    <3>12. /\ gap > 0 => Abs(gap) = gap
           /\ gap < 0 => Abs(gap) = -gap
      BY <3>3 DEF Abs
    <3>13. QED
      BY <3>1, <3>3, <3>5, <3>7, <3>9, <3>10, <3>11, <3>12
  <2>4. QED
    BY <2>2, <2>3
<1>2. QED
  BY <1>1, InvHolds, PTL

-----------------------------------------------------------------------------
(* Debt.  W times the cash is what the targets leave of the portfolio, plus  *)
(* what the holdings miss of their targets; only overweight holdings miss a  *)
(* negative amount, and no more of it than the plan leaves untouched.        *)

\* Max of a triple of integers, or a pair, is a bound of each.
LEMMA MaxOfThree ==
  ASSUME NEW a \in Int, NEW b \in Int, NEW c \in Int
  PROVE  /\ Max({a, b, c}) \in Int
         /\ Max({a, b, c}) >= a /\ Max({a, b, c}) >= b /\ Max({a, b, c}) >= c
<1>1. \E x \in {a, b, c} : \A y \in {a, b, c} : x >= y
  OBVIOUS
<1>2. Max({a, b, c}) \in {a, b, c} /\ \A y \in {a, b, c} : Max({a, b, c}) >= y
  BY <1>1 DEF Max
<1>3. QED
  BY <1>2

\* The maximum of two integers is an upper bound of both.
LEMMA MaxOfTwo ==
  ASSUME NEW a \in Int, NEW b \in Int
  PROVE  Max({a, b}) \in Int /\ Max({a, b}) >= a /\ Max({a, b}) >= b
<1>1. {a, b} = {a, b, b}
  OBVIOUS
<1>2. QED
  BY <1>1, MaxOfThree

\* Slack(s) is at least each of the margins it is the largest of.
LEMMA SlackBounds ==
  ASSUME TypeOK, NEW s \in Symbols, quote[s] # NoPrice
  PROVE  /\ Slack(s) \in Nat
         /\ Slack(s) >= Band * opened.investable
         /\ Slack(s) >= MinTrade * W
         /\ Slack(s) >= W * quote[s] * Quantum
<1>1. quote[s] \in Nat \ {0} /\ opened.investable \in Int
  BY MarketType DEF TypeOK
<1>2. /\ Band * opened.investable \in Int /\ MinTrade * W \in Int
      /\ W * quote[s] * Quantum \in Nat \ {0}
  BY <1>1, SettingsAssumption, WeightAssumption, ProductPos
<1> DEFINE a == Band * opened.investable
           b == MinTrade * W
           c == W * quote[s] * Quantum
<1>3. Slack(s) = Max({a, b, c})
  BY DEF Slack
<1> HIDE DEF a, b, c
<1>4. a \in Int /\ b \in Int /\ c \in Nat \ {0} /\ c \in Int
  BY <1>2 DEF a, b, c
<1>5. Slack(s) \in Int /\ Slack(s) >= a /\ Slack(s) >= b /\ Slack(s) >= c
  <2>1. /\ Max({a, b, c}) \in Int
        /\ Max({a, b, c}) >= a /\ Max({a, b, c}) >= b /\ Max({a, b, c}) >= c
    BY <1>4, MaxOfThree
  <2>2. QED
    BY <1>3, <2>1
<1>6. Slack(s) \in Nat
  BY <1>4, <1>5
<1>7. QED
  BY <1>5, <1>6 DEF a, b, c

\* Once the sales are made, an overweight symbol misses no more than Slack.
LEMMA OverweightIsSlack ==
  ASSUME Inv, phase # "idle", opened.investable \in Nat \ {0}, \A t \in Symbols : ~(todo[t] < 0),
         NEW s \in Symbols, quote[s] # NoPrice, Missing(s) < 0
  PROVE  -Missing(s) <= Slack(s)
<1> DEFINE before == Gap(targets[s], opened.investable, opened.held[s], quote[s])
<1>1. /\ TypeOK /\ targets[s] \in Nat /\ quote[s] \in Nat \ {0}
      /\ opened.held[s] \in Nat /\ held[s] \in Nat /\ held[s] \in Int /\ quote[s] \in Nat
      /\ todo[s] \in Int
  BY MarketType DEF Inv, TypeOK
<1>2. Missing(s) \in Int
  BY <1>1, GapInt DEF Missing
<1>3. /\ Slack(s) \in Nat /\ Slack(s) >= Band * opened.investable
      /\ Slack(s) >= MinTrade * W /\ Slack(s) >= W * quote[s] * Quantum
  BY <1>1, SlackBounds
<1>4. /\ Band * opened.investable \in Int /\ MinTrade * W \in Int
      /\ W * quote[s] * Quantum \in Int
  BY <1>1, SettingsAssumption, WeightAssumption
<1>5. Waiting(s) \/ Executed(s)
  BY DEF Inv, RunInv
<1>6. \/ Abs(Missing(s)) < Band * opened.investable
      \/ Abs(Missing(s)) < MinTrade * W
      \/ Abs(Missing(s)) < W * quote[s] * Quantum
  <2>1. CASE Planned(s) = 0
    <3>1. Missing(s) = before
      BY <1>1, <1>5, <2>1 DEF Waiting, Executed, Missing
    <3>2. TradeFor(targets[s], opened.investable, opened.held[s], quote[s]) = 0
      BY <1>1, <2>1 DEF Planned, Plan
    <3>3. QED
      BY <1>1, <3>1, <3>2, UntradedGapIsSmall
  <2>2. CASE Planned(s) # 0
    <3>1. Planned(s) = TradeFor(targets[s], opened.investable, opened.held[s], quote[s])
      BY <1>1, <2>2, PlannedTrade
    <3>2. CASE Executed(s)
      BY <1>1, <2>2, <3>1, <3>2, TradesNeverOvershoot DEF Executed, Missing
    <3>3. CASE Waiting(s)
      <4>1. Planned(s) > 0
        BY <1>1, <2>2, <3>3 DEF Waiting
      <4>2. before > 0
        BY <1>1, <3>1, <4>1, TradesExceedBand
      <4>3. QED
        BY <1>2, <3>3, <4>2 DEF Waiting, Missing
    <3>4. QED
      BY <1>5, <3>2, <3>3
  <2>3. QED
    BY <2>1, <2>2
<1>7. QED
  BY <1>2, <1>3, <1>4, <1>6 DEF Abs

\* Arithmetic that the prover is given by itself.
LEMMA Regroup ==
  ASSUME NEW a \in Int, NEW b \in Int, NEW c \in Int, NEW d \in Int
  PROVE  a * b - c * d = b * a + (-d) * c
OBVIOUS

\* W times the cash, in terms of what every holding misses of its target.
LEMMA CashCoversMissing ==
  ASSUME Inv, phase # "idle", opened.investable \in Nat,
         NEW short, \A s \in Symbols : short[s] \in Int,
         \A s \in Symbols : quote[s] = NoPrice => short[s] <= 0,
         \A s \in Symbols : quote[s] # NoPrice => short[s] <= Missing(s)
  PROVE  SumFunctionOnSet(short, Symbols)
           <= cash * W + (SumFunctionOnSet(targets, Symbols) - W) * opened.investable
<1> DEFINE I      == opened.investable
           value  == [s \in Symbols |-> held[s] * Market[s]]
           zero   == [s \in Symbols |-> 0]
           less   == [s \in Symbols |-> (-W) * value[s]]
           misses == [s \in Symbols |-> I * targets[s] + less[s]]
           v      == SumFunctionOnSet(value, Symbols)
           t      == SumFunctionOnSet(targets, Symbols)
<1>1. /\ TypeOK /\ cash \in Int /\ W \in Nat \ {0} /\ I \in Nat /\ W \in Int /\ -W \in Int
      /\ Worth = I
  BY WeightAssumption DEF Inv, RunInv, TypeOK
<1>2. \A s \in Symbols : targets[s] \in Nat /\ held[s] \in Nat /\ Market[s] \in Nat
  BY <1>1, MarketType DEF TypeOK
<1>3. \A s \in Symbols : value[s] \in Int
  BY <1>2
<1>4. I = cash + v
  BY <1>1 DEF Worth, Investable, SumFunction
<1>5. \A s \in Symbols : short[s] <= misses[s]
  <2> SUFFICES ASSUME NEW s \in Symbols PROVE short[s] <= I * targets[s] + (-W) * (held[s] * Market[s])
    OBVIOUS
  <2>1. CASE quote[s] = NoPrice
    <3>1. Market[s] = 0 /\ held[s] * 0 = 0 /\ (-W) * 0 = 0
      BY <1>1, <1>2, <2>1 DEF Market
    <3>2. short[s] \in Int /\ short[s] <= 0 /\ I * targets[s] \in Nat
      BY <1>1, <1>2, <2>1, ProductNat
    <3>3. I * targets[s] + (-W) * (held[s] * Market[s]) = I * targets[s]
      BY <3>1, <3>2
    <3> HIDE DEF I
    <3>4. QED
      BY <3>2, <3>3
  <2>2. CASE quote[s] # NoPrice
    <3>1. Missing(s) = targets[s] * I - held[s] * Market[s] * W
      BY <2>2 DEF Missing, Gap, Market
    <3>2. targets[s] * I - held[s] * Market[s] * W = I * targets[s] + (-W) * (held[s] * Market[s])
      <4>1. held[s] * Market[s] \in Int /\ targets[s] \in Int
        BY <1>2
      <4> HIDE DEF I
      <4>2. QED
        BY <1>1, <4>1, Regroup
    <3>3. QED
      BY <2>2, <3>1, <3>2
  <2>3. QED
    BY <2>1, <2>2
<1> HIDE DEF I, value
<1>6. \A s \in Symbols : less[s] \in Int /\ less[s] = (-W) * value[s] + zero[s] /\ zero[s] \in Int
  BY <1>1, <1>3
<1>7. \A s \in Symbols : misses[s] \in Int /\ misses[s] = I * targets[s] + less[s]
  BY <1>1, <1>2, <1>6
<1>8. \A s \in Symbols : zero[s] = 0
  OBVIOUS
<1> HIDE DEF less, misses, zero
<1>9. SumFunctionOnSet(less, Symbols) = (-W) * v + SumFunctionOnSet(zero, Symbols)
  <2>1. IsFiniteSet(Symbols) /\ -W \in Int /\ Linear(less, -W, value, zero, Symbols)
    BY <1>1, <1>3, <1>6, SymbolsAssumption DEF Linear
  <2>2. QED
    BY <2>1, SumLinear
<1>10. SumFunctionOnSet(zero, Symbols) = 0
  BY <1>8, SymbolsAssumption, SumZero
<1>11. \A s \in Symbols : targets[s] \in Int
  BY <1>2
<1>12. SumFunctionOnSet(misses, Symbols) = I * t + SumFunctionOnSet(less, Symbols)
  <2>1. IsFiniteSet(Symbols) /\ I \in Int /\ Linear(misses, I, targets, less, Symbols)
    BY <1>1, <1>6, <1>7, <1>11, SymbolsAssumption DEF Linear
  <2>2. QED
    BY <2>1, SumLinear
<1>13. SumFunctionOnSet(short, Symbols) <= SumFunctionOnSet(misses, Symbols)
  BY <1>5, <1>7, SymbolsAssumption, SumLeq
<1>14. v \in Int /\ t \in Int
  BY <1>3, <1>11, SymbolsAssumption, SumInt
<1> HIDE DEF v, t
<1>15. SumFunctionOnSet(misses, Symbols) = cash * W + (t - W) * I
  <2>1. SumFunctionOnSet(misses, Symbols) = I * t + (-W) * v
    BY <1>1, <1>9, <1>10, <1>12, <1>14
  <2>2. v = I - cash
    BY <1>1, <1>4, <1>14
  <2>3. (-W) * (I - cash) = cash * W - W * I
    BY <1>1
  <2>4. (t - W) * I = I * t - W * I
    BY <1>1, <1>14
  <2>5. I * t \in Int /\ cash * W \in Int /\ W * I \in Int
    BY <1>1, <1>14
  <2>6. QED
    BY <2>1, <2>2, <2>3, <2>4, <2>5
<1>16. QED
  BY <1>13, <1>15 DEF I, t

\* At no point of the loop over the trades is an account that had no debt
\* further in debt than what the plan left untouched of overweight holdings.
THEOREM OverspendIsBoundedHolds == Spec => []OverspendIsBounded
<1>1. ASSUME Inv PROVE OverspendIsBounded
  <2> SUFFICES ASSUME phase # "idle", opened.cash >= 0
               PROVE  LET overweight == {s \in Symbols : quote[s] # NoPrice /\ Missing(s) < 0}
                      IN  -cash * W <= SumFunction([s \in overweight |-> Slack(s)])
                                         + Excess * opened.investable
    BY DEF OverspendIsBounded
  <2> DEFINE overweight == {s \in Symbols : quote[s] # NoPrice /\ Missing(s) < 0}
             slack == [s \in overweight |-> Slack(s)]
             total == SumFunctionOnSet(slack, overweight)
             I     == opened.investable
             over  == SumFunctionOnSet(targets, Symbols) - W
  <2>1. /\ TypeOK /\ RunInv /\ cash \in Int /\ W \in Nat \ {0} /\ I \in Nat
        /\ opened.cash \in Int
    BY <1>1, WeightAssumption DEF Inv, RunInv, TypeOK
  <2>2. IsFiniteSet(overweight) /\ \A s \in overweight : slack[s] \in Nat
    BY <2>1, SlackBounds, SymbolsAssumption, FS_Subset
  <2>3. SumFunction(slack) = total
    BY DEF SumFunction
  <2> HIDE DEF slack
  <2>4. total \in Nat
    BY <2>2, SumNat
  <2>5. Excess \in Nat /\ Excess >= over /\ over \in Int
    <3>1. DOMAIN targets = Symbols /\ \A s \in Symbols : targets[s] \in Int
      BY <2>1 DEF TypeOK
    <3>2. over \in Int /\ Excess = Max({0, over})
      BY <2>1, <3>1, SymbolsAssumption, SumInt DEF Excess, SumFunction
    <3> HIDE DEF over
    <3>3. Max({0, over}) \in Int /\ Max({0, over}) >= 0 /\ Max({0, over}) >= over
      BY <3>2, MaxOfTwo
    <3>4. QED
      BY <3>2, <3>3
  <2> HIDE DEF overweight, total
  <2>6. CASE I = 0 \/ \E s \in Symbols : todo[s] < 0
    <3>1. cash >= opened.cash
      BY <2>1, <2>6 DEF RunInv
    <3>2. -cash * W <= 0
      BY <2>1, <3>1
    <3>3. Excess * I \in Nat
      BY <2>1, <2>5, ProductNat
    <3> HIDE DEF I
    <3>4. -cash * W <= total + Excess * I
      BY <2>1, <2>4, <3>2, <3>3
    <3>5. QED
      BY <2>3, <3>4 DEF I, overweight, slack
  <2>7. CASE ~(I = 0 \/ \E s \in Symbols : todo[s] < 0)
    <3> DEFINE short == [s \in Symbols |-> IF s \in overweight THEN -slack[s] ELSE 0]
               zero  == [s \in Symbols |-> 0]
    <3>1. \A s \in Symbols : short[s] \in Int
      BY <2>2
    <3>2. \A s \in Symbols : quote[s] = NoPrice => short[s] <= 0
      BY DEF overweight
    <3>3. ASSUME NEW s \in Symbols, quote[s] # NoPrice PROVE short[s] <= Missing(s)
      <4>1. Missing(s) \in Int
        <5>1. /\ targets[s] \in Nat /\ held[s] \in Int /\ quote[s] \in Nat /\ I \in Int
          BY <2>1, <3>3, MarketType DEF TypeOK
        <5>2. QED
          BY <5>1, GapInt DEF Missing
      <4>2. CASE s \in overweight
        <5>1. Missing(s) < 0 /\ slack[s] = Slack(s) /\ Slack(s) \in Nat
          BY <2>2, <4>2 DEF overweight, slack
        <5>2. -Missing(s) <= Slack(s)
          BY <1>1, <2>1, <2>7, <3>3, <5>1, OverweightIsSlack
        <5>3. QED
          BY <4>1, <4>2, <5>1, <5>2
      <4>3. CASE s \notin overweight
        BY <3>3, <4>1, <4>3 DEF overweight
      <4>4. QED
        BY <4>2, <4>3
    <3>4. overweight \subseteq Symbols
      BY DEF overweight
    <3>5. /\ \A s \in Symbols \ overweight : short[s] = 0
          /\ \A s \in overweight : short[s] = (-1) * slack[s] + zero[s] /\ slack[s] \in Int
                                  /\ zero[s] = 0 /\ zero[s] \in Int
      BY <2>2, <3>4
    <3> HIDE DEF short, zero, I, over
    <3>6. SumFunctionOnSet(short, Symbols) = SumFunctionOnSet(short, overweight)
      BY <3>1, <3>4, <3>5, SymbolsAssumption, SumSupport
    <3>7. SumFunctionOnSet(short, overweight) = (-1) * total + SumFunctionOnSet(zero, overweight)
      <4>1. IsFiniteSet(overweight) /\ -1 \in Int /\ Linear(short, -1, slack, zero, overweight)
        BY <2>2, <3>5 DEF Linear
      <4>2. QED
        BY <4>1, SumLinear DEF total
    <3>8. SumFunctionOnSet(zero, overweight) = 0
      BY <2>2, <3>5, SumZero
    <3>9. SumFunctionOnSet(short, Symbols) <= cash * W + over * I
      BY <1>1, <2>1, <3>1, <3>2, <3>3, CashCoversMissing DEF I, over
    <3>10. -total <= cash * W + over * I
      BY <2>4, <3>6, <3>7, <3>8, <3>9
    <3>11. over * I <= Excess * I /\ over * I \in Int /\ Excess * I \in Int /\ cash * W \in Int
      BY <2>1, <2>5
    <3>12. -cash * W = -(cash * W)
      BY <2>1
    <3>13. -cash * W <= total + Excess * I
      BY <2>4, <3>10, <3>11, <3>12
    <3>14. QED
      BY <2>3, <3>13 DEF I, overweight, slack
  <2>8. QED
    BY <2>6, <2>7
<1>2. QED
  BY <1>1, InvHolds, PTL
=============================================================================
