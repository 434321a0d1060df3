----------------------------- MODULE ShareCounts -----------------------------
(***************************************************************************)
(* What the program decides from share counts alone, l in the ledger and   *)
(* a in the account: diff_positions, apply_reconciliation, and what        *)
(* plan_rebalance may ask for.                                             *)
(***************************************************************************)
EXTENDS Integers

CONSTANTS
  Symbols,   \* ticker symbols
  Tolerance  \* reconcile.tolerance

ASSUME ToleranceAssumption == Tolerance \in Nat

Abs(n)   == IF n < 0 THEN -n ELSE n
NoShares == [s \in Symbols |-> 0]

\* diff_positions: a symbol matches when the counts differ by at most Tolerance.
Matches(l, a, s) == Abs(a[s] - l[s]) <= Tolerance
InSync(l, a)     == \A s \in Symbols : Matches(l, a, s)

\* Mutant: the sale is rounded up to the next share.
ValidPlan_RoundsUp(p, a) == \A s \in Symbols : p[s] < 0 => -p[s] <= a[s] + 1

\* The plans of plan_rebalance: one signed quantity per symbol, never more
\* sold than the account holds.
ValidPlan(p, a) == \A s \in Symbols : p[s] < 0 => -p[s] <= a[s]
Empty(p)        == \A s \in Symbols : p[s] = 0

\* Trades run in the order of _execution_order: every sell before any buy.
IsNext(p, s) == /\ p[s] # 0
                /\ p[s] > 0 => \A t \in Symbols : p[t] >= 0

\* apply_reconciliation: a shortfall is retired, a surplus is booked when the
\* broker reports a cost or a price (basis), otherwise skipped.
Corrected(l, a, basis) ==
  [s \in Symbols |->
     IF ~Matches(l, a, s) /\ (a[s] < l[s] \/ s \in basis) THEN a[s] ELSE l[s]]

\* remove_shares raises when it must retire more shares than the ledger has,
\* which is when the broker reports a short position.
CannotRetire(l, a) == \E s \in Symbols : ~Matches(l, a, s) /\ a[s] < 0
=============================================================================
