--------------------------- MODULE MCPaperRebalance ---------------------------
(***************************************************************************)
(* Small instances of PaperRebalance.                                      *)
(***************************************************************************)
EXTENDS PaperRebalance

TwoSymbols   == {"AAPL", "MSFT"}
ThreeSymbols == {"AAPL", "MSFT", "NVDA"}

\* Index weights in halves, allocations in quarters: targets in eighths.
Index(n, a, aapl, msft) ==
  [name |-> n, allocation |-> a, weight |-> [s \in TwoSymbols |-> IF s = "AAPL" THEN aapl ELSE msft]]

\* An index alone, with cash kept back; two that overlap; one that dropped MSFT.
TwoIndexes == {
  {Index("sp500", 3, 1, 1)},
  {Index("sp500", 2, 1, 1), Index("tech", 2, 2, 0)},
  {Index("tech", 4, 2, 0)}}

\* One index over three symbols, fully invested, in tenths.
OneIndex == {{[name |-> "all", allocation |-> 1,
               weight |-> [s \in ThreeSymbols |-> IF s = "NVDA" THEN 4 ELSE 3]]}}
=============================================================================
