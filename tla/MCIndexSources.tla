---------------------------- MODULE MCIndexSources ----------------------------
(* Instances of IndexSources for TLC. *)
EXTENDS IndexSources

CONSTANTS AAPL, MSFT, BRK_B

Row(t, w, a) == [ticker |-> t, weight |-> w, asset |-> a]

\* A row of every kind a provider treats differently.
RowKinds == {
  Row(AAPL, 3, "equity"), Row(AAPL, Absent, "equity"),
  Row(MSFT, 2, "equity"), Row(MSFT, Bad, "equity"), Row(MSFT, -1, "equity"),
  Row(BRK_B, 2, "equity"), Row(MSFT, 1, "other"), Row(CashLine, 1, "other"), Row(Blank, Empty, "")}

\* Every kind of row, alone, before and after every other.
ShortFiles == UNION {[1..m -> RowKinds] : m \in 0..2}

Index(n, a, p) == [name |-> n, allocation |-> a, provider |-> p]

\* Two indexes over every pair of providers, invested in part; in full and in
\* too much; and what is rejected: no index, no allocation, a name used twice.
TwoIndexes == {
  <<Index("a", 2, p), Index("b", 1, q)>> : p \in Providers, q \in {"csv", "ishares_url"}}
  \cup {<<>>, <<Index("a", 0, "csv")>>, <<Index("a", 3, "csv"), Index("b", 2, "csv")>>,
        <<Index("a", 3, "csv"), Index("a", 1, "ishares")>>,
        <<Index("a", 3, "csv"), Index("b", 1, "ishares")>>}
=============================================================================
