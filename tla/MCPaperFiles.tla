----------------------------- MODULE MCPaperFiles -----------------------------
(* Instance of PaperFiles for TLC. *)
EXTENDS PaperFiles

CONSTANTS AAPL, MSFT

TwoSymbols == {AAPL, MSFT}
OneOrTwo   == 1..2  \* a single share is within the tolerance, two are not
=============================================================================
