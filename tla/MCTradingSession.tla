-------------------------- MODULE MCTradingSession --------------------------
(* Instances of TradingSession for TLC. *)
EXTENDS TradingSession, TLC

\* Symbols are interchangeable: no guard or property names one.  Used by the
\* safety runs only.
Interchangeable == Permutations(Symbols)
=============================================================================
