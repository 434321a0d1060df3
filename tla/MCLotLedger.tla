----------------------------- MODULE MCLotLedger -----------------------------
(***************************************************************************)
(* Small instances of LotLedger.  FirstSeq = 8 makes the first lots "X-9"  *)
(* and "X-10", whose texts sort against their numbers.                     *)
(***************************************************************************)
EXTENDS LotLedger, TLC

Interchangeable == Permutations(Symbols)
=============================================================================
