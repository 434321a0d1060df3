----------------------------- MODULE ShareLedger -----------------------------
(***************************************************************************)
(* What a lot ledger promises about share counts, whatever lots it keeps   *)
(* them in, and what a command may count on: counts never go below zero,   *)
(* the file holds counts that a LotLedger object had when it was saved, or *)
(* nothing readable, and what is not readable is not loaded.               *)
(*                                                                         *)
(* LotLedger implements this module; TradingSession uses no more of it.    *)
(***************************************************************************)
EXTENDS Integers

CONSTANTS Symbols, Torn

VARIABLES
  phase,  \* "closed": no LotLedger object; "open"; "saving": inside save
  count,  \* the object's share count per symbol
  file    \* the counts in the file, or Torn

vars == <<phase, count, file>>

NoShares == [s \in Symbols |-> 0]

Init ==
  /\ phase = "closed" /\ count = NoShares
  /\ file \in [Symbols -> Nat]

Load ==
  /\ phase = "closed" /\ file # Torn
  /\ phase' = "open" /\ count' = file
  /\ UNCHANGED file

\* Shares are bought, sold or corrected, of one symbol or of several.
Change ==
  /\ phase = "open"
  /\ count' \in [Symbols -> Nat]
  /\ UNCHANGED <<phase, file>>

Truncate ==
  /\ phase = "open"
  /\ phase' = "saving" /\ file' = Torn
  /\ UNCHANGED count

Write ==
  /\ phase = "saving"
  /\ file' = count
  /\ \/ phase' = "open" /\ UNCHANGED count
     \/ phase' = "closed" /\ count' = NoShares

Close ==
  /\ phase # "closed"
  /\ phase' = "closed" /\ count' = NoShares
  /\ UNCHANGED file

Next == Load \/ Change \/ Truncate \/ Write \/ Close

Spec == Init /\ [][Next]_vars
=============================================================================
