------------------------------ MODULE LotLedger ------------------------------
(***************************************************************************)
(* tax.lots.LotLedger: the tax lots of every symbol in memory, the counter *)
(* their ids come from, and the JSON file that save and load keep both in. *)
(*                                                                         *)
(* A process loads the ledger, buys, sells and corrects, and saves; it may *)
(* die at any step, between the truncation and the write of the file too.  *)
(***************************************************************************)
EXTENDS LotSelection

CONSTANTS
  Symbols,     \* ticker symbols
  Quantities,  \* shares bought, sold or corrected at a time
  Costs,       \* prices paid per share
  FirstSeq,    \* lots an installation has opened, and sold, so far
  MaxLots,     \* bound: lots opened from then on
  MaxDay,      \* bound: dates
  MaxLoads,    \* bound: processes
  Torn         \* the file after truncation, before the write

ASSUME QuantitiesAssumption == Quantities \subseteq Nat \ {0}
ASSUME CostsAssumption      == Costs \subseteq Nat
ASSUME CountersAssumption   == {FirstSeq, MaxLots, MaxDay, MaxLoads} \subseteq Nat

VARIABLES
  phase,  \* "closed": no process; "open"; "saving": the file is truncated
  lots,   \* _lots of the LotLedger object
  seq,    \* _seq of the LotLedger object
  file,   \* the ledger file: [seq, lots], or Torn
  today,  \* date.today()
  loads,  \* number of processes so far
  saved   \* history: every lot that was ever saved, as last written

vars == <<phase, lots, seq, file, today, loads, saved>>

Lots == [id : Nat, sym : Symbols, qty : Nat \ {0}, cost : Nat, day : Nat]

\* Torn can be told from a ledger, and from the counts ShareLedger has of one.
ASSUME SentinelAssumption == Torn \notin [seq : Nat, lots : SUBSET Lots] \cup [Symbols -> Nat]

\* lots_for and quantity.
LotsFor(s)   == {l \in lots : l.sym = s}
Shares(s)    == Quantity(LotsFor(s))

-----------------------------------------------------------------------------
Init ==
  /\ phase = "closed" /\ lots = {} /\ seq = 0
  /\ file = [seq |-> FirstSeq, lots |-> {}]
  /\ today = 0 /\ loads = 0 /\ saved = {}

\* Mutant: the counter is not read back.
Load_ForgetsSeq ==
  /\ phase = "closed" /\ loads < MaxLoads
  /\ file # Torn
  /\ phase' = "open" /\ loads' = loads + 1
  /\ lots' = file.lots /\ seq' = 0
  /\ UNCHANGED <<file, today, saved>>

\* Mutant: the counter is not in the file but taken from the lots there.
Load_LastLot ==
  /\ phase = "closed" /\ loads < MaxLoads
  /\ file # Torn
  /\ phase' = "open" /\ loads' = loads + 1
  /\ lots' = file.lots /\ seq' = Max({0} \cup {l.id : l \in lots'})
  /\ UNCHANGED <<file, today, saved>>

\* Mutant: a file that does not parse is taken for an empty ledger.
Load_TornIsEmpty ==
  /\ phase = "closed" /\ loads < MaxLoads
  /\ phase' = "open" /\ loads' = loads + 1
  /\ lots' = IF file = Torn THEN {} ELSE file.lots
  /\ seq' = IF file = Torn THEN 0 ELSE file.seq
  /\ UNCHANGED <<file, today, saved>>

\* LotLedger.load.  A torn file does not parse: the command fails.
Load ==
  /\ phase = "closed" /\ loads < MaxLoads
  /\ file # Torn
  /\ phase' = "open" /\ loads' = loads + 1
  /\ lots' = file.lots /\ seq' = file.seq
  /\ UNCHANGED <<file, today, saved>>

\* record_buy: a buy fill, or surplus shares booked by reconcile.
RecordBuy(s, q, price) ==
  /\ phase = "open" /\ seq < FirstSeq + MaxLots
  /\ seq' = seq + 1
  /\ lots' = lots \cup {[id |-> seq + 1, sym |-> s, qty |-> q, cost |-> price, day |-> today]}
  /\ UNCHANGED <<phase, file, today, loads, saved>>

\* select_lots followed by _consume, for the lots of one symbol.
Drop(s, q, policy) ==
  /\ phase = "open" /\ q <= Shares(s)
  /\ lots' = (lots \ LotsFor(s)) \cup Consume(LotsFor(s), SelectLots(LotsFor(s), q, policy))
  /\ UNCHANGED <<phase, seq, file, today, loads, saved>>

\* record_sell: a sell fill.
RecordSell(s, q) == Drop(s, q, "hifo")

\* remove_shares: phantom shares retired by reconcile (shortfall_policy).
RemoveShares(s, q, policy) == Drop(s, q, policy)

\* The process ends, by itself, by an error of its own (a sale of more shares
\* than there are raises ValueError) or by a crash: the object is gone.
Close ==
  /\ phase # "closed"
  /\ phase' = "closed" /\ lots' = {} /\ seq' = 0
  /\ UNCHANGED <<file, today, loads, saved>>

\* save: write_text truncates the file, then writes it.
Truncate ==
  /\ phase = "open"
  /\ phase' = "saving" /\ file' = Torn
  /\ UNCHANGED <<lots, seq, today, loads, saved>>

\* (saved: a lot that is sold out stays as it was in the last save that had it.)
Write ==
  /\ phase = "saving"
  /\ phase' = "open" /\ file' = [seq |-> seq, lots |-> lots]
  /\ saved' = {k \in saved : \A l \in lots : l.id # k.id} \cup lots
  /\ UNCHANGED <<lots, seq, today, loads>>

NextDay ==
  /\ today < MaxDay /\ today' = today + 1
  /\ UNCHANGED <<phase, lots, seq, file, loads, saved>>

Next ==
  \/ Load \/ Close \/ Truncate \/ Write \/ NextDay
  \/ \E s \in Symbols, q \in Quantities :
       \/ \E price \in Costs : RecordBuy(s, q, price)
       \/ RecordSell(s, q)
       \/ \E policy \in Policies : RemoveShares(s, q, policy)

Spec == Init /\ [][Next]_vars

-----------------------------------------------------------------------------
(* Properties. *)

\* The shape of every variable.
TypeOK ==
  /\ phase \in {"closed", "open", "saving"}
  /\ lots \subseteq Lots
  /\ seq \in Nat
  /\ file \in [seq : Nat, lots : SUBSET Lots] \cup {Torn}
  /\ today \in Nat /\ loads \in Nat
  /\ saved \subseteq Lots

\* A ledger's lots can be told apart by their ids, and the counter is ahead of
\* them, so that the next lot can be too.
Identified(c, ls) ==
  /\ \A l \in ls : l.id <= c
  /\ \A k, l \in ls : k.id = l.id => k = l

\* Lot ids are never used twice, in memory or in the file, over any number of
\* processes, crashes and reloads: _consume finds the lots it must reduce by
\* lot_id alone.
LotsIdentified ==
  /\ phase # "closed" => Identified(seq, lots)
  /\ file # Torn => Identified(file.seq, file.lots)

\* A lot that was ever saved keeps its symbol, its cost and its date and only
\* ever loses shares, over all later sales, crashes and reloads; and when it is
\* sold out no later lot takes its id, so that an id names one purchase for the
\* life of the installation (the counter is saved with the lots).
BasisIsPermanent ==
  \A k \in saved, l \in lots : k.id = l.id =>
    /\ l.sym = k.sym /\ l.cost = k.cost /\ l.day = k.day
    /\ l.qty <= k.qty

\* What a step takes from every lot of s.
Sold(s) == [k \in LotsFor(s) |->
  IF \E l \in lots' : l.id = k.id THEN k.qty - (CHOOSE l \in lots' : l.id = k.id).qty
                                  ELSE k.qty]

\* A sale takes what was asked, realises the smallest gain of all ways to take
\* that many shares from the lots of the symbol (the point of HIFO) and the
\* gain that estimate_realized_gain foresees.
SaleMinimisesGain ==
  [][\A s \in Symbols, q \in Quantities : RecordSell(s, q) =>
       /\ Sold(s) \in WaysToTake(LotsFor(s), q)
       /\ \A price \in Costs :
            /\ \A w \in WaysToTake(LotsFor(s), q) : GainOf(Sold(s), price) <= GainOf(w, price)
            /\ GainOf(Sold(s), price) =
                 RealizedGain(SelectLots(LotsFor(s), q, "hifo"), price)]_vars

\* A correction retires exactly what was asked; under "fifo" (or "lifo") it
\* retires no share of a lot while an older (newer) one is left.
CorrectionFollowsDates ==
  [][\A s \in Symbols, q \in Quantities :
       /\ \A policy \in Policies :
            RemoveShares(s, q, policy) => Sold(s) \in WaysToTake(LotsFor(s), q)
       /\ RemoveShares(s, q, "fifo") => \A k, l \in LotsFor(s) :
            k.day < l.day /\ Sold(s)[l] > 0 => Sold(s)[k] = k.qty
       /\ RemoveShares(s, q, "lifo") => \A k, l \in LotsFor(s) :
            k.day > l.day /\ Sold(s)[l] > 0 => Sold(s)[k] = k.qty]_vars

\* A sale filled in two parts, recorded one after the other, leaves the lots
\* that the same sale leaves when it is filled at once (apply_fill re-selects
\* against the executed quantity).
SplitSalesCompose ==
  \A s \in Symbols, policy \in Policies, p, q \in Quantities :
    p + q <= Shares(s) =>
      LET Rest(ls, n) == Consume(ls, SelectLots(ls, n, policy))
      IN  Rest(Rest(LotsFor(s), p), q) = Rest(LotsFor(s), p + q)

\* The lots keep the promise of ShareLedger.
Counted(ls) == [s \in Symbols |-> Quantity({l \in ls : l.sym = s})]

Ledger == INSTANCE ShareLedger WITH
  count <- Counted(lots),
  file  <- IF file = Torn THEN Torn ELSE Counted(file.lots)

CountsShares == Ledger!Spec
=============================================================================
