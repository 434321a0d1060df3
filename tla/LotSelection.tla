---------------------------- MODULE LotSelection ----------------------------
(***************************************************************************)
(* Which tax lots a sale or a correction consumes: tax.lots.select_lots    *)
(* with its three policies, LotLedger._consume and the gain estimate.      *)
(*                                                                         *)
(* A lot is a record [id, sym, qty, cost, day].  lot_id is the string      *)
(* "SYM-<seq>"; within one symbol only the number matters, so id is that   *)
(* number, but it is compared as the program compares it, as text.         *)
(***************************************************************************)
EXTENDS Integers, FiniteSetsExt

Policies == {"hifo", "fifo", "lifo"}

\* Ten to the number of decimal digits of n.
Scale[n \in Nat] == IF n < 10 THEN 10 ELSE 10 * Scale[n \div 10]

\* m comes before n in the order of their decimal texts: "10" before "9".
\* (Compared as the fractions 0.m and 0.n; of two equal ones, as 0.1 and 0.10,
\* the shorter text comes first.)
IdBefore(m, n) ==
  LET x == m * Scale[n]
      y == n * Scale[m]
  IN  x < y \/ (x = y /\ m < n)

OldestFirst(a, b) == a.day < b.day \/ (a.day = b.day /\ IdBefore(a.id, b.id))

\* Mutant: the cost is not negated in the sort key.
ConsumedBefore_CheapestFirst(policy, a, b) ==
  CASE policy = "hifo" -> a.cost < b.cost \/ (a.cost = b.cost /\ OldestFirst(a, b))
    [] policy = "fifo" -> OldestFirst(a, b)
    [] policy = "lifo" -> OldestFirst(b, a)

\* Mutant: lots are ordered by their ids alone.
ConsumedBefore_ById(policy, a, b) ==
  CASE policy = "hifo" -> a.cost > b.cost \/ (a.cost = b.cost /\ OldestFirst(a, b))
    [] policy = "fifo" -> IdBefore(a.id, b.id)
    [] policy = "lifo" -> IdBefore(b.id, a.id)

\* The sort keys of _LOT_ORDERINGS: a is consumed before b.
ConsumedBefore(policy, a, b) ==
  CASE policy = "hifo" -> a.cost > b.cost \/ (a.cost = b.cost /\ OldestFirst(a, b))
    [] policy = "fifo" -> OldestFirst(a, b)
    [] policy = "lifo" -> OldestFirst(b, a)

Quantity(lots) == SumFunction([l \in lots |-> l.qty])

\* select_lots: lot by lot in the policy's order, each as far as it is needed.
Taken(lots, quantity, policy, l) ==
  LET before == Quantity({k \in lots : ConsumedBefore(policy, k, l)})
  IN  IF quantity <= before THEN 0 ELSE Min({l.qty, quantity - before})

\* The sales it returns: the shares taken of each lot that is touched.
SelectLots(lots, quantity, policy) ==
  {[lot_id |-> l.id, quantity |-> Taken(lots, quantity, policy, l), cost_per_share |-> l.cost] :
     l \in {k \in lots : Taken(lots, quantity, policy, k) > 0}}

\* What sales take from lot l: by_id.get(lot.lot_id).
SoldOf(l, sales) ==
  IF \E s \in sales : s.lot_id = l.id
    THEN (CHOOSE s \in sales : s.lot_id = l.id).quantity ELSE 0

\* Mutant: a lot sold in part is dropped like one sold out.
Consume_DropsSplitLot(lots, sales) == {l \in lots : SoldOf(l, sales) = 0}

\* Mutant: a lot sold out stays, with no shares.
Consume_KeepsEmptyLot(lots, sales) == {[l EXCEPT !.qty = @ - SoldOf(l, sales)] : l \in lots}

\* _consume: the shares sold leave their lots, an emptied lot is dropped.
Consume(lots, sales) ==
  {[l EXCEPT !.qty = @ - SoldOf(l, sales)] : l \in {k \in lots : SoldOf(k, sales) < k.qty}}

\* estimate_realized_gain.
RealizedGain(sales, price) ==
  SumFunction([s \in sales |-> (price - s.cost_per_share) * s.quantity])

-----------------------------------------------------------------------------
(* What a selection should be, without the order of the lots. *)

\* Every way to take quantity shares out of the lots.
WaysToTake(lots, quantity) ==
  {c \in [lots -> 0..quantity] :
     /\ \A l \in lots : c[l] <= l.qty
     /\ SumFunction(c) = quantity}

GainOf(choice, price) ==
  SumFunction([l \in DOMAIN choice |-> (price - l.cost) * choice[l]])
=============================================================================
