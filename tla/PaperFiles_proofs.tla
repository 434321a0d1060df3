-------------------------- MODULE PaperFiles_proofs --------------------------
(***************************************************************************)
(* Proofs about PaperFiles, for every set of symbols, amounts and prices,  *)
(* every tolerance and every number of commands and crashes.               *)
(***************************************************************************)
EXTENDS PaperFiles, SumLemmas, TLAPS

USE DEF Rebalances, Commands

\* A plan sells only what the account holds and trades only what has a price.
PlanCovered ==
  \A s \in Symbols : /\ todo[s] < 0 => -todo[s] <= broker.pos[s]
                     /\ todo[s] # 0 => broker.price[s] \in Prices

\* What makes the types inductive: which command may be where, an order while
\* its fill is on its way to the files, and a plan that is covered.
PhaseOK ==
  /\ pc \in {"trade", "apply"} => cmd \in Rebalances
  /\ pc \in {"save_state", "write_state"} => cmd # "reconcile"
  /\ pc \in {"save", "write"} => cmd # "set_prices"
  /\ pc \in {"save_state", "write_state", "apply"} /\ cmd \in Rebalances => trade # NoTrade
  /\ pc \notin {"idle", "decide"} /\ cmd \in Rebalances => PlanCovered

TypeInv == TypeOK /\ PhaseOK

Outcomes == {"none", "ok", "refused", "unreadable", "oversold", "crash"}

\* Amounts of either sign are integers.
LEMMA SignedAreInts == SignedAmounts \cup {0} \subseteq Int
<1>1. \A n \in Amounts : n \in Int /\ -n \in Int
  BY AmountsAssumption
<1>2. QED
  BY <1>1 DEF SignedAmounts

\* An object that is not there is typed like an empty account.
LEMMA NoAccountIsAnAccount == NoAccount \in Accounts
BY DEF NoAccount, Accounts, NoShares, Quotes

\* Ending a command keeps the types of what it touches.
LEMMA ExitTypes ==
  ASSUME NEW r \in Outcomes, Exit(r)
  PROVE  /\ pc' = "idle" /\ result' \in Outcomes
         /\ broker' \in Accounts
         /\ mem' \in [Symbols -> Nat] /\ todo' \in [Symbols -> Int]
BY NoAccountIsAnAccount DEF Exit, NoShares

\* The account after a trade the plan allows.
LEMMA ExecuteTypes ==
  ASSUME TypeInv, NEW s \in Symbols, Execute(s)
  PROVE  TypeInv'
<1>1. pc = "trade" /\ todo[s] # 0
  BY DEF Execute, IsNext
<1>2. PlanCovered
  BY <1>1 DEF TypeInv, PhaseOK
<1>3. broker \in Accounts /\ todo \in [Symbols -> Int]
  BY DEF TypeInv, TypeOK
<1>4. /\ broker.cash \in Int /\ broker.pos \in [Symbols -> Nat]
      /\ broker.price \in [Symbols -> Quotes]
  BY <1>3 DEF Accounts
<1>5. broker.price[s] \in Nat
  BY <1>1, <1>2, AmountsAssumption DEF PlanCovered
<1>6. broker.pos[s] + todo[s] \in Nat
  BY <1>2, <1>3, <1>4 DEF PlanCovered
<1> DEFINE cash == broker.cash - todo[s] * broker.price[s]
           pos  == [broker.pos EXCEPT ![s] = broker.pos[s] + todo[s]]
<1>7. cash \in Int
  BY <1>3, <1>4, <1>5
<1>8. pos \in [Symbols -> Nat]
  BY <1>4, <1>6
<1>9. broker' = [broker EXCEPT !.pos = pos, !.cash = cash]
  BY DEF Execute
<1> HIDE DEF cash, pos
<1>10. /\ broker' = [cash |-> cash, pos |-> pos, price |-> broker.price]
       /\ broker' \in Accounts
  BY <1>3, <1>4, <1>7, <1>8, <1>9 DEF Accounts
<1>11. trade' \in [sym : Symbols, qty : Int] /\ trade' # NoTrade
  BY <1>3, SentinelAssumption DEF Execute
<1>12. todo' = [todo EXCEPT ![s] = 0] /\ todo' \in [Symbols -> Int]
  BY <1>3 DEF Execute
<1>13. PlanCovered'
  <2> SUFFICES ASSUME NEW t \in Symbols
               PROVE  /\ todo'[t] < 0 => -todo'[t] <= broker'.pos[t]
                      /\ todo'[t] # 0 => broker'.price[t] \in Prices
    BY DEF PlanCovered
  <2>1. CASE t = s
    BY <1>3, <1>12, <2>1
  <2>2. CASE t # s
    <3>1. todo'[t] = todo[t] /\ pos[t] = broker.pos[t]
      BY <1>3, <1>4, <1>12, <2>2 DEF pos
    <3>2. QED
      BY <1>2, <1>10, <3>1 DEF PlanCovered
  <2>3. QED
    BY <2>1, <2>2
<1>14. QED
  BY <1>10, <1>11, <1>12, <1>13 DEF Execute, TypeInv, TypeOK, PhaseOK

\* Every step keeps the types: TypeInv is inductive.
LEMMA TypeStep == TypeInv /\ [Next]_vars => TypeInv'
<1> SUFFICES ASSUME TypeInv, [Next]_vars PROVE TypeInv'
  OBVIOUS
<1> USE BoundAssumption DEF TypeInv, TypeOK, PhaseOK, PlanCovered, Outcomes
<1>1. ASSUME NEW c \in Commands, Open(c) PROVE TypeInv'
  <2>1. NoShares \in [Symbols -> Nat] /\ NoShares \in [Symbols -> Int]
    BY DEF NoShares
  <2>2. CASE state = Torn \/ (c # "set_prices" /\ ledger = Torn)
    BY <1>1, <2>2, ExitTypes, NoAccountIsAnAccount DEF Open
  <2>3. CASE ~(state = Torn \/ (c # "set_prices" /\ ledger = Torn))
    BY <1>1, <2>1, <2>3 DEF Open
  <2>4. QED
    BY <2>2, <2>3
<1>2. CASE NothingToTrade
  BY <1>2, ExitTypes DEF NothingToTrade
<1>3. CASE RefuseOutOfSync
  BY <1>3, ExitTypes DEF RefuseOutOfSync
<1>4. ASSUME NEW plan \in [Symbols -> SignedAmounts \cup {0}], StartTrading(plan)
      PROVE  TypeInv'
  <2>1. plan \in [Symbols -> Int]
    BY <1>4, SignedAreInts
  <2>2. \A s \in Symbols : /\ plan[s] < 0 => -plan[s] <= broker.pos[s]
                           /\ plan[s] # 0 => broker.price[s] \in Prices
    BY <1>4 DEF StartTrading, ValidPlan, Priced, Accounts, Quotes
  <2>3. QED
    BY <1>4, <2>1, <2>2 DEF StartTrading
<1>5. ASSUME NEW s \in Symbols, Execute(s) PROVE TypeInv'
  BY <1>5, ExecuteTypes
<1>6. CASE TruncateState
  BY <1>6 DEF TruncateState
<1>7. CASE WriteState
  BY <1>7, ExitTypes DEF WriteState
<1>8. CASE ApplyFill
  <2>1. trade \in [sym : Symbols, qty : Int]
    BY <1>8 DEF ApplyFill
  <2>2. CASE trade.qty + mem[trade.sym] < 0
    BY <1>8, <2>2, ExitTypes DEF ApplyFill
  <2>3. CASE ~(trade.qty + mem[trade.sym] < 0)
    <3>1. mem[trade.sym] + trade.qty \in Nat
      BY <2>1, <2>3
    <3>2. QED
      BY <1>8, <2>1, <2>3, <3>1 DEF ApplyFill
  <2>4. QED
    BY <2>2, <2>3
<1>9. CASE TruncateLedger
  BY <1>9 DEF TruncateLedger
<1>10. CASE WriteLedger
  BY <1>10, ExitTypes DEF WriteLedger
<1>11. CASE FinishTrading
  BY <1>11, ExitTypes DEF FinishTrading
<1>12. CASE NothingToReconcile
  BY <1>12, ExitTypes DEF NothingToReconcile
<1>13. CASE Reconcile
  <2>1. broker.pos \in [Symbols -> Nat]
    BY DEF Accounts
  <2>2. Corrected(mem, broker.pos, Priced(broker)) \in [Symbols -> Nat]
    BY <2>1 DEF Corrected
  <2>3. QED
    BY <1>13, <2>2 DEF Reconcile
<1>14. ASSUME NEW quote \in [Symbols -> Quotes], SetPrices(quote) PROVE TypeInv'
  <2>1. broker' \in Accounts
    BY <1>14 DEF SetPrices, Accounts
  <2>2. QED
    BY <1>14, <2>1 DEF SetPrices
<1>15. CASE Crash
  BY <1>15, ExitTypes DEF Crash
<1>16. CASE UNCHANGED vars
  BY <1>16 DEF vars
<1>17. QED
  BY <1>1, <1>2, <1>3, <1>4, <1>5, <1>6, <1>7, <1>8, <1>9, <1>10, <1>11, <1>12,
     <1>13, <1>14, <1>15, <1>16 DEF Next

\* TypeInv holds at the start.
LEMMA TypeInit == Init => TypeInv
<1> SUFFICES ASSUME Init PROVE TypeInv
  OBVIOUS
<1>1. state \in Accounts /\ ledger \in [Symbols -> Nat]
  <2>1. state \in [cash : InitialCash, pos : [Symbols -> InitialShares],
                   price : [Symbols -> Quotes]]
    BY DEF Init
  <2>2. state.cash \in InitialCash /\ state.pos \in [Symbols -> InitialShares]
        /\ state.price \in [Symbols -> Quotes]
    BY <2>1
  <2>3. state = [cash |-> state.cash, pos |-> state.pos, price |-> state.price]
    BY <2>1
  <2>4. state.cash \in Int /\ state.pos \in [Symbols -> Nat]
    <3>1. InitialCash \subseteq Int /\ InitialShares \subseteq Nat
      BY StartAssumption
    <3>2. [Symbols -> InitialShares] \subseteq [Symbols -> Nat]
      BY <3>1
    <3>3. QED
      BY <2>2, <3>1, <3>2, Zenon
  <2>5. QED
    BY <2>2, <2>3, <2>4 DEF Init, Accounts
<1>2. NoShares \in [Symbols -> Nat] /\ NoShares \in [Symbols -> Int]
  BY DEF NoShares
<1>3. TypeOK
  <2>1. 0 \in 0..MaxRuns
    BY BoundAssumption
  <2>2. QED
    BY <1>1, <1>2, <2>1, NoAccountIsAnAccount, Zenon DEF Init, TypeOK
<1>4. PhaseOK
  BY DEF Init, PhaseOK
<1>5. QED
  BY <1>3, <1>4 DEF TypeInv

\* Every variable keeps its shape; in particular no ledger count and no
\* position of the account ever becomes negative.
THEOREM PaperTypeCorrect == Spec => []TypeOK
<1>1. TypeInv => TypeOK
  BY DEF TypeInv
<1>2. QED
  BY <1>1, TypeInit, TypeStep, PTL DEF Spec

-----------------------------------------------------------------------------
(* The two files.  CrashesDoNotAddUp speaks of them alone; what makes it    *)
(* inductive is what the objects in memory are between the two saves.       *)

\* Shares b of an account against counts l of a ledger: within the tolerance,
\* the symbol last traded excepted.
Near(b, l) == \A s \in Symbols : Abs(b[s] - l[s]) <= Tolerance + Moved(s)

FilesNear == state # Torn /\ ledger # Torn => Near(state.pos, ledger)

\* An order was executed on books in sync, and the ledger object lacks it.
Pending(s) == IF trade.sym = s THEN trade.qty ELSE 0
Due        == \A s \in Symbols : Abs(broker.pos[s] - mem[s] - Pending(s)) <= Tolerance

Trusted == cmd = "rebalance"

RunInv ==
  /\ cmd # "rebalance_unchecked"
  /\ pc = "decide" => /\ state # Torn /\ broker = state
                      /\ cmd # "set_prices" => ledger # Torn /\ mem = ledger
  /\ pc = "trade" => broker = state /\ mem = ledger /\ InSync(mem, broker.pos)
  /\ pc \in {"save_state", "write_state"} /\ Trusted => mem = ledger /\ Due
  /\ pc \in {"save_state", "write_state"} /\ ~Trusted =>
       (ledger # Torn => Near(broker.pos, ledger))
  /\ pc = "apply" => broker = state /\ mem = ledger /\ Due
  /\ pc \in {"save", "write"} => /\ broker = state /\ Near(broker.pos, mem)
                                 /\ Trusted => InSync(mem, broker.pos)

Files == ~skipped => FilesNear /\ RunInv

\* Books in sync are near, whatever was traded; so are books that lack the
\* last order only.
LEMMA InSyncIsNear ==
  ASSUME TypeInv, NEW b \in [Symbols -> Nat], NEW l \in [Symbols -> Nat], InSync(l, b)
  PROVE  Near(b, l)
<1> SUFFICES ASSUME NEW s \in Symbols PROVE Abs(b[s] - l[s]) <= Tolerance + Moved(s)
  BY DEF Near
<1>1. Abs(b[s] - l[s]) <= Tolerance
  BY DEF InSync, Matches
<1>2. Moved(s) \in Nat
  BY DEF Moved, Abs, TypeInv, TypeOK
<1>3. QED
  BY <1>1, <1>2, ToleranceAssumption DEF Abs

\* A ledger object that lacks the last order is near the account.
LEMMA DueIsNear ==
  ASSUME TypeInv, trade # NoTrade, Due
  PROVE  Near(broker.pos, mem)
<1> SUFFICES ASSUME NEW s \in Symbols PROVE Abs(broker.pos[s] - mem[s]) <= Tolerance + Moved(s)
  BY DEF Near
<1> DEFINE q == Pending(s)
           d == broker.pos[s] - mem[s]
<1>1. Abs(d - q) <= Tolerance
  BY DEF Due
<1>2. d \in Int
  BY DEF TypeInv, TypeOK, Accounts
<1>3. q \in Int /\ Moved(s) = Abs(q)
  BY DEF Pending, Moved, Abs, TypeInv, TypeOK
<1> HIDE DEF q, d
<1>4. Abs(d) <= Tolerance + Abs(q)
  BY <1>1, <1>2, <1>3, ToleranceAssumption DEF Abs
<1>5. QED
  BY <1>3, <1>4 DEF d

\* A command that ends, by an error or a crash too, leaves the files as they
\* are.
LEMMA ExitKeepsFiles ==
  ASSUME Files, NEW r, Exit(r), UNCHANGED <<state, ledger, cmd, trade, skipped>>
  PROVE  Files'
BY DEF Files, FilesNear, Near, Moved, RunInv, Trusted, Exit

\* An order goes out on books in sync: the files stay near, and the ledger
\* object lacks exactly this order.
LEMMA ExecuteKeepsFiles ==
  ASSUME TypeInv, TypeInv', Files, NEW s \in Symbols, Execute(s)
  PROVE  Files'
<1> SUFFICES ASSUME ~skipped PROVE FilesNear' /\ RunInv'
  BY DEF Files, Execute
<1>1. /\ broker = state /\ mem = ledger /\ InSync(mem, broker.pos)
      /\ cmd = "rebalance"
  BY DEF Files, RunInv, Execute, TypeInv, PhaseOK
<1>2. /\ pc' = "save_state" /\ trade' = [sym |-> s, qty |-> todo[s]]
      /\ UNCHANGED <<state, ledger, cmd, mem>>
  BY DEF Execute
<1>3. \A t \in Symbols : Abs(state.pos[t] - ledger[t]) <= Tolerance
  BY <1>1 DEF InSync, Matches
<1>4. /\ broker.pos \in [Symbols -> Nat] /\ mem \in [Symbols -> Nat]
      /\ todo \in [Symbols -> Int]
  BY DEF TypeInv, TypeOK, Accounts
<1>5. FilesNear'
  <2> SUFFICES ASSUME NEW t \in Symbols
               PROVE  Abs(state.pos[t] - ledger[t]) <= Tolerance + Moved(t)'
    BY <1>2 DEF FilesNear, Near
  <2>1. Moved(t)' \in Nat
    BY DEF TypeInv, TypeOK, Moved, Abs
  <2>2. state.pos[t] - ledger[t] \in Int
    BY <1>1, <1>4
  <2>3. QED
    BY <1>3, <2>1, <2>2, ToleranceAssumption DEF Abs
<1>6. Due'
  <2>1. broker'.pos = [broker.pos EXCEPT ![s] = @ + todo[s]]
    <3>1. broker \in Accounts
      BY DEF TypeInv, TypeOK
    <3> DEFINE pos  == [broker.pos EXCEPT ![s] = broker.pos[s] + todo[s]]
               cash == broker.cash - todo[s] * broker.price[s]
    <3>2. broker' = [broker EXCEPT !.pos = pos, !.cash = cash]
      BY DEF Execute
    <3> HIDE DEF pos, cash
    <3>3. broker'.pos = pos
      BY <3>1, <3>2 DEF Accounts
    <3>4. QED
      BY <3>3 DEF pos
  <2> SUFFICES ASSUME NEW t \in Symbols
               PROVE  Abs(broker'.pos[t] - mem[t] - Pending(t)') <= Tolerance
    BY <1>2 DEF Due
  <2>2. broker'.pos[t] - Pending(t)' = broker.pos[t]
    BY <1>2, <1>4, <2>1 DEF Pending
  <2>3. Pending(t)' \in Int /\ broker'.pos[t] \in Int /\ mem[t] \in Int /\ broker.pos[t] \in Int
    BY <1>2, <1>4, <2>1 DEF Pending
  <2>4. broker'.pos[t] - mem[t] - Pending(t)' = broker.pos[t] - mem[t]
    BY <2>2, <2>3
  <2>5. QED
    BY <1>1, <1>3, <2>4
<1>7. QED
  BY <1>1, <1>2, <1>5, <1>6 DEF RunInv, Trusted

\* The fill brings the ledger object level with the account again.
LEMMA ApplyFillKeepsFiles ==
  ASSUME TypeInv, TypeInv', Files, ApplyFill
  PROVE  Files'
<1>1. CASE trade.qty + mem[trade.sym] < 0
  BY <1>1, ExitKeepsFiles DEF ApplyFill
<1>2. CASE ~(trade.qty + mem[trade.sym] < 0)
  <2> SUFFICES ASSUME ~skipped PROVE FilesNear' /\ RunInv'
    BY DEF Files, ApplyFill
  <2>1. /\ mem' = [mem EXCEPT ![trade.sym] = @ + trade.qty] /\ pc' = "save"
        /\ UNCHANGED <<state, ledger, cmd, broker, trade, skipped>>
    BY <1>2 DEF ApplyFill
  <2>2. cmd = "rebalance" /\ broker = state /\ Due /\ FilesNear
    BY DEF Files, RunInv, ApplyFill, TypeInv, PhaseOK
  <2>3. trade \in [sym : Symbols, qty : Int] /\ mem \in [Symbols -> Nat]
        /\ broker.pos \in [Symbols -> Nat]
    BY DEF TypeInv, TypeOK, PhaseOK, ApplyFill, Accounts
  <2>4. \A s \in Symbols : mem'[s] = mem[s] + Pending(s)
    BY <2>1, <2>3 DEF Pending
  <2>5. \A s \in Symbols : Abs(broker.pos[s] - mem'[s]) <= Tolerance
    <3> TAKE s \in Symbols
    <3>1. Pending(s) \in Int /\ mem[s] \in Int /\ broker.pos[s] \in Int
      BY <2>3 DEF Pending
    <3>2. broker.pos[s] - mem'[s] = broker.pos[s] - mem[s] - Pending(s)
      BY <2>4, <3>1
    <3>3. QED
      BY <2>2, <3>2 DEF Due
  <2>6. InSync(mem, broker.pos)'
    BY <2>1, <2>5 DEF InSync, Matches
  <2>7. Near(broker.pos, mem)'
    <3>1. mem' \in [Symbols -> Nat] /\ InSync(mem', broker.pos)
      BY <2>1, <2>6 DEF TypeInv, TypeOK
    <3>2. Near(broker.pos, mem')
      BY <2>3, <3>1, InSyncIsNear
    <3>3. QED
      BY <2>1, <3>2 DEF Near, Moved
  <2>8. QED
    BY <2>1, <2>2, <2>6, <2>7 DEF FilesNear, Near, Moved, RunInv, Trusted
<1>3. QED
  BY <1>1, <1>2

\* A correction leaves no symbol further apart than it was.
LEMMA CorrectionIsNear ==
  ASSUME TypeInv, Near(broker.pos, mem)
  PROVE  Near(broker.pos, Corrected(mem, broker.pos, Priced(broker)))
<1> SUFFICES ASSUME NEW s \in Symbols
             PROVE  Abs(broker.pos[s] - Corrected(mem, broker.pos, Priced(broker))[s])
                      <= Tolerance + Moved(s)
  BY DEF Near
<1> DEFINE c == Corrected(mem, broker.pos, Priced(broker))[s]
<1>1. c = broker.pos[s] \/ c = mem[s]
  BY DEF Corrected
<1>2. CASE c = broker.pos[s]
  <2>1. broker.pos[s] \in Nat /\ Moved(s) \in Nat
    BY DEF Moved, Abs, TypeInv, TypeOK, Accounts
  <2>2. QED
    BY <1>2, <2>1, ToleranceAssumption DEF Abs
<1>3. CASE c = mem[s]
  BY <1>3 DEF Near
<1>4. QED
  BY <1>1, <1>2, <1>3

\* Every step keeps the files near, and what memory holds between two saves.
LEMMA FilesStep == TypeInv /\ TypeInv' /\ Files /\ [Next]_vars => Files'
<1> SUFFICES ASSUME TypeInv, TypeInv', Files, [Next]_vars PROVE Files'
  OBVIOUS
<1>1. ASSUME NEW c \in Commands, Open(c) PROVE Files'
  <2>1. CASE state = Torn \/ (c # "set_prices" /\ ledger = Torn)
    BY <1>1, <2>1 DEF Open, Exit, Files, FilesNear, Near, Moved, RunInv
  <2>2. CASE ~(state = Torn \/ (c # "set_prices" /\ ledger = Torn))
    BY <1>1, <2>2 DEF Open, Files, FilesNear, Near, Moved, RunInv
  <2>3. QED
    BY <2>1, <2>2
<1>2. CASE NothingToTrade
  BY <1>2, ExitKeepsFiles DEF NothingToTrade
<1>3. CASE RefuseOutOfSync
  BY <1>3, ExitKeepsFiles DEF RefuseOutOfSync
<1>4. ASSUME NEW plan \in [Symbols -> SignedAmounts \cup {0}], StartTrading(plan)
      PROVE  Files'
  BY <1>4 DEF StartTrading, Files, FilesNear, Near, Moved, RunInv
<1>5. ASSUME NEW s \in Symbols, Execute(s) PROVE Files'
  BY <1>5, ExecuteKeepsFiles
<1>6. CASE TruncateState
  BY <1>6 DEF TruncateState, Files, FilesNear, Near, Moved, RunInv, Trusted, Due, Pending
<1>7. CASE WriteState
  <2> SUFFICES ASSUME ~skipped PROVE FilesNear' /\ RunInv'
    BY <1>7 DEF Files, WriteState
  <2>1. /\ state' = broker /\ UNCHANGED <<ledger, cmd, trade>>
        /\ pc = "write_state" /\ cmd # "reconcile"
    BY <1>7 DEF WriteState, TypeInv, PhaseOK
  <2>2. CASE cmd = "set_prices"
    BY <1>7, <2>1, <2>2 DEF WriteState, Exit, Files, FilesNear, Near, Moved, RunInv, Trusted
  <2>3. CASE cmd # "set_prices"
    <3>1. cmd = "rebalance" /\ mem = ledger /\ Due /\ trade # NoTrade
      BY <2>1, <2>3 DEF Files, RunInv, Trusted, TypeInv, TypeOK, PhaseOK
    <3>2. Near(broker.pos, mem)
      BY <3>1, DueIsNear
    <3>3. pc' = "apply" /\ UNCHANGED <<broker, mem>>
      BY <1>7, <2>3 DEF WriteState
    <3>4. QED
      BY <2>1, <3>1, <3>2, <3>3
      DEF FilesNear, Near, Moved, RunInv, Trusted, Due, Pending
  <2>4. QED
    BY <2>2, <2>3
<1>8. CASE ApplyFill
  BY <1>8, ApplyFillKeepsFiles
<1>9. CASE TruncateLedger
  BY <1>9 DEF TruncateLedger, Files, FilesNear, Near, Moved, RunInv, Trusted
<1>10. CASE WriteLedger
  <2>1. CASE cmd = "reconcile"
    BY <1>10, <2>1 DEF WriteLedger, Exit, Files, FilesNear, Near, Moved, RunInv
  <2>2. CASE cmd # "reconcile"
    <3>1. ~skipped => Trusted
      BY <1>10, <2>2 DEF WriteLedger, Files, RunInv, Trusted, TypeInv, TypeOK, PhaseOK
    <3>2. QED
      BY <1>10, <2>2, <3>1 DEF WriteLedger, Files, FilesNear, Near, Moved, RunInv, Trusted
  <2>3. QED
    BY <2>1, <2>2
<1>11. CASE FinishTrading
  BY <1>11, ExitKeepsFiles DEF FinishTrading
<1>12. CASE NothingToReconcile
  BY <1>12, ExitKeepsFiles DEF NothingToReconcile
<1>13. CASE Reconcile
  <2> SUFFICES ASSUME ~skipped PROVE FilesNear' /\ RunInv'
    BY <1>13 DEF Files, Reconcile
  <2>1. broker = state /\ mem = ledger /\ FilesNear /\ Near(broker.pos, mem)
    BY <1>13 DEF Reconcile, Files, RunInv, FilesNear
  <2>2. Near(broker.pos, Corrected(mem, broker.pos, Priced(broker)))
    BY <2>1, CorrectionIsNear
  <2>3. QED
    BY <1>13, <2>1, <2>2 DEF Reconcile, FilesNear, Near, Moved, RunInv, Trusted
<1>14. ASSUME NEW quote \in [Symbols -> Quotes], SetPrices(quote) PROVE Files'
  <2> SUFFICES ASSUME ~skipped PROVE FilesNear' /\ RunInv'
    BY <1>14 DEF Files, SetPrices
  <2>1. broker'.pos = broker.pos
    BY <1>14 DEF SetPrices, TypeInv, TypeOK, Accounts
  <2>2. QED
    BY <1>14, <2>1 DEF SetPrices, Files, FilesNear, Near, Moved, RunInv, Trusted
<1>15. CASE Crash
  BY <1>15, ExitKeepsFiles DEF Crash
<1>16. CASE UNCHANGED vars
  BY <1>16 DEF vars, Files, FilesNear, Near, Moved, RunInv, Trusted, Due, Pending
<1>17. QED
  BY <1>1, <1>2, <1>3, <1>4, <1>5, <1>6, <1>7, <1>8, <1>9, <1>10, <1>11, <1>12,
     <1>13, <1>14, <1>15, <1>16 DEF Next

\* Files holds at the start.
LEMMA FilesInit == Init => Files
<1> SUFFICES ASSUME Init PROVE FilesNear /\ RunInv
  BY DEF Files
<1>1. RunInv
  BY DEF Init, RunInv
<1>2. ledger = state.pos /\ ledger \in [Symbols -> Nat] /\ TypeInv
  BY TypeInit, StartAssumption DEF Init, TypeInv, TypeOK, Accounts
<1>3. InSync(ledger, ledger)
  BY <1>2, ToleranceAssumption DEF InSync, Matches, Abs
<1>4. QED
  BY <1>1, <1>2, <1>3, InSyncIsNear DEF FilesNear

\* However many commands run and die, as long as none of them skips the check,
\* the account's file and the ledger's differ by no more than the tolerance and
\* the order executed last.
THEOREM CrashesDoNotAddUpHolds == Spec => []CrashesDoNotAddUp
<1>1. Files => CrashesDoNotAddUp
  BY DEF Files, FilesNear, Near, CrashesDoNotAddUp
<1>2. QED
  BY <1>1, TypeInit, TypeStep, FilesInit, FilesStep, PTL DEF Spec

-----------------------------------------------------------------------------
(* The money.  A command's account object is worth what the account was when *)
(* the command loaded it, and the state file only ever receives that object. *)

\* a is worth what the account opened was, and lost nothing without a price.
SameWorth(a) ==
  /\ Worth(a) = Worth(opened)
  /\ \A s \in Symbols \ Priced(opened) : a.pos[s] = opened.pos[s]

MoneyInv ==
  /\ opened # NoAccount /\ state # Torn => SameWorth(state)
  /\ pc # "idle" => SameWorth(broker)
  /\ pc # "idle" /\ cmd # "set_prices" => broker.price = opened.price

\* A trade at the price the command found moves worth between cash and shares.
LEMMA ExecuteKeepsWorth ==
  ASSUME TypeInv, MoneyInv, NEW s \in Symbols, Execute(s)
  PROVE  MoneyInv'
<1>1. /\ pc = "trade" /\ todo[s] # 0 /\ pc' = "save_state"
      /\ UNCHANGED <<state, opened, cmd>>
  BY DEF Execute, IsNext
<1>2. PlanCovered /\ cmd # "set_prices"
  BY <1>1 DEF TypeInv, PhaseOK
<1>3. broker \in Accounts /\ opened \in Accounts /\ todo \in [Symbols -> Int]
  BY DEF TypeInv, TypeOK
<1> DEFINE pos   == [broker.pos EXCEPT ![s] = broker.pos[s] + todo[s]]
           cash  == broker.cash - todo[s] * broker.price[s]
           P     == Priced(opened)
           old   == [t \in P |-> broker.pos[t] * opened.price[t]]
           new   == [t \in P |-> pos[t] * opened.price[t]]
<1>4. broker' = [broker EXCEPT !.pos = pos, !.cash = cash]
  BY DEF Execute
<1>5. /\ broker.pos \in [Symbols -> Nat] /\ broker.cash \in Int
      /\ broker.price = opened.price /\ opened.price \in [Symbols -> Quotes]
      /\ opened.price[s] \in Prices /\ SameWorth(broker)
  BY <1>1, <1>2, <1>3 DEF Accounts, MoneyInv, PlanCovered
<1>6. broker'.pos = pos /\ broker'.cash = cash /\ broker'.price = broker.price
  <2> HIDE DEF pos, cash
  <2>1. QED
    BY <1>3, <1>4 DEF Accounts
<1>7. \A t \in Symbols : pos[t] = IF t = s THEN broker.pos[t] + todo[t] ELSE broker.pos[t]
  BY <1>5
<1>8. s \in P /\ P \subseteq Symbols /\ IsFiniteSet(P)
  BY <1>5, FiniteAssumption, SentinelAssumption, FS_Subset DEF Priced
<1>9. \A t \in P : opened.price[t] \in Int
  <2>1. Prices \subseteq Int
    BY AmountsAssumption
  <2>2. \A t \in P : opened.price[t] \in Quotes /\ opened.price[t] # NoPrice
    BY <1>5, <1>8 DEF Priced
  <2> HIDE DEF P
  <2>3. QED
    BY <2>1, <2>2 DEF Quotes
<1> HIDE DEF P, pos
<1>10. \A t \in Symbols : broker.pos[t] \in Int /\ pos[t] \in Int
  <2>1. todo[s] \in Int /\ \A t \in Symbols : broker.pos[t] \in Int
    BY <1>3, <1>5
  <2>2. pos[s] \in Int
    BY <1>7, <2>1
  <2>3. \A t \in Symbols \ {s} : pos[t] \in Int
    BY <1>7, <2>1
  <2>4. QED
    BY <2>1, <2>2, <2>3
<1>11. /\ \A t \in P : old[t] \in Int /\ new[t] \in Int
       /\ \A t \in P \ {s} : new[t] = old[t]
  BY <1>7, <1>8, <1>9, <1>10
<1>12. new[s] - old[s] = todo[s] * opened.price[s]
  BY <1>3, <1>7, <1>8, <1>9, <1>10
<1> HIDE DEF old, new
<1>13. SumFunctionOnSet(new, P) = SumFunctionOnSet(old, P) + todo[s] * opened.price[s]
       /\ SumFunctionOnSet(old, P) \in Int
  BY <1>8, <1>11, <1>12, SumChange, SumInt
<1>14. cash + SumFunctionOnSet(new, P) = broker.cash + SumFunctionOnSet(old, P)
  <2> DEFINE paid == todo[s] * opened.price[s]
  <2>1. paid \in Int /\ cash = broker.cash - paid
    BY <1>3, <1>5, <1>8, <1>9
  <2> HIDE DEF cash
  <2>2. QED
    BY <1>5, <1>13, <2>1
<1> HIDE DEF cash
<1>15. /\ Worth(broker') = cash + SumFunctionOnSet(new, P)
       /\ Worth(broker) = broker.cash + SumFunctionOnSet(old, P)
  BY <1>1, <1>6 DEF Worth, SumFunction, old, new, P
<1>16. Worth(broker') = Worth(opened)
  BY <1>5, <1>14, <1>15 DEF SameWorth
<1>17. \A t \in Symbols \ P : pos[t] = opened.pos[t]
  BY <1>5, <1>7, <1>8 DEF SameWorth, P
<1>18. QED
  BY <1>1, <1>5, <1>6, <1>16, <1>17 DEF MoneyInv, SameWorth, Worth, P

\* Every step keeps the account's worth.
LEMMA MoneyStep == TypeInv /\ MoneyInv /\ [Next]_vars => MoneyInv'
<1> SUFFICES ASSUME TypeInv, MoneyInv, [Next]_vars PROVE MoneyInv'
  OBVIOUS
<1> USE DEF MoneyInv, SameWorth, Worth, Exit
<1>1. ASSUME NEW c \in Commands, Open(c) PROVE MoneyInv'
  BY <1>1 DEF Open
<1>2. CASE NothingToTrade
  BY <1>2 DEF NothingToTrade
<1>3. CASE RefuseOutOfSync
  BY <1>3 DEF RefuseOutOfSync
<1>4. ASSUME NEW plan \in [Symbols -> SignedAmounts \cup {0}], StartTrading(plan)
      PROVE  MoneyInv'
  BY <1>4 DEF StartTrading
<1>5. ASSUME NEW s \in Symbols, Execute(s) PROVE MoneyInv'
  BY <1>5, ExecuteKeepsWorth
<1>6. CASE TruncateState
  BY <1>6 DEF TruncateState
<1>7. CASE WriteState
  BY <1>7 DEF WriteState
<1>8. CASE ApplyFill
  BY <1>8 DEF ApplyFill
<1>9. CASE TruncateLedger
  BY <1>9 DEF TruncateLedger
<1>10. CASE WriteLedger
  BY <1>10 DEF WriteLedger
<1>11. CASE FinishTrading
  BY <1>11 DEF FinishTrading
<1>12. CASE NothingToReconcile
  BY <1>12 DEF NothingToReconcile
<1>13. CASE Reconcile
  BY <1>13 DEF Reconcile
<1>14. ASSUME NEW quote \in [Symbols -> Quotes], SetPrices(quote) PROVE MoneyInv'
  <2>1. broker'.pos = broker.pos /\ broker'.cash = broker.cash
    BY <1>14 DEF SetPrices, TypeInv, TypeOK, Accounts
  <2>2. QED
    BY <1>14, <2>1 DEF SetPrices
<1>15. CASE Crash
  BY <1>15 DEF Crash
<1>16. CASE UNCHANGED vars
  BY <1>16 DEF vars
<1>17. QED
  BY <1>1, <1>2, <1>3, <1>4, <1>5, <1>6, <1>7, <1>8, <1>9, <1>10, <1>11, <1>12,
     <1>13, <1>14, <1>15, <1>16 DEF Next

\* Wherever a command stopped, the account in the state file is worth what it
\* was when the command loaded it, for any prices and any number of trades.
THEOREM WorthIsConservedHolds == Spec => []WorthIsConserved
<1>1. Init => MoneyInv
  BY DEF Init, MoneyInv
<1>2. MoneyInv => WorthIsConserved
  BY DEF MoneyInv, SameWorth, WorthIsConserved
<1>3. QED
  BY <1>1, <1>2, TypeInit, TypeStep, MoneyStep, PTL DEF Spec

-----------------------------------------------------------------------------
(* Damaged files. *)

TornState  == state = Torn /\ pc = "idle"
TornLedger == /\ ledger = Torn
              /\ \/ pc = "idle"
                 \/ cmd = "set_prices" /\ pc \in {"decide", "save_state", "write_state"}

\* A torn state file stops every command at its start; a torn ledger all but
\* set-prices, which does not touch it.
LEMMA TornStep ==
  ASSUME [Next]_vars
  PROVE  (TornState => TornState') /\ (TornLedger => TornLedger')
<1> USE DEF TornState, TornLedger
<1>1. ASSUME NEW c \in Commands, Open(c)
      PROVE  (TornState => TornState') /\ (TornLedger => TornLedger')
  BY <1>1 DEF Open, Exit
<1>2. ASSUME pc # "idle", Next, TornLedger PROVE TornLedger'
  BY <1>2 DEF Next, Open, NothingToTrade, RefuseOutOfSync, StartTrading, Execute,
     TruncateState, WriteState, ApplyFill, TruncateLedger, WriteLedger, FinishTrading,
     NothingToReconcile, Reconcile, SetPrices, Crash, Exit
<1>3. ASSUME pc = "idle", Next PROVE \E c \in Commands : Open(c)
  BY <1>3 DEF Next, NothingToTrade, RefuseOutOfSync, StartTrading, Execute,
     TruncateState, WriteState, ApplyFill, TruncateLedger, WriteLedger, FinishTrading,
     NothingToReconcile, Reconcile, SetPrices, Crash
<1>4. CASE UNCHANGED vars
  BY <1>4 DEF vars
<1>5. QED
  BY <1>1, <1>2, <1>3, <1>4

\* A file that a crash left unreadable stays as it is.
THEOREM DamageIsNotOverwrittenHolds == Spec => DamageIsNotOverwritten
<1>1. (pc = "idle" /\ state = Torn => TornState) /\ (TornState => state = Torn)
  BY DEF TornState
<1>2. (pc = "idle" /\ ledger = Torn => TornLedger) /\ (TornLedger => ledger = Torn)
  BY DEF TornLedger
<1>3. [Next]_vars => (TornState => TornState') /\ (TornLedger => TornLedger')
  BY TornStep
<1>4. QED
  BY <1>1, <1>2, <1>3, PTL DEF Spec, DamageIsNotOverwritten
=============================================================================
