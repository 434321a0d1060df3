------------------------ MODULE TradingSession_proofs ------------------------
(***************************************************************************)
(* Proofs about TradingSession, for every set of symbols and amounts, every *)
(* tolerance and every number of commands and outside movements.           *)
(***************************************************************************)
EXTENDS TradingSession, TLAPS

USE DEF Rebalances, Commands, Trading

\* What makes the types inductive: a command that runs has been counted, one
\* that decides or trades has read the account, a waiting command has an order,
\* and no order executes more than it asks for.
OrderOK ==
  /\ pc # "idle" => runs > 0
  /\ pc \in {"decide", "correct"} \cup Trading => acct # NoAccount
  /\ pc \in {"wait", "apply"} => order # NoOrder
  /\ order # NoOrder => order.done <= order.qty

TypeInv == TypeOK /\ OrderOK

\* Amounts of either sign are integers, and so is the quantity of any trade.
LEMMA SignedAreInts == SignedAmounts \cup {0} \subseteq Int
<1>1. \A n \in Amounts : n \in Int /\ -n \in Int
  BY AmountsAssumption
<1>2. QED
  BY <1>1 DEF SignedAmounts

\* Ending a command keeps the types of what it touches.
LEMMA ExitTypes ==
  ASSUME NEW r \in Results, Exit(r)
  PROVE  /\ pc' = "idle" /\ result' \in Results
         /\ mem' \in [Symbols -> Nat] /\ todo' \in [Symbols -> Int]
BY DEF Exit, NoShares

\* The order a command gives up becomes a stray order of that command.
LEMMA AbandonTypes ==
  ASSUME TypeInv, pc = "wait", NEW c \in BOOLEAN, Abandon(c)
  PROVE  stray' \subseteq Strays
<1>1. order \in Orders /\ order.done <= order.qty /\ runs \in 1..MaxRuns
  BY BoundsAssumption DEF TypeInv, TypeOK, OrderOK
<1>2. order.qty - order.done \in Nat
  BY <1>1 DEF Orders
<1>3. [run |-> runs, sym |-> order.sym, side |-> order.side,
       left |-> order.qty - order.done, cancel |-> c] \in Strays
  BY <1>1, <1>2 DEF Orders, Strays
<1>4. QED
  BY <1>3 DEF Abandon, TypeInv, TypeOK

\* Every step keeps the types: TypeInv is inductive.
LEMMA TypeStep == TypeInv /\ [Next]_vars => TypeInv'
<1> SUFFICES ASSUME TypeInv, [Next]_vars PROVE TypeInv'
  OBVIOUS
<1> USE AmountsAssumption, BoundsAssumption DEF TypeInv, TypeOK, OrderOK
<1>1. ASSUME NEW c \in Commands, OpenLedger(c) PROVE TypeInv'
  BY <1>1 DEF OpenLedger, Exit, NoShares, Results
<1>2. CASE ReadAccount
  <2>1. acct' # NoAccount
    BY <1>2, SentinelAssumption DEF ReadAccount
  <2>2. QED
    BY <1>2, <2>1 DEF ReadAccount
<1>3. CASE ReadAccountFails
  BY <1>3, ExitTypes DEF ReadAccountFails, Results
<1>4. CASE NothingToTrade
  BY <1>4, ExitTypes DEF NothingToTrade, Results
<1>5. CASE RefuseOutOfSync
  BY <1>5, ExitTypes DEF RefuseOutOfSync, Results
<1>6. ASSUME NEW plan \in [Symbols -> SignedAmounts \cup {0}], StartTrading(plan)
      PROVE  TypeInv'
  <2>1. plan \in [Symbols -> Int]
    BY <1>6, SignedAreInts
  <2>2. QED
    BY <1>6, <2>1 DEF StartTrading
<1>7. ASSUME NEW s \in Symbols, PlaceOrder(s) PROVE TypeInv'
  <2>1. Abs(todo[s]) \in Nat
    BY DEF Abs
  <2>2. order' \in Orders /\ order'.done <= order'.qty
    BY <1>7, <2>1 DEF PlaceOrder, Orders
  <2>3. order' # NoOrder
    BY <2>2, SentinelAssumption
  <2>4. QED
    BY <1>7, <2>2, <2>3 DEF PlaceOrder
<1>8. CASE OrderDone
  BY <1>8, ExitTypes DEF OrderDone, Results
<1>9. CASE OrderTimesOut
  <2>1. stray' \subseteq Strays
    BY <1>9, AbandonTypes DEF OrderTimesOut
  <2>2. QED
    BY <1>9, <2>1, ExitTypes DEF OrderTimesOut, Results
<1>10. CASE ApplyFill
  <2>1. CASE order.side = "SELL" /\ order.done > mem[order.sym]
    BY <1>10, <2>1, ExitTypes DEF ApplyFill, Results
  <2>2. CASE ~(order.side = "SELL" /\ order.done > mem[order.sym])
    <3>1. order \in Orders
      BY <1>10 DEF ApplyFill
    <3>2. mem[order.sym] + Signed(order.side, order.done) \in Nat
      BY <2>2, <3>1 DEF Orders, Signed
    <3>3. QED
      BY <1>10, <2>2, <3>1, <3>2 DEF ApplyFill, Orders
  <2>3. QED
    BY <2>1, <2>2
<1>11. CASE TruncateLedger
  BY <1>11 DEF TruncateLedger
<1>12. CASE WriteLedger
  BY <1>12, ExitTypes DEF WriteLedger, Results
<1>13. CASE FinishTrading
  BY <1>13, ExitTypes DEF FinishTrading, Results
<1>14. CASE NothingToReconcile
  BY <1>14, ExitTypes DEF NothingToReconcile, Results
<1>15. CASE StartCorrecting
  <2>1. acct \in [Symbols -> Int]
    BY <1>15 DEF StartCorrecting
  <2>2. todo' \in [Symbols -> Int]
    BY <1>15, <2>1 DEF StartCorrecting
  <2>3. QED
    BY <1>15, <2>2 DEF StartCorrecting
<1>16. ASSUME NEW s \in Symbols, NEW basis \in BOOLEAN, Correct(s, basis) PROVE TypeInv'
  <2>1. CASE todo[s] < 0 /\ -todo[s] > mem[s]
    BY <1>16, <2>1, ExitTypes DEF Correct, Results
  <2>2. CASE ~(todo[s] < 0 /\ -todo[s] > mem[s])
    <3>1. todo[s] < 0 \/ basis => mem[s] + todo[s] \in Nat
      BY <2>2
    <3>2. mem' \in [Symbols -> Nat] /\ todo' \in [Symbols -> Int]
      BY <1>16, <2>2, <3>1 DEF Correct
    <3>3. QED
      BY <1>16, <2>2, <3>2 DEF Correct
  <2>3. QED
    BY <2>1, <2>2
<1>17. CASE Crash
  <2>1. stray' \subseteq Strays
    BY <1>17, AbandonTypes DEF Crash
  <2>2. QED
    BY <1>17, <2>1, ExitTypes DEF Crash, Results
<1>18. ASSUME NEW n \in Amounts, Execute(n) PROVE TypeInv'
  <2>1. order \in Orders /\ n \in Nat
    BY <1>18 DEF Execute
  <2> DEFINE done == order.done + n
             full == done = order.qty
             filled == [order EXCEPT !.done = done, !.closed = full]
  <2>2. done \in Nat /\ done <= order.qty
    BY <1>18, <2>1 DEF Execute, Orders
  <2>3. full \in BOOLEAN
    OBVIOUS
  <2>4. order' = filled
    BY <1>18 DEF Execute
  <2> HIDE DEF done, full
  <2>5. order' \in Orders /\ order'.done <= order'.qty
    BY <2>1, <2>2, <2>3, <2>4 DEF Orders
  <2>6. order' # NoOrder
    BY <2>5, SentinelAssumption
  <2>7. held' \in [Symbols -> Int]
    BY <1>18, <2>1 DEF Execute, Orders, Signed
  <2>8. QED
    BY <1>18, <2>5, <2>6, <2>7 DEF Execute
<1>19. CASE CloseUnfilled
  <2>1. order \in Orders
    BY <1>19 DEF CloseUnfilled
  <2>2. order' \in Orders /\ order'.done <= order'.qty
    BY <1>19, <2>1 DEF CloseUnfilled, Orders
  <2>3. order' # NoOrder
    BY <2>2, SentinelAssumption
  <2>4. QED
    BY <1>19, <2>2, <2>3 DEF CloseUnfilled
<1>20. ASSUME NEW o \in stray, StrayCloses(o) PROVE TypeInv'
  BY <1>20 DEF StrayCloses
<1>21. ASSUME NEW o \in stray, NEW n \in Amounts, StrayExecutes(o, n) PROVE TypeInv'
  <2>1. o \in Strays /\ n \in Nat
    OBVIOUS
  <2>2. stray' \subseteq Strays
    <3>1. CASE n = o.left
      BY <1>21, <3>1 DEF StrayExecutes
    <3>2. CASE n # o.left
      <4>1. [o EXCEPT !.left = @ - n] \in Strays
        BY <1>21, <2>1 DEF StrayExecutes, Strays
      <4>2. QED
        BY <1>21, <3>2, <4>1 DEF StrayExecutes
    <3>3. QED
      BY <3>1, <3>2
  <2>3. held' \in [Symbols -> Int] /\ outside' \in [Symbols -> Int]
    BY <1>21, <2>1 DEF StrayExecutes, MoveOutside, Strays, Signed
  <2>4. QED
    BY <1>21, <2>2, <2>3 DEF StrayExecutes
<1>22. ASSUME NEW s \in Symbols, NEW d \in SignedAmounts, OutsideMovement(s, d)
       PROVE  TypeInv'
  <2>1. d \in Int
    BY <1>22, SignedAreInts
  <2>2. held' \in [Symbols -> Int] /\ outside' \in [Symbols -> Int]
    BY <1>22, <2>1 DEF OutsideMovement, MoveOutside
  <2>3. QED
    BY <1>22, <2>2 DEF OutsideMovement
<1>23. CASE UNCHANGED vars
  BY <1>23 DEF vars
<1>24. QED
  BY <1>1, <1>2, <1>3, <1>4, <1>5, <1>6, <1>7, <1>8, <1>9, <1>10, <1>11, <1>12,
     <1>13, <1>14, <1>15, <1>16, <1>17, <1>18, <1>19, <1>20, <1>21, <1>22, <1>23
  DEF Next, Program, Decide, Broker

LEMMA TypeInit == Init => TypeInv
<1> SUFFICES ASSUME Init PROVE TypeInv
  OBVIOUS
<1>1. disk \in [Symbols -> Nat] /\ held \in [Symbols -> Nat]
  BY InitialAssumption DEF Init
<1>2. NoShares \in [Symbols -> Nat]
  BY DEF NoShares
<1>3. QED
  BY <1>1, <1>2, BoundsAssumption DEF Init, TypeInv, TypeOK, OrderOK, Results

\* Every variable keeps its shape in every behaviour of the commands, the
\* broker and the crashes.
THEOREM TypeCorrect == Spec => []TypeOK
<1>1. TypeInv => TypeOK
  BY DEF TypeInv
<1>2. QED
  BY <1>1, TypeInit, TypeStep, PTL DEF Spec

-----------------------------------------------------------------------------
\* Between commands there is no ledger object.
Closed == pc = "idle" => mem = NoShares

LEMMA ClosedStep == TypeInv /\ Closed /\ [Next]_vars => Closed'
BY DEF TypeInv, TypeOK, Closed, Next, Program, Decide, Broker, OpenLedger, ReadAccount,
  ReadAccountFails, NothingToTrade, RefuseOutOfSync, StartTrading, PlaceOrder, OrderDone,
  OrderTimesOut, ApplyFill, TruncateLedger, WriteLedger, FinishTrading, NothingToReconcile,
  StartCorrecting, Correct, Crash, Execute, CloseUnfilled, StrayCloses, StrayExecutes,
  OutsideMovement, Exit, vars

\* An exit, at any step but a save's end, closes the ledger.
LEMMA ExitCloses ==
  ASSUME NEW r, pc # "idle", Exit(r), UNCHANGED disk
  PROVE  Ledger!Next
BY DEF Exit, Ledger!Next, Ledger!Close, Ledger!NoShares, NoShares

\* A step that leaves the ledger and its file alone.
LEMMA LedgerUntouched ==
  ASSUME UNCHANGED <<mem, disk>>,
         \/ pc' = pc
         \/ {pc, pc'} \subseteq {"account", "decide", "correct", "trade", "wait", "apply", "save"}
  PROVE  [Ledger!Next]_(Ledger!vars)
BY DEF Ledger!vars

LEMMA LedgerStep == TypeInv /\ Closed /\ [Next]_vars => [Ledger!Next]_(Ledger!vars)
<1> SUFFICES ASSUME TypeInv, Closed, [Next]_vars PROVE [Ledger!Next]_(Ledger!vars)
  OBVIOUS
<1>0. TypeInv'
  BY TypeStep
<1>1. ASSUME NEW c \in Commands, OpenLedger(c) PROVE [Ledger!Next]_(Ledger!vars)
  <2>1. CASE disk = Torn
    BY <1>1, <2>1 DEF OpenLedger, Exit, Closed, Ledger!vars
  <2>2. CASE disk # Torn
    BY <1>1, <2>2 DEF OpenLedger, Ledger!Next, Ledger!Load
  <2>3. QED
    BY <2>1, <2>2
<1>2. CASE ReadAccount
  BY <1>2, LedgerUntouched DEF ReadAccount
<1>3. CASE ReadAccountFails
  BY <1>3, ExitCloses DEF ReadAccountFails
<1>4. CASE NothingToTrade \/ RefuseOutOfSync \/ NothingToReconcile
  BY <1>4, ExitCloses DEF NothingToTrade, RefuseOutOfSync, NothingToReconcile
<1>5. ASSUME NEW plan \in [Symbols -> SignedAmounts \cup {0}], StartTrading(plan)
      PROVE  [Ledger!Next]_(Ledger!vars)
  BY <1>5, LedgerUntouched DEF StartTrading
<1>6. ASSUME NEW s \in Symbols, PlaceOrder(s) PROVE [Ledger!Next]_(Ledger!vars)
  BY <1>6, LedgerUntouched DEF PlaceOrder
<1>7. CASE OrderDone
  <2>1. CASE order.done > 0
    BY <1>7, <2>1, LedgerUntouched DEF OrderDone
  <2>2. CASE ~(order.done > 0)
    BY <1>7, <2>2, ExitCloses DEF OrderDone
  <2>3. QED
    BY <2>1, <2>2
<1>8. CASE OrderTimesOut
  BY <1>8, ExitCloses DEF OrderTimesOut
<1>9. CASE ApplyFill
  <2>1. CASE order.side = "SELL" /\ order.done > mem[order.sym]
    BY <1>9, <2>1, ExitCloses DEF ApplyFill
  <2>2. CASE ~(order.side = "SELL" /\ order.done > mem[order.sym])
    <3>1. pc = "apply" /\ pc' = "save" /\ disk' = disk
      BY <1>9, <2>2 DEF ApplyFill
    <3>2. mem' \in [Symbols -> Nat]
      BY <1>0 DEF TypeInv, TypeOK
    <3>3. QED
      BY <3>1, <3>2 DEF Ledger!Next, Ledger!Change
  <2>3. QED
    BY <2>1, <2>2
<1>10. CASE TruncateLedger
  BY <1>10 DEF TruncateLedger, Ledger!Next, Ledger!Truncate
<1>11. CASE WriteLedger
  <2>1. CASE cmd = "reconcile"
    BY <1>11, <2>1 DEF WriteLedger, Exit, Ledger!Next, Ledger!Write, Ledger!NoShares, NoShares
  <2>2. CASE cmd # "reconcile"
    BY <1>11, <2>2 DEF WriteLedger, Ledger!Next, Ledger!Write
  <2>3. QED
    BY <2>1, <2>2
<1>12. CASE FinishTrading
  BY <1>12, ExitCloses DEF FinishTrading
<1>13. ASSUME NEW s \in Symbols, NEW basis \in BOOLEAN, Correct(s, basis)
       PROVE  [Ledger!Next]_(Ledger!vars)
  <2>1. CASE todo[s] < 0 /\ -todo[s] > mem[s]
    BY <1>13, <2>1, ExitCloses DEF Correct
  <2>2. CASE ~(todo[s] < 0 /\ -todo[s] > mem[s])
    <3>1. pc = "correct" /\ pc' = "correct" /\ disk' = disk
      BY <1>13, <2>2 DEF Correct
    <3>2. mem' \in [Symbols -> Nat]
      BY <1>0 DEF TypeInv, TypeOK
    <3>3. QED
      BY <3>1, <3>2 DEF Ledger!Next, Ledger!Change
  <2>3. QED
    BY <2>1, <2>2
<1>14. CASE Crash
  BY <1>14, ExitCloses DEF Crash
<1>15. CASE Broker
  BY <1>15, LedgerUntouched DEF Broker, Execute, CloseUnfilled, StrayCloses, StrayExecutes,
    OutsideMovement
<1>16. CASE StartCorrecting
  BY <1>16, LedgerUntouched DEF StartCorrecting
<1>17. CASE UNCHANGED vars
  BY <1>17, LedgerUntouched DEF vars
<1>18. QED
  BY <1>1, <1>2, <1>3, <1>4, <1>5, <1>6, <1>7, <1>8, <1>9, <1>10, <1>11, <1>12, <1>13, <1>14,
     <1>15, <1>16, <1>17
  DEF Next, Program, Decide

LEMMA LedgerInit == Init => Closed /\ Ledger!Init
BY InitialAssumption DEF Init, Closed, Ledger!Init, Ledger!NoShares, NoShares

\* Whatever executes, crashes or is torn, the commands do to the ledger only
\* what ShareLedger lets a ledger do, and what LotLedger is checked to do.
THEOREM UsesShareLedgerHolds == Spec => UsesShareLedger
<1>1. TypeInv /\ Closed /\ [Next]_vars => (TypeInv /\ Closed)' /\ [Ledger!Next]_(Ledger!vars)
  BY TypeStep, ClosedStep, LedgerStep
<1>2. QED
  BY <1>1, TypeInit, LedgerInit, PTL DEF Spec, UsesShareLedger, Ledger!Spec

-----------------------------------------------------------------------------
(* The books: what memory and file have recorded of the shares the orders   *)
(* moved, at every point of a command and after it.                         *)

\* What the last order placed has executed of s.
Executed(s) ==
  IF order # NoOrder /\ order.sym = s THEN Signed(order.side, order.done) ELSE 0

\* Before it trades, a command has the ledger file in memory.
SnapshotInv ==
  /\ acct = NoAccount => outside = NoShares
  /\ pc = "account" => acct = NoAccount
  /\ pc \in {"account", "decide"} => order = NoOrder /\ disk = mem /\ opened = mem
  /\ pc = "decide" => \A s \in Symbols : Moved(s) = 0
  /\ pc = "idle" /\ result = "ok" => acct # NoAccount /\ disk # Torn

\* Memory and file miss nothing between two orders, and the executed part of
\* the current order until it is applied and saved.
FillInv ==
  /\ pc \in {"trade", "wait", "apply"} => cmd \in Rebalances /\ disk = mem
  /\ pc = "trade" => \A s \in Symbols : Unrecorded(mem, s) = 0
  /\ pc \in {"wait", "apply"} => \A s \in Symbols : Unrecorded(mem, s) = Executed(s)
  /\ cmd \in Rebalances =>
       /\ pc \in {"save", "write"} => \A s \in Symbols : Unrecorded(mem, s) = 0
       /\ pc = "save" =>
            disk # Torn /\ \A s \in Symbols : Unrecorded(disk, s) = Executed(s)
       /\ pc = "write" => disk = Torn
       /\ pc = "idle" /\ acct # NoAccount /\ disk # Torn =>
            \/ \A s \in Symbols : Unrecorded(disk, s) = 0
            \/ result # "ok" /\ \A s \in Symbols : Unrecorded(disk, s) = Executed(s)

\* A trade still to run finds its symbol as the plan saw it.
PlanInv ==
  /\ cmd = "rebalance" /\ (pc \in Trading \/ order # NoOrder) => InSync(opened, acct)
  /\ cmd \in Rebalances /\ pc \in Trading => \A s \in Symbols : todo[s] # 0 =>
       mem[s] = opened[s] /\ (todo[s] < 0 => -todo[s] <= acct[s])
  /\ pc \in {"wait", "apply"} =>
       /\ todo[order.sym] = 0 /\ mem[order.sym] = opened[order.sym]
       /\ order.side = "SELL" => order.qty <= acct[order.sym]

\* A symbol is still as it was loaded, with its delta to be corrected, or needs
\* no correction (any more).
Awaiting(s) == /\ mem[s] = opened[s]
               /\ todo[s] = acct[s] - mem[s]
Settled(s)  == Matches(mem, acct, s) \/ (mem[s] = opened[s] /\ mem[s] < acct[s])

\* reconcile corrects in memory, and writes corrected counts or leaves the file
\* alone.
ReconcileInv ==
  /\ pc = "correct" => cmd = "reconcile"
  /\ cmd = "reconcile" =>
    /\ pc # "save"
    /\ pc = "correct" =>
         /\ disk = opened
         /\ \A s \in Symbols : IF todo[s] # 0 THEN Awaiting(s) ELSE Settled(s)
    /\ pc = "write" => Restored(mem) /\ disk = Torn
    /\ pc = "idle" /\ acct # NoAccount => disk \in {opened, Torn} \/ Restored(disk)
    /\ pc = "idle" /\ result = "ok" => Restored(disk)

Books == SnapshotInv /\ FillInv /\ PlanInv /\ ReconcileInv

-----------------------------------------------------------------------------
\* The counts are integers wherever they are subtracted.
LEMMA CountTypes ==
  ASSUME TypeOK, NEW s \in Symbols
  PROVE  /\ held[s] \in Int /\ mem[s] \in Nat /\ opened[s] \in Nat /\ outside[s] \in Int
         /\ todo[s] \in Int
         /\ acct # NoAccount => acct[s] \in Int
         /\ disk # Torn => disk[s] \in Nat
BY DEF TypeOK

\* A command that ends with an error or a crash, at any point, keeps the books.
LEMMA FailureKeepsBooks ==
  ASSUME TypeInv, Books, pc # "idle", NEW r \in Results \ {"ok"}, Exit(r),
         UNCHANGED <<disk, held, cmd, acct, order, opened, outside>>
  PROVE  Books'
<1>1. pc' = "idle" /\ result' = r
  BY DEF Exit
<1>2. SnapshotInv'
  BY <1>1 DEF Books, SnapshotInv
<1>3. FillInv'
  <2> SUFFICES ASSUME cmd \in Rebalances, acct # NoAccount, disk # Torn
               PROVE  (\/ \A s \in Symbols : Unrecorded(disk, s) = 0
                       \/ \A s \in Symbols : Unrecorded(disk, s) = Executed(s))
    BY <1>1 DEF FillInv, Unrecorded, Moved, Executed
  <2>0. pc # "correct"
    BY DEF Books, ReconcileInv
  <2>1. CASE pc = "decide"
    <3>1. ASSUME NEW s \in Symbols PROVE Unrecorded(disk, s) = 0
      BY <2>1, <3>1, CountTypes DEF Books, SnapshotInv, TypeInv, Unrecorded, Moved
    <3>2. QED
      BY <3>1
  <2>2. CASE pc \in {"trade", "wait", "apply", "save"}
    BY <2>2 DEF Books, FillInv
  <2>3. CASE pc \in {"account", "write"}
    BY <2>3 DEF Books, SnapshotInv, FillInv
  <2>4. QED
    BY <2>0, <2>1, <2>2, <2>3 DEF TypeInv, TypeOK
<1>4. PlanInv'
  BY <1>1 DEF Books, PlanInv, InSync, Matches
<1>5. ReconcileInv'
  <2> SUFFICES ASSUME cmd = "reconcile", acct # NoAccount
               PROVE  disk \in {opened, Torn} \/ Restored(disk)
    BY <1>1 DEF ReconcileInv, Restored, Matches
  <2>1. pc \in {"decide", "correct", "write"}
    BY DEF Books, SnapshotInv, FillInv, ReconcileInv, TypeInv, TypeOK
  <2>2. QED
    BY <2>1 DEF Books, SnapshotInv, ReconcileInv
<1>6. QED
  BY <1>2, <1>3, <1>4, <1>5 DEF Books

\* Shares that move without the command do not touch its books.
LEMMA OutsideKeepsBooks ==
  ASSUME TypeInv, Books, NEW s \in Symbols, NEW d \in Int, MoveOutside(s, d),
         UNCHANGED <<disk, pc, cmd, result, mem, acct, todo, order, opened>>
  PROVE  Books'
<1>1. ASSUME acct # NoAccount, NEW t \in Symbols
      PROVE  Moved(t)' = Moved(t)
  BY <1>1, CountTypes DEF TypeInv, TypeOK, MoveOutside, Moved
<1>2. SnapshotInv'
  BY <1>1 DEF Books, SnapshotInv, MoveOutside, TypeInv, OrderOK
<1>3. FillInv'
  <2>1. ASSUME acct # NoAccount, NEW t \in Symbols
        PROVE  /\ Unrecorded(mem, t)' = Unrecorded(mem, t)
               /\ Unrecorded(disk, t)' = Unrecorded(disk, t)
               /\ Executed(t)' = Executed(t)
    BY <1>1, <2>1 DEF Unrecorded, Executed
  <2>2. QED
    BY <2>1 DEF Books, FillInv, TypeInv, OrderOK
<1>4. PlanInv' /\ ReconcileInv'
  BY DEF Books, PlanInv, ReconcileInv, InSync, Restored, Matches, Awaiting, Settled
<1>5. QED
  BY <1>2, <1>3, <1>4 DEF Books

\* Ending normally with nothing left to record keeps the books.
LEMMA SuccessKeepsBooks ==
  ASSUME TypeInv, Books, acct # NoAccount, disk' # Torn, Exit("ok"),
         UNCHANGED <<held, cmd, acct, order, opened, outside>>,
         cmd \in Rebalances => \A s \in Symbols : Unrecorded(disk, s)' = 0,
         cmd = "rebalance" /\ order # NoOrder => InSync(opened, acct),
         cmd = "reconcile" => Restored(disk)'
  PROVE  Books'
<1>1. pc' = "idle" /\ result' = "ok"
  BY DEF Exit
<1>2. SnapshotInv'
  BY <1>1 DEF SnapshotInv
<1>3. FillInv'
  BY <1>1 DEF FillInv
<1>4. PlanInv'
  BY <1>1 DEF PlanInv, InSync, Matches
<1>5. ReconcileInv'
  BY <1>1 DEF ReconcileInv
<1>6. QED
  BY <1>2, <1>3, <1>4, <1>5 DEF Books

\* The steps up to the decision to trade, and the corrections.
LEMMA DecisionKeepsBooks ==
  ASSUME TypeInv, Books
  PROVE  /\ \A c \in Commands : OpenLedger(c) => Books'
         /\ ReadAccount => Books'
         /\ NothingToTrade => Books'
         /\ \A plan \in [Symbols -> Int] : StartTrading(plan) => Books'
         /\ NothingToReconcile => Books'
         /\ StartCorrecting => Books'
         /\ \A s \in Symbols, basis \in BOOLEAN :
              Correct(s, basis) /\ pc' = "correct" => Books'
<1>1. ASSUME NEW c \in Commands, OpenLedger(c) PROVE Books'
  BY <1>1 DEF OpenLedger, Exit, Books, SnapshotInv, FillInv, PlanInv, ReconcileInv
<1>2. CASE ReadAccount
  <2>1. ASSUME NEW s \in Symbols PROVE Moved(s)' = 0
    BY <1>2, <2>1, CountTypes DEF TypeInv, ReadAccount, Moved, Books, SnapshotInv, NoShares
  <2>2. SnapshotInv'
    BY <1>2, <2>1 DEF ReadAccount, Books, SnapshotInv, TypeInv, TypeOK
  <2>3. FillInv' /\ PlanInv' /\ ReconcileInv'
    BY <1>2 DEF ReadAccount, Books, SnapshotInv, FillInv, PlanInv, ReconcileInv
  <2>4. QED
    BY <2>2, <2>3 DEF Books
<1>3. ASSUME pc = "decide"
      PROVE  /\ disk = mem /\ opened = mem /\ order = NoOrder /\ disk # Torn /\ acct # NoAccount
             /\ \A s \in Symbols : Unrecorded(mem, s) = 0
  <2>1. disk = mem /\ opened = mem /\ order = NoOrder /\ disk # Torn /\ acct # NoAccount
    BY <1>3, SentinelAssumption DEF Books, SnapshotInv, TypeInv, TypeOK, OrderOK
  <2>2. ASSUME NEW s \in Symbols PROVE Unrecorded(mem, s) = 0
    BY <1>3, <2>1, CountTypes DEF Books, SnapshotInv, TypeInv, Unrecorded, Moved
  <2>3. QED
    BY <2>1, <2>2
<1>4. CASE NothingToTrade
  BY <1>3, <1>4, SuccessKeepsBooks DEF NothingToTrade, Unrecorded, Moved
<1>5. ASSUME NEW plan \in [Symbols -> Int], StartTrading(plan) PROVE Books'
  <2>1. SnapshotInv' /\ ReconcileInv'
    BY <1>5 DEF StartTrading, Books, SnapshotInv, ReconcileInv
  <2>2. FillInv'
    BY <1>3, <1>5 DEF StartTrading, FillInv, Unrecorded, Moved
  <2>3. PlanInv'
    BY <1>3, <1>5 DEF StartTrading, PlanInv, ValidPlan, InSync, Matches
  <2>4. QED
    BY <2>1, <2>2, <2>3 DEF Books
<1>6. CASE NothingToReconcile
  <2>1. Restored(disk)'
    BY <1>3, <1>6 DEF NothingToReconcile, Restored, InSync, Matches
  <2>2. QED
    BY <1>3, <1>6, <2>1, SuccessKeepsBooks DEF NothingToReconcile
<1>7. CASE StartCorrecting
  <2>1. ASSUME NEW s \in Symbols PROVE (IF todo[s] # 0 THEN Awaiting(s) ELSE Settled(s))'
    <3>1. mem[s] \in Int /\ acct[s] \in Int /\ mem[s] = opened[s]
      BY <1>3, <1>7, CountTypes DEF StartCorrecting, TypeInv
    <3>2. todo'[s] = IF Matches(mem, acct, s) THEN 0 ELSE acct[s] - mem[s]
      BY <1>7 DEF StartCorrecting
    <3>3. todo'[s] = 0 => Matches(mem, acct, s)
      BY <3>1, <3>2, ToleranceAssumption DEF Matches, Abs
    <3>4. QED
      BY <1>7, <3>1, <3>2, <3>3 DEF StartCorrecting, Awaiting, Settled, Matches
  <2>2. SnapshotInv' /\ FillInv'
    BY <1>7 DEF StartCorrecting, Books, SnapshotInv, FillInv
  <2>3. PlanInv'
    BY <1>3, <1>7 DEF StartCorrecting, PlanInv
  <2>4. ReconcileInv'
    BY <1>3, <1>7, <2>1 DEF StartCorrecting, ReconcileInv
  <2>5. QED
    BY <2>2, <2>3, <2>4 DEF Books
<1>8. ASSUME NEW s \in Symbols, NEW basis \in BOOLEAN, Correct(s, basis), pc' = "correct"
      PROVE  Books'
  <2>1. /\ pc = "correct" /\ todo[s] # 0 /\ acct # NoAccount /\ cmd = "reconcile"
        /\ mem' = IF todo[s] < 0 \/ basis THEN [mem EXCEPT ![s] = @ + todo[s]] ELSE mem
        /\ todo' = [todo EXCEPT ![s] = 0]
        /\ UNCHANGED <<result, disk, held, cmd, acct, order, opened, outside>>
    BY <1>8 DEF Correct, Exit, TypeInv, OrderOK, Books, ReconcileInv
  <2>2. ASSUME NEW t \in Symbols PROVE (IF todo[t] # 0 THEN Awaiting(t) ELSE Settled(t))'
    <3>1. mem[t] \in Int /\ acct[t] \in Int /\ todo[t] \in Int
      BY <2>1, CountTypes DEF TypeInv
    <3>2. CASE t = s
      <4>1. mem[s] = opened[s] /\ todo[s] = acct[s] - mem[s]
        BY <2>1 DEF Books, ReconcileInv, Awaiting
      <4>2. todo'[s] = 0
        BY <2>1 DEF TypeInv, TypeOK
      <4>3. CASE todo[s] < 0 \/ basis
        <5>1. mem'[s] = acct[s]
          BY <2>1, <3>1, <3>2, <4>1, <4>3 DEF TypeInv, TypeOK
        <5>2. Matches(mem, acct, s)'
          BY <2>1, <3>1, <3>2, <5>1, ToleranceAssumption DEF Matches, Abs
        <5>3. QED
          BY <3>2, <4>2, <5>2 DEF Settled
      <4>4. CASE ~(todo[s] < 0 \/ basis)
        BY <2>1, <3>1, <3>2, <4>1, <4>2, <4>4 DEF Settled
      <4>5. QED
        BY <4>3, <4>4
    <3>3. CASE t # s
      <4>1. mem'[t] = mem[t] /\ todo'[t] = todo[t]
        BY <2>1, <3>3 DEF TypeInv, TypeOK
      <4>2. IF todo[t] # 0 THEN Awaiting(t) ELSE Settled(t)
        BY <2>1 DEF Books, ReconcileInv
      <4>3. QED
        BY <2>1, <4>1, <4>2 DEF Awaiting, Settled, Matches
    <3>4. QED
      BY <3>2, <3>3
  <2>3. SnapshotInv'
    BY <1>8, <2>1 DEF Books, SnapshotInv
  <2>4. FillInv' /\ PlanInv'
    BY <1>8, <2>1 DEF Books, FillInv, PlanInv
  <2>5. ReconcileInv'
    BY <1>8, <2>1, <2>2 DEF Books, ReconcileInv
  <2>6. QED
    BY <2>3, <2>4, <2>5 DEF Books
<1>9. QED
  BY <1>1, <1>2, <1>4, <1>5, <1>6, <1>7, <1>8

\* The loop over the trades: order, wait, apply, save.
LEMMA TradingKeepsBooks ==
  ASSUME TypeInv, Books
  PROVE  /\ \A s \in Symbols : PlaceOrder(s) => Books'
         /\ \A n \in Amounts : Execute(n) => Books'
         /\ CloseUnfilled => Books'
         /\ OrderDone /\ pc' = "apply" => Books'
         /\ ApplyFill /\ pc' = "save" => Books'
         /\ TruncateLedger => Books'
         /\ WriteLedger => Books'
         /\ FinishTrading => Books'
<1>1. ASSUME NEW s \in Symbols, PlaceOrder(s) PROVE Books'
  <2>1. order'.sym = s /\ order'.done = 0 /\ order'.qty = Abs(todo[s])
        /\ order'.side = (IF todo[s] > 0 THEN "BUY" ELSE "SELL")
    BY <1>1 DEF PlaceOrder
  <2>2. pc' = "wait" /\ pc = "trade" /\ todo[s] # 0 /\ cmd \in Rebalances /\ disk = mem
    BY <1>1 DEF PlaceOrder, IsNext, Books, FillInv
  <2>3. SnapshotInv' /\ ReconcileInv'
    BY <1>1, <2>2 DEF PlaceOrder, Books, SnapshotInv, ReconcileInv
  <2>4. ASSUME NEW t \in Symbols PROVE Unrecorded(mem, t)' = 0 /\ Executed(t)' = 0
    <3>1. Unrecorded(mem, t)' = 0
      BY <1>1, <2>2 DEF PlaceOrder, Books, FillInv, Unrecorded, Moved
    <3>2. ASSUME NEW d, NEW n \in Nat, n <= 0 PROVE Signed(d, n) = 0
      BY <3>2 DEF Signed
    <3>3. Signed(order'.side, order'.done) = 0
      BY <2>1, <3>2
    <3>4. QED
      BY <3>1, <3>3 DEF Executed
  <2>5. FillInv'
    BY <1>1, <2>2, <2>4 DEF PlaceOrder, FillInv
  <2>6. PlanInv'
    <3>1. todo[s] \in Int /\ todo' = [todo EXCEPT ![s] = 0] /\ todo \in [Symbols -> Int]
      BY <1>1 DEF PlaceOrder, TypeInv, TypeOK
    <3>2. cmd = "rebalance" => InSync(opened, acct)
      BY <2>2 DEF Books, PlanInv
    <3>3. \A t \in Symbols : todo'[t] # 0 =>
            mem[t] = opened[t] /\ (todo'[t] < 0 => -todo'[t] <= acct[t])
      BY <2>2, <3>1 DEF Books, PlanInv
    <3>4. todo'[s] = 0 /\ mem[s] = opened[s]
      BY <2>2, <3>1 DEF Books, PlanInv
    <3>5. order'.side = "SELL" => order'.qty <= acct[s]
      BY <2>1, <2>2, <3>1 DEF Books, PlanInv, Abs
    <3>6. QED
      BY <1>1, <2>1, <2>2, <3>2, <3>3, <3>4, <3>5 DEF PlaceOrder, PlanInv, InSync, Matches
  <2>7. QED
    BY <2>3, <2>5, <2>6 DEF Books
<1>2. ASSUME NEW n \in Amounts, Execute(n) PROVE Books'
  <2>0. TypeInv'
    BY <1>2, TypeStep DEF Next, Broker
  <2>1. /\ order \in Orders /\ order # NoOrder /\ acct # NoAccount /\ disk # Torn
        /\ order' \in Orders /\ order' # NoOrder /\ n \in Nat
    BY <1>2, <2>0, AmountsAssumption, SentinelAssumption
       DEF Execute, TypeInv, TypeOK, OrderOK, Books, FillInv
  <2>2. /\ order'.sym = order.sym /\ order'.side = order.side /\ order'.qty = order.qty
        /\ order'.done = order.done + n
    BY <1>2, <2>1 DEF Execute, Orders
  <2>3. ASSUME NEW t \in Symbols, Unrecorded(mem, t) = Executed(t)
        PROVE  Unrecorded(mem, t)' = Executed(t)'
    BY <1>2, <2>1, <2>2, <2>3, CountTypes
       DEF Execute, TypeInv, TypeOK, Unrecorded, Moved, Executed, Signed, Orders
  <2>4. SnapshotInv' /\ ReconcileInv'
    BY <1>2 DEF Execute, Books, SnapshotInv, ReconcileInv
  <2>5. FillInv'
    BY <1>2, <2>3 DEF Execute, Books, FillInv
  <2>6. PlanInv'
    BY <1>2, <2>1, <2>2 DEF Execute, Books, PlanInv, InSync, Matches
  <2>7. QED
    BY <2>4, <2>5, <2>6 DEF Books
<1>3. CASE CloseUnfilled
  <2>1. order \in Orders /\ order # NoOrder
    BY <1>3 DEF CloseUnfilled, TypeInv, TypeOK, OrderOK
  <2>2. /\ order'.sym = order.sym /\ order'.side = order.side /\ order'.qty = order.qty
        /\ order'.done = order.done /\ order' \in Orders
    BY <1>3, <2>1 DEF CloseUnfilled, Orders
  <2>3. order' # NoOrder
    BY <2>2, SentinelAssumption
  <2>4. SnapshotInv' /\ ReconcileInv'
    BY <1>3 DEF CloseUnfilled, Books, SnapshotInv, ReconcileInv
  <2>5. FillInv'
    BY <1>3, <2>1, <2>2, <2>3 DEF CloseUnfilled, Books, FillInv, Unrecorded, Moved, Executed
  <2>6. PlanInv'
    BY <1>3, <2>1, <2>2 DEF CloseUnfilled, Books, PlanInv, InSync, Matches
  <2>7. QED
    BY <2>4, <2>5, <2>6 DEF Books
<1>4. ASSUME OrderDone, pc' = "apply" PROVE Books'
  <2>1. pc = "wait" /\ UNCHANGED <<disk, held, cmd, result, mem, acct, todo, order, opened, outside>>
    BY <1>4 DEF OrderDone, Exit
  <2>2. SnapshotInv' /\ ReconcileInv'
    BY <1>4, <2>1 DEF Books, SnapshotInv, ReconcileInv
  <2>3. FillInv'
    BY <1>4, <2>1 DEF Books, FillInv, Unrecorded, Moved, Executed
  <2>4. PlanInv'
    BY <1>4, <2>1 DEF Books, PlanInv, InSync, Matches
  <2>5. QED
    BY <2>2, <2>3, <2>4 DEF Books
<1>5. ASSUME ApplyFill, pc' = "save" PROVE Books'
  <2>1. /\ order \in Orders /\ order # NoOrder /\ cmd \in Rebalances
        /\ disk = mem /\ disk # Torn /\ acct # NoAccount /\ pc = "apply"
    BY <1>5, SentinelAssumption DEF ApplyFill, TypeInv, TypeOK, OrderOK, Books, FillInv
  <2>2. /\ mem' = [mem EXCEPT ![order.sym] = @ + Signed(order.side, order.done)]
        /\ UNCHANGED <<result, todo, disk, held, cmd, acct, order, opened, outside>>
    BY <1>5 DEF ApplyFill, Exit
  <2>3. SnapshotInv' /\ ReconcileInv'
    BY <1>5, <2>1, <2>2 DEF Books, SnapshotInv, ReconcileInv
  <2>4. ASSUME NEW t \in Symbols
        PROVE  Unrecorded(disk, t)' = Executed(t)' /\ Unrecorded(mem, t)' = 0
    <3>1. Unrecorded(mem, t) = Executed(t)
      BY <2>1 DEF Books, FillInv
    <3>2. Executed(t) \in Int
      BY <2>1 DEF Executed, Signed, Orders
    <3>3. mem'[t] = mem[t] + Executed(t)
      BY <2>1, <2>2 DEF Executed, TypeInv, TypeOK
    <3>4. QED
      BY <2>1, <2>2, <3>1, <3>2, <3>3, CountTypes DEF TypeInv, Unrecorded, Moved, Executed
  <2>5. FillInv'
    BY <1>5, <2>1, <2>2, <2>4 DEF FillInv
  <2>6. PlanInv'
    BY <1>5, <2>1, <2>2 DEF Books, PlanInv, InSync, Matches, TypeInv, TypeOK
  <2>7. QED
    BY <2>3, <2>5, <2>6 DEF Books
<1>6. CASE TruncateLedger
  <2>1. SnapshotInv' /\ FillInv'
    BY <1>6 DEF TruncateLedger, Books, SnapshotInv, FillInv, ReconcileInv, Unrecorded, Moved
  <2>2. PlanInv'
    BY <1>6 DEF TruncateLedger, Books, PlanInv, ReconcileInv, InSync, Matches
  <2>3. pc = "correct" => Restored(mem)
    BY <1>6 DEF TruncateLedger, Empty, Books, ReconcileInv, Settled, Restored
  <2>4. ReconcileInv'
    BY <1>6, <2>3 DEF TruncateLedger, Books, ReconcileInv, Restored, Matches
  <2>5. QED
    BY <2>1, <2>2, <2>4 DEF Books
<1>7. CASE WriteLedger
  <2>1. disk' = mem /\ mem # Torn /\ acct # NoAccount /\ pc = "write"
    BY <1>7, SentinelAssumption DEF WriteLedger, TypeInv, TypeOK, OrderOK
  <2>2. CASE cmd = "reconcile"
    BY <1>7, <2>1, <2>2, SuccessKeepsBooks
       DEF WriteLedger, Books, ReconcileInv, Restored, Matches
  <2>3. CASE cmd # "reconcile"
    <3>1. cmd \in Rebalances /\ pc' = "trade"
          /\ UNCHANGED <<held, cmd, result, mem, acct, todo, order, opened, outside>>
      BY <1>7, <2>3 DEF WriteLedger, TypeInv, TypeOK
    <3>2. SnapshotInv' /\ ReconcileInv'
      BY <2>1, <3>1 DEF Books, SnapshotInv, ReconcileInv
    <3>3. FillInv' /\ PlanInv'
      BY <2>1, <3>1 DEF Books, FillInv, PlanInv, Unrecorded, Moved, InSync, Matches
    <3>4. QED
      BY <3>2, <3>3 DEF Books
  <2>4. QED
    BY <2>2, <2>3
<1>8. CASE FinishTrading
  <2>1. pc = "trade" /\ cmd \in Rebalances /\ disk = mem /\ disk # Torn /\ acct # NoAccount
    BY <1>8, SentinelAssumption DEF FinishTrading, Books, FillInv, TypeInv, TypeOK, OrderOK
  <2>2. \A s \in Symbols : Unrecorded(disk, s)' = 0
    BY <1>8, <2>1 DEF FinishTrading, Books, FillInv, Unrecorded, Moved
  <2>3. cmd = "rebalance" => InSync(opened, acct)
    BY <2>1 DEF Books, PlanInv
  <2>4. QED
    BY <1>8, <2>1, <2>2, <2>3, SuccessKeepsBooks DEF FinishTrading
<1>9. QED
  BY <1>1, <1>2, <1>3, <1>4, <1>5, <1>6, <1>7, <1>8

\* Every step keeps the books: with the types, Books is inductive.
LEMMA BooksStep == TypeInv /\ Books /\ [Next]_vars => Books'
<1> SUFFICES ASSUME TypeInv, Books, [Next]_vars PROVE Books'
  OBVIOUS
<1>1. ASSUME \/ \E c \in Commands : OpenLedger(c)
             \/ ReadAccount \/ NothingToTrade \/ NothingToReconcile
             \/ \E plan \in [Symbols -> SignedAmounts \cup {0}] : StartTrading(plan)
             \/ StartCorrecting
      PROVE  Books'
  <2>1. [Symbols -> SignedAmounts \cup {0}] \subseteq [Symbols -> Int]
    BY SignedAreInts
  <2>2. QED
    BY <1>1, <2>1, DecisionKeepsBooks
<1>2. ASSUME \/ \E s \in Symbols : PlaceOrder(s)
             \/ \E n \in Amounts : Execute(n)
             \/ CloseUnfilled \/ TruncateLedger \/ WriteLedger \/ FinishTrading
      PROVE  Books'
  BY <1>2, TradingKeepsBooks
<1>3. CASE ReadAccountFails \/ RefuseOutOfSync \/ OrderTimesOut \/ Crash
  BY <1>3, FailureKeepsBooks
     DEF ReadAccountFails, RefuseOutOfSync, OrderTimesOut, Crash, Results
<1>4. CASE OrderDone
  <2>1. CASE order.done > 0
    BY <1>4, <2>1, TradingKeepsBooks DEF OrderDone
  <2>2. CASE ~(order.done > 0)
    BY <1>4, <2>2, FailureKeepsBooks DEF OrderDone, Results
  <2>3. QED
    BY <2>1, <2>2
<1>5. CASE ApplyFill
  <2>1. CASE order.side = "SELL" /\ order.done > mem[order.sym]
    BY <1>5, <2>1, FailureKeepsBooks DEF ApplyFill, Results
  <2>2. CASE ~(order.side = "SELL" /\ order.done > mem[order.sym])
    BY <1>5, <2>2, TradingKeepsBooks DEF ApplyFill
  <2>3. QED
    BY <2>1, <2>2
<1>6. ASSUME NEW o \in stray, NEW n \in Amounts, StrayExecutes(o, n) PROVE Books'
  <2>1. o.sym \in Symbols /\ Signed(o.side, n) \in Int
    BY AmountsAssumption DEF TypeInv, TypeOK, Strays, Signed
  <2>2. QED
    BY <1>6, <2>1, OutsideKeepsBooks DEF StrayExecutes
<1>7. ASSUME NEW s \in Symbols, NEW d \in SignedAmounts, OutsideMovement(s, d)
      PROVE  Books'
  BY <1>7, SignedAreInts, OutsideKeepsBooks DEF OutsideMovement
<1>8. ASSUME (\E o \in stray : StrayCloses(o)) \/ UNCHANGED vars PROVE Books'
  <2>1. UNCHANGED <<disk, held, pc, cmd, result, mem, acct, todo, order, opened, outside>>
    BY <1>8 DEF StrayCloses, vars
  <2>2. SnapshotInv' /\ FillInv'
    BY <2>1 DEF Books, SnapshotInv, FillInv, Unrecorded, Moved, Executed
  <2>3. PlanInv' /\ ReconcileInv'
    BY <2>1 DEF Books, PlanInv, ReconcileInv, InSync, Matches, Restored, Awaiting, Settled
  <2>4. QED
    BY <2>2, <2>3 DEF Books
<1>9. ASSUME NEW s \in Symbols, NEW basis \in BOOLEAN, Correct(s, basis) PROVE Books'
  <2>1. CASE todo[s] < 0 /\ -todo[s] > mem[s]
    BY <1>9, <2>1, FailureKeepsBooks DEF Correct, Results
  <2>2. CASE ~(todo[s] < 0 /\ -todo[s] > mem[s])
    BY <1>9, <2>2, DecisionKeepsBooks DEF Correct
  <2>3. QED
    BY <2>1, <2>2
<1>10. QED
  BY <1>1, <1>2, <1>3, <1>4, <1>5, <1>6, <1>7, <1>8, <1>9
     DEF Next, Program, Decide, Broker

LEMMA BooksInit == Init => Books
<1> SUFFICES ASSUME Init PROVE Books
  OBVIOUS
<1>1. SnapshotInv /\ FillInv /\ ReconcileInv
  BY DEF Init, SnapshotInv, FillInv, ReconcileInv
<1>2. PlanInv
  BY DEF Init, PlanInv
<1>3. QED
  BY <1>1, <1>2 DEF Books

\* The types and the books hold in every behaviour.
THEOREM BooksCorrect == Spec => [](TypeInv /\ Books)
<1>1. Init => TypeInv /\ Books
  BY TypeInit, BooksInit
<1>2. TypeInv /\ Books /\ [Next]_vars => (TypeInv /\ Books)'
  BY TypeStep, BooksStep
<1>3. QED
  BY <1>1, <1>2, PTL DEF Spec

-----------------------------------------------------------------------------
(* What the books imply. *)

\* CompletedRunKeepsBooks: a rebalance that ends normally has every share its
\* orders moved in the ledger file, for any plan, fills and outside movements.
THEOREM CompletedRunKeepsBooksHolds == Spec => []CompletedRunKeepsBooks
<1>1. TypeInv /\ Books => CompletedRunKeepsBooks
  BY DEF Books, FillInv, CompletedRunKeepsBooks, Rebalancing
<1>2. QED
  BY <1>1, BooksCorrect, PTL

\* OnlyLastFillCanBeLost: wherever a rebalance stops, its ledger file misses
\* at most what the last order placed has executed.
THEOREM OnlyLastFillCanBeLostHolds == Spec => []OnlyLastFillCanBeLost
<1>1. ASSUME TypeInv, Books, Rebalancing, NEW s \in Symbols
      PROVE  Unrecorded(disk, s) \in {0, Executed(s)}
  <2>1. CASE pc \in {"account", "write"}
    BY <1>1, <2>1 DEF Books, SnapshotInv, FillInv, Rebalancing
  <2>2. CASE pc = "decide"
    BY <1>1, <2>2, CountTypes DEF Books, SnapshotInv, TypeInv, Rebalancing, Unrecorded, Moved
  <2>3. CASE pc \in {"trade", "wait", "apply", "save", "idle"}
    BY <1>1, <2>3 DEF Books, FillInv, Rebalancing
  <2>4. QED
    BY <1>1, <2>1, <2>2, <2>3 DEF Books, ReconcileInv, Rebalancing, TypeInv, TypeOK
<1>2. TypeInv /\ Books => OnlyLastFillCanBeLost
  BY <1>1 DEF OnlyLastFillCanBeLost, Executed
<1>3. QED
  BY <1>2, BooksCorrect, PTL

\* SalesCoveredWithinTolerance: after the reconcile check no order sells more
\* than Tolerance shares beyond the lots.
THEOREM SalesCoveredHolds == Spec => []SalesCoveredWithinTolerance
<1>1. ASSUME TypeInv, Books, cmd = "rebalance", pc \in {"wait", "apply"}, order.side = "SELL"
      PROVE  order.qty <= mem[order.sym] + Tolerance
  <2>1. order \in Orders /\ acct # NoAccount
    BY <1>1 DEF TypeInv, TypeOK, OrderOK
  <2>2. order.sym \in Symbols /\ order.qty \in Nat
    BY <2>1 DEF Orders
  <2>3. PICK s \in Symbols : s = order.sym
    BY <2>2
  <2>4. Matches(opened, acct, s) /\ mem[s] = opened[s] /\ order.qty <= acct[s]
    BY <1>1, <2>3 DEF Books, PlanInv, InSync
  <2>5. mem[s] \in Int /\ acct[s] \in Int
    BY <1>1, <2>1, CountTypes DEF TypeInv
  <2>6. acct[s] - mem[s] <= Tolerance
    BY <2>4, <2>5, ToleranceAssumption DEF Matches, Abs
  <2>7. QED
    BY <2>2, <2>3, <2>4, <2>5, <2>6, ToleranceAssumption
<1>2. TypeInv /\ Books => SalesCoveredWithinTolerance
  BY <1>1 DEF SalesCoveredWithinTolerance
<1>3. QED
  BY <1>2, BooksCorrect, PTL

\* CleanRunStaysInSync: a checked rebalance that ends normally in an account
\* nobody else touched leaves ledger and broker in sync.
THEOREM CleanRunStaysInSyncHolds == Spec => []CleanRunStaysInSync
<1>1. ASSUME TypeInv, Books, cmd = "rebalance", pc = "idle", result = "ok", order # NoOrder,
             \A s \in Symbols : outside[s] = 0
      PROVE  disk # Torn /\ InSync(disk, held)
  <2>1. disk # Torn /\ acct # NoAccount /\ InSync(opened, acct)
        /\ \A s \in Symbols : Unrecorded(disk, s) = 0
    BY <1>1 DEF Books, SnapshotInv, FillInv, PlanInv
  <2>2. ASSUME NEW s \in Symbols PROVE Matches(disk, held, s)
    <3>1. held[s] - acct[s] - outside[s] - (disk[s] - opened[s]) = 0 /\ outside[s] = 0
      BY <1>1, <2>1 DEF Unrecorded, Moved
    <3>2. /\ held[s] \in Int /\ acct[s] \in Int
          /\ disk[s] \in Int /\ opened[s] \in Int
      BY <1>1, <2>1, CountTypes DEF TypeInv
    <3>3. held[s] - disk[s] = acct[s] - opened[s]
      <4> DEFINE h == held[s]  a == acct[s]  d == disk[s]  o == opened[s]
      <4>1. h \in Int /\ a \in Int /\ d \in Int /\ o \in Int
        BY <3>2
      <4>2. h - a - 0 - (d - o) = 0
        BY <3>1
      <4> HIDE DEF h, a, d, o
      <4>3. h - d = a - o
        BY <4>1, <4>2
      <4>4. QED
        BY <4>3 DEF h, a, d, o
    <3>4. QED
      BY <2>1, <3>3 DEF InSync, Matches
  <2>3. QED
    BY <2>1, <2>2 DEF InSync
<1>2. TypeInv /\ Books => CleanRunStaysInSync
  BY <1>1 DEF CleanRunStaysInSync
<1>3. QED
  BY <1>2, BooksCorrect, PTL

\* ReconcileIsAllOrNothing: reconcile --apply corrects every symbol in the
\* file or, apart from a truncation, none.
THEOREM ReconcileIsAllOrNothingHolds == Spec => []ReconcileIsAllOrNothing
<1>1. ASSUME TypeInv, Books, cmd = "reconcile", acct # NoAccount
      PROVE  /\ disk \in {opened, Torn} \/ Restored(disk)
             /\ pc = "idle" /\ result = "ok" => disk # Torn /\ Restored(disk)
  BY <1>1 DEF Books, SnapshotInv, FillInv, ReconcileInv, TypeInv, TypeOK
<1>2. TypeInv /\ Books => ReconcileIsAllOrNothing
  BY <1>1 DEF ReconcileIsAllOrNothing
<1>3. QED
  BY <1>2, BooksCorrect, PTL

\* OrdersFollowSavedBooks: an order goes out only with every earlier fill in
\* the ledger file and, under the check, after ledger and account agreed.
THEOREM OrdersFollowSavedBooksHolds == Spec => OrdersFollowSavedBooks
<1>1. ASSUME TypeInv, Books, [Next]_vars, pc = "trade", pc' = "wait"
      PROVE  /\ disk # Torn
             /\ \A s \in Symbols : Unrecorded(disk, s) = 0
             /\ cmd = "rebalance" => InSync(opened, acct)
  BY <1>1, SentinelAssumption DEF Books, FillInv, PlanInv, TypeInv, TypeOK
<1>2. TypeInv /\ Books /\ [Next]_vars =>
        [pc = "trade" /\ pc' = "wait" =>
           /\ disk # Torn
           /\ \A s \in Symbols : Unrecorded(disk, s) = 0
           /\ cmd = "rebalance" => InSync(opened, acct)]_vars
  BY <1>1
<1>3. QED
  BY <1>2, BooksCorrect, PTL DEF Spec, OrdersFollowSavedBooks
=============================================================================
