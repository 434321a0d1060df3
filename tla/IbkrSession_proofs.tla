------------------------- MODULE IbkrSession_proofs -------------------------
(***************************************************************************)
(* Proofs about IbkrSession, for every value of the constants: under a     *)
(* plain gateway it implements TradingSession, and under any gateway the   *)
(* books miss no more than what was reported late.                         *)
(***************************************************************************)
EXTENDS IbkrSession, TradingSession_proofs

USE DEF Rebalances, Commands, Trading

\* What execute knows of its order: a final status is only reported of a closed
\* order, and an orderly gateway has reported every execution before it.
ReportInv ==
  /\ pc = "wait" /\ terminal => order.closed
  /\ pc = "wait" /\ terminal /\ orderly => wire = 0
  /\ pc = "apply" /\ orderly => seen = order.done

AdapterInv == TypeInv /\ AdapterTypeOK /\ ReportInv

-----------------------------------------------------------------------------
\* Only three steps of the adapter do what no step of TradingSession does.
LEMMA StepKinds ==
  ASSUME [IbkrNext]_allVars
  PROVE  [Next]_vars \/ ReadPortfolio \/ ReturnFill \/ BookFill
<1>1. CASE UNCHANGED allVars
  BY <1>1 DEF allVars
<1>2. ASSUME NEW c \in Commands, StartCommand(c) PROVE Next
  BY <1>2 DEF StartCommand, Next
<1>3. ASSUME NEW s \in Symbols, SendOrder(s) PROVE Next
  BY <1>3 DEF SendOrder, Next, Program
<1>4. ASSUME NEW n \in Amounts, Fill(n) PROVE Next
  BY <1>4 DEF Fill, Next, Broker
<1>5. GiveUp => Next
  BY DEF GiveUp, Next, Program
<1>6. RaiseDisconnected \/ Die => Next
  BY DEF RaiseDisconnected, Die, Next
<1>7. Local => Next
  BY DEF Local, Next, Program
<1>8. Elsewhere => Next
  BY DEF Elsewhere, Next, Broker
<1>9. Connect \/ ReportExecutions \/ ReportStatus \/ DeadlinePasses \/ LoseConnection
        => UNCHANGED vars
  BY DEF Connect, ReportExecutions, ReportStatus, DeadlinePasses, LoseConnection
<1>10. QED
  BY <1>1, <1>2, <1>3, <1>4, <1>5, <1>6, <1>7, <1>8, <1>9
  DEF IbkrNext, IbkrProgram, Gateway

\* The session keeps its types under any gateway.
LEMMA SessionTypes == AdapterInv /\ [IbkrNext]_allVars => TypeInv'
<1> SUFFICES ASSUME AdapterInv, [IbkrNext]_allVars PROVE TypeInv'
  OBVIOUS
<1>1. CASE [Next]_vars
  BY <1>1, TypeStep DEF AdapterInv
<1>2. CASE ReadPortfolio
  <2>1. acct' \in [Symbols -> Int]
    BY <1>2, OtherItemsAssumption DEF ReadPortfolio, AdapterInv, TypeInv, TypeOK, AdapterTypeOK
  <2>2. acct' # NoAccount
    BY <2>1, SentinelAssumption
  <2>3. QED
    BY <1>2, <2>1, <2>2 DEF ReadPortfolio, AdapterInv, TypeInv, TypeOK, OrderOK
<1>3. CASE ReturnFill
  BY <1>3, ExitTypes DEF ReturnFill, AdapterInv, TypeInv, TypeOK, OrderOK, Results
<1>4. CASE BookFill
  <2>1. CASE order.side = "SELL" /\ seen > mem[order.sym]
    BY <1>4, <2>1, ExitTypes DEF BookFill, AdapterInv, TypeInv, TypeOK, OrderOK, Results
  <2>2. CASE ~(order.side = "SELL" /\ seen > mem[order.sym])
    <3>1. order \in Orders /\ seen \in Nat /\ mem \in [Symbols -> Nat]
      BY <1>4 DEF BookFill, AdapterInv, TypeInv, TypeOK, OrderOK, AdapterTypeOK
    <3>2. mem[order.sym] + Signed(order.side, seen) \in Nat
      BY <2>2, <3>1 DEF Orders, Signed
    <3>3. mem' \in [Symbols -> Nat]
      BY <1>4, <2>2, <3>1, <3>2 DEF BookFill, Orders
    <3>4. QED
      BY <1>4, <2>2, <3>3 DEF BookFill, AdapterInv, TypeInv, TypeOK, OrderOK
  <2>3. QED
    BY <2>1, <2>2
<1>5. QED
  BY <1>1, <1>2, <1>3, <1>4, StepKinds

\* late grows by whole shares.
LEMMA LateTypes ==
  ASSUME TypeInv, AdapterTypeOK, pc = "wait",
         late' = [late EXCEPT ![order.sym] = @ + Signed(order.side, order.done - seen)]
  PROVE  late' \in [Symbols -> Int]
<1>1. order \in Orders /\ seen \in Nat /\ late \in [Symbols -> Int]
  BY DEF TypeInv, TypeOK, OrderOK, AdapterTypeOK
<1>2. Signed(order.side, order.done - seen) \in Int
  BY <1>1 DEF Orders, Signed
<1>3. QED
  BY <1>1, <1>2 DEF Orders

\* A step that is one of the session's own and leaves the wait, if it was
\* waiting, keeps what is known of the order.
LEMMA QuietKeepsReports ==
  ASSUME AdapterInv, pc' # "wait", pc' = "apply" => pc = "apply" /\ order' = order,
         UNCHANGED <<orderly, other, order_, truth, late>>, conn' \in {"none", "up", "lost"}
  PROVE  AdapterTypeOK' /\ ReportInv'
BY DEF AdapterInv, AdapterTypeOK, ReportInv, order_

\* AdapterInv is inductive.
LEMMA AdapterStep == AdapterInv /\ [IbkrNext]_allVars => AdapterInv'
<1> SUFFICES ASSUME AdapterInv, [IbkrNext]_allVars PROVE AdapterInv'
  OBVIOUS
<1>0. TypeInv'
  BY SessionTypes
<1>a. ASSUME Disconnect PROVE conn' \in {"none", "up", "lost"}
  BY <1>a DEF Disconnect, AdapterInv, AdapterTypeOK
<1> SUFFICES AdapterTypeOK' /\ ReportInv'
  BY <1>0 DEF AdapterInv
<1>1. ASSUME NEW c \in Commands, StartCommand(c) PROVE AdapterTypeOK' /\ ReportInv'
  <2>1. pc' \in {"idle", "account"}
    BY <1>1 DEF StartCommand, OpenLedger, Exit
  <2>2. QED
    BY <1>1, <2>1 DEF StartCommand, AdapterInv, AdapterTypeOK, ReportInv, order_, NoShares
<1>2. CASE Connect
  BY <1>2, QuietKeepsReports DEF Connect, vars
<1>3. CASE ReadPortfolio
  BY <1>3 DEF ReadPortfolio, AdapterInv, TypeInv, TypeOK, AdapterTypeOK, ReportInv, order_
<1>4. ASSUME NEW s \in Symbols, SendOrder(s) PROVE AdapterTypeOK' /\ ReportInv'
  <2>1. pc' = "wait" /\ order'.done = 0
    BY <1>4 DEF SendOrder, PlaceOrder
  <2>2. /\ wire' = 0 /\ seen' = 0 /\ terminal' = FALSE /\ expired' = FALSE
        /\ UNCHANGED <<orderly, other, conn, truth, late>>
    BY <1>4 DEF SendOrder
  <2>3. wire' \in Nat /\ seen' \in Nat /\ seen' + wire' = order'.done
    BY <2>1, <2>2
  <2>4. terminal' \in BOOLEAN /\ expired' \in BOOLEAN
    BY <2>2
  <2>5. AdapterTypeOK'
    BY <2>2, <2>3, <2>4 DEF AdapterInv, AdapterTypeOK
  <2>6. ReportInv'
    BY <2>1, <2>2 DEF ReportInv
  <2>7. QED
    BY <2>5, <2>6
<1>5. CASE ReturnFill
  <2>1. late' \in [Symbols -> Int] /\ pc' \in {"apply", "idle"}
    BY <1>5, LateTypes DEF ReturnFill, AdapterInv, Exit
  <2>2. AdapterTypeOK'
    BY <1>5, <1>a, <2>1 DEF ReturnFill, AdapterInv, AdapterTypeOK, order_
  <2>3. orderly => seen = order.done
    <3>1. order.done \in Nat /\ seen \in Nat
      BY <1>5 DEF ReturnFill, AdapterInv, TypeInv, TypeOK, OrderOK, Orders, AdapterTypeOK
    <3>2. pc = "wait" /\ terminal
      BY <1>5 DEF ReturnFill
    <3>3. seen + wire = order.done /\ (orderly => wire = 0)
      BY <3>2 DEF AdapterInv, AdapterTypeOK, ReportInv
    <3>4. QED
      BY <3>1, <3>3
  <2>4. ReportInv'
    BY <1>5, <2>1, <2>3 DEF ReturnFill, ReportInv, order_
  <2>5. QED
    BY <2>2, <2>4
<1>6. CASE GiveUp
  BY <1>6, <1>a, QuietKeepsReports DEF GiveUp, OrderTimesOut, Exit
<1>7. CASE RaiseDisconnected
  BY <1>7, <1>a, QuietKeepsReports DEF RaiseDisconnected, Crash, Exit
<1>8. CASE BookFill
  <2>1. pc' \in {"save", "idle"}
    BY <1>8 DEF BookFill, Exit
  <2>2. QED
    BY <1>8, <1>a, <2>1, QuietKeepsReports DEF BookFill
<1>9. CASE Local
  <2>1. pc' \notin {"wait", "apply"}
    BY <1>9 DEF Local, ReadAccountFails, Decide, NothingToTrade, RefuseOutOfSync, StartTrading,
       NothingToReconcile, StartCorrecting, Correct, TruncateLedger, WriteLedger,
       FinishTrading, Exit
  <2>2. QED
    BY <1>9, <1>a, <2>1, QuietKeepsReports DEF Local
<1>10. CASE Die
  BY <1>10, <1>a, QuietKeepsReports DEF Die, Crash, Exit
<1>11. ASSUME NEW n \in Amounts, Fill(n) PROVE AdapterTypeOK' /\ ReportInv'
  <2>1. n \in Nat /\ order \in Orders /\ wire \in Nat /\ seen \in Nat
    BY <1>11, AmountsAssumption
    DEF Fill, Execute, AdapterInv, TypeInv, TypeOK, OrderOK, AdapterTypeOK
  <2>2. order'.done = order.done + n /\ pc' = "wait" /\ ~order.closed /\ pc = "wait"
    BY <1>11, <2>1 DEF Fill, Execute, Orders
  <2>3. order.done \in Nat
    BY <2>1 DEF Orders
  <2>4. AdapterTypeOK'
    BY <1>11, <2>1, <2>2, <2>3 DEF Fill, AdapterInv, AdapterTypeOK
  <2>5. ReportInv'
    BY <1>11, <2>2 DEF Fill, AdapterInv, ReportInv
  <2>6. QED
    BY <2>4, <2>5
<1>12. CASE ReportExecutions
  BY <1>12 DEF ReportExecutions, vars, AdapterInv, AdapterTypeOK, ReportInv
<1>13. CASE ReportStatus
  BY <1>13 DEF ReportStatus, vars, AdapterInv, AdapterTypeOK, ReportInv
<1>14. CASE DeadlinePasses
  BY <1>14 DEF DeadlinePasses, vars, AdapterInv, AdapterTypeOK, ReportInv
<1>15. CASE LoseConnection
  BY <1>15 DEF LoseConnection, vars, order_, AdapterInv, AdapterTypeOK, ReportInv
<1>16. CASE Elsewhere
  <2>1. CASE CloseUnfilled
    <3>1. order \in Orders
      BY <2>1 DEF CloseUnfilled, AdapterInv, TypeInv, TypeOK, OrderOK
    <3>2. order'.done = order.done /\ order'.closed /\ pc' = "wait" /\ pc = "wait"
      BY <2>1, <3>1 DEF CloseUnfilled, Orders
    <3>3. QED
      BY <1>16, <3>2 DEF Elsewhere, adapter, AdapterInv, AdapterTypeOK, ReportInv
  <2>2. CASE ~CloseUnfilled
    <3>1. UNCHANGED <<pc, order>>
      BY <1>16, <2>2 DEF Elsewhere, StrayCloses, StrayExecutes, OutsideMovement
    <3>2. QED
      BY <1>16, <3>1 DEF Elsewhere, adapter, AdapterInv, AdapterTypeOK, ReportInv
  <2>3. QED
    BY <2>1, <2>2
<1>17. CASE UNCHANGED allVars
  BY <1>17 DEF allVars, vars, adapter, AdapterInv, AdapterTypeOK, ReportInv
<1>18. QED
  BY <1>1, <1>2, <1>3, <1>4, <1>5, <1>6, <1>7, <1>8, <1>9, <1>10, <1>11, <1>12,
     <1>13, <1>14, <1>15, <1>16, <1>17 DEF IbkrNext, IbkrProgram, Gateway

LEMMA AdapterInit == IbkrInit => AdapterInv
<1> SUFFICES ASSUME IbkrInit PROVE AdapterInv
  OBVIOUS
<1>1. TypeInv /\ pc = "idle"
  BY TypeInit DEF IbkrInit, Init
<1>2. other \in [Symbols -> Int \cup {NoItem}]
  BY OtherItemsAssumption DEF IbkrInit
<1>3. terminal \in BOOLEAN /\ expired \in BOOLEAN /\ orderly \in BOOLEAN /\ conn = "none"
  BY DEF IbkrInit
<1>4. wire \in Nat /\ seen \in Nat /\ truth \in [Symbols -> Int] /\ late \in [Symbols -> Int]
  BY DEF IbkrInit, NoShares
<1>5. AdapterTypeOK
  BY <1>1, <1>2, <1>3, <1>4 DEF AdapterTypeOK
<1>6. QED
  BY <1>1, <1>5 DEF AdapterInv, ReportInv

\* The adapter's variables keep their shape, and execute never counts a share
\* its order did not execute.
THEOREM AdapterTypeCorrect == IbkrSpec => []AdapterTypeOK
<1>1. AdapterInv => AdapterTypeOK
  BY DEF AdapterInv
<1>2. QED
  BY <1>1, AdapterInit, AdapterStep, PTL DEF IbkrSpec

-----------------------------------------------------------------------------
\* Under a plain gateway the other three steps are the session's own too.
LEMMA PlainStep == AdapterInv /\ [IbkrNext]_allVars => (Plain => [Next]_vars)
<1> SUFFICES ASSUME AdapterInv, [IbkrNext]_allVars, Plain PROVE [Next]_vars
  OBVIOUS
<1>1. CASE ReadPortfolio
  <2>1. {s \in Symbols : other[s] # NoItem} = {}
    BY DEF Plain, NoOthers
  <2>2. held \in [Symbols -> Int]
    BY DEF AdapterInv, TypeInv, TypeOK
  <2>3. acct' = held
    BY <1>1, <2>1, <2>2 DEF ReadPortfolio
  <2>4. ReadAccount
    BY <1>1, <2>3 DEF ReadPortfolio, ReadAccount
  <2>5. QED
    BY <2>4 DEF Next, Program
<1>2. CASE ReturnFill
  <2>1. pc = "wait" /\ terminal /\ orderly
    BY <1>2 DEF ReturnFill, Plain
  <2>2. order.closed /\ wire = 0 /\ seen + wire = order.done /\ seen \in Nat
    BY <2>1 DEF AdapterInv, AdapterTypeOK, ReportInv
  <2>3. seen = order.done
    BY <2>2
  <2>4. OrderDone
    BY <1>2, <2>2, <2>3 DEF ReturnFill, OrderDone
  <2>5. QED
    BY <2>4 DEF Next, Program
<1>3. CASE BookFill
  <2>1. seen = order.done
    BY <1>3 DEF BookFill, Plain, AdapterInv, ReportInv
  <2>2. ApplyFill
    BY <1>3, <2>1 DEF BookFill, ApplyFill
  <2>3. QED
    BY <2>2 DEF Next, Program
<1>4. QED
  BY <1>1, <1>2, <1>3, StepKinds

\* Under a plain gateway IBKRBroker is the adapter TradingSession takes it for:
\* every step maps to a step or a stutter of the session.
THEOREM ImplementsSessionHolds == IbkrSpec => ImplementsSession
<1>1. IbkrInit => (Plain => Init)
  BY DEF IbkrInit
<1>2. AdapterInv /\ [IbkrNext]_allVars => [Plain => [Next]_vars]_allVars
  BY PlainStep
<1>3. QED
  BY <1>1, <1>2, AdapterInit, AdapterStep, PTL DEF IbkrSpec, ImplementsSession

\* What is proved of a session therefore holds of the program behind a plain
\* gateway: a rebalance that ends normally has kept its books.
THEOREM PlainSessionsKeepBooks ==
  IbkrSpec /\ []Plain => []CompletedRunKeepsBooks
<1>1. UNCHANGED allVars => UNCHANGED vars
  BY DEF allVars
<1>2. Plain /\ [Plain => [Next]_vars]_allVars => [Next]_vars
  BY <1>1
<1>3. IbkrSpec /\ []Plain => Spec
  BY <1>2, ImplementsSessionHolds, PTL DEF ImplementsSession, Spec
<1>4. QED
  BY <1>3, CompletedRunKeepsBooksHolds, PTL

-----------------------------------------------------------------------------
\* A checked rebalance trades on an account that agreed with the ledger.
CheckedInv ==
  /\ pc = "account" => acct = NoAccount
  /\ pc \in {"account", "decide"} => mem = opened
  /\ pc = "correct" => cmd = "reconcile"
  /\ cmd = "rebalance" /\ pc \in Trading => InSync(opened, acct)

LEMMA CheckedStep == AdapterInv /\ CheckedInv /\ [IbkrNext]_allVars => CheckedInv'
<1> SUFFICES ASSUME AdapterInv, CheckedInv, [IbkrNext]_allVars PROVE CheckedInv'
  OBVIOUS
<1>0. ASSUME UNCHANGED <<cmd, acct, opened>>, pc' = "idle" \/ (pc \in Trading /\ pc' \in Trading)
      PROVE  CheckedInv'
  BY <1>0 DEF CheckedInv, InSync, Matches
<1>00. ASSUME UNCHANGED <<pc, cmd, mem, acct, opened>> PROVE CheckedInv'
  BY <1>00 DEF CheckedInv, InSync, Matches
<1>1. ASSUME NEW c \in Commands, StartCommand(c) PROVE CheckedInv'
  BY <1>1 DEF StartCommand, OpenLedger, Exit, CheckedInv
<1>2. CASE Connect \/ ReportExecutions \/ ReportStatus \/ DeadlinePasses \/ LoseConnection
  BY <1>2, <1>00 DEF Connect, ReportExecutions, ReportStatus, DeadlinePasses, LoseConnection, vars
<1>3. CASE ReadPortfolio
  BY <1>3 DEF ReadPortfolio, CheckedInv
<1>4. ASSUME NEW s \in Symbols, SendOrder(s) PROVE CheckedInv'
  BY <1>4, <1>0 DEF SendOrder, PlaceOrder
<1>5. CASE ReturnFill \/ BookFill
  BY <1>5, <1>0 DEF ReturnFill, BookFill, Exit
<1>6. CASE GiveUp \/ RaiseDisconnected \/ Die
  BY <1>6, <1>0 DEF GiveUp, OrderTimesOut, RaiseDisconnected, Die, Crash, Exit
<1>7. CASE ReadAccountFails \/ NothingToTrade \/ RefuseOutOfSync \/ NothingToReconcile
           \/ WriteLedger \/ FinishTrading
  BY <1>7, <1>0 DEF ReadAccountFails, NothingToTrade, RefuseOutOfSync, NothingToReconcile,
     WriteLedger, FinishTrading, Exit
<1>8. ASSUME NEW plan \in [Symbols -> SignedAmounts \cup {0}], StartTrading(plan)
      PROVE  CheckedInv'
  BY <1>8 DEF StartTrading, CheckedInv, InSync, Matches
<1>9. CASE StartCorrecting \/ TruncateLedger
  BY <1>9 DEF StartCorrecting, TruncateLedger, CheckedInv, InSync, Matches
<1>10. ASSUME NEW s \in Symbols, NEW basis \in BOOLEAN, Correct(s, basis) PROVE CheckedInv'
  BY <1>10 DEF Correct, Exit, CheckedInv
<1>11. ASSUME NEW n \in Amounts, Fill(n) PROVE CheckedInv'
  BY <1>11, <1>00 DEF Fill, Execute
<1>12. CASE Elsewhere
  BY <1>12, <1>00 DEF Elsewhere, CloseUnfilled, StrayCloses, StrayExecutes, OutsideMovement
<1>13. CASE UNCHANGED allVars
  BY <1>13, <1>00 DEF allVars, vars
<1>14. QED
  BY <1>1, <1>2, <1>3, <1>4, <1>5, <1>6, <1>7, <1>8, <1>9, <1>10, <1>11, <1>12, <1>13
  DEF IbkrNext, IbkrProgram, Gateway, Local, Decide

\* However the portfolio is misread, a checked rebalance whose ledger was right
\* trades on counts that are off by no more than twice the tolerance.
THEOREM MisreadAccountHolds == IbkrSpec => []MisreadAccountIsNotTraded
<1>1. IbkrInit => CheckedInv
  BY DEF IbkrInit, Init, CheckedInv
<1>2. AdapterInv /\ CheckedInv => MisreadAccountIsNotTraded
  <2> SUFFICES ASSUME AdapterInv, CheckedInv, cmd = "rebalance", pc \in Trading,
                      NEW s \in Symbols, Abs(opened[s] - truth[s]) <= Tolerance
               PROVE  Abs(acct[s] - truth[s]) <= 2 * Tolerance
    BY DEF MisreadAccountIsNotTraded
  <2>1. opened[s] \in Int /\ truth[s] \in Int /\ acct[s] \in Int
    BY DEF AdapterInv, TypeInv, TypeOK, OrderOK, AdapterTypeOK
  <2>2. Abs(acct[s] - opened[s]) <= Tolerance
    BY DEF CheckedInv, InSync, Matches
  <2>3. QED
    BY <2>1, <2>2, ToleranceAssumption DEF Abs
<1>3. QED
  BY <1>1, <1>2, AdapterInit, AdapterStep, CheckedStep, PTL DEF IbkrSpec

-----------------------------------------------------------------------------
\* Shares of s the orders moved, less those in a ledger l and those reported
\* late; and the part of it that the order in hand accounts for.
Missing(l, s) == held[s] - truth[s] - outside[s] - (l[s] - opened[s]) - late[s]
InHand(s, n)  == IF order # NoOrder /\ order.sym = s THEN Signed(order.side, n) ELSE 0

\* Between two orders memory and file miss nothing but late reports; from the
\* order on, what it executed; from its Fill on, what the Fill says.
LateInv ==
  /\ acct = NoAccount => outside = NoShares /\ late = NoShares
  /\ pc = "account" => acct = NoAccount /\ mem = opened
  /\ pc = "decide" => mem = opened /\ disk = mem /\ \A s \in Symbols : Missing(mem, s) = 0
  /\ pc = "account" => disk = mem
  /\ pc = "correct" => cmd = "reconcile"
  /\ pc = "trade" => disk = mem /\ \A s \in Symbols : Missing(mem, s) = 0
  /\ pc = "wait"  => \A s \in Symbols : Missing(mem, s) = InHand(s, order.done)
  /\ pc = "apply" => \A s \in Symbols : Missing(mem, s) = InHand(s, seen)
  /\ cmd \in Rebalances /\ pc \in {"save", "write"} => \A s \in Symbols : Missing(mem, s) = 0
  /\ cmd \in Rebalances /\ pc = "idle" /\ result = "ok" /\ acct # NoAccount =>
       \A s \in Symbols : Missing(disk, s) = 0

\* The counts are integers wherever they are subtracted.
LEMMA MissingTypes ==
  ASSUME AdapterInv, NEW s \in Symbols
  PROVE  /\ held[s] \in Int /\ truth[s] \in Int /\ outside[s] \in Int /\ late[s] \in Int
         /\ mem[s] \in Nat /\ opened[s] \in Nat
         /\ disk # Torn => disk[s] \in Nat
BY DEF AdapterInv, AdapterTypeOK, TypeInv, TypeOK

\* A command that ends otherwise than normally owes nothing to LateInv.
LEMMA FailureKeepsLate ==
  ASSUME LateInv, pc' = "idle", result' # "ok",
         acct' = NoAccount => outside' = NoShares /\ late' = NoShares
  PROVE  LateInv'
BY DEF LateInv

\* Steps that leave the counts, the order and the place in the command alone.
LEMMA StillKeepsLate ==
  ASSUME LateInv, UNCHANGED <<disk, held, pc, cmd, result, mem, acct, opened, outside, truth, late>>,
         order'.done = order.done, order'.sym = order.sym, order'.side = order.side,
         order' = NoOrder <=> order = NoOrder,
         pc = "apply" => seen' = seen
  PROVE  LateInv'
BY DEF LateInv, Missing, InHand

\* Shares that move without the command are in held and in outside alike.
LEMMA OutsideKeepsLate ==
  ASSUME AdapterInv, LateInv, NEW s \in Symbols, NEW d \in Int, MoveOutside(s, d),
         UNCHANGED <<disk, pc, cmd, result, mem, acct, order, opened, seen, truth, late>>
  PROVE  LateInv'
<1>1. ASSUME acct # NoAccount, NEW t \in Symbols
      PROVE  Missing(mem, t)' = Missing(mem, t) /\ Missing(disk, t)' = Missing(disk, t)
  <2>1. held'[t] - outside'[t] = held[t] - outside[t] /\ held'[t] \in Int /\ outside'[t] \in Int
    BY <1>1, MissingTypes DEF MoveOutside, AdapterInv, TypeInv, TypeOK
  <2>2. ASSUME NEW l PROVE held'[t] - truth[t] - outside'[t] = held[t] - truth[t] - outside[t]
    BY <2>1, MissingTypes
  <2>3. QED
    BY <2>2 DEF Missing
<1>2. acct = NoAccount => outside' = NoShares
  BY DEF LateInv, MoveOutside
<1>3. QED
  BY <1>1, <1>2 DEF LateInv, InHand, AdapterInv, TypeInv, OrderOK

\* The order, from the moment it is sent to the Fill in the ledger.
LEMMA OrderKeepsLate ==
  ASSUME AdapterInv, LateInv
  PROVE  /\ \A s \in Symbols : SendOrder(s) => LateInv'
         /\ \A n \in Amounts : Fill(n) => LateInv'
         /\ ReturnFill => LateInv'
         /\ BookFill => LateInv'
<1>1. ASSUME NEW s \in Symbols, SendOrder(s) PROVE LateInv'
  <2>1. /\ pc = "trade" /\ pc' = "wait" /\ order'.done = 0
        /\ UNCHANGED <<disk, held, cmd, mem, acct, opened, outside, truth, late>>
    BY <1>1 DEF SendOrder, PlaceOrder
  <2>2. ASSUME NEW d, NEW n \in Nat, n <= 0 PROVE Signed(d, n) = 0
    BY <2>2 DEF Signed
  <2>3. ASSUME NEW t \in Symbols PROVE Missing(mem, t)' = 0 /\ InHand(t, order.done)' = 0
    BY <2>1, <2>2 DEF LateInv, Missing, InHand
  <2>4. QED
    BY <2>1, <2>3 DEF LateInv
<1>2. ASSUME NEW n \in Amounts, Fill(n) PROVE LateInv'
  <2>1. /\ pc = "wait" /\ pc' = "wait" /\ acct # NoAccount /\ n \in Nat
        /\ order \in Orders /\ order # NoOrder
        /\ held' = [held EXCEPT ![order.sym] = @ + Signed(order.side, n)]
        /\ UNCHANGED <<disk, cmd, mem, acct, opened, outside, truth, late>>
    BY <1>2, AmountsAssumption DEF Fill, Execute, AdapterInv, TypeInv, TypeOK, OrderOK
  <2>2. order' \in Orders /\ order' # NoOrder
    BY <1>2, <2>1, SessionTypes, SentinelAssumption DEF IbkrNext, Gateway, TypeInv, TypeOK, OrderOK
  <2>3. order'.sym = order.sym /\ order'.side = order.side /\ order'.done = order.done + n
    BY <1>2, <2>1 DEF Fill, Execute, Orders
  <2>4. order.done \in Nat /\ held \in [Symbols -> Int]
    BY <2>1 DEF Orders, AdapterInv, TypeInv, TypeOK
  <2>5. ASSUME NEW t \in Symbols PROVE Missing(mem, t)' = InHand(t, order.done)'
    <3>1. Missing(mem, t) = InHand(t, order.done)
      BY <2>1 DEF LateInv
    <3>2. QED
      BY <2>1, <2>2, <2>3, <2>4, <3>1, MissingTypes DEF Missing, InHand, Signed
  <2>6. QED
    BY <2>1, <2>5 DEF LateInv
<1>3. CASE ReturnFill
  <2>1. /\ pc = "wait" /\ acct # NoAccount /\ order \in Orders /\ order # NoOrder /\ seen \in Nat
        /\ late' = [late EXCEPT ![order.sym] = @ + Signed(order.side, order.done - seen)]
        /\ late \in [Symbols -> Int]
        /\ UNCHANGED <<disk, held, cmd, acct, order, opened, outside, truth, seen>>
    BY <1>3 DEF ReturnFill, order_, AdapterInv, TypeInv, TypeOK, OrderOK, AdapterTypeOK
  <2>2. CASE pc' = "apply"
    <3>1. UNCHANGED mem
      BY <1>3, <2>2 DEF ReturnFill, Exit
    <3>2. order.done \in Nat /\ order.sym \in Symbols
      BY <2>1 DEF Orders
    <3>3. ASSUME NEW t \in Symbols PROVE Missing(mem, t)' = InHand(t, seen)'
      <4>1. Missing(mem, t) = InHand(t, order.done)
        BY <2>1 DEF LateInv
      <4>2. QED
        BY <2>1, <3>1, <3>2, <4>1, MissingTypes DEF Missing, InHand, Signed
    <3>4. QED
      BY <2>1, <2>2, <3>3 DEF LateInv
  <2>3. CASE pc' # "apply"
    BY <1>3, <2>1, <2>3, FailureKeepsLate DEF ReturnFill, Exit
  <2>4. QED
    BY <2>2, <2>3
<1>4. CASE BookFill
  <2>1. /\ pc = "apply" /\ acct # NoAccount /\ order \in Orders /\ order # NoOrder /\ seen \in Nat
        /\ UNCHANGED <<disk, held, cmd, acct, order, opened, outside, truth, late>>
    BY <1>4 DEF BookFill, AdapterInv, TypeInv, TypeOK, OrderOK, AdapterTypeOK
  <2>2. CASE pc' = "save"
    <3>1. mem' = [mem EXCEPT ![order.sym] = @ + Signed(order.side, seen)]
      BY <1>4, <2>2 DEF BookFill, Exit
    <3>2. order.sym \in Symbols /\ mem \in [Symbols -> Nat]
      BY <2>1 DEF Orders, AdapterInv, TypeInv, TypeOK
    <3>3. ASSUME NEW t \in Symbols PROVE Missing(mem, t)' = 0
      <4>1. Missing(mem, t) = InHand(t, seen)
        BY <2>1 DEF LateInv
      <4>2. QED
        BY <2>1, <3>1, <3>2, <4>1, MissingTypes DEF Missing, InHand, Signed
    <3>4. QED
      BY <2>1, <2>2, <3>3 DEF LateInv
  <2>3. CASE pc' # "save"
    BY <1>4, <2>1, <2>3, FailureKeepsLate DEF BookFill, Exit
  <2>4. QED
    BY <2>2, <2>3
<1>5. QED
  BY <1>1, <1>2, <1>3, <1>4

LEMMA LateStep == AdapterInv /\ LateInv /\ [IbkrNext]_allVars => LateInv'
<1> SUFFICES ASSUME AdapterInv, LateInv, [IbkrNext]_allVars PROVE LateInv'
  OBVIOUS
<1>1. ASSUME NEW c \in Commands, StartCommand(c) PROVE LateInv'
  BY <1>1 DEF StartCommand, OpenLedger, Exit, LateInv
<1>2. CASE Connect \/ ReportExecutions \/ ReportStatus \/ DeadlinePasses \/ LoseConnection
           \/ UNCHANGED allVars
  BY <1>2, StillKeepsLate DEF Connect, ReportExecutions, ReportStatus, DeadlinePasses,
     LoseConnection, vars, allVars, adapter, order_
<1>3. CASE ReadPortfolio
  <2>1. /\ outside = NoShares /\ late = NoShares /\ mem = opened /\ disk = mem
        /\ UNCHANGED <<disk, held, cmd, mem, opened, outside, late>>
        /\ pc' = "decide" /\ truth' = held
    BY <1>3 DEF ReadPortfolio, LateInv
  <2>2. ASSUME NEW s \in Symbols PROVE Missing(mem, s)' = 0
    BY <2>1, MissingTypes DEF Missing, NoShares
  <2>3. QED
    BY <2>1, <2>2 DEF LateInv
<1>4. CASE GiveUp \/ RaiseDisconnected \/ Die
  <2>1. pc' = "idle" /\ result' # "ok" /\ UNCHANGED <<acct, outside, late>>
    BY <1>4 DEF GiveUp, OrderTimesOut, RaiseDisconnected, Die, Crash, Exit
  <2>2. QED
    BY <2>1, FailureKeepsLate DEF LateInv
<1>5. CASE Local
  <2>0. UNCHANGED <<truth, late>>
    BY <1>5 DEF Local
  <2>1. CASE ReadAccountFails \/ RefuseOutOfSync
    <3>1. pc' = "idle" /\ result' # "ok" /\ UNCHANGED <<acct, outside>>
      BY <2>1 DEF ReadAccountFails, RefuseOutOfSync, Exit
    <3>2. QED
      BY <2>0, <3>1, FailureKeepsLate DEF LateInv
  <2>2. CASE NothingToTrade \/ NothingToReconcile \/ FinishTrading
    <3>1. /\ pc \in {"decide", "trade"} /\ pc' = "idle" /\ acct # NoAccount
          /\ UNCHANGED <<disk, held, acct, opened, outside, truth, late>>
      BY <2>0, <2>2 DEF NothingToTrade, NothingToReconcile, FinishTrading, Exit,
         AdapterInv, TypeInv, OrderOK
    <3>2. ASSUME NEW s \in Symbols PROVE Missing(disk, s)' = 0
      BY <3>1 DEF LateInv, Missing
    <3>3. QED
      BY <3>1, <3>2 DEF LateInv
  <2>3. ASSUME NEW plan \in [Symbols -> SignedAmounts \cup {0}], StartTrading(plan)
        PROVE  LateInv'
    BY <2>0, <2>3 DEF StartTrading, LateInv, Missing
  <2>4. CASE StartCorrecting
    BY <2>0, <2>4 DEF StartCorrecting, LateInv
  <2>5. ASSUME NEW s \in Symbols, NEW basis \in BOOLEAN, Correct(s, basis) PROVE LateInv'
    BY <2>0, <2>5 DEF Correct, Exit, LateInv
  <2>6. CASE TruncateLedger
    BY <2>0, <2>6 DEF TruncateLedger, LateInv, Missing
  <2>7. CASE WriteLedger
    <3>1. /\ pc = "write" /\ disk' = mem
          /\ UNCHANGED <<held, cmd, acct, order, opened, outside, truth, late>>
      BY <2>0, <2>7 DEF WriteLedger
    <3>2. CASE cmd = "reconcile"
      BY <2>7, <3>1, <3>2 DEF WriteLedger, Exit, LateInv
    <3>3. CASE cmd # "reconcile"
      <4>1. cmd \in Rebalances /\ pc' = "trade" /\ UNCHANGED mem
        BY <2>7, <3>3 DEF WriteLedger, AdapterInv, TypeInv, TypeOK
      <4>2. ASSUME NEW s \in Symbols PROVE Missing(mem, s)' = 0
        BY <3>1, <4>1 DEF LateInv, Missing
      <4>3. QED
        BY <3>1, <4>1, <4>2 DEF LateInv
    <3>4. QED
      BY <3>2, <3>3
  <2>8. QED
    BY <1>5, <2>1, <2>2, <2>3, <2>4, <2>5, <2>6, <2>7 DEF Local, Decide
<1>6. CASE Elsewhere
  <2>1. CASE CloseUnfilled
    <3>1. order \in Orders /\ order # NoOrder
      BY <2>1 DEF CloseUnfilled, AdapterInv, TypeInv, TypeOK, OrderOK
    <3>2. order' # NoOrder
      BY <1>6, <2>1, SessionTypes DEF IbkrNext, Gateway, CloseUnfilled, TypeInv, OrderOK
    <3>3. order'.done = order.done /\ order'.sym = order.sym /\ order'.side = order.side
      BY <2>1, <3>1 DEF CloseUnfilled, Orders
    <3>4. QED
      BY <1>6, <2>1, <3>1, <3>2, <3>3, StillKeepsLate DEF Elsewhere, CloseUnfilled, adapter
  <2>2. ASSUME NEW o \in stray, StrayCloses(o) PROVE LateInv'
    BY <1>6, <2>2, StillKeepsLate DEF Elsewhere, StrayCloses, adapter
  <2>3. ASSUME NEW o \in stray, NEW n \in Amounts, StrayExecutes(o, n) PROVE LateInv'
    <3>1. o \in Strays /\ n \in Nat
      BY AmountsAssumption DEF AdapterInv, TypeInv, TypeOK
    <3>2. o.sym \in Symbols /\ Signed(o.side, n) \in Int
      BY <3>1 DEF Strays, Signed
    <3>3. QED
      BY <1>6, <2>3, <3>2, OutsideKeepsLate DEF Elsewhere, StrayExecutes, adapter
  <2>4. ASSUME NEW s \in Symbols, NEW d \in SignedAmounts, OutsideMovement(s, d)
        PROVE  LateInv'
    <3>1. d \in Int
      BY SignedAreInts
    <3>2. QED
      BY <1>6, <2>4, <3>1, OutsideKeepsLate DEF Elsewhere, OutsideMovement, adapter
  <2>5. QED
    BY <1>6, <2>1, <2>2, <2>3, <2>4 DEF Elsewhere
<1>7. QED
  BY <1>1, <1>2, <1>3, <1>4, <1>5, <1>6, OrderKeepsLate
  DEF IbkrNext, IbkrProgram, Gateway

\* Under any gateway, a rebalance that ends normally has recorded every share
\* its orders moved, but for those reported after their order's Fill.
THEOREM OnlyLateReportsAreMissingHolds == IbkrSpec => []OnlyLateReportsAreMissing
<1>1. IbkrInit => LateInv
  BY DEF IbkrInit, Init, LateInv
<1>2. AdapterInv /\ LateInv => OnlyLateReportsAreMissing
  <2> SUFFICES ASSUME AdapterInv, LateInv, cmd \in Rebalances, pc = "idle", result = "ok",
                      acct # NoAccount, disk # Torn, NEW s \in Symbols
               PROVE  held[s] - truth[s] - outside[s] = disk[s] - opened[s] + late[s]
    BY DEF OnlyLateReportsAreMissing
  <2>1. Missing(disk, s) = 0
    BY DEF LateInv
  <2>2. QED
    BY <2>1, MissingTypes DEF Missing
<1>3. QED
  BY <1>1, <1>2, AdapterInit, AdapterStep, LateStep, PTL DEF IbkrSpec
=============================================================================
