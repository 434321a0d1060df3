---------------------- MODULE ConcurrentCommands_proofs ----------------------
(***************************************************************************)
(* Proofs about ConcurrentCommands, for every set of processes, of symbols *)
(* and of amounts, every tolerance and every number of commands.           *)
(***************************************************************************)
EXTENDS ConcurrentCommands, TLAPS

USE DEF Commands, Unreadable

\* A process has a command while it runs, one of those counted in ran; only a
\* rebalance trades, and it has an order from the first one it places on.
ProcessOK ==
  \A p \in Processes :
    /\ cmd[p] = "none" <=> pc[p] = "idle"
    /\ cmd[p] \in ran \cup {"none"}
    /\ pc[p] \in {"trade", "wait"} => cmd[p] = "rebalance"
    /\ pc[p] = "wait" => order[p] # NoOrder
    /\ cmd[p] = "rebalance" /\ pc[p] \in {"save", "write"} => order[p] # NoOrder

TypeInv == TypeOK /\ ProcessOK

LEMMA SignedAreInts == SignedAmounts \cup {0} \subseteq Int
<1>1. \A n \in Amounts : n \in Int /\ -n \in Int
  BY AmountsAssumption
<1>2. QED
  BY <1>1 DEF SignedAmounts

LEMMA PlusTypes ==
  ASSUME NEW l \in [Symbols -> Int], NEW s \in Symbols, NEW q \in Int
  PROVE  Plus(l, s, q) \in [Symbols -> Int]
BY DEF Plus

LEMMA FilledTypes ==
  ASSUME NEW o \in Orders
  PROVE  /\ Filled(o) \in Orders /\ Filled(o) # NoOrder
         /\ Filled(o).done /\ Filled(o).sym = o.sym /\ Filled(o).qty = o.qty
<1>1. /\ Filled(o) \in Orders /\ Filled(o).done /\ Filled(o).sym = o.sym
      /\ Filled(o).qty = o.qty
  BY DEF Filled, Orders
<1>2. QED
  BY <1>1, SentinelAssumption

\* The end of a process keeps the types of what it was.
LEMMA EndsTypes ==
  ASSUME TypeInv, NEW p \in Processes, Ends(p)
  PROVE  /\ pc' \in [Processes -> {"idle", "open", "account", "decide", "trade", "wait", "save", "write"}]
         /\ cmd' \in [Processes -> Commands \cup {"none"}]
         /\ mem' \in [Processes -> [Symbols -> Nat]]
         /\ acct' \in [Processes -> [Symbols -> Int]]
         /\ todo' \in [Processes -> [Symbols -> Int]]
         /\ order' \in [Processes -> Orders \cup {NoOrder}]
<1>1. NoShares \in [Symbols -> Nat] /\ NoShares \in [Symbols -> Int]
  BY DEF NoShares
<1>2. QED
  BY <1>1 DEF Ends, TypeInv, TypeOK

\* TypeInv is inductive: first the steps of one process.
LEMMA TypeStep == TypeInv /\ [Next]_vars => TypeInv'
<1> SUFFICES ASSUME TypeInv, [Next]_vars PROVE TypeInv'
  OBVIOUS
<1> USE DEF TypeInv, TypeOK, ProcessOK
<1>1. ASSUME NEW p \in Processes, NEW c \in Commands, Open(p, c) PROVE TypeInv'
  BY <1>1, MaxRunsAssumption DEF Open, shared
<1>2. ASSUME NEW p \in Processes, Connect(p) PROVE TypeInv'
  BY <1>2 DEF Connect, past
<1>3. ASSUME NEW p \in Processes, ReadAccount(p) PROVE TypeInv'
  BY <1>3 DEF ReadAccount, past
<1>4. ASSUME NEW p \in Processes, NEW plan \in [Symbols -> SignedAmounts \cup {0}],
             StartTrading(p, plan)
      PROVE  TypeInv'
  <2>1. plan \in [Symbols -> Int]
    BY SignedAreInts
  <2>2. QED
    BY <1>4, <2>1 DEF StartTrading, shared, past
<1>5. ASSUME NEW p \in Processes, NEW s \in Symbols, PlaceOrder(p, s) PROVE TypeInv'
  <2>1. todo[p] \in [Symbols -> Int] /\ todo[p][s] \in Int /\ -todo[p][s] \in Int
    OBVIOUS
  <2>2. [sym |-> s, qty |-> todo[p][s], done |-> FALSE] \in Orders
    BY <2>1 DEF Orders
  <2>3. Plus(todo[p], s, -todo[p][s]) \in [Symbols -> Int]
    BY <2>1, PlusTypes
  <2>4. [sym |-> s, qty |-> todo[p][s], done |-> FALSE] # NoOrder
    BY <2>2, SentinelAssumption
  <2>5. /\ todo' \in [Processes -> [Symbols -> Int]]
        /\ order' \in [Processes -> Orders \cup {NoOrder}]
        /\ order'[p] # NoOrder
        /\ \A q \in Processes \ {p} : order'[q] = order[q]
    BY <1>5, <2>2, <2>3, <2>4 DEF PlaceOrder
  <2>6. QED
    BY <1>5, <2>5 DEF PlaceOrder, shared, past
<1>6. ASSUME NEW p \in Processes, BookFill(p) PROVE TypeInv'
  <2>1. order[p] \in Orders
    BY <1>6 DEF BookFill
  <2>2. order[p].sym \in Symbols /\ order[p].qty \in Int
    BY <2>1 DEF Orders
  <2>3. Plus(mem[p], order[p].sym, order[p].qty) \in [Symbols -> Nat]
    BY <1>6, <2>2 DEF BookFill, Plus
  <2>4. QED
    BY <1>6, <2>3 DEF BookFill, shared, past
<1>7. ASSUME NEW p \in Processes, NEW basis \in SUBSET Symbols, Reconcile(p, basis)
      PROVE  TypeInv'
  <2>1. Corrected(mem[p], acct[p], basis) \in [Symbols -> Nat]
    BY <1>7 DEF Reconcile, CannotRetire, Corrected
  <2>2. QED
    BY <1>7, <2>1 DEF Reconcile, shared, past
<1>8. ASSUME NEW p \in Processes, Truncate(p) PROVE TypeInv'
  BY <1>8 DEF Truncate, past
<1>9. ASSUME NEW p \in Processes, Write(p) PROVE TypeInv'
  <2>1. disk' \in [Symbols -> Nat] \cup Unreadable
    BY <1>9 DEF Write
  <2>2. CASE cmd[p] = "reconcile"
    <3>1. Ends(p) /\ UNCHANGED <<held, holder, adrift, past>>
      BY <1>9, <2>2 DEF Write
    <3>2. ProcessOK'
      BY <3>1 DEF Ends, past
    <3>3. QED
      BY <2>1, <3>1, <3>2, EndsTypes DEF past
  <2>3. CASE cmd[p] # "reconcile"
    BY <1>9, <2>1, <2>3 DEF Write, past
  <2>4. QED
    BY <2>2, <2>3
<1>10. ASSUME NEW p \in Processes, Stop(p) PROVE TypeInv'
  <2>1. holder' \in Processes \cup {NoOne} /\ Ends(p)
        /\ UNCHANGED <<disk, held, runs, ran, first, start>>
    BY <1>10 DEF Stop
  <2>2. adrift' \subseteq Orders
    BY <1>10 DEF Stop
  <2>3. untracked' \subseteq Symbols
    <3>1. CASE cmd[p] = "rebalance" /\ pc[p] \in {"save", "write", "wait"}
      <4>1. order[p].sym \in Symbols
        BY <3>1 DEF Orders
      <4>2. QED
        BY <1>10, <4>1 DEF Stop
    <3>2. CASE ~(cmd[p] = "rebalance" /\ pc[p] \in {"save", "write", "wait"})
      BY <1>10, <3>2 DEF Stop
    <3>3. QED
      BY <3>1, <3>2
  <2>4. ProcessOK'
    BY <2>1 DEF Ends
  <2>5. QED
    BY <2>1, <2>2, <2>3, <2>4, EndsTypes
<1>11. ASSUME NEW p \in Processes, Execute(p) PROVE TypeInv'
  <2>1. order[p] \in Orders
    BY <1>11 DEF Execute
  <2>2. Filled(order[p]) \in Orders /\ Filled(order[p]) # NoOrder
    BY <2>1, FilledTypes
  <2>3. held' \in [Symbols -> Int]
    BY <1>11, <2>1, PlusTypes DEF Execute, Orders
  <2>4. QED
    BY <1>11, <2>2, <2>3 DEF Execute, past
<1>12. ASSUME NEW o \in adrift, ExecuteAdrift(o) PROVE TypeInv'
  <2>1. o.sym \in Symbols /\ o.qty \in Int
    BY DEF Orders
  <2>2. held' \in [Symbols -> Int]
    BY <1>12, <2>1, PlusTypes DEF ExecuteAdrift
  <2>3. QED
    BY <1>12, <2>1, <2>2 DEF ExecuteAdrift, local
<1>13. CASE UNCHANGED vars
  BY <1>13 DEF vars, shared, local, past
<1>14. QED
  BY <1>1, <1>2, <1>3, <1>4, <1>5, <1>6, <1>7, <1>8, <1>9, <1>10, <1>11, <1>12, <1>13
  DEF Next, Step

LEMMA TypeInit == Init => TypeInv
<1> SUFFICES ASSUME Init PROVE TypeInv
  OBVIOUS
<1>1. disk \in [Symbols -> Nat] /\ held \in [Symbols -> Nat]
  BY InitialAssumption DEF Init
<1>2. NoShares \in [Symbols -> Nat]
  BY DEF NoShares
<1>3. QED
  BY <1>1, <1>2, MaxRunsAssumption DEF Init, TypeInv, TypeOK, ProcessOK

\* Every variable keeps its shape, whatever processes do to one another; in
\* particular no count in any ledger becomes negative.
THEOREM ConcurrentTypeCorrect == Spec => []TypeOK
<1>1. TypeInv => TypeOK
  BY DEF TypeInv
<1>2. QED
  BY <1>1, TypeInit, TypeStep, PTL DEF Spec

-----------------------------------------------------------------------------
\* A rebalance has the account to itself from the account it reads to its last
\* save.
Exclusive ==
  \A p \in Processes :
    \/ pc[p] = "account"
    \/ cmd[p] = "rebalance" /\ pc[p] \in {"decide", "trade", "wait", "save", "write"}
    => holder = p

\* What p's order has moved of s and p has not booked.
Unbooked(p, s) ==
  IF pc[p] = "wait" /\ order[p].done /\ order[p].sym = s THEN order[p].qty ELSE 0

\* While it decides, a rebalance knows the shares held; from then on its ledger
\* is in sync with them, but for the order in hand.
Checked(p) ==
  cmd[p] = "rebalance" =>
    \A s \in Symbols \ untracked :
      /\ pc[p] = "decide" => acct[p][s] = held[s]
      /\ pc[p] \in {"trade", "wait", "save", "write"} =>
           Abs(held[s] - Unbooked(p, s) - mem[p][s]) <= Tolerance

CheckedInv == \A p \in Processes : Checked(p)

ShareInv == TypeInv /\ Exclusive /\ CheckedInv

LEMMA ExclusiveStep == ShareInv /\ [Next]_vars => Exclusive'
<1> SUFFICES ASSUME ShareInv, [Next]_vars PROVE Exclusive'
  OBVIOUS
<1> USE DEF ShareInv, Exclusive, TypeInv, TypeOK, ProcessOK
<1>1. ASSUME NEW p \in Processes, NEW c \in Commands, Open(p, c) PROVE Exclusive'
  BY <1>1 DEF Open, shared
<1>2. ASSUME NEW p \in Processes, Connect(p) PROVE Exclusive'
  BY <1>2, SentinelAssumption DEF Connect, past
<1>3. ASSUME NEW p \in Processes, ReadAccount(p) PROVE Exclusive'
  BY <1>3 DEF ReadAccount, past
<1>4. ASSUME NEW p \in Processes, NEW plan \in [Symbols -> SignedAmounts \cup {0}],
             StartTrading(p, plan)
      PROVE  Exclusive'
  BY <1>4 DEF StartTrading, shared, past
<1>5. ASSUME NEW p \in Processes, NEW s \in Symbols, PlaceOrder(p, s) PROVE Exclusive'
  BY <1>5 DEF PlaceOrder, shared, past
<1>6. ASSUME NEW p \in Processes, BookFill(p) PROVE Exclusive'
  BY <1>6 DEF BookFill, shared, past
<1>7. ASSUME NEW p \in Processes, NEW basis \in SUBSET Symbols, Reconcile(p, basis)
      PROVE  Exclusive'
  BY <1>7 DEF Reconcile, shared, past
<1>8. ASSUME NEW p \in Processes, Truncate(p) PROVE Exclusive'
  BY <1>8 DEF Truncate, past
<1>9. ASSUME NEW p \in Processes, Write(p) PROVE Exclusive'
  BY <1>9 DEF Write, Ends, past
<1>10. ASSUME NEW p \in Processes, Stop(p) PROVE Exclusive'
  BY <1>10 DEF Stop, Ends
<1>11. ASSUME NEW p \in Processes, Execute(p) PROVE Exclusive'
  BY <1>11 DEF Execute, past
<1>12. ASSUME NEW o \in adrift, ExecuteAdrift(o) PROVE Exclusive'
  BY <1>12 DEF ExecuteAdrift, local
<1>13. CASE UNCHANGED vars
  BY <1>13 DEF vars, shared, local
<1>14. QED
  BY <1>1, <1>2, <1>3, <1>4, <1>5, <1>6, <1>7, <1>8, <1>9, <1>10, <1>11, <1>12, <1>13
  DEF Next, Step

\* A step that leaves a process alone, and the shares of every symbol that stays
\* tracked, leaves what that process knows alone.
LEMMA KeepsChecked ==
  ASSUME NEW p \in Processes, Checked(p),
         pc'[p] = pc[p], cmd'[p] = cmd[p], order'[p] = order[p],
         mem'[p] = mem[p], acct'[p] = acct[p],
         untracked \subseteq untracked',
         \A s \in Symbols \ untracked' : held'[s] = held[s]
  PROVE  Checked(p)'
<1>1. \A s \in Symbols : Unbooked(p, s)' = Unbooked(p, s)
  BY DEF Unbooked
<1>2. ASSUME NEW s \in Symbols \ untracked', cmd'[p] = "rebalance"
      PROVE  /\ pc'[p] = "decide" => acct'[p][s] = held'[s]
             /\ pc'[p] \in {"trade", "wait", "save", "write"} =>
                  Abs(held'[s] - Unbooked(p, s)' - mem'[p][s]) <= Tolerance
  <2>1. s \in Symbols \ untracked /\ held'[s] = held[s] /\ Unbooked(p, s)' = Unbooked(p, s)
    BY <1>1
  <2>2. /\ pc[p] = "decide" => acct[p][s] = held[s]
        /\ pc[p] \in {"trade", "wait", "save", "write"} =>
             Abs(held[s] - Unbooked(p, s) - mem[p][s]) <= Tolerance
    BY <1>2, <2>1 DEF Checked
  <2>3. QED
    BY <2>1, <2>2
<1>3. QED
  BY <1>2 DEF Checked

\* A process that has not decided yet, or is no rebalance, claims nothing.
LEMMA NothingToCheck ==
  ASSUME NEW p \in Processes,
         cmd'[p] # "rebalance" \/ pc'[p] \in {"idle", "open", "account"}
  PROVE  Checked(p)'
BY DEF Checked

\* Nor does a step within a save change what a rebalance knows.
LEMMA SavesChecked ==
  ASSUME NEW p \in Processes, Checked(p), UNCHANGED <<held, mem, cmd, untracked>>,
         pc[p] \in {"save", "write"}, pc'[p] \in {"write", "trade"}
  PROVE  Checked(p)'
<1>1. \A s \in Symbols : Unbooked(p, s) = 0 /\ Unbooked(p, s)' = 0
  BY DEF Unbooked
<1>2. QED
  BY <1>1 DEF Checked

LEMMA CheckedStep == ShareInv /\ [Next]_vars => CheckedInv'
<1> SUFFICES ASSUME ShareInv, [Next]_vars, NEW q \in Processes PROVE Checked(q)'
  BY DEF CheckedInv
<1> USE DEF TypeOK
<1>0. /\ TypeOK /\ ProcessOK /\ Exclusive /\ Checked(q)
      /\ pc \in [Processes -> {"idle", "open", "account", "decide", "trade", "wait", "save", "write"}]
  BY DEF ShareInv, TypeInv, CheckedInv
<1>1. ASSUME NEW p \in Processes, NEW c \in Commands, Open(p, c) PROVE Checked(q)'
  <2>1. CASE p = q
    <3>1. pc'[q] = "open"
      BY <1>0, <1>1, <2>1 DEF Open
    <3>2. QED
      BY <3>1, NothingToCheck
  <2>2. CASE p # q
    BY <1>0, <1>1, <2>2, KeepsChecked DEF Open, shared
  <2>3. QED
    BY <2>1, <2>2
<1>2. ASSUME NEW p \in Processes, Connect(p) PROVE Checked(q)'
  <2>1. CASE p = q
    <3>1. pc'[q] = "account"
      BY <1>0, <1>2, <2>1 DEF Connect
    <3>2. QED
      BY <3>1, NothingToCheck
  <2>2. CASE p # q
    BY <1>0, <1>2, <2>2, KeepsChecked DEF Connect, past
  <2>3. QED
    BY <2>1, <2>2
<1>3. ASSUME NEW p \in Processes, ReadAccount(p) PROVE Checked(q)'
  <2>1. CASE p = q
    <3>1. pc'[q] = "decide" /\ acct'[q] = held /\ held' = held
      BY <1>0, <1>3, <2>1 DEF ReadAccount
    <3>2. QED
      BY <3>1 DEF Checked
  <2>2. CASE p # q
    BY <1>0, <1>3, <2>2, KeepsChecked DEF ReadAccount, past
  <2>3. QED
    BY <2>1, <2>2
<1>4. ASSUME NEW p \in Processes, NEW plan \in [Symbols -> SignedAmounts \cup {0}],
             StartTrading(p, plan)
      PROVE  Checked(q)'
  <2>1. CASE p = q
    <3>1. /\ cmd[q] = "rebalance" /\ pc[q] = "decide" /\ pc'[q] = "trade"
          /\ InSync(mem[q], acct[q])
          /\ held' = held /\ mem' = mem /\ untracked' = untracked
      BY <1>0, <1>4, <2>1 DEF StartTrading, shared, past
    <3>2. ASSUME NEW s \in Symbols \ untracked
          PROVE  Abs(held'[s] - Unbooked(q, s)' - mem'[q][s]) <= Tolerance
      <4>1. acct[q][s] = held[s]
        BY <1>0, <3>1 DEF Checked
      <4>2. Abs(held[s] - mem[q][s]) <= Tolerance
        BY <3>1, <4>1 DEF InSync, Matches
      <4>3. Unbooked(q, s)' = 0
        BY <3>1 DEF Unbooked
      <4>4. held[s] \in Int
        BY <1>0
      <4>5. held'[s] - Unbooked(q, s)' - mem'[q][s] = held[s] - mem[q][s]
        BY <3>1, <4>3, <4>4
      <4>6. QED
        BY <4>2, <4>5
    <3>3. QED
      BY <3>1, <3>2 DEF Checked
  <2>2. CASE p # q
    BY <1>0, <1>4, <2>2, KeepsChecked DEF StartTrading, shared, past
  <2>3. QED
    BY <2>1, <2>2
<1>5. ASSUME NEW p \in Processes, NEW r \in Symbols, PlaceOrder(p, r) PROVE Checked(q)'
  <2>1. CASE p = q
    <3>1. /\ cmd[q] = "rebalance" /\ pc[q] = "trade" /\ pc'[q] = "wait"
          /\ held' = held /\ mem' = mem /\ untracked' = untracked
      BY <1>0, <1>5, <2>1 DEF PlaceOrder, ProcessOK, shared, past
    <3>2. order'[q].done = FALSE
      BY <1>0, <1>5, <2>1 DEF PlaceOrder
    <3>3. ASSUME NEW s \in Symbols \ untracked
          PROVE  Abs(held'[s] - Unbooked(q, s)' - mem'[q][s]) <= Tolerance
      <4>1. Unbooked(q, s) = 0 /\ Unbooked(q, s)' = 0
        BY <3>1, <3>2 DEF Unbooked
      <4>2. Abs(held[s] - Unbooked(q, s) - mem[q][s]) <= Tolerance
        BY <1>0, <3>1 DEF Checked
      <4>3. QED
        BY <3>1, <4>1, <4>2
    <3>4. QED
      BY <3>1, <3>3 DEF Checked
  <2>2. CASE p # q
    BY <1>0, <1>5, <2>2, KeepsChecked DEF PlaceOrder, shared, past
  <2>3. QED
    BY <2>1, <2>2
<1>6. ASSUME NEW p \in Processes, BookFill(p) PROVE Checked(q)'
  <2>1. CASE p = q
    <3>1. /\ cmd[q] = "rebalance" /\ pc[q] = "wait" /\ order[q].done /\ pc'[q] = "save"
          /\ held' = held /\ untracked' = untracked
          /\ mem'[q] = Plus(mem[q], order[q].sym, order[q].qty)
      BY <1>0, <1>6, <2>1 DEF BookFill, ProcessOK, shared, past
    <3>2. order[q].qty \in Int
      BY <1>0, <3>1 DEF ProcessOK, Orders
    <3>3. ASSUME NEW s \in Symbols \ untracked
          PROVE  Abs(held'[s] - Unbooked(q, s)' - mem'[q][s]) <= Tolerance
      <4>1. Abs(held[s] - Unbooked(q, s) - mem[q][s]) <= Tolerance
        BY <1>0, <3>1 DEF Checked
      <4>2. Unbooked(q, s)' = 0
        BY <3>1 DEF Unbooked
      <4>3. Unbooked(q, s) = IF order[q].sym = s THEN order[q].qty ELSE 0
        BY <3>1 DEF Unbooked
      <4>4. mem'[q][s] = mem[q][s] + IF order[q].sym = s THEN order[q].qty ELSE 0
        BY <1>0, <3>1, <3>2 DEF Plus
      <4>5. held[s] \in Int /\ mem[q][s] \in Int
        BY <1>0
      <4>6. held'[s] - Unbooked(q, s)' - mem'[q][s] = held[s] - Unbooked(q, s) - mem[q][s]
        BY <3>1, <3>2, <4>2, <4>3, <4>4, <4>5
      <4>7. QED
        BY <4>1, <4>6
    <3>4. QED
      BY <3>1, <3>3 DEF Checked
  <2>2. CASE p # q
    BY <1>0, <1>6, <2>2, KeepsChecked DEF BookFill, shared, past
  <2>3. QED
    BY <2>1, <2>2
<1>7. ASSUME NEW p \in Processes, NEW basis \in SUBSET Symbols, Reconcile(p, basis)
      PROVE  Checked(q)'
  <2>1. CASE p = q
    <3>1. cmd'[q] # "rebalance"
      BY <1>7, <2>1 DEF Reconcile
    <3>2. QED
      BY <3>1, NothingToCheck
  <2>2. CASE p # q
    BY <1>0, <1>7, <2>2, KeepsChecked DEF Reconcile, shared, past
  <2>3. QED
    BY <2>1, <2>2
<1>8. ASSUME NEW p \in Processes, Truncate(p) PROVE Checked(q)'
  <2>1. CASE p = q
    BY <1>0, <1>8, <2>1, SavesChecked DEF Truncate, past
  <2>2. CASE p # q
    BY <1>0, <1>8, <2>2, KeepsChecked DEF Truncate, past
  <2>3. QED
    BY <2>1, <2>2
<1>9. ASSUME NEW p \in Processes, Write(p) PROVE Checked(q)'
  <2>1. CASE p = q /\ cmd[p] # "reconcile"
    BY <1>0, <1>9, <2>1, SavesChecked DEF Write, past
  <2>2. CASE p = q /\ cmd[p] = "reconcile"
    <3>1. cmd'[q] = "none"
      BY <1>0, <1>9, <2>2 DEF Write, Ends
    <3>2. QED
      BY <3>1, NothingToCheck
  <2>3. CASE p # q
    BY <1>0, <1>9, <2>3, KeepsChecked DEF Write, Ends, past
  <2>4. QED
    BY <2>1, <2>2, <2>3
<1>10. ASSUME NEW p \in Processes, Stop(p) PROVE Checked(q)'
  <2>1. CASE p = q
    <3>1. cmd'[q] = "none"
      BY <1>0, <1>10, <2>1 DEF Stop, Ends
    <3>2. QED
      BY <3>1, NothingToCheck
  <2>2. CASE p # q
    <3>1. untracked \subseteq untracked'
      BY <1>10 DEF Stop
    <3>2. QED
      BY <1>0, <1>10, <2>2, <3>1, KeepsChecked DEF Stop, Ends
  <2>3. QED
    BY <2>1, <2>2
<1>11. ASSUME NEW p \in Processes, Execute(p) PROVE Checked(q)'
  <2>1. cmd[p] = "rebalance" /\ holder = p /\ order[p] \in Orders
    BY <1>0, <1>11 DEF Execute, ProcessOK, Exclusive
  <2>2. CASE p = q
    <3>1. /\ pc[q] = "wait" /\ pc' = pc /\ mem' = mem /\ untracked' = untracked
          /\ held' = Plus(held, order[q].sym, order[q].qty)
          /\ order'[q] = Filled(order[q])
      BY <1>0, <1>11, <2>2 DEF Execute, past
    <3>2. order[q].done = FALSE
      BY <1>11, <2>1, <2>2 DEF Execute, Orders
    <3>3. order[q].qty \in Int
      BY <2>1, <2>2 DEF Orders
    <3>4. order'[q].done /\ order'[q].sym = order[q].sym /\ order'[q].qty = order[q].qty
      BY <2>1, <2>2, <3>1, FilledTypes
    <3>5. ASSUME NEW s \in Symbols \ untracked
          PROVE  Abs(held'[s] - Unbooked(q, s)' - mem'[q][s]) <= Tolerance
      <4>1. Abs(held[s] - Unbooked(q, s) - mem[q][s]) <= Tolerance
        BY <1>0, <2>1, <2>2, <3>1 DEF Checked
      <4>2. Unbooked(q, s) = 0
        BY <3>2 DEF Unbooked
      <4>3. Unbooked(q, s)' = IF order[q].sym = s THEN order[q].qty ELSE 0
        BY <3>1, <3>4 DEF Unbooked
      <4>4. held'[s] = held[s] + IF order[q].sym = s THEN order[q].qty ELSE 0
        BY <1>0, <3>1, <3>3 DEF Plus
      <4>5. held[s] \in Int /\ mem[q][s] \in Int
        BY <1>0
      <4>6. held'[s] - Unbooked(q, s)' - mem'[q][s] = held[s] - Unbooked(q, s) - mem[q][s]
        BY <3>1, <3>3, <4>2, <4>3, <4>4, <4>5
      <4>7. QED
        BY <4>1, <4>6
    <3>6. QED
      BY <1>0, <3>1, <3>5 DEF Checked
  <2>3. CASE p # q
    <3>1. cmd[q] # "rebalance" \/ pc[q] \in {"idle", "open", "account"}
      BY <1>0, <2>1, <2>3 DEF Exclusive
    <3>2. cmd'[q] # "rebalance" \/ pc'[q] \in {"idle", "open", "account"}
      BY <1>11, <3>1 DEF Execute
    <3>3. QED
      BY <3>2, NothingToCheck
  <2>4. QED
    BY <2>2, <2>3
<1>12. ASSUME NEW o \in adrift, ExecuteAdrift(o) PROVE Checked(q)'
  <2>1. \A s \in Symbols \ untracked' : held'[s] = held[s]
    BY <1>0, <1>12 DEF ExecuteAdrift, Plus
  <2>2. QED
    BY <1>0, <1>12, <2>1, KeepsChecked DEF ExecuteAdrift, local
<1>13. CASE UNCHANGED vars
  BY <1>0, <1>13, KeepsChecked DEF vars, shared, local, past
<1>14. QED
  BY <1>1, <1>2, <1>3, <1>4, <1>5, <1>6, <1>7, <1>8, <1>9, <1>10, <1>11, <1>12, <1>13
  DEF Next, Step

LEMMA ShareInit == Init => ShareInv
<1> SUFFICES ASSUME Init PROVE ShareInv
  OBVIOUS
<1>1. TypeInv
  BY TypeInit
<1>2. \A p \in Processes : pc[p] = "idle" /\ cmd[p] = "none"
  BY DEF Init
<1>3. QED
  BY <1>1, <1>2 DEF ShareInv, Exclusive, CheckedInv, Checked

LEMMA ShareHolds == Spec => []ShareInv
<1>1. ShareInv /\ [Next]_vars => ShareInv'
  <2>1. ShareInv => TypeInv
    BY DEF ShareInv
  <2>2. QED
    BY <2>1, TypeStep, ExclusiveStep, CheckedStep DEF ShareInv
<1>2. QED
  BY <1>1, ShareInit, PTL DEF Spec

\* A process goes from writing back to trading only by writing.
LEMMA OnlyWriteResumes ==
  ASSUME TypeInv, [Next]_vars, NEW p \in Processes, pc[p] = "write", pc'[p] = "trade"
  PROVE  Write(p)
<1> USE DEF TypeInv, TypeOK
<1>1. ASSUME NEW q \in Processes, Step(q) PROVE Write(p)
  <2>1. CASE q = p
    <3>1. CASE \E c \in Commands : Open(q, c)
      BY <2>1, <3>1 DEF Open
    <3>2. CASE Connect(q) \/ ReadAccount(q)
      BY <2>1, <3>2 DEF Connect, ReadAccount
    <3>3. CASE \E plan \in [Symbols -> SignedAmounts \cup {0}] : StartTrading(q, plan)
      BY <2>1, <3>3 DEF StartTrading
    <3>4. CASE (\E s \in Symbols : PlaceOrder(q, s)) \/ BookFill(q)
      BY <2>1, <3>4 DEF PlaceOrder, BookFill
    <3>5. CASE \E basis \in SUBSET Symbols : Reconcile(q, basis)
      BY <2>1, <3>5 DEF Reconcile
    <3>6. CASE Truncate(q) \/ Execute(q)
      BY <2>1, <3>6 DEF Truncate, Execute
    <3>7. CASE Stop(q)
      BY <2>1, <3>7 DEF Stop, Ends
    <3>8. CASE Write(q)
      BY <2>1, <3>8
    <3>9. QED
      BY <1>1, <3>1, <3>2, <3>3, <3>4, <3>5, <3>6, <3>7, <3>8 DEF Step
  <2>2. CASE q # p
    <3>1. pc'[p] = pc[p]
      BY <1>1, <2>2 DEF Step, Open, Connect, ReadAccount, StartTrading, PlaceOrder, BookFill,
        Reconcile, Truncate, Write, Ends, Stop, Execute
    <3>2. QED
      BY <3>1
  <2>3. QED
    BY <2>1, <2>2
<1>2. ASSUME NEW o \in adrift, ExecuteAdrift(o) PROVE Write(p)
  BY <1>2 DEF ExecuteAdrift, local
<1>3. CASE UNCHANGED vars
  BY <1>3 DEF vars, local
<1>4. QED
  BY <1>1, <1>2, <1>3 DEF Next

\* Any number of processes, whatever the others load, correct and save: what a
\* rebalance saves is in sync with the shares held at that moment.
THEOREM RebalanceSavesTruthHolds == Spec => RebalanceSavesTruth
<1>1. ASSUME ShareInv, [Next]_vars, NEW p \in Processes, cmd[p] = "rebalance",
             pc[p] = "write", pc'[p] = "trade", disk' # Garbled,
             NEW s \in Symbols \ untracked
      PROVE  Matches(disk', held', s)
  <2>1. Write(p)
    BY <1>1, OnlyWriteResumes DEF ShareInv
  <2>2. disk' = mem[p] /\ held' = held
    BY <1>1, <2>1 DEF Write
  <2>3. Abs(held[s] - Unbooked(p, s) - mem[p][s]) <= Tolerance
    BY <1>1 DEF ShareInv, CheckedInv, Checked
  <2>4. Unbooked(p, s) = 0
    BY <1>1 DEF Unbooked
  <2>5. held[s] \in Int
    BY <1>1 DEF ShareInv, TypeInv, TypeOK
  <2>6. held[s] - Unbooked(p, s) = held[s]
    BY <2>4, <2>5
  <2>7. QED
    BY <2>2, <2>3, <2>6 DEF Matches
<1>2. ShareInv /\ [Next]_vars =>
        \A p \in Processes :
          cmd[p] = "rebalance" /\ pc[p] = "write" /\ pc'[p] = "trade" /\ disk' # Garbled =>
            \A s \in Symbols \ untracked : Matches(disk', held', s)
  BY <1>1
<1>3. QED
  BY <1>2, ShareHolds, PTL DEF Spec, RebalanceSavesTruth

-----------------------------------------------------------------------------
\* The shares of s that the connected process has moved and not saved.
InHand(s) == IF holder \in Processes THEN Unsaved(holder, s) ELSE 0

\* Between rebalances, the file lags behind the shares held by what the
\* connected one has in hand.
FileInv ==
  ran \subseteq {"rebalance"} /\ InSync(first, start) /\ disk \notin Unreadable =>
    \A s \in Symbols \ untracked : Abs(held[s] - InHand(s) - disk[s]) <= Tolerance

\* A step that changes neither the file, nor the shares or those in hand of a
\* symbol that stays tracked.
LEMMA KeepsFile ==
  ASSUME FileInv, disk' = disk, first' = first, start' = start, ran \subseteq ran',
         untracked \subseteq untracked',
         \A s \in Symbols \ untracked' : held'[s] = held[s] /\ InHand(s)' = InHand(s)
  PROVE  FileInv'
<1> SUFFICES ASSUME ran' \subseteq {"rebalance"}, InSync(first', start'), disk' \notin Unreadable,
                    NEW s \in Symbols \ untracked'
             PROVE  Abs(held'[s] - InHand(s)' - disk'[s]) <= Tolerance
  BY DEF FileInv, InSync, Matches
<1>1. ran \subseteq {"rebalance"} /\ InSync(first, start) /\ disk \notin Unreadable
      /\ s \in Symbols \ untracked
  OBVIOUS
<1>2. Abs(held[s] - InHand(s) - disk[s]) <= Tolerance
  BY <1>1 DEF FileInv
<1>3. QED
  BY <1>2

\* Nothing is in hand of a process outside "wait" and "save".
LEMMA SameInHand ==
  ASSUME holder' = holder, NEW s \in Symbols,
         \A p \in Processes : Unsaved(p, s)' = Unsaved(p, s)
  PROVE  InHand(s)' = InHand(s)
BY DEF InHand

LEMMA FileStep == ShareInv /\ FileInv /\ [Next]_vars => FileInv'
<1> SUFFICES ASSUME ShareInv, FileInv, [Next]_vars PROVE FileInv'
  OBVIOUS
<1>0. /\ TypeOK /\ ProcessOK /\ Exclusive
      /\ pc \in [Processes -> {"idle", "open", "account", "decide", "trade", "wait", "save", "write"}]
      /\ cmd \in [Processes -> Commands \cup {"none"}]
      /\ order \in [Processes -> Orders \cup {NoOrder}]
      /\ mem \in [Processes -> [Symbols -> Nat]] /\ held \in [Symbols -> Int]
  BY DEF ShareInv, TypeInv, TypeOK
<1>1. ASSUME NEW p \in Processes, NEW c \in Commands, Open(p, c) PROVE FileInv'
  <2>1. \A s \in Symbols, q \in Processes : Unsaved(q, s)' = Unsaved(q, s)
    BY <1>0, <1>1 DEF Open, Unsaved
  <2>2. QED
    BY <1>1, <2>1, SameInHand, KeepsFile DEF Open, shared
<1>2. ASSUME NEW p \in Processes, Connect(p) PROVE FileInv'
  <2>1. holder = NoOne /\ holder' = p /\ pc'[p] = "account"
    BY <1>0, <1>2 DEF Connect
  <2>2. \A s \in Symbols : InHand(s) = 0 /\ InHand(s)' = 0
    BY <2>1, SentinelAssumption DEF InHand, Unsaved
  <2>3. QED
    BY <1>2, <2>2, KeepsFile DEF Connect, past
<1>3. ASSUME NEW p \in Processes, ReadAccount(p) PROVE FileInv'
  <2>1. CASE cmd[p] = "reconcile"
    <3>1. "reconcile" \in ran
      BY <1>0, <2>1 DEF ProcessOK
    <3>2. ran' = ran
      BY <1>3 DEF ReadAccount, past
    <3>3. QED
      BY <3>1, <3>2 DEF FileInv
  <2>2. CASE cmd[p] # "reconcile"
    <3>1. \A s \in Symbols, q \in Processes : Unsaved(q, s)' = Unsaved(q, s)
      BY <1>0, <1>3 DEF ReadAccount, Unsaved
    <3>2. QED
      BY <1>3, <2>2, <3>1, SameInHand, KeepsFile DEF ReadAccount, past
  <2>3. QED
    BY <2>1, <2>2
<1>4. ASSUME NEW p \in Processes, NEW plan \in [Symbols -> SignedAmounts \cup {0}],
             StartTrading(p, plan)
      PROVE  FileInv'
  <2>1. \A s \in Symbols, q \in Processes : Unsaved(q, s)' = Unsaved(q, s)
    BY <1>0, <1>4 DEF StartTrading, Unsaved
  <2>2. QED
    BY <1>4, <2>1, SameInHand, KeepsFile DEF StartTrading, shared, past
<1>5. ASSUME NEW p \in Processes, NEW r \in Symbols, PlaceOrder(p, r) PROVE FileInv'
  <2>1. pc[p] = "trade" /\ order'[p].done = FALSE
    BY <1>0, <1>5 DEF PlaceOrder
  <2>2. ASSUME NEW s \in Symbols, NEW q \in Processes PROVE Unsaved(q, s)' = Unsaved(q, s)
    <3>1. CASE q = p
      BY <2>1, <3>1 DEF Unsaved
    <3>2. CASE q # p
      BY <1>0, <1>5, <3>2 DEF PlaceOrder, Unsaved
    <3>3. QED
      BY <3>1, <3>2
  <2>3. QED
    BY <1>5, <2>2, SameInHand, KeepsFile DEF PlaceOrder, shared, past
<1>6. ASSUME NEW p \in Processes, BookFill(p) PROVE FileInv'
  <2>1. \A s \in Symbols, q \in Processes : Unsaved(q, s)' = Unsaved(q, s)
    BY <1>0, <1>6 DEF BookFill, Unsaved
  <2>2. QED
    BY <1>6, <2>1, SameInHand, KeepsFile DEF BookFill, shared, past
<1>7. ASSUME NEW p \in Processes, NEW basis \in SUBSET Symbols, Reconcile(p, basis)
      PROVE  FileInv'
  <2>1. "reconcile" \in ran
    BY <1>0, <1>7 DEF ProcessOK, Reconcile
  <2>2. ran' = ran
    BY <1>7 DEF Reconcile, past
  <2>3. QED
    BY <2>1, <2>2 DEF FileInv
<1>8. ASSUME NEW p \in Processes, Truncate(p) PROVE FileInv'
  BY <1>8 DEF Truncate, FileInv
<1>9. ASSUME NEW p \in Processes, Write(p) PROVE FileInv'
  <2> SUFFICES ASSUME ran' \subseteq {"rebalance"}, disk' \notin Unreadable,
                      NEW s \in Symbols \ untracked'
               PROVE  Abs(held'[s] - InHand(s)' - disk'[s]) <= Tolerance
    BY DEF FileInv
  <2>1. pc[p] = "write" /\ disk' = mem[p] /\ held' = held /\ untracked' = untracked
        /\ holder' = holder /\ ran' = ran
    BY <1>9 DEF Write, past
  <2>2. cmd[p] = "rebalance"
    <3>1. cmd[p] \in ran /\ cmd[p] # "none"
      BY <1>0, <2>1 DEF ProcessOK
    <3>2. QED
      BY <2>1, <3>1
  <2>3. holder = p /\ pc'[p] = "trade"
    BY <1>0, <1>9, <2>1, <2>2 DEF Exclusive, Write
  <2>4. InHand(s)' = 0 /\ Unbooked(p, s) = 0
    BY <2>1, <2>3 DEF InHand, Unsaved, Unbooked
  <2>5. Abs(held[s] - Unbooked(p, s) - mem[p][s]) <= Tolerance
    BY <2>1, <2>2 DEF ShareInv, CheckedInv, Checked
  <2>6. QED
    BY <2>1, <2>4, <2>5
<1>10. ASSUME NEW p \in Processes, Stop(p) PROVE FileInv'
  <2>1. untracked \subseteq untracked' /\ ran' = ran /\ Ends(p)
    BY <1>10 DEF Stop
  <2>2. ASSUME NEW s \in Symbols \ untracked' PROVE InHand(s)' = InHand(s)
    <3>1. CASE holder = p
      <4>1. Unsaved(p, s) = 0
        BY <1>0, <1>10, <2>2 DEF Stop, Unsaved
      <4>2. holder' = NoOne
        BY <1>10, <3>1 DEF Stop
      <4>3. QED
        BY <3>1, <4>1, <4>2, SentinelAssumption DEF InHand
    <3>2. CASE holder # p
      <4>1. holder' = holder
        BY <1>10, <3>2 DEF Stop
      <4>2. ASSUME holder \in Processes PROVE Unsaved(holder, s)' = Unsaved(holder, s)
        BY <1>0, <2>1, <3>2, <4>1, <4>2 DEF Ends, Unsaved
      <4>3. QED
        BY <4>1, <4>2 DEF InHand
    <3>3. QED
      BY <3>1, <3>2
  <2>3. QED
    BY <1>10, <2>1, <2>2, KeepsFile DEF Stop
<1>11. ASSUME NEW p \in Processes, Execute(p) PROVE FileInv'
  <2> SUFFICES ASSUME ran' \subseteq {"rebalance"}, InSync(first', start'), disk' \notin Unreadable,
                      NEW s \in Symbols \ untracked'
               PROVE  Abs(held'[s] - InHand(s)' - disk'[s]) <= Tolerance
    BY DEF FileInv, InSync, Matches
  <2>1. /\ pc[p] = "wait" /\ cmd[p] = "rebalance" /\ holder = p /\ order[p] \in Orders
        /\ pc' = pc /\ cmd' = cmd /\ holder' = holder /\ disk' = disk
        /\ untracked' = untracked /\ ran' = ran /\ first' = first /\ start' = start
        /\ held' = Plus(held, order[p].sym, order[p].qty)
        /\ order'[p] = Filled(order[p])
    BY <1>0, <1>11 DEF Execute, ProcessOK, Exclusive, past
  <2>2. order[p].done = FALSE
    BY <1>11, <2>1 DEF Execute, Orders
  <2>3. order[p].qty \in Int
    BY <2>1 DEF Orders
  <2>4. order'[p].done /\ order'[p].sym = order[p].sym /\ order'[p].qty = order[p].qty
    BY <2>1, FilledTypes
  <2>5. Abs(held[s] - InHand(s) - disk[s]) <= Tolerance
    BY <2>1 DEF FileInv
  <2>6. InHand(s) = 0
    BY <2>1, <2>2 DEF InHand, Unsaved
  <2>7. InHand(s)' = IF order[p].sym = s THEN order[p].qty ELSE 0
    BY <2>1, <2>4 DEF InHand, Unsaved
  <2>8. held'[s] = held[s] + IF order[p].sym = s THEN order[p].qty ELSE 0
    BY <1>0, <2>1, <2>3 DEF Plus
  <2>9. held'[s] - InHand(s)' = held[s] - InHand(s)
    BY <1>0, <2>3, <2>6, <2>7, <2>8
  <2>10. QED
    BY <2>1, <2>5, <2>9
<1>12. ASSUME NEW o \in adrift, ExecuteAdrift(o) PROVE FileInv'
  <2>1. \A s \in Symbols \ untracked' : held'[s] = held[s]
    BY <1>0, <1>12 DEF ExecuteAdrift, Plus
  <2>2. \A s \in Symbols : InHand(s)' = InHand(s)
    BY <1>12 DEF ExecuteAdrift, local, InHand, Unsaved
  <2>3. QED
    BY <1>12, <2>1, <2>2, KeepsFile DEF ExecuteAdrift
<1>13. CASE UNCHANGED vars
  <2>1. \A s \in Symbols : InHand(s)' = InHand(s)
    BY <1>13 DEF vars, shared, local, InHand, Unsaved
  <2>2. QED
    BY <1>13, <2>1, KeepsFile DEF vars, shared, past
<1>14. QED
  BY <1>1, <1>2, <1>3, <1>4, <1>5, <1>6, <1>7, <1>8, <1>9, <1>10, <1>11, <1>12, <1>13
  DEF Next, Step

LEMMA FileInit == Init => FileInv
<1> SUFFICES ASSUME Init, InSync(first, start), NEW s \in Symbols
             PROVE  Abs(held[s] - InHand(s) - disk[s]) <= Tolerance
  BY DEF FileInv
<1>1. held \in [Symbols -> Nat] /\ held = start /\ disk = first
  BY InitialAssumption DEF Init
<1>2. InHand(s) = 0
  BY SentinelAssumption DEF Init, InHand
<1>3. held[s] - InHand(s) = held[s]
  BY <1>1, <1>2
<1>4. QED
  BY <1>1, <1>3 DEF InSync, Matches

\* Any number of rebalances that overlap keep the books of an installation that
\* started in sync, up to the fill one of them has in hand.
THEOREM OverlappingRebalancesKeepBooksHolds == Spec => []OverlappingRebalancesKeepBooks
<1>1. ShareInv /\ FileInv => OverlappingRebalancesKeepBooks
  <2> SUFFICES ASSUME ShareInv, FileInv, ran \subseteq {"rebalance"}, InSync(first, start),
                      disk \notin Unreadable, NEW s \in Symbols \ untracked
               PROVE  \/ Matches(disk, held, s)
                      \/ \E p \in Processes : Abs(held[s] - Unsaved(p, s) - disk[s]) <= Tolerance
    BY DEF OverlappingRebalancesKeepBooks
  <2>1. Abs(held[s] - InHand(s) - disk[s]) <= Tolerance
    BY DEF FileInv
  <2>2. CASE holder \in Processes
    BY <2>1, <2>2 DEF InHand
  <2>3. CASE holder \notin Processes
    <3>1. InHand(s) = 0 /\ held[s] \in Int
      BY <2>3 DEF InHand, ShareInv, TypeInv, TypeOK
    <3>2. held[s] - InHand(s) = held[s]
      BY <3>1
    <3>3. QED
      BY <2>1, <3>2 DEF Matches
  <2>4. QED
    BY <2>2, <2>3
<1>2. QED
  BY <1>1, ShareHolds, FileInit, FileStep, PTL DEF Spec

-----------------------------------------------------------------------------
\* While only reconciles have run, nothing has been ordered, and a count in a
\* ledger, in memory or in the file, is the first one or the one held.
SurplusInv ==
  ran \subseteq {"reconcile"} =>
    /\ adrift = {}
    /\ disk \notin Unreadable => \A s \in Symbols : disk[s] \in {first[s], held[s]}
    /\ \A p \in Processes :
         /\ pc[p] # "idle" => \A s \in Symbols : mem[p][s] \in {first[s], held[s]}
         /\ pc[p] = "decide" => acct[p] = held

LEMMA SurplusStep == TypeInv /\ SurplusInv /\ [Next]_vars => SurplusInv'
<1> SUFFICES ASSUME TypeInv, SurplusInv, [Next]_vars, ran' \subseteq {"reconcile"}
             PROVE  SurplusInv'
  BY DEF SurplusInv
<1>0. /\ TypeOK /\ ProcessOK
      /\ pc \in [Processes -> {"idle", "open", "account", "decide", "trade", "wait", "save", "write"}]
      /\ cmd \in [Processes -> Commands \cup {"none"}]
      /\ mem \in [Processes -> [Symbols -> Nat]]
      /\ acct \in [Processes -> [Symbols -> Int]]
  BY DEF TypeInv, TypeOK
<1>a. ran \subseteq ran'
  BY DEF Next, Step, Open, Connect, ReadAccount, StartTrading, PlaceOrder, BookFill, Reconcile,
    Truncate, Write, Stop, Execute, ExecuteAdrift, vars, past
<1>b. ran \subseteq {"reconcile"}
  BY <1>a
<1>c. \A p \in Processes : cmd[p] # "rebalance" /\ pc[p] \notin {"trade", "wait"}
  BY <1>0, <1>b DEF ProcessOK
<1>d. /\ adrift = {}
      /\ disk \notin Unreadable => \A s \in Symbols : disk[s] \in {first[s], held[s]}
      /\ \A p \in Processes :
           /\ pc[p] # "idle" => \A s \in Symbols : mem[p][s] \in {first[s], held[s]}
           /\ pc[p] = "decide" => acct[p] = held
  BY <1>b DEF SurplusInv
<1>1. ASSUME NEW p \in Processes, NEW c \in Commands, Open(p, c) PROVE SurplusInv'
  <2>1. /\ mem' = [mem EXCEPT ![p] = disk] /\ pc'[p] = "open" /\ disk \notin Unreadable
        /\ \A q \in Processes \ {p} : pc'[q] = pc[q]
        /\ UNCHANGED <<disk, held, adrift, first, acct>>
    BY <1>0, <1>1 DEF Open, shared
  <2>2. \A q \in Processes : pc'[q] # "idle" => \A s \in Symbols : mem'[q][s] \in {first[s], held[s]}
    BY <1>0, <1>d, <2>1
  <2>3. \A q \in Processes : pc'[q] = "decide" => acct'[q] = held'
    BY <1>d, <2>1
  <2>4. QED
    BY <1>d, <2>1, <2>2, <2>3 DEF SurplusInv
<1>2. ASSUME NEW p \in Processes, Connect(p) PROVE SurplusInv'
  BY <1>0, <1>2, <1>d DEF Connect, past, SurplusInv
<1>3. ASSUME NEW p \in Processes, ReadAccount(p) PROVE SurplusInv'
  BY <1>0, <1>3, <1>d DEF ReadAccount, past, SurplusInv
<1>4. ASSUME NEW p \in Processes, NEW plan \in [Symbols -> SignedAmounts \cup {0}],
             StartTrading(p, plan)
      PROVE  SurplusInv'
  BY <1>4, <1>c DEF StartTrading
<1>5. ASSUME NEW p \in Processes, NEW r \in Symbols, PlaceOrder(p, r) PROVE SurplusInv'
  BY <1>5, <1>c DEF PlaceOrder
<1>6. ASSUME NEW p \in Processes, BookFill(p) PROVE SurplusInv'
  BY <1>6, <1>c DEF BookFill
<1>7. ASSUME NEW p \in Processes, NEW basis \in SUBSET Symbols, Reconcile(p, basis)
      PROVE  SurplusInv'
  <2>1. /\ pc[p] = "decide" /\ acct[p] = held
        /\ \A q \in Processes : pc'[q] = IF q = p THEN "save" ELSE pc[q]
        /\ mem' = [mem EXCEPT ![p] = Corrected(mem[p], held, basis)]
        /\ UNCHANGED <<disk, held, adrift, first, acct>>
    BY <1>0, <1>7, <1>d DEF Reconcile, shared, past
  <2>2. \A s \in Symbols : Corrected(mem[p], held, basis)[s] \in {first[s], held[s]}
    BY <1>d, <2>1 DEF Corrected
  <2>3. \A q \in Processes : pc'[q] # "idle" => \A s \in Symbols : mem'[q][s] \in {first[s], held[s]}
    BY <1>0, <1>d, <2>1, <2>2
  <2>4. QED
    BY <1>d, <2>1, <2>3 DEF SurplusInv
<1>8. ASSUME NEW p \in Processes, Truncate(p) PROVE SurplusInv'
  BY <1>0, <1>8, <1>d DEF Truncate, past, SurplusInv
<1>9. ASSUME NEW p \in Processes, Write(p) PROVE SurplusInv'
  <2>1. cmd[p] = "reconcile"
    BY <1>0, <1>9, <1>b DEF ProcessOK, Write
  <2>2. /\ pc[p] = "write" /\ pc'[p] = "idle"
        /\ \A q \in Processes \ {p} : pc'[q] = pc[q] /\ mem'[q] = mem[q] /\ acct'[q] = acct[q]
        /\ UNCHANGED <<held, adrift, first>>
    BY <1>0, <1>9, <2>1 DEF Write, Ends, past
  <2>3. disk' = mem[p] \/ disk' = Garbled
    BY <1>9 DEF Write
  <2>4. QED
    BY <1>d, <2>2, <2>3 DEF SurplusInv
<1>10. ASSUME NEW p \in Processes, Stop(p) PROVE SurplusInv'
  <2>1. /\ pc'[p] = "idle"
        /\ \A q \in Processes \ {p} : pc'[q] = pc[q] /\ mem'[q] = mem[q] /\ acct'[q] = acct[q]
        /\ UNCHANGED <<disk, held, first>>
    BY <1>0, <1>10 DEF Stop, Ends
  <2>2. adrift' = adrift
    BY <1>10, <1>c DEF Stop
  <2>3. QED
    BY <1>d, <2>1, <2>2 DEF SurplusInv
<1>11. ASSUME NEW p \in Processes, Execute(p) PROVE SurplusInv'
  BY <1>11, <1>c DEF Execute
<1>12. ASSUME NEW o \in adrift, ExecuteAdrift(o) PROVE SurplusInv'
  BY <1>d
<1>13. CASE UNCHANGED vars
  BY <1>13, <1>d DEF vars, shared, local, past, SurplusInv
<1>14. QED
  BY <1>1, <1>2, <1>3, <1>4, <1>5, <1>6, <1>7, <1>8, <1>9, <1>10, <1>11, <1>12, <1>13
  DEF Next, Step

LEMMA SurplusInit == Init => SurplusInv
BY DEF Init, SurplusInv

\* However many reconciles find the same surplus or shortfall, and however their
\* steps interleave, the file has the count it had or the one the broker has.
THEOREM SurplusIsBookedOnceHolds == Spec => []SurplusIsBookedOnce
<1>1. SurplusInv => SurplusIsBookedOnce
  BY DEF SurplusInv, SurplusIsBookedOnce
<1>2. TypeInv /\ SurplusInv /\ [Next]_vars => (TypeInv /\ SurplusInv)'
  BY TypeStep, SurplusStep
<1>3. QED
  BY <1>1, <1>2, TypeInit, SurplusInit, PTL DEF Spec
=============================================================================
