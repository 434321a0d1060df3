------------------------- MODULE ConcurrentCommands -------------------------
(***************************************************************************)
(* Several processes on one ledger file and one live account: `rebalance   *)
(* --execute` with the reconcile check on, and `reconcile --apply`.        *)
(*                                                                         *)
(* No lock guards the file.  Every command loads it before it connects,    *)
(* and reconcile saves it after it has disconnected.  What keeps two       *)
(* commands apart is the gateway, which refuses a second connection with   *)
(* the client id of the configuration (IBKRConfig.client_id).              *)
(*                                                                         *)
(* An order executes whole here; TradingSession has the parts.  Every way  *)
(* a command ends has the same effect on what the processes share, so one  *)
(* action, Stop, stands for all of them.                                   *)
(***************************************************************************)
EXTENDS ShareCounts

CONSTANTS
  Processes,      \* processes that may run at the same time
  Amounts,        \* share amounts of orders
  InitialShares,  \* share counts an installation may start from
  MaxRuns,        \* bound: commands started
  Blank,          \* the ledger file after a truncation
  Garbled,        \* the ledger file after one save wrote over another's text
  NoOne,          \* nobody is connected
  NoOrder         \* the command has not placed an order yet

Orders == [sym : Symbols, qty : Int, done : BOOLEAN]

ASSUME AmountsAssumption  == Amounts \subseteq Nat \ {0}
ASSUME InitialAssumption  == InitialShares \subseteq Nat
ASSUME MaxRunsAssumption  == MaxRuns \in Nat
ASSUME SentinelAssumption == /\ Blank \notin [Symbols -> Nat]
                             /\ Garbled \notin [Symbols -> Nat]
                             /\ NoOne \notin Processes
                             /\ NoOrder \notin Orders

VARIABLES
  disk,       \* the ledger file: share count per symbol, Blank or Garbled
  held,       \* positions at the broker
  holder,     \* the process that is connected, or NoOne
  adrift,     \* orders that their process no longer waits for (equal ones are
              \* one: no property is about the shares they move)
  pc,         \* per process, where its command is
  cmd,        \* per process, its command
  mem,        \* per process, its LotLedger object: share count per symbol
  acct,       \* per process, the account it read
  todo,       \* per process, trades still to execute: signed quantities
  order,      \* per process, the order it placed last
  runs,       \* number of commands started
  ran,        \* history: the kinds of command started
  first,      \* history: the ledger before any command
  start,      \* history: the shares held before any command
  untracked   \* history: symbols of orders whose process ended before it had
              \* saved them

shared == <<disk, held, holder, adrift>>
local  == <<pc, cmd, mem, acct, todo, order>>
past   == <<runs, ran, first, start, untracked>>
vars   == <<shared, local, past>>

Unreadable == {Blank, Garbled}
Commands   == {"rebalance", "reconcile"}

SignedAmounts == Amounts \cup {-n : n \in Amounts}

\* Counts l after q more shares of s.
Plus(l, s, q) == [t \in Symbols |-> IF t = s THEN l[t] + q ELSE l[t]]

Filled(o)     == [o EXCEPT !.done = TRUE]

-----------------------------------------------------------------------------
Init ==
  /\ disk \in [Symbols -> InitialShares]
  /\ held \in [Symbols -> InitialShares]
  /\ holder = NoOne /\ adrift = {}
  /\ pc = [p \in Processes |-> "idle"]
  /\ cmd = [p \in Processes |-> "none"]
  /\ mem = [p \in Processes |-> NoShares]
  /\ acct = [p \in Processes |-> NoShares]
  /\ todo = [p \in Processes |-> NoShares]
  /\ order = [p \in Processes |-> NoOrder]
  /\ runs = 0 /\ ran = {} /\ first = disk /\ start = held /\ untracked = {}

\* The process ends and its memory is gone.
Ends(p) ==
  /\ pc' = [pc EXCEPT ![p] = "idle"] /\ cmd' = [cmd EXCEPT ![p] = "none"]
  /\ mem' = [mem EXCEPT ![p] = NoShares] /\ acct' = [acct EXCEPT ![p] = NoShares]
  /\ todo' = [todo EXCEPT ![p] = NoShares] /\ order' = [order EXCEPT ![p] = NoOrder]

\* A command loads the ledger file.  (One that does not parse ends the command
\* before it has done anything: no step.)
Open(p, c) ==
  /\ pc[p] = "idle" /\ runs < MaxRuns
  /\ disk \notin Unreadable
  /\ pc' = [pc EXCEPT ![p] = "open"]
  /\ cmd' = [cmd EXCEPT ![p] = c]
  /\ mem' = [mem EXCEPT ![p] = disk]
  /\ runs' = runs + 1 /\ ran' = ran \cup {c}
  /\ UNCHANGED <<shared, acct, todo, order, first, start, untracked>>

\* __enter__.  A connection that is refused is a Stop.
Connect(p) ==
  /\ pc[p] = "open" /\ holder = NoOne
  /\ holder' = p
  /\ pc' = [pc EXCEPT ![p] = "account"]
  /\ UNCHANGED <<disk, held, adrift, cmd, mem, acct, todo, order, past>>

\* Mutant: rebalance, too, leaves the `with` block with the account it read.
ReadAccount_Leaves(p) ==
  /\ pc[p] = "account"
  /\ acct' = [acct EXCEPT ![p] = held]
  /\ pc' = [pc EXCEPT ![p] = "decide"]
  /\ holder' = NoOne
  /\ UNCHANGED <<disk, held, adrift, cmd, mem, todo, order, past>>

\* get_account.  reconcile disconnects, and decides and saves after that.
ReadAccount(p) ==
  /\ pc[p] = "account"
  /\ acct' = [acct EXCEPT ![p] = held]
  /\ pc' = [pc EXCEPT ![p] = "decide"]
  /\ holder' = IF cmd[p] = "reconcile" THEN NoOne ELSE holder
  /\ UNCHANGED <<disk, held, adrift, cmd, mem, todo, order, past>>

\* Mutant: the reconcile check is made but not acted on.
StartTrading_Unchecked(p, plan) ==
  /\ pc[p] = "decide" /\ cmd[p] = "rebalance"
  /\ ValidPlan(plan, acct[p]) /\ ~Empty(plan)
  /\ todo' = [todo EXCEPT ![p] = plan]
  /\ pc' = [pc EXCEPT ![p] = "trade"]
  /\ UNCHANGED <<shared, cmd, mem, acct, order, past>>

\* The check passes.  (An empty plan or a refusal is a Stop.)
StartTrading(p, plan) ==
  /\ pc[p] = "decide" /\ cmd[p] = "rebalance"
  /\ ValidPlan(plan, acct[p]) /\ ~Empty(plan)
  /\ InSync(mem[p], acct[p])
  /\ todo' = [todo EXCEPT ![p] = plan]
  /\ pc' = [pc EXCEPT ![p] = "trade"]
  /\ UNCHANGED <<shared, cmd, mem, acct, order, past>>

\* IBKRBroker.execute sends the order and waits.
PlaceOrder(p, s) ==
  /\ pc[p] = "trade" /\ IsNext(todo[p], s)
  /\ order' = [order EXCEPT ![p] = [sym |-> s, qty |-> todo[p][s], done |-> FALSE]]
  /\ todo' = [todo EXCEPT ![p] = Plus(todo[p], s, -todo[p][s])]
  /\ pc' = [pc EXCEPT ![p] = "wait"]
  /\ UNCHANGED <<shared, cmd, mem, acct, past>>

\* Mutant: a sale may take more than the lots hold.
BookFill_Oversells(p) ==
  /\ pc[p] = "wait" /\ order[p].done
  /\ mem' = [mem EXCEPT ![p] = Plus(mem[p], order[p].sym, order[p].qty)]
  /\ pc' = [pc EXCEPT ![p] = "save"]
  /\ UNCHANGED <<shared, cmd, acct, todo, order, past>>

\* execute returns the Fill and apply_fill books it; a sale of more shares than
\* the lots hold raises, and is a Stop.
BookFill(p) ==
  /\ pc[p] = "wait" /\ order[p].done
  /\ mem[p][order[p].sym] + order[p].qty >= 0
  /\ mem' = [mem EXCEPT ![p] = Plus(mem[p], order[p].sym, order[p].qty)]
  /\ pc' = [pc EXCEPT ![p] = "save"]
  /\ UNCHANGED <<shared, cmd, acct, todo, order, past>>

\* Mutant: the correction is added to the file as it is now.
Reconcile_OnTheFile(p, basis) ==
  /\ pc[p] = "decide" /\ cmd[p] = "reconcile" /\ disk \notin Unreadable
  /\ ~InSync(mem[p], acct[p]) /\ ~CannotRetire(mem[p], acct[p])
  /\ mem' = [mem EXCEPT ![p] =
       [s \in Symbols |-> disk[s] + Corrected(mem[p], acct[p], basis)[s] - mem[p][s]]]
  /\ pc' = [pc EXCEPT ![p] = "save"]
  /\ UNCHANGED <<shared, cmd, acct, todo, order, past>>

\* apply_reconciliation, on the ledger as it was loaded.  (In sync, or a symbol
\* that cannot be corrected: a Stop.)
Reconcile(p, basis) ==
  /\ pc[p] = "decide" /\ cmd[p] = "reconcile"
  /\ ~InSync(mem[p], acct[p]) /\ ~CannotRetire(mem[p], acct[p])
  /\ mem' = [mem EXCEPT ![p] = Corrected(mem[p], acct[p], basis)]
  /\ pc' = [pc EXCEPT ![p] = "save"]
  /\ UNCHANGED <<shared, cmd, acct, todo, order, past>>

\* LotLedger.save: write_text truncates whatever is there ...
Truncate(p) ==
  /\ pc[p] = "save"
  /\ disk' = Blank
  /\ pc' = [pc EXCEPT ![p] = "write"]
  /\ UNCHANGED <<held, holder, adrift, cmd, mem, acct, todo, order, past>>

\* ... and writes from the start of the file.  If another process has written
\* since, the rest of a longer text stays behind it.
Write(p) ==
  /\ pc[p] = "write"
  /\ \/ disk' = mem[p]
     \/ disk # Blank /\ disk' = Garbled
  /\ IF cmd[p] = "reconcile"
       THEN Ends(p)
       ELSE pc' = [pc EXCEPT ![p] = "trade"] /\ UNCHANGED <<cmd, mem, acct, todo, order>>
  /\ UNCHANGED <<held, holder, adrift, past>>

\* The command ends: it is done, an order times out or is not filled, an error
\* is raised, or the process dies.  Its connection ends with it, and an order
\* at work is no longer waited for.
Stop(p) ==
  /\ pc[p] # "idle"
  /\ Ends(p)
  /\ holder' = IF holder = p THEN NoOne ELSE holder
  /\ adrift' = IF pc[p] = "wait" /\ ~order[p].done THEN adrift \cup {order[p]} ELSE adrift
  /\ untracked' = IF cmd[p] = "rebalance" /\ (pc[p] \in {"save", "write"} \/
                                              (pc[p] = "wait" /\ order[p].done))
                    THEN untracked \cup {order[p].sym} ELSE untracked
  /\ UNCHANGED <<disk, held, runs, ran, first, start>>

\* The broker executes the order a process waits for ...
Execute(p) ==
  /\ pc[p] = "wait" /\ ~order[p].done
  /\ order' = [order EXCEPT ![p] = Filled(order[p])]
  /\ held' = Plus(held, order[p].sym, order[p].qty)
  /\ UNCHANGED <<disk, holder, adrift, pc, cmd, mem, acct, todo, past>>

\* ... or one that nobody waits for.  (One that was cancelled in time never is.)
ExecuteAdrift(o) ==
  /\ adrift' = adrift \ {o}
  /\ held' = Plus(held, o.sym, o.qty)
  /\ untracked' = untracked \cup {o.sym}
  /\ UNCHANGED <<disk, holder, local, runs, ran, first, start>>

-----------------------------------------------------------------------------
Step(p) ==
  \/ \E c \in Commands : Open(p, c)
  \/ Connect(p) \/ ReadAccount(p)
  \/ \E plan \in [Symbols -> SignedAmounts \cup {0}] : StartTrading(p, plan)
  \/ \E s \in Symbols : PlaceOrder(p, s)
  \/ BookFill(p)
  \/ \E basis \in SUBSET Symbols : Reconcile(p, basis)
  \/ Truncate(p) \/ Write(p) \/ Stop(p)
  \/ Execute(p)

Next == (\E p \in Processes : Step(p)) \/ (\E o \in adrift : ExecuteAdrift(o))

Spec == Init /\ [][Next]_vars

-----------------------------------------------------------------------------
(* Properties. *)

\* The shape of every variable.
TypeOK ==
  /\ disk \in [Symbols -> Nat] \cup Unreadable
  /\ held \in [Symbols -> Int]
  /\ holder \in Processes \cup {NoOne}
  /\ adrift \subseteq Orders
  /\ pc \in [Processes -> {"idle", "open", "account", "decide", "trade", "wait", "save", "write"}]
  /\ cmd \in [Processes -> Commands \cup {"none"}]
  /\ mem \in [Processes -> [Symbols -> Nat]]
  /\ acct \in [Processes -> [Symbols -> Int]]
  /\ todo \in [Processes -> [Symbols -> Int]]
  /\ order \in [Processes -> Orders \cup {NoOrder}]
  /\ runs \in 0..MaxRuns /\ ran \subseteq Commands
  /\ first \in [Symbols -> Nat] /\ start \in [Symbols -> Nat]
  /\ untracked \subseteq Symbols

\* The shares of s that p's order has moved and p has not saved.
Unsaved(p, s) ==
  IF pc[p] \in {"wait", "save"} /\ cmd[p] = "rebalance" /\ order[p].done /\ order[p].sym = s
  THEN order[p].qty ELSE 0

\* Whatever other commands load, correct and save meanwhile, what a rebalance
\* saves is in sync with the shares held at that moment: it loaded the ledger
\* before it had the account to itself, but checked it after that.
RebalanceSavesTruth ==
  [][\A p \in Processes :
       cmd[p] = "rebalance" /\ pc[p] = "write" /\ pc'[p] = "trade" /\ disk' # Garbled =>
         \A s \in Symbols \ untracked : Matches(disk', held', s)]_vars

\* Rebalances that overlap keep the books of an installation that started in
\* sync, fill by fill, although the later one may have loaded the ledger before
\* the earlier one traded.
OverlappingRebalancesKeepBooks ==
  ran \subseteq {"rebalance"} /\ InSync(first, start) /\ disk \notin Unreadable =>
    \A s \in Symbols \ untracked :
      \/ Matches(disk, held, s)
      \/ \E p \in Processes : Abs(held[s] - Unsaved(p, s) - disk[s]) <= Tolerance

\* Two reconciles that find the same surplus book it once: a count in the file
\* is the one it had or the one the broker has.
SurplusIsBookedOnce ==
  ran \subseteq {"reconcile"} /\ disk \notin Unreadable =>
    \A s \in Symbols : disk[s] \in {first[s], held[s]}
=============================================================================
