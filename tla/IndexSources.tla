----------------------------- MODULE IndexSources -----------------------------
(***************************************************************************)
(* From a configuration and the files the indexes are published in to the  *)
(* blended targets: config._parse, cli._fetch_targets, the csv and iShares *)
(* providers, indexes.base.normalize_weights and engine.blend_targets.     *)
(*                                                                         *)
(* A file is the sequence of its data rows [ticker, weight, asset].  The   *)
(* text of a cell is abstracted to what the parsers tell apart.  Weights   *)
(* stay exact: a normalised weight is the pair of a weight and its total.  *)
(***************************************************************************)
EXTENDS Integers, Sequences, FiniteSets, Functions

CONSTANTS
  Symbols,     \* ticker symbols
  Dotted,      \* the symbols that are not alphanumeric, as BRK.B
  CashLine,    \* a ticker of no security: "-", "CASH", "USD"
  Blank,       \* an empty ticker cell
  Empty,       \* an empty weight cell
  Absent,      \* a row that ends before the weight cell
  Bad,         \* a weight cell that is not a number
  Unreadable,  \* no file, or no answer from the network
  NoHeader,    \* a text without the columns the provider needs
  Names,       \* index names
  Files,       \* rows a readable file may hold
  Configs,     \* configurations as written: sequences of [name, allocation, provider]
  W,           \* allocations are multiples of 1/W
  Epsilon,     \* _ALLOC_EPSILON, in 1/W
  Failed       \* a provider raised

Tickers   == Symbols \cup {CashLine}
Providers == {"csv", "ishares", "ishares_url"}  \* iShares from a file or the network

Rows    == [ticker : Tickers \cup {Blank}, weight : Int \cup {Empty, Absent, Bad}, asset : STRING]
Indexes == [name : Names, allocation : Int, provider : STRING]
Results == [weight : [Tickers -> Nat], total : Nat \ {0}]

ASSUME UnitAssumption    == W \in Nat \ {0} /\ Epsilon \in Nat
ASSUME FilesAssumption   == Files \subseteq Seq(Rows)
ASSUME SymbolsAssumption == IsFiniteSet(Symbols) /\ Dotted \subseteq Symbols
ASSUME ConfigsAssumption == Configs \subseteq Seq(Indexes)
ASSUME SentinelAssumption ==
  /\ Blank \notin Tickers /\ {Empty, Absent, Bad} \cap Int = {}
  /\ Unreadable \notin Seq(Rows) /\ NoHeader \notin Seq(Rows) /\ Failed \notin Results

-----------------------------------------------------------------------------
(* The providers. *)

\* Mutant: the total counts the rows that are dropped, too.
Normalized_TotalOfAll(f, rows, w) ==
  LET kept == {i \in rows : w[i] > 0}
  IN  IF kept = {} THEN Failed
      ELSE [weight |-> [t \in Tickers |-> SumFunctionOnSet(w, {i \in kept : f[i].ticker = t})],
            total  |-> SumFunctionOnSet(w, rows)]

\* Mutant: weights are taken for percentages.
Normalized_Percent(f, rows, w) ==
  LET kept == {i \in rows : w[i] > 0}
  IN  IF kept = {} THEN Failed
      ELSE [weight |-> [t \in Tickers |-> SumFunctionOnSet(w, {i \in kept : f[i].ticker = t})],
            total  |-> 100]

\* normalize_weights, of the rows a provider parsed and their weights w.  (Rows
\* of one ticker are added up here; the code does it in blend_targets.)
Normalized(f, rows, w) ==
  LET kept == {i \in rows : w[i] > 0}
  IN  IF kept = {} THEN Failed
      ELSE [weight |-> [t \in Tickers |-> SumFunctionOnSet(w, {i \in kept : f[i].ticker = t})],
            total  |-> SumFunctionOnSet(w, kept)]

\* CSVConstituentProvider: rows without a ticker are skipped, a weight that is
\* no number raises, one that is not there counts as zero.
CsvWeight(r) == IF r.weight \in {Empty, Absent} THEN 0 ELSE r.weight

CsvFetch(f) ==
  LET rows == {i \in DOMAIN f : f[i].ticker # Blank}
  IN  IF \E i \in rows : f[i].weight = Bad THEN Failed
      ELSE Normalized(f, rows, [i \in rows |-> CsvWeight(f[i])])

\* ISharesProvider.parse: the rows end at the first without a ticker (the
\* disclaimer); only equities with an alphanumeric ticker are held; a row whose
\* weight is no number, or empty, is dropped, one without the cell raises an
\* IndexError.
DataRows(f) == {i \in DOMAIN f : \A j \in 1..i : f[j].ticker # Blank}
Equities(f) ==
  {i \in DataRows(f) : f[i].ticker \notin Dotted \cup {CashLine} /\ f[i].asset # "other"}

ISharesFetch(f) ==
  IF \E i \in Equities(f) : f[i].weight = Absent THEN Failed
  ELSE LET rows == {i \in Equities(f) : f[i].weight \notin {Empty, Bad}}
       IN  Normalized(f, rows, [i \in rows |-> f[i].weight])

\* build_provider and fetch.
Fetch(index, f) ==
  CASE f \in {Unreadable, NoHeader} -> Failed
    [] f \notin {Unreadable, NoHeader} /\ index.provider = "csv" -> CsvFetch(f)
    [] OTHER -> ISharesFetch(f)

-----------------------------------------------------------------------------
(* The configuration and the blend. *)

Allocated(c) == SumFunction([k \in DOMAIN c |-> c[k].allocation])

\* _parse and _parse_indexes.
Accepted(c) ==
  /\ c # <<>>
  /\ \A k \in DOMAIN c : c[k].allocation \in 1..W /\ c[k].provider \in Providers
  /\ \A j, k \in DOMAIN c : c[j].name = c[k].name => j = k
  /\ Allocated(c) <= W + Epsilon

\* blend_targets, over a common denominator: target weights are in 1/unit.
Times(m, n) == m * n
ProductOf(totals, ks) == FoldFunctionOnSet(Times, 1, totals, ks)

Blend(c, results) ==
  LET totals == [k \in DOMAIN c |-> results[k].total]
  IN  [unit   |-> W * ProductOf(totals, DOMAIN c),
       weight |-> [t \in Tickers |->
         SumFunction([k \in DOMAIN c |->
           c[k].allocation * results[k].weight[t] * ProductOf(totals, DOMAIN c \ {k})])]]

-----------------------------------------------------------------------------
VARIABLES
  config,   \* the configuration file
  files,    \* what each index's source holds, by index name
  cache,    \* the download cache, by index name; Unreadable when empty
  phase,    \* "config", "fetch", "done"; "rejected" and "failed" end in exit 1
  fetched,  \* per_index: the constituents of the indexes fetched so far
  targets   \* the blended targets, once there are any

vars == <<config, files, cache, phase, fetched, targets>>

Init ==
  /\ config \in Configs
  /\ files \in [Names -> Files \cup {Unreadable, NoHeader}]
  /\ cache = [n \in Names |-> Unreadable]
  /\ phase = "config" /\ fetched = <<>> /\ targets = Failed

LoadConfig ==
  /\ phase = "config"
  /\ phase' = IF Accepted(config) THEN "fetch" ELSE "rejected"
  /\ UNCHANGED <<config, files, cache, fetched, targets>>

\* A download is saved before it is parsed.
Downloads(index, f) == index.provider = "ishares_url" /\ f # Unreadable

\* Mutant: an index that cannot be fetched is left out.
FetchNext_SkipsFailures ==
  /\ phase = "fetch" /\ Len(fetched) < Len(config)
  /\ LET index  == config[Len(fetched) + 1]
         result == Fetch(index, files[index.name])
     IN  fetched' = Append(fetched,
           IF result = Failed THEN [weight |-> [t \in Tickers |-> 0], total |-> 1] ELSE result)
  /\ UNCHANGED <<config, files, cache, phase, targets>>

\* One round of _fetch_targets' loop.
FetchNext ==
  /\ phase = "fetch" /\ Len(fetched) < Len(config)
  /\ LET index  == config[Len(fetched) + 1]
         result == Fetch(index, files[index.name])
     IN  /\ cache' = IF Downloads(index, files[index.name])
                       THEN [cache EXCEPT ![index.name] = files[index.name]] ELSE cache
         /\ IF result = Failed THEN phase' = "failed" /\ UNCHANGED fetched
                               ELSE fetched' = Append(fetched, result) /\ UNCHANGED phase
  /\ UNCHANGED <<config, files, targets>>

BlendTargets ==
  /\ phase = "fetch" /\ Len(fetched) = Len(config)
  /\ targets' = Blend(config, fetched)
  /\ phase' = "done"
  /\ UNCHANGED <<config, files, cache, fetched>>

Next == LoadConfig \/ FetchNext \/ BlendTargets

Spec == Init /\ [][Next]_vars

-----------------------------------------------------------------------------
(* Properties. *)

\* The shape of every variable.
TypeOK ==
  /\ config \in Configs
  /\ files \in [Names -> Files \cup {Unreadable, NoHeader}]
  /\ cache \in [Names -> Files \cup {Unreadable, NoHeader}]
  /\ phase \in {"config", "fetch", "done", "rejected", "failed"}
  /\ fetched \in Seq(Results)
  /\ targets \in [unit : Nat \ {0}, weight : [Tickers -> Nat]] \cup {Failed}

\* The targets distribute exactly what the configuration allocates, whatever
\* rows were dropped, repeated, negative or of another asset class, and that
\* is no more than the portfolio: the rest stays cash (_parse's check).
TargetsAddUp ==
  phase = "done" =>
    /\ W * SumFunction(targets.weight) = Allocated(config) * targets.unit
    /\ Allocated(config) <= W + Epsilon

\* What a reader of an index's file takes it to list: the tickers with a weight
\* above zero; in an iShares file those of equities above the disclaimer, and
\* only alphanumeric ones.  (What of a file is lost on the way, dotted tickers
\* and equities of unreadable weight, is what PartialDataIsRefused is about.)
Listed(index, f) ==
  {t \in Tickers : \E i \in DOMAIN f :
     /\ f[i].ticker = t /\ f[i].weight \in Int /\ f[i].weight > 0
     /\ index.provider # "csv" =>
          /\ t \notin Dotted \cup {CashLine} /\ f[i].asset # "other"
          /\ \A j \in 1..i : f[j].ticker # Blank}

\* The targets are those of every file in the configuration: a file that cannot
\* be read stops the command, what is listed in one of them is not sold for
\* want of a target, and what is listed in none is not bought.
TargetsMatchListings ==
  phase = "done" =>
    /\ \A k \in DOMAIN config : files[config[k].name] \notin {Unreadable, NoHeader}
    /\ \A t \in Tickers :
         targets.weight[t] > 0 <=>
           \E k \in DOMAIN config : t \in Listed(config[k], files[config[k].name])

\* "Weights may be fractions or percentages": weights in another unit, in one
\* file and not in the other, lead to the same targets.
Scaled(f, n) ==
  [i \in DOMAIN f |-> [f[i] EXCEPT !.weight = IF @ \in {Empty, Absent, Bad} THEN @ ELSE n * @]]

UnitOfWeightsIsIrrelevant ==
  phase = "done" => \A j \in DOMAIN config :
    LET Refetched(k) == Fetch(config[k], IF k = j THEN Scaled(files[config[k].name], 10)
                                                  ELSE files[config[k].name])
        again == Blend(config, [k \in DOMAIN config |-> Refetched(k)])
    IN  \A t \in Tickers : again.weight[t] * targets.unit = targets.weight[t] * again.unit

-----------------------------------------------------------------------------
\* Providers "should raise on network or parse failures rather than returning
\* partial data": targets are made of files in which every equity's weight
\* could be read, and every equity with a weight above zero has a target.
PartialDataIsRefused ==
  phase = "done" => \A k \in DOMAIN config :
    LET f == files[config[k].name]
    IN  \A i \in DataRows(f) : f[i].ticker \in Symbols /\ f[i].asset = "equity" =>
          /\ f[i].weight # Bad
          /\ f[i].weight \in Nat \ {0} => targets.weight[f[i].ticker] > 0
=============================================================================
