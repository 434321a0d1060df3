------------------------- MODULE IndexSources_proofs -------------------------
(***************************************************************************)
(* Proofs about IndexSources, for any symbols, any finite files and any    *)
(* configuration: what providers hand on, what the blend makes of it, and  *)
(* that there are no targets without every index.                          *)
(***************************************************************************)
EXTENDS IndexSources, SumLemmas, SequenceTheorems, TLAPS

\* ProductOf, the common denominator of the blend, is the product of SumLemmas.
LEMMA ProductUnfolds == ASSUME NEW f, NEW S PROVE ProductOf(f, S) = Product(f, S)
BY DEF ProductOf, Times, FoldFunctionOnSet, MapThenFoldSet, Product, Folds, Defines, Chosen, Unit, Combine

-----------------------------------------------------------------------------
(* What a provider hands on: weights that add up to their total. *)

GoodResult(r) ==
  /\ r \in Results
  /\ SumFunctionOnSet(r.weight, Tickers) = r.total

\* There are finitely many tickers.
LEMMA TickersAreFinite == IsFiniteSet(Tickers)
  BY SymbolsAssumption, FS_AddElement DEF Tickers

\* normalize_weights: weights that add up to their total, which is not zero.
LEMMA NormalizedIsGood ==
  ASSUME NEW f, NEW rows, IsFiniteSet(rows), \A i \in rows : f[i].ticker \in Tickers,
         NEW w, \A i \in rows : w[i] \in Int, Normalized(f, rows, w) # Failed
  PROVE  GoodResult(Normalized(f, rows, w))
<1> DEFINE kept == {i \in rows : w[i] > 0}
           class == [i \in kept |-> f[i].ticker]
           members == [t \in Tickers |-> {i \in kept : f[i].ticker = t}]
           weight == [t \in Tickers |-> SumFunctionOnSet(w, {i \in kept : f[i].ticker = t})]
           total == SumFunctionOnSet(w, kept)
           r == Normalized(f, rows, w)
<1>1. IsFiniteSet(kept) /\ \A i \in kept : w[i] \in Nat \ {0} /\ w[i] \in Int /\ w[i] \in Nat /\ class[i] \in Tickers
  BY FS_Subset
<1>2. kept # {} /\ r = [weight |-> weight, total |-> total]
  BY DEF Normalized
<1>3. /\ \A t \in Tickers : members[t] \in SUBSET kept /\ weight[t] = SumFunctionOnSet(w, members[t])
      /\ \A t \in Tickers, i \in kept : i \in members[t] <=> class[i] = t
  OBVIOUS
<1>4. weight = [t \in Tickers |-> weight[t]]
  OBVIOUS
<1> HIDE DEF kept, class, members, weight, r, total
<1>5. ASSUME NEW t \in Tickers PROVE weight[t] \in Nat
  <2> DEFINE part == members[t]
  <2>1. IsFiniteSet(part) /\ \A i \in part : w[i] \in Nat
    BY <1>1, <1>3, FS_Subset
  <2> HIDE DEF part
  <2>2. SumFunctionOnSet(w, part) \in Nat
    BY <2>1, SumNat
  <2>3. QED
    BY <1>3, <2>2 DEF part
<1>6. total \in Nat \ {0}
  <2>1. total \in Nat /\ \A i \in kept : w[i] <= total
    BY <1>1, SumNat DEF total
  <2>2. QED
    BY <1>1, <1>2, <2>1
<1>7. SumFunctionOnSet(weight, Tickers) = total
  <2>1. SumFunctionOnSet(weight, Tickers) = SumFunctionOnSet(w, kept)
    <3>1. \A i \in kept : w[i] \in Int /\ class[i] \in Tickers
      BY <1>1
    <3>2. QED
      BY <1>1, <1>3, <3>1, TickersAreFinite, SumByClass
  <2>2. QED
    BY <2>1 DEF total
<1>8. r.weight = weight /\ r.total = total /\ r \in Results
  BY <1>2, <1>4, <1>5, <1>6 DEF Results
<1>9. QED
  BY <1>7, <1>8 DEF GoodResult, r

\* Weights, and a provider's result, in a unit that is n times smaller.
WeightsScale(v, n, w, rows) == \A i \in rows : w[i] \in Int /\ v[i] = n * w[i]
ResultScales(s, n, r) == s.total = n * r.total /\ \A t \in Tickers : s.weight[t] = n * r.weight[t]

\* normalize_weights does not depend on the unit of the weights.
LEMMA NormalizedScales ==
  ASSUME NEW f, NEW g, NEW rows, IsFiniteSet(rows), \A i \in rows : g[i].ticker = f[i].ticker,
         NEW n \in Nat \ {0}, NEW w, NEW v, WeightsScale(v, n, w, rows),
         Normalized(f, rows, w) # Failed
  PROVE  ResultScales(Normalized(g, rows, v), n, Normalized(f, rows, w))
<1> DEFINE kept == {i \in rows : w[i] > 0}
           part(t) == {i \in kept : f[i].ticker = t}
           r == Normalized(f, rows, w)
<1> USE DEF WeightsScale
<1>1. \A i \in rows : (n * w[i] > 0 <=> w[i] > 0) /\ n \in Int
  <2> SUFFICES ASSUME NEW i \in rows PROVE n * w[i] > 0 <=> w[i] > 0
    OBVIOUS
  <2> DEFINE m == w[i]
  <2>1. m \in Int
    OBVIOUS
  <2> HIDE DEF m
  <2>2. n * m > 0 <=> m > 0
    BY <2>1
  <2>3. QED
    BY <2>2 DEF m
<1>2. {i \in rows : v[i] > 0} = kept
  BY <1>1
<1>3. kept # {} /\ r = [weight |-> [t \in Tickers |-> SumFunctionOnSet(w, part(t))],
                      total  |-> SumFunctionOnSet(w, kept)]
  BY DEF Normalized
<1>4. \A t : {i \in kept : g[i].ticker = t} = part(t)
  OBVIOUS
<1>5. IsFiniteSet(kept) /\ kept \in SUBSET rows /\ \A t : part(t) \in SUBSET kept
  BY FS_Subset
<1> HIDE DEF kept, part
<1>6. Normalized(g, rows, v) = [weight |-> [t \in Tickers |-> SumFunctionOnSet(v, part(t))],
                                total  |-> SumFunctionOnSet(v, kept)]
  BY <1>2, <1>3, <1>4 DEF Normalized
<1>7. ASSUME NEW T \in SUBSET kept PROVE SumFunctionOnSet(v, T) = n * SumFunctionOnSet(w, T)
  <2>1. IsFiniteSet(T) /\ n \in Int /\ \A i \in T : w[i] \in Int /\ v[i] = n * w[i]
    BY <1>5, FS_Subset
  <2>2. QED
    BY <2>1, SumScales
<1>8. SumFunctionOnSet(v, kept) = n * r.total
  BY <1>3, <1>7
<1>9. \A t \in Tickers : SumFunctionOnSet(v, part(t)) = n * r.weight[t]
  BY <1>3, <1>5, <1>7
<1> HIDE DEF r
<1>10. QED
  BY <1>6, <1>8, <1>9 DEF r, ResultScales

\* The rows a provider adds up, and the weights it reads in them.
CsvRows(f)     == {i \in DOMAIN f : f[i].ticker # Blank}
ISharesRows(f) == {i \in Equities(f) : f[i].weight \notin {Empty, Bad}}

\* The rows the providers take are rows of the file.
LEMMA RowsAreRead ==
  ASSUME NEW f \in Seq(Rows)
  PROVE  /\ IsFiniteSet(DOMAIN f)
         /\ \A i \in DOMAIN f : /\ f[i].ticker \in Tickers \cup {Blank}
                               /\ f[i].weight \in Int \cup {Empty, Absent, Bad}
         /\ IsFiniteSet(CsvRows(f)) /\ IsFiniteSet(ISharesRows(f))
         /\ CsvRows(f) \in SUBSET DOMAIN f /\ ISharesRows(f) \in SUBSET DOMAIN f
         /\ \A i \in CsvRows(f) \cup ISharesRows(f) : f[i].ticker \in Tickers
<1>1. DOMAIN f = 1..Len(f) /\ Len(f) \in Nat /\ \A i \in DOMAIN f : f[i] \in Rows
  OBVIOUS
<1>2. IsFiniteSet(DOMAIN f)
  BY <1>1, FS_Interval
<1>3. \A i \in DOMAIN f : /\ f[i].ticker \in Tickers \cup {Blank}
                         /\ f[i].weight \in Int \cup {Empty, Absent, Bad}
  BY <1>1 DEF Rows
<1>4. CsvRows(f) \in SUBSET DOMAIN f /\ ISharesRows(f) \in SUBSET DOMAIN f
  BY DEF CsvRows, ISharesRows, Equities, DataRows
<1>5. \A i \in CsvRows(f) : f[i].ticker # Blank
  BY DEF CsvRows
<1>6. \A i \in ISharesRows(f) : f[i].ticker # Blank
  BY <1>1 DEF ISharesRows, Equities, DataRows
<1>7. QED
  BY <1>2, <1>3, <1>4, <1>5, <1>6, FS_Subset

\* What is fetched, of a file that can be.
LEMMA FetchCases ==
  ASSUME NEW index, NEW f \in Seq(Rows)
  PROVE  Fetch(index, f) = IF index.provider = "csv" THEN CsvFetch(f) ELSE ISharesFetch(f)
BY SentinelAssumption DEF Fetch

\* What the csv provider takes for weights are numbers,
LEMMA CsvWeights ==
  ASSUME NEW f \in Seq(Rows), CsvFetch(f) # Failed
  PROVE  LET w == [i \in CsvRows(f) |-> CsvWeight(f[i])]
         IN  /\ CsvFetch(f) = Normalized(f, CsvRows(f), w)
             /\ \A i \in CsvRows(f) : f[i].weight # Bad /\ w[i] \in Int
<1>1. \A i \in CsvRows(f) : f[i].weight # Bad
  BY DEF CsvFetch, CsvRows
<1>2. CsvFetch(f) = Normalized(f, CsvRows(f), [i \in CsvRows(f) |-> CsvWeight(f[i])])
  BY DEF CsvFetch, CsvRows
<1>3. \A i \in CsvRows(f) : CsvWeight(f[i]) \in Int
  BY <1>1, RowsAreRead DEF CsvWeight
<1>4. QED
  BY <1>1, <1>2, <1>3

\* and so are those of the iShares provider.
LEMMA ISharesWeights ==
  ASSUME NEW f \in Seq(Rows), ISharesFetch(f) # Failed
  PROVE  LET w == [i \in ISharesRows(f) |-> f[i].weight]
         IN  /\ ISharesFetch(f) = Normalized(f, ISharesRows(f), w)
             /\ \A i \in Equities(f) : f[i].weight # Absent
             /\ \A i \in ISharesRows(f) : f[i].weight \in Int /\ w[i] \in Int
<1>1. \A i \in Equities(f) : f[i].weight # Absent
  BY DEF ISharesFetch
<1>2. ISharesFetch(f) = Normalized(f, ISharesRows(f), [i \in ISharesRows(f) |-> f[i].weight])
  BY <1>1 DEF ISharesFetch, ISharesRows
<1>3. \A i \in ISharesRows(f) : i \in Equities(f) /\ f[i].weight \notin {Empty, Bad}
  BY DEF ISharesRows
<1>4. \A i \in ISharesRows(f) : f[i].weight \in Int
  BY <1>1, <1>3, RowsAreRead
<1>5. QED
  BY <1>1, <1>2, <1>4

\* Whatever a provider does not refuse has weights that add up to their total.
LEMMA FetchIsGood ==
  ASSUME NEW index, NEW f \in Files \cup {Unreadable, NoHeader}, Fetch(index, f) # Failed
  PROVE  f \in Seq(Rows) /\ GoodResult(Fetch(index, f))
<1>1. f \in Seq(Rows)
  BY FilesAssumption DEF Fetch
<1>2. CASE index.provider = "csv"
  <2> DEFINE w == [i \in CsvRows(f) |-> CsvWeight(f[i])]
  <2>1. Fetch(index, f) = CsvFetch(f) /\ CsvFetch(f) # Failed
    BY <1>1, <1>2, FetchCases
  <2>2. CsvFetch(f) = Normalized(f, CsvRows(f), w) /\ \A i \in CsvRows(f) : w[i] \in Int
    BY <1>1, <2>1, CsvWeights
  <2>3. IsFiniteSet(CsvRows(f)) /\ \A i \in CsvRows(f) : f[i].ticker \in Tickers
    BY <1>1, RowsAreRead
  <2> HIDE DEF w
  <2>4. QED
    BY <1>1, <2>1, <2>2, <2>3, NormalizedIsGood
<1>3. CASE index.provider # "csv"
  <2> DEFINE w == [i \in ISharesRows(f) |-> f[i].weight]
  <2>1. Fetch(index, f) = ISharesFetch(f) /\ ISharesFetch(f) # Failed
    BY <1>1, <1>3, FetchCases
  <2>2. ISharesFetch(f) = Normalized(f, ISharesRows(f), w) /\ \A i \in ISharesRows(f) : w[i] \in Int
    BY <1>1, <2>1, ISharesWeights
  <2>3. IsFiniteSet(ISharesRows(f)) /\ \A i \in ISharesRows(f) : f[i].ticker \in Tickers
    BY <1>1, RowsAreRead
  <2> HIDE DEF w
  <2>4. QED
    BY <1>1, <2>1, <2>2, <2>3, NormalizedIsGood
<1>4. QED
  BY <1>2, <1>3

\* normalize_weights leaves out what has no weight, and nothing else.
LEMMA NormalizedCounts ==
  ASSUME NEW f, NEW rows, IsFiniteSet(rows), NEW w, \A i \in rows : w[i] \in Int,
         Normalized(f, rows, w) # Failed, NEW t \in Tickers
  PROVE  Normalized(f, rows, w).weight[t] > 0 <=> \E i \in rows : f[i].ticker = t /\ w[i] > 0
<1> DEFINE part == {i \in {i \in rows : w[i] > 0} : f[i].ticker = t}
<1>1. Normalized(f, rows, w).weight[t] = SumFunctionOnSet(w, part)
  BY DEF Normalized
<1>2. IsFiniteSet(part) /\ \A i \in part : w[i] \in Nat /\ w[i] > 0
  BY FS_Subset
<1>3. (\E i \in rows : f[i].ticker = t /\ w[i] > 0) <=> (\E i \in part : w[i] > 0)
  OBVIOUS
<1> HIDE DEF part
<1>4. SumFunctionOnSet(w, part) > 0 <=> \E i \in part : w[i] > 0
  BY <1>2, SumPositive
<1>5. QED
  BY <1>1, <1>3, <1>4

\* What a provider hands on of a file is what is listed there.
LEMMA FetchCountsListed ==
  ASSUME NEW index, NEW f \in Seq(Rows), Fetch(index, f) # Failed, NEW t \in Tickers
  PROVE  Fetch(index, f).weight[t] > 0 <=> t \in Listed(index, f)
<1>0. /\ \A i \in DOMAIN f : f[i].weight \in Int \cup {Empty, Absent, Bad}
      /\ t # Blank /\ \A n \in Int : n \notin {Empty, Absent, Bad}
  BY RowsAreRead, SentinelAssumption
<1>1. CASE index.provider = "csv"
  <2> DEFINE w == [i \in CsvRows(f) |-> CsvWeight(f[i])]
  <2>1. Fetch(index, f) = CsvFetch(f) /\ CsvFetch(f) # Failed
    BY <1>1, FetchCases
  <2>2. /\ CsvFetch(f) = Normalized(f, CsvRows(f), w)
        /\ \A i \in CsvRows(f) : f[i].weight # Bad /\ w[i] \in Int
    BY <2>1, CsvWeights
  <2>3. IsFiniteSet(CsvRows(f)) /\ CsvRows(f) \in SUBSET DOMAIN f
    BY RowsAreRead
  <2>4. \A i \in CsvRows(f) : w[i] > 0 <=> f[i].weight \in Int /\ f[i].weight > 0
    <3>1. \A i \in CsvRows(f) : w[i] = CsvWeight(f[i])
      OBVIOUS
    <3> HIDE DEF w
    <3>2. QED
      BY <1>0, <2>2, <2>3, <3>1 DEF CsvWeight
  <2> HIDE DEF w
  <2>5. Fetch(index, f).weight[t] > 0 <=> \E i \in CsvRows(f) : f[i].ticker = t /\ w[i] > 0
    BY <2>1, <2>2, <2>3, NormalizedCounts
  <2>6. \A i \in DOMAIN f : f[i].ticker = t => i \in CsvRows(f)
    BY <1>0 DEF CsvRows
  <2>7. QED
    BY <1>1, <2>3, <2>4, <2>5, <2>6 DEF Listed
<1>2. CASE index.provider # "csv"
  <2> DEFINE w == [i \in ISharesRows(f) |-> f[i].weight]
  <2>1. Fetch(index, f) = ISharesFetch(f) /\ ISharesFetch(f) # Failed
    BY <1>2, FetchCases
  <2>2. /\ ISharesFetch(f) = Normalized(f, ISharesRows(f), w)
        /\ \A i \in ISharesRows(f) : f[i].weight \in Int /\ w[i] \in Int
    BY <2>1, ISharesWeights
  <2>3. IsFiniteSet(ISharesRows(f)) /\ ISharesRows(f) \in SUBSET DOMAIN f
    BY RowsAreRead
  <2>4. \A i \in ISharesRows(f) : w[i] = f[i].weight
    OBVIOUS
  <2> HIDE DEF w
  <2>5. Fetch(index, f).weight[t] > 0 <=> \E i \in ISharesRows(f) : f[i].ticker = t /\ w[i] > 0
    BY <2>1, <2>2, <2>3, NormalizedCounts
  <2>6. \A i \in DOMAIN f :
          i \in ISharesRows(f) <=>
            /\ f[i].weight \notin {Empty, Bad}
            /\ f[i].ticker \notin Dotted \cup {CashLine} /\ f[i].asset # "other"
            /\ \A j \in 1..i : f[j].ticker # Blank
    BY DEF ISharesRows, Equities, DataRows
  <2>7. t \in Listed(index, f) <=>
          \E i \in DOMAIN f : /\ f[i].ticker = t /\ f[i].weight \in Int /\ f[i].weight > 0
                              /\ f[i].ticker \notin Dotted \cup {CashLine} /\ f[i].asset # "other"
                              /\ \A j \in 1..i : f[j].ticker # Blank
    BY <1>2 DEF Listed
  <2>8. \A i \in DOMAIN f : f[i].weight \in Int => f[i].weight \notin {Empty, Bad}
    BY <1>0
  <2>9. QED
    BY <2>2, <2>3, <2>4, <2>5, <2>6, <2>7, <2>8
<1>3. QED
  BY <1>1, <1>2

\* A file in another unit has the same rows, and its readable weights scaled.
LEMMA ScaledRows ==
  ASSUME NEW f \in Seq(Rows), NEW n \in Nat \ {0}
  PROVE  LET g == Scaled(f, n)
         IN  /\ g \in Seq(Rows) /\ DOMAIN g = DOMAIN f
             /\ \A i \in DOMAIN f :
                  /\ g[i].ticker = f[i].ticker /\ g[i].asset = f[i].asset
                  /\ f[i].weight \in {Empty, Absent, Bad} => g[i].weight = f[i].weight
                  /\ f[i].weight \notin {Empty, Absent, Bad} =>
                       /\ f[i].weight \in Int /\ g[i].weight = n * f[i].weight
                       /\ g[i].weight \notin {Empty, Absent, Bad}
<1> DEFINE g == Scaled(f, n)
<1>1. DOMAIN f = 1..Len(f) /\ Len(f) \in Nat /\ \A i \in DOMAIN f : f[i] \in Rows
  OBVIOUS
<1>2. DOMAIN g = DOMAIN f /\ g = [i \in DOMAIN f |-> g[i]]
  BY DEF Scaled
<1>3. \A i \in DOMAIN f :
        g[i] = [f[i] EXCEPT !.weight =
                  IF f[i].weight \in {Empty, Absent, Bad} THEN f[i].weight ELSE n * f[i].weight]
  BY DEF Scaled
<1> HIDE DEF g
<1>4. ASSUME NEW i \in DOMAIN f
      PROVE  /\ g[i] \in Rows
             /\ g[i].ticker = f[i].ticker /\ g[i].asset = f[i].asset
             /\ f[i].weight \in {Empty, Absent, Bad} => g[i].weight = f[i].weight
             /\ f[i].weight \notin {Empty, Absent, Bad} =>
                  /\ f[i].weight \in Int /\ g[i].weight = n * f[i].weight
                  /\ g[i].weight \notin {Empty, Absent, Bad}
  <2> DEFINE r == f[i]
             m == n * r.weight
  <2>1. r \in Rows
    BY <1>1
  <2>2. r.weight \notin {Empty, Absent, Bad} => r.weight \in Int /\ m \in Int
    <3>1. r.weight \notin {Empty, Absent, Bad} => r.weight \in Int
      BY <2>1 DEF Rows
    <3>2. QED
      BY <3>1
  <2>3. g[i] = [r EXCEPT !.weight = IF r.weight \in {Empty, Absent, Bad} THEN r.weight ELSE m]
    BY <1>3
  <2> HIDE DEF r, m
  <2>4. g[i] \in Rows /\ g[i].ticker = r.ticker /\ g[i].asset = r.asset
        /\ g[i].weight = IF r.weight \in {Empty, Absent, Bad} THEN r.weight ELSE m
    BY <2>1, <2>2, <2>3 DEF Rows
  <2>5. \A k \in Int : k \notin {Empty, Absent, Bad}
    BY SentinelAssumption
  <2>6. QED
    BY <2>2, <2>4, <2>5 DEF r, m
<1>5. g \in Seq(Rows)
  <2>1. g \in [1..Len(f) -> Rows]
    BY <1>1, <1>2, <1>4
  <2>2. QED
    BY <1>1, <2>1, SeqDef
<1>6. QED
  BY <1>2, <1>4, <1>5 DEF g

\* "Weights may be fractions or percentages", whatever provider reads them.
LEMMA FetchScales ==
  ASSUME NEW index, NEW f \in Seq(Rows), NEW n \in Nat \ {0}, Fetch(index, f) # Failed
  PROVE  ResultScales(Fetch(index, Scaled(f, n)), n, Fetch(index, f))
<1> DEFINE g == Scaled(f, n)
<1>1. /\ g \in Seq(Rows) /\ DOMAIN g = DOMAIN f
      /\ \A i \in DOMAIN f :
           /\ g[i].ticker = f[i].ticker /\ g[i].asset = f[i].asset
           /\ f[i].weight \in {Empty, Absent, Bad} => g[i].weight = f[i].weight
           /\ f[i].weight \notin {Empty, Absent, Bad} =>
                /\ f[i].weight \in Int /\ g[i].weight = n * f[i].weight
                /\ g[i].weight \notin {Empty, Absent, Bad}
  BY ScaledRows
<1> HIDE DEF g
<1>2. CASE index.provider = "csv"
  <2> DEFINE rows == CsvRows(f)
             w == [i \in rows |-> CsvWeight(f[i])]
             v == [i \in rows |-> CsvWeight(g[i])]
  <2>1. /\ Fetch(index, f) = CsvFetch(f) /\ CsvFetch(f) # Failed
        /\ Fetch(index, g) = CsvFetch(g)
    BY <1>1, <1>2, FetchCases
  <2>2. /\ CsvFetch(f) = Normalized(f, rows, w)
        /\ \A i \in rows : f[i].weight # Bad /\ w[i] \in Int
    BY <2>1, CsvWeights
  <2>3. /\ IsFiniteSet(rows) /\ rows \in SUBSET DOMAIN f
        /\ \A i \in rows : g[i].ticker = f[i].ticker
    BY <1>1, RowsAreRead
  <2>4. CsvRows(g) = rows
    BY <1>1 DEF CsvRows
  <2>5. \A i \in rows : g[i].weight # Bad
    BY <1>1, <2>2, <2>3
  <2>6. CsvFetch(g) = Normalized(g, rows, v)
    <3>1. {i \in DOMAIN g : g[i].ticker # Blank} = rows
      BY <2>4 DEF CsvRows
    <3> HIDE DEF rows
    <3>2. QED
      BY <2>5, <3>1 DEF CsvFetch
  <2>7. \A i \in rows : v[i] = n * w[i]
    <3> SUFFICES ASSUME NEW i \in rows PROVE CsvWeight(g[i]) = n * CsvWeight(f[i])
      OBVIOUS
    <3>1. i \in DOMAIN f /\ f[i].weight # Bad
      BY <2>2, <2>3
    <3> HIDE DEF rows
    <3>2. CASE f[i].weight \in {Empty, Absent}
      BY <1>1, <3>1, <3>2 DEF CsvWeight
    <3>3. CASE f[i].weight \notin {Empty, Absent}
      BY <1>1, <3>1, <3>3 DEF CsvWeight
    <3>4. QED
      BY <3>2, <3>3
  <2> HIDE DEF w, v, rows
  <2>8. ResultScales(Normalized(g, rows, v), n, CsvFetch(f))
    <3>1. WeightsScale(v, n, w, rows)
      BY <2>2, <2>7 DEF WeightsScale
    <3>2. Normalized(f, rows, w) # Failed
      BY <2>1, <2>2
    <3>3. ResultScales(Normalized(g, rows, v), n, Normalized(f, rows, w))
      BY <2>3, <3>1, <3>2, NormalizedScales
    <3>4. QED
      BY <2>2, <3>3
  <2>9. QED
    BY <2>1, <2>6, <2>8 DEF g
<1>3. CASE index.provider # "csv"
  <2> DEFINE rows == ISharesRows(f)
             w == [i \in rows |-> f[i].weight]
             v == [i \in rows |-> g[i].weight]
  <2>1. /\ Fetch(index, f) = ISharesFetch(f) /\ ISharesFetch(f) # Failed
        /\ Fetch(index, g) = ISharesFetch(g)
    BY <1>1, <1>3, FetchCases
  <2>2. /\ ISharesFetch(f) = Normalized(f, rows, w)
        /\ \A i \in Equities(f) : f[i].weight # Absent
        /\ \A i \in rows : f[i].weight \in Int /\ w[i] \in Int
    BY <2>1, ISharesWeights
  <2>3. /\ IsFiniteSet(rows) /\ rows \in SUBSET DOMAIN f
        /\ \A i \in rows : g[i].ticker = f[i].ticker
    BY <1>1, RowsAreRead
  <2>4. DataRows(g) = DataRows(f)
    <3>1. \A i \in DOMAIN f : \A j \in 1..i : j \in DOMAIN f
      <4>1. DOMAIN f = 1..Len(f) /\ Len(f) \in Nat
        OBVIOUS
      <4>2. QED
        BY <4>1
    <3>2. QED
      BY <1>1, <3>1 DEF DataRows
  <2>5. Equities(g) = Equities(f) /\ \A i \in Equities(f) : i \in DOMAIN f
    BY <1>1, <2>4 DEF Equities, DataRows
  <2>6. \A i \in Equities(f) : g[i].weight # Absent
    BY <1>1, <2>2, <2>5
  <2>7. {i \in Equities(g) : g[i].weight \notin {Empty, Bad}} = rows
    BY <1>1, <2>5 DEF ISharesRows
  <2>8. ISharesFetch(g) = Normalized(g, rows, v)
    <3> HIDE DEF rows
    <3>1. QED
      BY <2>5, <2>6, <2>7 DEF ISharesFetch
  <2>9. \A i \in rows : v[i] = n * w[i]
    <3> SUFFICES ASSUME NEW i \in rows PROVE g[i].weight = n * f[i].weight
      OBVIOUS
    <3>1. i \in DOMAIN f /\ f[i].weight \in Int
      BY <2>2, <2>3
    <3> HIDE DEF rows
    <3>2. f[i].weight \notin {Empty, Absent, Bad}
      BY <3>1, SentinelAssumption
    <3>3. QED
      BY <1>1, <3>1, <3>2
  <2> HIDE DEF w, v, rows
  <2>10. ResultScales(Normalized(g, rows, v), n, ISharesFetch(f))
    <3>1. WeightsScale(v, n, w, rows)
      BY <2>2, <2>9 DEF WeightsScale
    <3>2. Normalized(f, rows, w) # Failed
      BY <2>1, <2>2
    <3>3. ResultScales(Normalized(g, rows, v), n, Normalized(f, rows, w))
      BY <2>3, <3>1, <3>2, NormalizedScales
    <3>4. QED
      BY <2>2, <3>3
  <2>11. QED
    BY <2>1, <2>8, <2>10 DEF g
<1>4. QED
  BY <1>2, <1>3

-----------------------------------------------------------------------------
(* The blend.  Each index contributes, over the common denominator, as much   *)
(* as it is allocated, whatever its weights are counted in.                   *)

Totals(c, res)   == [k \in DOMAIN c |-> res[k].total]
Others(c, res, k) == Product(Totals(c, res), DOMAIN c \ {k})
Terms(c, res, t) == [k \in DOMAIN c |-> c[k].allocation * res[k].weight[t] * Others(c, res, k)]
Allocations(c)   == [k \in DOMAIN c |-> c[k].allocation]

\* A configuration that was accepted, and a result for each index of it.
Blendable(c, res) ==
  /\ c \in Configs /\ Accepted(c)
  /\ \A k \in DOMAIN c : GoodResult(res[k])

\* What _parse_indexes lets through.
LEMMA AcceptedConfig ==
  ASSUME NEW c \in Configs, Accepted(c)
  PROVE  /\ IsFiniteSet(DOMAIN c) /\ DOMAIN c # {}
         /\ \A k \in DOMAIN c : c[k].allocation \in Nat \ {0} /\ c[k].name \in Names
         /\ Allocated(c) = SumFunctionOnSet(Allocations(c), DOMAIN c)
         /\ Allocated(c) \in Nat /\ Allocated(c) <= W + Epsilon
<1> DEFINE a == Allocations(c)
<1>1. c \in Seq(Indexes) /\ c # <<>> /\ W \in Nat
  BY ConfigsAssumption, UnitAssumption DEF Accepted
<1>2. DOMAIN c = 1..Len(c) /\ Len(c) \in Nat /\ \A k \in DOMAIN c : c[k] \in Indexes
  BY <1>1
<1>3. IsFiniteSet(DOMAIN c) /\ DOMAIN c # {}
  <2>1. Len(c) \in Nat \ {0}
    BY <1>1, EmptySeq
  <2>2. IsFiniteSet(1..Len(c))
    BY <1>2, FS_Interval
  <2>3. 1 \in 1..Len(c)
    BY <2>1
  <2>4. QED
    BY <1>2, <2>2, <2>3
<1>4. \A k \in DOMAIN c : c[k].allocation \in Nat \ {0} /\ c[k].name \in Names
  BY <1>1, <1>2 DEF Accepted, Indexes
<1>5. DOMAIN a = DOMAIN c /\ \A k \in DOMAIN c : a[k] \in Nat
  BY <1>4 DEF Allocations
<1>6. Allocated(c) = SumFunctionOnSet(a, DOMAIN c)
  BY <1>5 DEF Allocated, SumFunction, Allocations
<1> HIDE DEF a
<1>7. SumFunctionOnSet(a, DOMAIN c) \in Nat
  BY <1>3, <1>5, SumNat
<1>8. QED
  BY <1>3, <1>4, <1>6, <1>7 DEF Accepted, a

\* blend_targets in terms of the sums and products above.
LEMMA BlendUnfolds ==
  ASSUME NEW c, NEW res
  PROVE  Blend(c, res) = [unit   |-> W * Product(Totals(c, res), DOMAIN c),
                          weight |-> [t \in Tickers |-> SumFunctionOnSet(Terms(c, res, t), DOMAIN c)]]
<1> DEFINE D == DOMAIN c
           totals == Totals(c, res)
           B == Blend(c, res)
<1>1. \A S : ProductOf(totals, S) = Product(totals, S)
  BY ProductUnfolds
<1>2. B = [unit   |-> W * ProductOf(totals, D),
           weight |-> [t \in Tickers |->
             SumFunction([k \in D |-> c[k].allocation * res[k].weight[t] * ProductOf(totals, D \ {k})])]]
  BY DEF Blend, totals, D, Totals
<1>3. \A t : [k \in D |-> c[k].allocation * res[k].weight[t] * ProductOf(totals, D \ {k})] = Terms(c, res, t)
  BY <1>1 DEF Terms, Others, totals, D
<1>4. ASSUME NEW t PROVE SumFunction(Terms(c, res, t)) = SumFunctionOnSet(Terms(c, res, t), D)
  <2> DEFINE f == Terms(c, res, t)
  <2>1. DOMAIN f = D
    BY DEF Terms
  <2> HIDE DEF f
  <2>2. SumFunction(f) = SumFunctionOnSet(f, D)
    BY <2>1 DEF SumFunction
  <2>3. QED
    BY <2>2 DEF f
<1> HIDE DEF B, D, totals
<1>5. B = [unit |-> W * Product(totals, D), weight |-> [t \in Tickers |-> SumFunctionOnSet(Terms(c, res, t), D)]]
  BY <1>1, <1>2, <1>3, <1>4
<1>6. QED
  BY <1>5 DEF B, D, totals

\* The blend of good results: its denominator, its weights and the terms they add up.
LEMMA BlendOf ==
  ASSUME NEW c, NEW res, Blendable(c, res)
  PROVE  /\ Product(Totals(c, res), DOMAIN c) \in Nat \ {0}
         /\ Blend(c, res).unit = W * Product(Totals(c, res), DOMAIN c)
         /\ Blend(c, res) \in [unit : Nat \ {0}, weight : [Tickers -> Nat]]
         /\ \A k \in DOMAIN c :
              /\ Others(c, res, k) \in Nat \ {0}
              /\ Product(Totals(c, res), DOMAIN c) = res[k].total * Others(c, res, k)
         /\ \A t \in Tickers :
              /\ Blend(c, res).weight[t] = SumFunctionOnSet(Terms(c, res, t), DOMAIN c)
              /\ \A k \in DOMAIN c : Terms(c, res, t)[k] \in Nat
              /\ \A k \in DOMAIN c : res[k].weight[t] > 0 <=> Terms(c, res, t)[k] > 0
<1> DEFINE D == DOMAIN c
           totals == Totals(c, res)
           P == Product(totals, D)
           R(k) == Product(totals, D \ {k})
           B == Blend(c, res)
<1>1. IsFiniteSet(D) /\ \A k \in D : c[k].allocation \in Nat \ {0}
  BY AcceptedConfig DEF Blendable
<1>2. \A k \in D : totals[k] = res[k].total /\ totals[k] \in Nat \ {0} /\ res[k].weight \in [Tickers -> Nat]
  BY DEF Totals, Blendable, GoodResult, Results
<1>3. \A k \in D : IsFiniteSet(D \ {k}) /\ \A j \in D \ {k} : totals[j] \in Nat \ {0}
  BY <1>1, <1>2, FS_Subset
<1> HIDE DEF totals, D
<1>4. P \in Nat \ {0}
  BY <1>1, <1>2, ProductPositive
<1>5. \A k \in D : R(k) \in Nat \ {0}
  BY <1>3, ProductPositive
<1>6. \A k \in D : P = totals[k] * R(k)
  BY <1>1, <1>2, ProductElement
<1>7. ASSUME NEW t \in Tickers, NEW k \in D
      PROVE  /\ Terms(c, res, t)[k] \in Nat
             /\ res[k].weight[t] > 0 <=> Terms(c, res, t)[k] > 0
  <2> DEFINE a == c[k].allocation
             w == res[k].weight[t]
             o == R(k)
  <2>1. Terms(c, res, t)[k] = (a * w) * o
    BY DEF Terms, Others, D, totals
  <2>2. a \in Nat \ {0} /\ w \in Nat /\ o \in Nat \ {0}
    BY <1>1, <1>2, <1>5
  <2> HIDE DEF a, w, o
  <2>3. a * w \in Nat /\ (w > 0 <=> a * w > 0)
    BY <2>2
  <2> DEFINE m == a * w
  <2> HIDE DEF m
  <2>4. m * o \in Nat /\ (m > 0 <=> m * o > 0)
    BY <2>2, <2>3 DEF m
  <2>5. QED
    BY <2>1, <2>3, <2>4 DEF m, w
<1>8. B = [unit |-> W * P, weight |-> [t \in Tickers |-> SumFunctionOnSet(Terms(c, res, t), D)]]
  BY BlendUnfolds DEF D, totals
<1>9. ASSUME NEW t \in Tickers PROVE SumFunctionOnSet(Terms(c, res, t), D) \in Nat
  <2> DEFINE f == Terms(c, res, t)
  <2>1. \A k \in D : f[k] \in Nat
    BY <1>7
  <2> HIDE DEF f
  <2>2. SumFunctionOnSet(f, D) \in Nat
    BY <1>1, <2>1, SumNat
  <2>3. QED
    BY <2>2 DEF f
<1>10. W * P \in Nat \ {0}
  BY <1>4, UnitAssumption
<1>11. \A t \in Tickers : B.weight[t] = SumFunctionOnSet(Terms(c, res, t), D)
  BY <1>8
<1>12. B \in [unit : Nat \ {0}, weight : [Tickers -> Nat]] /\ B.unit = W * P
  BY <1>8, <1>9, <1>10
<1>13. QED
  BY <1>2, <1>4, <1>5, <1>6, <1>7, <1>11, <1>12 DEF Others, D, totals

\* What is distributed is what is allocated.
LEMMA BlendAddsUp ==
  ASSUME NEW c, NEW res, Blendable(c, res)
  PROVE  W * SumFunction(Blend(c, res).weight) = Allocated(c) * Blend(c, res).unit
<1> DEFINE D == DOMAIN c
           P == Product(Totals(c, res), DOMAIN c)
           B == Blend(c, res)
           f == [k \in D |-> [t \in Tickers |-> Terms(c, res, t)[k]]]
           h == [t \in Tickers |-> Terms(c, res, t)]
           rows == [k \in D |-> SumFunctionOnSet(f[k], Tickers)]
           a == Allocations(c)
<1>1. IsFiniteSet(D) /\ \A k \in D : c[k].allocation \in Nat \ {0}
  BY AcceptedConfig DEF Blendable
<1>2. /\ P \in Nat \ {0} /\ B.unit = W * P /\ B.weight \in [Tickers -> Nat]
      /\ \A k \in D : Others(c, res, k) \in Nat \ {0} /\ P = res[k].total * Others(c, res, k)
      /\ \A t \in Tickers : B.weight[t] = SumFunctionOnSet(Terms(c, res, t), D)
      /\ \A t \in Tickers, k \in D : Terms(c, res, t)[k] \in Nat
  BY BlendOf
<1>3. /\ \A k \in D, t \in Tickers : f[k][t] = Terms(c, res, t)[k] /\ f[k][t] \in Int
      /\ \A k \in D : rows[k] = SumFunctionOnSet(f[k], Tickers)
  BY <1>2
<1> HIDE DEF rows
<1>4. \A t \in Tickers : /\ B.weight[t] = SumFunctionOnSet(h[t], D)
                        /\ \A k \in D : h[t][k] = f[k][t]
  BY <1>2, <1>3
<1>5. ASSUME NEW k \in D PROVE rows[k] = P * a[k] /\ a[k] \in Int
  <2> DEFINE q == c[k].allocation
             o == Others(c, res, k)
             w == res[k].weight
             m == q * o
             g == f[k]
             total == res[k].total
  <2>1. /\ q \in Nat \ {0} /\ o \in Nat \ {0} /\ P = total * o
        /\ a[k] = q /\ rows[k] = SumFunctionOnSet(g, Tickers)
    BY <1>1, <1>2, <1>3 DEF Allocations
  <2>2. w \in [Tickers -> Nat] /\ SumFunctionOnSet(w, Tickers) = total /\ total \in Nat
    BY DEF Blendable, GoodResult, Results
  <2>3. \A t \in Tickers : g[t] = (q * w[t]) * o
    BY <1>3 DEF Terms
  <2> HIDE DEF g, q, o, w, m, total
  <2>4. m \in Int /\ \A t \in Tickers : w[t] \in Int
    BY <2>1, <2>2 DEF m
  <2>5. ASSUME NEW t \in Tickers PROVE g[t] = m * w[t]
    <3> DEFINE x == w[t]
    <3>1. x \in Int /\ g[t] = (q * x) * o
      BY <2>3, <2>4
    <3> HIDE DEF x
    <3>2. (q * x) * o = (q * o) * x
      BY <2>1, <3>1
    <3>3. QED
      BY <3>1, <3>2 DEF m, x
  <2>6. \A t \in Tickers : w[t] \in Int /\ g[t] = m * w[t]
    BY <2>4, <2>5
  <2>7. SumFunctionOnSet(g, Tickers) = m * SumFunctionOnSet(w, Tickers)
    BY <2>4, <2>6, TickersAreFinite, SumScales
  <2>8. rows[k] = (q * o) * total
    BY <2>1, <2>2, <2>7 DEF m
  <2>9. (q * o) * total = (total * o) * q
    BY <2>1, <2>2
  <2>10. QED
    BY <2>1, <2>8, <2>9
<1>6. SumFunctionOnSet(rows, D) = SumFunctionOnSet(B.weight, Tickers)
  <2> DEFINE columns == B.weight
  <2>1. \A t \in Tickers : columns[t] = SumFunctionOnSet(h[t], D)
    BY <1>4
  <2>2. /\ \A k \in D, t \in Tickers : f[k][t] \in Int /\ h[t][k] = f[k][t]
        /\ \A k \in D : rows[k] = SumFunctionOnSet(f[k], Tickers)
    BY <1>3, <1>4
  <2> HIDE DEF columns, f, h, D, B
  <2>3. Table(f, h, D, Tickers, rows, columns)
    BY <2>1, <2>2 DEF Table
  <2>4. SumFunctionOnSet(rows, D) = SumFunctionOnSet(columns, Tickers)
    BY <1>1, <2>3, TickersAreFinite, SumSwap
  <2>5. QED
    BY <2>4 DEF columns
<1>7. SumFunctionOnSet(rows, D) = P * SumFunctionOnSet(a, D)
  <2> HIDE DEF P, a, D
  <2>1. P \in Int /\ \A k \in D : a[k] \in Int /\ rows[k] = P * a[k]
    BY <1>2, <1>5
  <2>2. QED
    BY <1>1, <2>1, SumScales
<1>8. /\ SumFunction(B.weight) = SumFunctionOnSet(B.weight, Tickers)
      /\ Allocated(c) = SumFunctionOnSet(a, D) /\ Allocated(c) \in Nat
  BY <1>2, AcceptedConfig DEF SumFunction, Blendable
<1> DEFINE total == Allocated(c)
<1>9. SumFunction(B.weight) = P * total /\ P \in Nat /\ total \in Nat /\ W \in Nat
  BY <1>2, <1>6, <1>7, <1>8, UnitAssumption
<1> HIDE DEF P, total, B
<1>10. W * (P * total) = total * (W * P)
  BY <1>9
<1>11. QED
  BY <1>2, <1>9, <1>10 DEF total, B

\* The blend has a target for what some index has a weight for.
LEMMA BlendCountsAll ==
  ASSUME NEW c, NEW res, Blendable(c, res), NEW t \in Tickers
  PROVE  Blend(c, res).weight[t] > 0 <=> \E k \in DOMAIN c : res[k].weight[t] > 0
<1> DEFINE f == Terms(c, res, t)
           D == DOMAIN c
<1>1. IsFiniteSet(D)
  BY AcceptedConfig DEF Blendable
<1>2. /\ Blend(c, res).weight[t] = SumFunctionOnSet(f, D)
      /\ \A k \in D : f[k] \in Nat
      /\ \A k \in D : res[k].weight[t] > 0 <=> f[k] > 0
  BY BlendOf
<1> HIDE DEF f, D
<1>3. SumFunctionOnSet(f, D) > 0 <=> \E k \in D : f[k] > 0
  BY <1>1, <1>2, SumPositive
<1>4. QED
  BY <1>2, <1>3 DEF D

\* The weights of one index in a smaller unit: the same targets, in a smaller unit.
LEMMA BlendScales ==
  ASSUME NEW c, NEW res, Blendable(c, res), NEW again, NEW n \in Nat \ {0}, NEW j \in DOMAIN c,
         ResultScales(again[j], n, res[j]), \A k \in DOMAIN c \ {j} : again[k] = res[k]
  PROVE  /\ Blend(c, again).unit = n * Blend(c, res).unit
         /\ \A t \in Tickers : Blend(c, again).weight[t] = n * Blend(c, res).weight[t]
<1> DEFINE D == DOMAIN c
           P == Product(Totals(c, res), D)
           old == Totals(c, res)
           new == Totals(c, again)
<1>1. IsFiniteSet(D) /\ \A k \in D : c[k].allocation \in Nat \ {0}
  BY AcceptedConfig DEF Blendable
<1>2. /\ \A k \in D : old[k] = res[k].total /\ new[k] = again[k].total
      /\ \A k \in D : old[k] \in Nat \ {0} /\ res[k].weight \in [Tickers -> Nat]
  BY DEF Totals, Blendable, GoodResult, Results
<1>3. (\A k \in D \ {j} : new[k] = old[k]) /\ new[j] = n * old[j] /\ j \in D
  BY <1>2 DEF ResultScales
<1>4. \A k \in D : IsFiniteSet(D \ {k})
  BY <1>1, FS_Subset
<1> HIDE DEF D, old, new
<1>5. Product(new, D) = n * Product(old, D)
  BY <1>1, <1>2, <1>3, ProductScales
<1>6. Product(new, D \ {j}) = Product(old, D \ {j})
  <2> DEFINE R == D \ {j}
  <2>1. IsFiniteSet(R) /\ \A x \in R : old[x] \in Nat \ {0} /\ new[x] = old[x]
    BY <1>2, <1>3, <1>4
  <2> HIDE DEF R
  <2>2. Product(new, R) = Product(old, R)
    BY <2>1, ProductSame
  <2>3. QED
    BY <2>2 DEF R
<1>7. ASSUME NEW k \in D, k # j PROVE Product(new, D \ {k}) = n * Product(old, D \ {k})
  <2> DEFINE R == D \ {k}
  <2>1. /\ IsFiniteSet(R) /\ j \in R /\ \A x \in R : old[x] \in Nat \ {0}
        /\ \A x \in R \ {j} : new[x] = old[x]
        /\ new[j] = n * old[j]
    BY <1>2, <1>3, <1>4, <1>7
  <2> HIDE DEF R
  <2>2. Product(new, R) = n * Product(old, R)
    BY <2>1, ProductScales
  <2>3. QED
    BY <2>2 DEF R
<1>8. ASSUME NEW t \in Tickers, NEW k \in D
      PROVE  Terms(c, again, t)[k] = n * Terms(c, res, t)[k] /\ Terms(c, res, t)[k] \in Int
  <2> DEFINE a == c[k].allocation
             w == res[k].weight[t]
             v == again[k].weight[t]
             o == Product(old, D \ {k})
             p == Product(new, D \ {k})
  <2>1. Terms(c, res, t)[k] = (a * w) * o /\ Terms(c, again, t)[k] = (a * v) * p
    BY DEF Terms, Others, D, old, new
  <2>2. a \in Int /\ w \in Int /\ o \in Int
    BY <1>1, <1>2, BlendOf DEF Others, D, old
  <2>3. (v = n * w /\ p = o) \/ (v = w /\ p = n * o)
    <3>1. CASE k = j
      BY <1>6, <3>1 DEF ResultScales
    <3>2. CASE k # j
      BY <1>7, <3>2 DEF D
    <3>3. QED
      BY <3>1, <3>2
  <2> HIDE DEF a, w, v, o, p
  <2>4. (a * (n * w)) * o = n * ((a * w) * o)
    BY <2>2
  <2>5. (a * w) * (n * o) = n * ((a * w) * o)
    BY <2>2
  <2>6. (a * w) * o \in Int
    BY <2>2
  <2>7. QED
    BY <2>1, <2>3, <2>4, <2>5, <2>6
<1>9. ASSUME NEW t \in Tickers
      PROVE  SumFunctionOnSet(Terms(c, again, t), D) = n * SumFunctionOnSet(Terms(c, res, t), D)
  <2> DEFINE f == Terms(c, res, t)
             g == Terms(c, again, t)
  <2>1. \A k \in D : f[k] \in Int /\ g[k] = n * f[k]
    BY <1>8
  <2>2. n \in Int
    OBVIOUS
  <2> HIDE DEF f, g
  <2>3. SumFunctionOnSet(g, D) = n * SumFunctionOnSet(f, D)
    BY <1>1, <2>1, <2>2, SumScales
  <2>4. QED
    BY <2>3 DEF f, g
<1>10. \A t \in Tickers : Blend(c, again).weight[t] = n * Blend(c, res).weight[t]
  BY <1>9, BlendUnfolds DEF D
<1>11. W * (n * P) = n * (W * P)
  <2>1. P \in Int /\ W \in Int
    BY BlendOf, UnitAssumption DEF D
  <2> HIDE DEF P
  <2>2. QED
    BY <2>1
<1>12. Blend(c, again).unit = W * (n * P) /\ Blend(c, res).unit = W * P
  BY <1>5, BlendUnfolds DEF D, old, new
<1>13. QED
  BY <1>10, <1>11, <1>12

-----------------------------------------------------------------------------
(* The command.  The inductive invariant: nothing is fetched from a           *)
(* configuration that was not accepted, fetched[k] is what the provider of    *)
(* the k-th index makes of its file, and the targets are the blend of all.    *)

Source(k) == files[config[k].name]

FetchedInOrder ==
  /\ fetched \in Seq(Results) /\ Len(fetched) <= Len(config)
  /\ \A k \in 1..Len(fetched) : fetched[k] # Failed /\ fetched[k] = Fetch(config[k], Source(k))

SourcesInv ==
  /\ config \in Configs
  /\ files \in [Names -> Files \cup {Unreadable, NoHeader}]
  /\ cache \in [Names -> Files \cup {Unreadable, NoHeader}]
  /\ phase \in {"config", "fetch", "done", "rejected", "failed"}
  /\ phase \in {"fetch", "done", "failed"} => Accepted(config)
  /\ FetchedInOrder
  /\ IF phase = "done" THEN Len(fetched) = Len(config) /\ targets = Blend(config, fetched)
                       ELSE targets = Failed

\* A configuration is a sequence.
LEMMA ConfigRows ==
  ASSUME NEW c \in Configs
  PROVE  c \in Seq(Indexes) /\ Len(c) \in Nat /\ DOMAIN c = 1..Len(c)
  BY ConfigsAssumption

\* What was fetched can be blended.
LEMMA FetchedIsGood ==
  ASSUME SourcesInv, phase \in {"fetch", "done"}, Len(fetched) = Len(config)
  PROVE  /\ Blendable(config, fetched)
         /\ \A k \in DOMAIN config : /\ fetched[k] = Fetch(config[k], Source(k))
                                     /\ fetched[k] # Failed
                                     /\ Source(k) \in Seq(Rows)
<1>1. config \in Configs /\ Accepted(config) /\ DOMAIN config = 1..Len(fetched)
  BY ConfigRows DEF SourcesInv
<1>2. ASSUME NEW k \in DOMAIN config
      PROVE  /\ fetched[k] = Fetch(config[k], Source(k)) /\ fetched[k] # Failed
             /\ Source(k) \in Seq(Rows) /\ GoodResult(fetched[k])
  <2>1. fetched[k] # Failed /\ fetched[k] = Fetch(config[k], Source(k))
    BY <1>1 DEF SourcesInv, FetchedInOrder
  <2>2. Source(k) \in Files \cup {Unreadable, NoHeader}
    BY <1>1, AcceptedConfig DEF SourcesInv, Source
  <2>3. QED
    BY <2>1, <2>2, FetchIsGood
<1>3. QED
  BY <1>1, <1>2 DEF Blendable

\* SourcesInv holds at the start,
LEMMA SourcesInvStarts == Init => SourcesInv
<1> SUFFICES ASSUME Init PROVE SourcesInv
  OBVIOUS
<1>1. fetched = <<>> /\ fetched \in Seq(Results) /\ Len(fetched) = 0
  BY DEF Init
<1>2. Len(config) \in Nat
  BY ConfigRows DEF Init
<1>3. FetchedInOrder
  BY <1>1, <1>2 DEF FetchedInOrder
<1>4. QED
  BY <1>3 DEF Init, SourcesInv

\* every step keeps it,
LEMMA SourcesInvStep == SourcesInv /\ [Next]_vars => SourcesInv'
<1> SUFFICES ASSUME SourcesInv, [Next]_vars PROVE SourcesInv'
  OBVIOUS
<1>1. CASE LoadConfig
  BY <1>1 DEF LoadConfig, SourcesInv, FetchedInOrder, Source
<1>2. CASE FetchNext
  <2> DEFINE n == Len(fetched)
             index == config[n + 1]
             result == Fetch(index, Source(n + 1))
  <2>1. /\ phase = "fetch" /\ n < Len(config) /\ n \in Nat /\ Accepted(config) /\ config \in Configs
        /\ UNCHANGED <<config, files, targets>>
    BY <1>2 DEF FetchNext, SourcesInv, FetchedInOrder
  <2>2. n + 1 \in DOMAIN config
    BY <2>1, ConfigRows
  <2>3. index.name \in Names /\ Source(n + 1) \in Files \cup {Unreadable, NoHeader}
    BY <2>1, <2>2, AcceptedConfig DEF SourcesInv, Source
  <2>4. cache' \in [Names -> Files \cup {Unreadable, NoHeader}]
    BY <1>2, <2>3 DEF FetchNext, SourcesInv, Source
  <2>5. \/ result = Failed /\ phase' = "failed" /\ fetched' = fetched
        \/ result # Failed /\ phase' = phase /\ fetched' = Append(fetched, result)
    BY <1>2 DEF FetchNext, Source
  <2>6. FetchedInOrder'
    <3>1. CASE fetched' = fetched
      BY <2>1, <3>1 DEF FetchedInOrder, SourcesInv, Source
    <3>2. CASE result # Failed /\ fetched' = Append(fetched, result)
      <4>1. result \in Results
        BY <2>3, <3>2, FetchIsGood DEF GoodResult
      <4>2. fetched \in Seq(Results)
        BY DEF SourcesInv, FetchedInOrder
      <4> HIDE DEF result
      <4>3. /\ fetched' \in Seq(Results) /\ Len(fetched') = n + 1
            /\ fetched'[n + 1] = result /\ \A k \in 1..n : fetched'[k] = fetched[k]
        BY <3>2, <4>1, <4>2
      <4>4. ASSUME NEW k \in 1..(n + 1)
            PROVE  fetched'[k] # Failed /\ fetched'[k] = Fetch(config[k], Source(k))
        <5>1. CASE k = n + 1
          BY <3>2, <4>3, <5>1 DEF result
        <5>2. CASE k \in 1..n
          BY <4>3, <5>2 DEF SourcesInv, FetchedInOrder
        <5>3. QED
          BY <2>1, <5>1, <5>2
      <4>5. Len(config) \in Nat /\ config' = config /\ files' = files
        BY <2>1, ConfigRows
      <4>6. QED
        BY <2>1, <4>3, <4>4, <4>5 DEF FetchedInOrder, Source
    <3>3. QED
      BY <2>5, <3>1, <3>2
  <2>7. QED
    BY <2>1, <2>4, <2>5, <2>6 DEF SourcesInv
<1>3. CASE BlendTargets
  BY <1>3 DEF BlendTargets, SourcesInv, FetchedInOrder, Source
<1>4. CASE UNCHANGED vars
  BY <1>4 DEF vars, SourcesInv, FetchedInOrder, Source
<1>5. QED
  BY <1>1, <1>2, <1>3, <1>4 DEF Next

\* and so it is an invariant.
LEMMA SourcesInvHolds == Spec => []SourcesInv
  BY SourcesInvStarts, SourcesInvStep, PTL DEF Spec

\* TypeOK, of every configuration: what is fetched and blended has the shape
\* that the trading commands read.
THEOREM SourcesTypeCorrect == Spec => []TypeOK
<1>1. SourcesInv => TypeOK
  <2> SUFFICES ASSUME SourcesInv PROVE TypeOK
    OBVIOUS
  <2>1. targets \in [unit : Nat \ {0}, weight : [Tickers -> Nat]] \cup {Failed}
    <3>1. CASE phase = "done"
      BY <3>1, FetchedIsGood, BlendOf DEF SourcesInv
    <3>2. CASE phase # "done"
      BY <3>2 DEF SourcesInv
    <3>3. QED
      BY <3>1, <3>2
  <2>2. QED
    BY <2>1 DEF SourcesInv, FetchedInOrder, TypeOK
<1>2. QED
  BY <1>1, SourcesInvHolds, PTL

\* blend_targets distributes exactly the allocated share of the portfolio,
\* and _parse lets no configuration through that allocates more than there is.
THEOREM TargetsAddUpHolds == Spec => []TargetsAddUp
<1>1. SourcesInv => TargetsAddUp
  <2> SUFFICES ASSUME SourcesInv, phase = "done"
               PROVE  /\ W * SumFunction(targets.weight) = Allocated(config) * targets.unit
                      /\ Allocated(config) <= W + Epsilon
    BY DEF TargetsAddUp
  <2>1. Blendable(config, fetched) /\ targets = Blend(config, fetched)
    BY FetchedIsGood DEF SourcesInv
  <2>2. Allocated(config) <= W + Epsilon
    BY <2>1 DEF Blendable, Accepted
  <2>3. QED
    BY <2>1, <2>2, BlendAddsUp
<1>2. QED
  BY <1>1, SourcesInvHolds, PTL

\* TargetsMatchListings: there are targets only of files that could be read, for
\* what one of them lists and for nothing else.
THEOREM TargetsMatchListingsHolds == Spec => []TargetsMatchListings
<1>1. SourcesInv => TargetsMatchListings
  <2> SUFFICES ASSUME SourcesInv, phase = "done"
               PROVE  /\ \A k \in DOMAIN config : Source(k) \notin {Unreadable, NoHeader}
                      /\ \A t \in Tickers :
                           targets.weight[t] > 0 <=>
                             \E k \in DOMAIN config : t \in Listed(config[k], Source(k))
    BY DEF TargetsMatchListings, Source
  <2>1. /\ Blendable(config, fetched) /\ targets = Blend(config, fetched)
        /\ \A k \in DOMAIN config : /\ fetched[k] = Fetch(config[k], Source(k))
                                    /\ fetched[k] # Failed
                                    /\ Source(k) \in Seq(Rows)
    BY FetchedIsGood DEF SourcesInv
  <2>2. \A k \in DOMAIN config : Source(k) \notin {Unreadable, NoHeader}
    BY <2>1, SentinelAssumption
  <2>3. ASSUME NEW t \in Tickers, NEW k \in DOMAIN config
        PROVE  fetched[k].weight[t] > 0 <=> t \in Listed(config[k], Source(k))
    BY <2>1, FetchCountsListed
  <2>4. \A t \in Tickers :
          targets.weight[t] > 0 <=> \E k \in DOMAIN config : fetched[k].weight[t] > 0
    BY <2>1, BlendCountsAll
  <2>5. QED
    BY <2>2, <2>3, <2>4
<1>2. QED
  BY <1>1, SourcesInvHolds, PTL

\* The targets are the same with the weights of the j-th index in a unit n times smaller.
SameTargets(j, n) ==
  LET Refetched(k) == Fetch(config[k], IF k = j THEN Scaled(files[config[k].name], n)
                                                ELSE files[config[k].name])
      again == Blend(config, [k \in DOMAIN config |-> Refetched(k)])
  IN  \A t \in Tickers : again.weight[t] * targets.unit = targets.weight[t] * again.unit

\* The fetches of one index scale, and with them the blend: a common factor.
LEMMA UnitsDoNotMatter ==
  ASSUME SourcesInv, phase = "done", NEW j \in DOMAIN config, NEW n \in Nat \ {0}
  PROVE  SameTargets(j, n)
<1> DEFINE Refetched(k) == Fetch(config[k], IF k = j THEN Scaled(files[config[k].name], n)
                                                    ELSE files[config[k].name])
           res == [k \in DOMAIN config |-> Refetched(k)]
           again == Blend(config, res)
<1> SUFFICES ASSUME NEW t \in Tickers
             PROVE  again.weight[t] * targets.unit = targets.weight[t] * again.unit
  BY DEF SameTargets
<1>1. /\ Blendable(config, fetched) /\ targets = Blend(config, fetched)
      /\ \A k \in DOMAIN config : /\ fetched[k] = Fetch(config[k], Source(k))
                                  /\ fetched[k] # Failed /\ Source(k) \in Seq(Rows)
  BY FetchedIsGood DEF SourcesInv
<1>2. res[j] = Fetch(config[j], Scaled(Source(j), n))
  BY DEF Source
<1>3. ResultScales(res[j], n, fetched[j])
  BY <1>1, <1>2, FetchScales
<1>4. \A k \in DOMAIN config \ {j} : res[k] = fetched[k]
  BY <1>1 DEF Source
<1> HIDE DEF res
<1>5. again.unit = n * targets.unit /\ again.weight[t] = n * targets.weight[t]
  BY <1>1, <1>3, <1>4, BlendScales
<1> DEFINE w == targets.weight[t]
           u == targets.unit
<1>6. w \in Nat /\ u \in Nat
  BY <1>1, BlendOf
<1> HIDE DEF w, u, again
<1>7. (n * w) * u = w * (n * u)
  BY <1>6
<1>8. QED
  BY <1>5, <1>7 DEF w, u

\* normalize_weights takes weights in any unit, percentages for fractions among
\* others (n = 100): every file may have its own, the targets do not change.
THEOREM AnyUnitOfWeights ==
  Spec => [](phase = "done" => \A j \in DOMAIN config, n \in Nat \ {0} : SameTargets(j, n))
<1>1. SourcesInv => (phase = "done" => \A j \in DOMAIN config, n \in Nat \ {0} : SameTargets(j, n))
  BY UnitsDoNotMatter
<1>2. QED
  BY <1>1, SourcesInvHolds, PTL

\* The property of the run, with n = 10.
THEOREM UnitOfWeightsIsIrrelevantHolds == Spec => []UnitOfWeightsIsIrrelevant
<1>1. SourcesInv => UnitOfWeightsIsIrrelevant
  <2>1. 10 \in Nat \ {0}
    OBVIOUS
  <2>2. SourcesInv /\ phase = "done" => \A j \in DOMAIN config : SameTargets(j, 10)
    BY <2>1, UnitsDoNotMatter
  <2>3. QED
    BY <2>2 DEF SameTargets, UnitOfWeightsIsIrrelevant
<1>2. QED
  BY <1>1, SourcesInvHolds, PTL
=============================================================================
