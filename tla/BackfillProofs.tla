--------------------------- MODULE BackfillProofs -----------------------------
(***************************************************************************)
(* What a shard of `pcds backfill` and the walk around it promise, for any *)
(* stations, histories, periods and ranges, whatever order the results     *)
(* land in, however often a writer rolls and wherever a run fails or dies: *)
(* files are sorted, a saved watermark stands over complete data, and a    *)
(* repetition loses only rows of stations that fail in it and, where it or *)
(* a compaction dies, rows that were out of the archive at that moment.    *)
(***************************************************************************)
EXTENDS Backfill, SequenceTheorems, FiniteSetTheorems, WellFoundedInduction, TLAPS

-------------------------------------------------------------------------------
(* Sequences of stations and of tables *)

LEMMA LeastNatural ==
    ASSUME NEW T \in SUBSET Nat, T # {}
    PROVE  \E n \in T : \A m \in T : n <= m
<1> DEFINE Less == OpToRel(<, Nat)
<1>1. IsWellFoundedOn(Less, Nat)
    BY NatLessThanWellFounded
<1>2. \A m, n \in Nat : m < n => <<m, n>> \in Less
    BY Zenon DEF OpToRel
<1> HIDE DEF Less
<1>3. PICK n \in T : \A m \in T : ~ (<<m, n>> \in Less)
    BY <1>1, WFMin
<1>4. \A m \in T : m \in Nat /\ ~ (m < n)
    BY <1>2, <1>3, Zenon
<1> QED
    BY <1>4

(* There is a last station in any set of some; the least number of stations *)
(* without a last one would leave one fewer without.                        *)
LEMMA LastStation ==
    ASSUME NEW S \in SUBSET Stations, S # {}
    PROVE  \E m \in S : \A s \in S : s <= m
<1> DEFINE Endless(X) == X # {} /\ \A m \in X : \E s \in X : ~ (s <= m)
           T == {n \in Nat : \E X \in SUBSET Stations : Cardinality(X) = n /\ Endless(X)}
<1>1. \A X \in SUBSET Stations :
         IsFiniteSet(X) /\ Cardinality(X) \in Nat /\ X \subseteq Int
    BY BackfillAssumption, FS_Subset, FS_CardinalityType
<1>2. SUFFICES ASSUME Endless(S) PROVE FALSE
    OBVIOUS
<1>3. T \in SUBSET Nat /\ T # {}
    BY <1>1, <1>2
<1>4. PICK n \in T : \A m \in T : n <= m
    BY <1>3, LeastNatural
<1>5. PICK X \in SUBSET Stations : Cardinality(X) = n /\ Endless(X)
    BY <1>4
<1>6. PICK x \in X : TRUE
    BY <1>5
<1>7. Cardinality(X \ {x}) = n - 1 /\ Cardinality(X \ {x}) \in Nat
    BY <1>1, <1>5, <1>6, FS_RemoveElement
<1>8. ~ Endless(X \ {x})
  <2>1. CASE Endless(X \ {x})
    <3>1. n - 1 \in T
      BY <1>7, <2>1
    <3> QED
      BY <3>1, <1>4
  <2> QED
    BY <2>1
<1>9. CASE X \ {x} = {}
    BY <1>1, <1>5, <1>6, <1>9
<1>10. CASE X \ {x} # {}
  <2>1. PICK m \in X \ {x} : \A s \in X \ {x} : s <= m
    BY <1>8, <1>10
  <2>2. m \in Int /\ x \in Int /\ (x <= m \/ m <= x)
    BY <1>1, <1>6, <2>1
  <2>3. CASE x <= m
    BY <1>1, <1>5, <2>1, <2>3
  <2>4. CASE m <= x
    <3>1. \A s \in X : s <= x
      BY <1>1, <1>6, <2>1, <2>2, <2>4
    <3> QED
      BY <1>5, <1>6, <3>1
  <2> QED
    BY <2>2, <2>3, <2>4
<1> QED
    BY <1>9, <1>10

Ascending(q) == \A i, j \in DOMAIN q : i < j => q[i] < q[j]

(* Any set of stations can be put in order: put the last one last.          *)
LEMMA OrderExists ==
    ASSUME NEW S \in SUBSET Stations
    PROVE  \E q \in SetToSeqs(S) : Ascending(q)
<1> DEFINE Stuck(X) == \A q \in SetToSeqs(X) : ~ Ascending(q)
           T == {n \in Nat : \E X \in SUBSET Stations : Cardinality(X) = n /\ Stuck(X)}
<1>1. \A X \in SUBSET Stations :
         IsFiniteSet(X) /\ Cardinality(X) \in Nat /\ X \subseteq Int
    BY BackfillAssumption, FS_Subset, FS_CardinalityType
<1>2. SUFFICES ASSUME Stuck(S) PROVE FALSE
    OBVIOUS
<1>3. T \in SUBSET Nat /\ T # {}
    BY <1>1, <1>2
<1>4. PICK n \in T : \A m \in T : n <= m
    BY <1>3, LeastNatural
<1>5. PICK X \in SUBSET Stations : Cardinality(X) = n /\ Stuck(X)
    BY <1>4
<1>6. X # {}
  <2>1. SUFFICES ASSUME X = {} PROVE FALSE
    OBVIOUS
  <2>2. Cardinality(X) = 0
    BY <2>1, FS_EmptySet
  <2> DEFINE e == [i \in 1 .. 0 |-> i]
  <2>3. e \in SetToSeqs(X) /\ Ascending(e)
    BY <2>2 DEF SetToSeqs, Ascending
  <2> QED
    BY <1>5, <2>3
<1>7. PICK m \in X : \A s \in X : s <= m
    BY <1>6, LastStation
<1> DEFINE Y == X \ {m}
<1>8. Cardinality(Y) = n - 1 /\ Cardinality(Y) \in Nat
    BY <1>1, <1>5, <1>7, FS_RemoveElement
<1>9. ~ Stuck(Y)
  <2>1. CASE Stuck(Y)
    <3>1. n - 1 \in T
      BY <1>8, <2>1
    <3> QED
      BY <3>1, <1>4
  <2> QED
    BY <2>1
<1>10. PICK q \in SetToSeqs(Y) : Ascending(q)
    BY <1>9
<1>11. q \in [1 .. n - 1 -> Y] /\ \A i, j \in 1 .. n - 1 : i # j => q[i] # q[j]
    BY <1>8, <1>10 DEF SetToSeqs
<1> DEFINE r == [i \in 1 .. n |-> IF i = n THEN m ELSE q[i]]
<1>12. r \in [1 .. n -> X]
    BY <1>4, <1>7, <1>11
<1>13. \A i \in 1 .. n : i # n => r[i] = q[i] /\ i \in 1 .. n - 1 /\ r[i] \in Y
    BY <1>4, <1>11
<1>14. r[n] = m
    BY <1>4, <1>8
<1>15. \A i, j \in 1 .. n : i < j => r[i] < r[j]
  <2> SUFFICES ASSUME NEW i \in 1 .. n, NEW j \in 1 .. n, i < j PROVE r[i] < r[j]
    OBVIOUS
  <2>1. i # n /\ r[i] = q[i] /\ q[i] \in Y /\ q[i] \in Int /\ m \in Int
    BY <1>1, <1>4, <1>7, <1>13
  <2>2. CASE j = n
    BY <1>1, <1>7, <1>14, <2>1, <2>2
  <2>3. CASE j # n
    BY <1>10, <1>11, <1>13, <2>1, <2>3 DEF Ascending
  <2> QED
    BY <2>2, <2>3
<1>16. \A i, j \in 1 .. n : i # j => r[i] # r[j]
  <2> SUFFICES ASSUME NEW i \in 1 .. n, NEW j \in 1 .. n, i # j PROVE r[i] # r[j]
    OBVIOUS
  <2>1. r[i] \in Int /\ r[j] \in Int
    BY <1>1, <1>12
  <2>2. i < j \/ j < i
    BY <1>4
  <2> QED
    BY <1>15, <2>1, <2>2
<1>17. r \in SetToSeqs(X)
    BY <1>5, <1>12, <1>16 DEF SetToSeqs
<1>18. Ascending(r)
    BY <1>15 DEF Ascending
<1> QED
    BY <1>5, <1>17, <1>18

(* InOrder lists the stations of a set, each of them, in ascending order.   *)
LEMMA InOrderFacts ==
    ASSUME NEW S \in SUBSET Stations
    PROVE  /\ DOMAIN InOrder(S) = 1 .. Cardinality(S)
           /\ Cardinality(S) \in Nat
           /\ Ascending(InOrder(S))
           /\ \A i \in DOMAIN InOrder(S) : InOrder(S)[i] \in S
           /\ \A s \in S : \E i \in DOMAIN InOrder(S) : InOrder(S)[i] = s
<1> DEFINE q == InOrder(S)
           n == Cardinality(S)
<1>1. q \in SetToSeqs(S) /\ Ascending(q)
    BY OrderExists DEF InOrder, Ascending
<1>2. IsFiniteSet(S) /\ n \in Nat
    BY BackfillAssumption, FS_Subset, FS_CardinalityType
<1>3. q \in [1 .. n -> S] /\ \A i, j \in 1 .. n : i # j => q[i] # q[j]
    BY <1>1 DEF SetToSeqs
<1> HIDE DEF q, n
<1>4. q \in Injection(1 .. n, S)
    BY <1>3 DEF Injection, IsInjective
<1>5. Cardinality(1 .. n) = n
    BY <1>2, FS_Interval
<1>6. q \in Surjection(1 .. n, S)
    BY <1>2, <1>4, <1>5, FS_Injection DEF n
<1>7. \A s \in S : \E i \in 1 .. n : q[i] = s
    BY <1>6 DEF Surjection
<1> QED
    BY <1>1, <1>2, <1>3, <1>7 DEF q, n

(* The tables of a file are in the order of their stations.                 *)
Sorted(f) == \A i, j \in DOMAIN f : i < j => f[i].station < f[j].station

LEMMA InRowsOf ==
    ASSUME NEW f, NEW s, NEW y
    PROVE  <<s, y>> \in RowsOf(f)
               <=> \E i \in DOMAIN f : f[i].station = s /\ y \in f[i].years
    BY DEF RowsOf

(* What flush writes for a set of stations in one period.                   *)
LEMMA FlushedFacts ==
    ASSUME NEW S \in SUBSET Stations, NEW results, NEW p,
           \A s \in S : results[s].got \subseteq Years
    PROVE  LET F == Flushed(S, results, p)
           IN  /\ F \in Seq(Table)
               /\ Sorted(F)
               /\ \A i \in DOMAIN F :
                     /\ F[i].station \in S
                     /\ F[i].years = Part(results[F[i].station].got, p)
                     /\ F[i].years # {}
               /\ \A s \in S : \A y \in Part(results[s].got, p) : <<s, y>> \in RowsOf(F)
<1> DEFINE R == {s \in S : Part(results[s].got, p) # {}}
           q == InOrder(R)
           F == Flushed(S, results, p)
<1>1. R \in SUBSET Stations
    OBVIOUS
<1>2. /\ DOMAIN q = 1 .. Cardinality(R) /\ Cardinality(R) \in Nat
      /\ Ascending(q)
      /\ \A i \in DOMAIN q : q[i] \in R
      /\ \A s \in R : \E i \in DOMAIN q : q[i] = s
    BY <1>1, InOrderFacts
<1>3. F = [i \in DOMAIN q |-> [station |-> q[i], years |-> Part(results[q[i]].got, p)]]
    BY DEF Flushed
<1>4. \A s \in R : s \in S /\ Part(results[s].got, p) # {}
                 /\ Part(results[s].got, p) \subseteq Years
    BY DEF Part
<1>5. \A s \in S : \A y \in Part(results[s].got, p) : s \in R
    OBVIOUS
<1> HIDE DEF q, F, R
<1>6. DOMAIN F = DOMAIN q
    BY <1>3
<1>7. \A i \in DOMAIN F :
         /\ F[i] = [station |-> q[i], years |-> Part(results[q[i]].got, p)]
         /\ F[i].station = q[i] /\ F[i].years = Part(results[q[i]].got, p)
    BY <1>3
<1>8. \A i \in DOMAIN F :
         /\ F[i].station \in S
         /\ F[i].years = Part(results[F[i].station].got, p)
         /\ F[i].years # {}
    BY <1>2, <1>4, <1>6, <1>7
<1>9. \A i \in DOMAIN F : F[i] \in Table
    BY <1>2, <1>4, <1>6, <1>7 DEF Table
<1>10. F \in [1 .. Cardinality(R) -> Table]
    BY <1>2, <1>3, <1>6, <1>9
<1>11. F \in Seq(Table)
    BY <1>2, <1>10
<1>12. Sorted(F)
    BY <1>2, <1>6, <1>7 DEF Sorted, Ascending
<1>13. ASSUME NEW s \in S, NEW y \in Part(results[s].got, p)
       PROVE  <<s, y>> \in RowsOf(F)
  <2>1. PICK i \in DOMAIN q : q[i] = s
    BY <1>2, <1>5, <1>13
  <2>2. F[i].station = s /\ y \in F[i].years
    BY <1>6, <1>7, <1>13, <2>1
  <2> QED
    BY <1>6, <2>1, <2>2, InRowsOf
<1> QED
    BY <1>8, <1>11, <1>12, <1>13 DEF F

(* Tables added to a file are after those it has.                           *)
LEMMA Appending ==
    ASSUME NEW f \in Seq(Table), NEW g \in Seq(Table)
    PROVE  /\ f \o g \in Seq(Table)
           /\ RowsOf(f \o g) = RowsOf(f) \cup RowsOf(g)
           /\ \A i \in DOMAIN (f \o g) :
                 \/ i \in DOMAIN f /\ (f \o g)[i] = f[i]
                 \/ \E j \in DOMAIN g : (f \o g)[i] = g[j]
           /\ (/\ Sorted(f) /\ Sorted(g)
               /\ \A i \in DOMAIN f, j \in DOMAIN g : f[i].station < g[j].station)
                 => Sorted(f \o g)
<1> DEFINE h == f \o g
           m == Len(f)
           n == Len(g)
<1>1. /\ m \in Nat /\ n \in Nat
      /\ DOMAIN f = 1 .. m /\ DOMAIN g = 1 .. n
    BY LenProperties
<1>2. /\ h \in Seq(Table) /\ Len(h) = m + n
      /\ \A i \in 1 .. m + n : h[i] = IF i <= m THEN f[i] ELSE g[i - m]
    BY ConcatProperties
<1>3. DOMAIN h = 1 .. m + n
    BY <1>2, LenProperties
<1> HIDE DEF h, m, n
<1>4. \A i \in DOMAIN h : \/ i \in DOMAIN f /\ h[i] = f[i]
                          \/ ~ (i <= m) /\ i - m \in DOMAIN g /\ h[i] = g[i - m]
    BY <1>1, <1>2, <1>3
<1>5. \A i \in DOMAIN f : i \in DOMAIN h /\ h[i] = f[i]
    BY <1>1, <1>2, <1>3
<1>6. \A j \in DOMAIN g : j + m \in DOMAIN h /\ h[j + m] = g[j]
    BY <1>1, <1>2, <1>3
<1>7. RowsOf(h) = RowsOf(f) \cup RowsOf(g)
    BY <1>4, <1>5, <1>6, Zenon DEF RowsOf
<1>8. ASSUME Sorted(f), Sorted(g),
             \A i \in DOMAIN f, j \in DOMAIN g : f[i].station < g[j].station
      PROVE  Sorted(h)
  <2> SUFFICES ASSUME NEW i \in DOMAIN h, NEW j \in DOMAIN h, i < j
               PROVE  h[i].station < h[j].station
    BY DEF Sorted
  <2>1. CASE i <= m /\ j <= m
    BY <1>1, <1>3, <1>4, <1>8, <2>1 DEF Sorted
  <2>2. CASE i <= m /\ ~ (j <= m)
    BY <1>1, <1>3, <1>4, <1>8, <2>2
  <2>3. CASE ~ (i <= m)
    <3>1. i - m \in DOMAIN g /\ j - m \in DOMAIN g /\ i - m < j - m
      BY <1>1, <1>3, <2>3
    <3>2. h[i] = g[i - m] /\ h[j] = g[j - m]
      BY <1>1, <1>2, <1>3, <2>3
    <3> QED
      BY <1>8, <3>1, <3>2 DEF Sorted
  <2> QED
    BY <2>1, <2>2, <2>3
<1> QED
    BY <1>2, <1>4, <1>7, <1>8 DEF h

(* A file that is closed in the middle of a stream has what came first.     *)
LEMMA Splitting ==
    ASSUME NEW f \in Seq(Table), NEW n \in 1 .. Len(f), Sorted(f)
    PROVE  LET g == SubSeq(f, 1, n)
               h == SubSeq(f, n + 1, Len(f))
           IN  /\ g \in Seq(Table) /\ h \in Seq(Table)
               /\ Sorted(g) /\ Sorted(h)
               /\ RowsOf(f) = RowsOf(g) \cup RowsOf(h)
               /\ \A i \in DOMAIN g : \E j \in DOMAIN f : g[i] = f[j]
               /\ \A i \in DOMAIN h : \E j \in DOMAIN f : h[i] = f[j]
               /\ \A i \in DOMAIN g, j \in DOMAIN h : g[i].station < h[j].station
<1> DEFINE g == SubSeq(f, 1, n)
           h == SubSeq(f, n + 1, Len(f))
           m == Len(f)
<1>1. m \in Nat /\ DOMAIN f = 1 .. m /\ n \in 1 .. m
    BY LenProperties
<1>2. \A i \in 1 .. m : f[i] \in Table
    BY <1>1, ElementOfSeq
<1>3. /\ g \in Seq(Table) /\ Len(g) = n
      /\ \A i \in 1 .. n : g[i] = f[i]
  <2>1. \A i \in 1 .. n : f[i] \in Table
    BY <1>1, <1>2
  <2>2. /\ g \in Seq(Table) /\ Len(g) = IF 1 <= n THEN n - 1 + 1 ELSE 0
        /\ \A i \in 1 .. n - 1 + 1 : g[i] = f[1 + i - 1]
    BY <1>1, <2>1, SubSeqProperties
  <2> HIDE DEF g
  <2> QED
    BY <1>1, <2>2
<1>4. /\ h \in Seq(Table) /\ Len(h) = m - n
      /\ \A i \in 1 .. m - n : h[i] = f[n + i]
  <2>1. \A i \in n + 1 .. m : f[i] \in Table
    BY <1>1, <1>2
  <2>2. /\ h \in Seq(Table)
        /\ Len(h) = IF n + 1 <= m THEN m - (n + 1) + 1 ELSE 0
        /\ \A i \in 1 .. m - (n + 1) + 1 : h[i] = f[(n + 1) + i - 1]
    BY <1>1, <2>1, SubSeqProperties
  <2> HIDE DEF h, m
  <2>3. Len(h) = m - n
    <3>1. m \in Int /\ n \in Int /\ n <= m
      BY <1>1
    <3>2. CASE n + 1 <= m
      BY <2>2, <3>1, <3>2
    <3>3. CASE ~ (n + 1 <= m)
      BY <2>2, <3>1, <3>3
    <3> QED
      BY <3>2, <3>3
  <2>4. \A i \in 1 .. m - n : i \in 1 .. m - (n + 1) + 1 /\ (n + 1) + i - 1 = n + i
    BY <1>1
  <2> QED
    BY <2>2, <2>3, <2>4
<1>5. DOMAIN g = 1 .. n /\ DOMAIN h = 1 .. m - n
    BY <1>3, <1>4, LenProperties
<1> HIDE DEF g, h, m
<1>6. \A i \in DOMAIN g : i \in DOMAIN f /\ g[i] = f[i] /\ i <= n
    BY <1>1, <1>3, <1>5
<1>7. \A i \in DOMAIN h : n + i \in DOMAIN f /\ h[i] = f[n + i] /\ n < n + i
    BY <1>1, <1>4, <1>5
<1>8. Sorted(g)
    BY <1>6 DEF Sorted
<1>9. Sorted(h)
  <2> SUFFICES ASSUME NEW i \in DOMAIN h, NEW j \in DOMAIN h, i < j
               PROVE  h[i].station < h[j].station
    BY DEF Sorted
  <2>1. n + i < n + j
    BY <1>1, <1>5
  <2> QED
    BY <1>7, <2>1 DEF Sorted
<1>10. \A i \in DOMAIN g, j \in DOMAIN h : g[i].station < h[j].station
  <2> SUFFICES ASSUME NEW i \in DOMAIN g, NEW j \in DOMAIN h
               PROVE  g[i].station < h[j].station
    OBVIOUS
  <2>1. i < n + j
    BY <1>1, <1>5
  <2> QED
    BY <1>6, <1>7, <2>1 DEF Sorted
<1>11. \A i \in DOMAIN f : \/ i \in DOMAIN g /\ g[i] = f[i]
                           \/ i - n \in DOMAIN h /\ h[i - n] = f[i]
  <2> SUFFICES ASSUME NEW i \in DOMAIN f
               PROVE  \/ i \in DOMAIN g /\ g[i] = f[i]
                      \/ i - n \in DOMAIN h /\ h[i - n] = f[i]
    OBVIOUS
  <2>1. CASE i <= n
    BY <1>1, <1>3, <1>5, <2>1
  <2>2. CASE ~ (i <= n)
    <3>1. i - n \in 1 .. m - n /\ n + (i - n) = i
      BY <1>1, <2>2
    <3> QED
      BY <1>4, <1>5, <3>1
  <2> QED
    BY <2>1, <2>2
<1>12. RowsOf(f) = RowsOf(g) \cup RowsOf(h)
    BY <1>6, <1>7, <1>11, Zenon DEF RowsOf
<1> QED
    BY <1>3, <1>4, <1>6, <1>7, <1>8, <1>9, <1>10, <1>12 DEF g, h, m

-------------------------------------------------------------------------------
(* The invariant *)

(* A range covers each of its periods as a whole.                           *)
Whole(range) ==
    \A y \in range, z \in Years : PeriodOf[y] = PeriodOf[z] => z \in range

(* What the ranges of the walk are, and an operator should keep to.         *)
WholePeriods == \A range \in Dispatched : Whole(range)

(* A table has rows, of the period, which the service has.                  *)
Genuine(t, p) == t.years # {} /\ t.years \subseteq Reported[t.station] \cap YearsOf(p)

(* Such tables, in the order of their stations.                             *)
Proper(file, p) == Sorted(file) /\ \A i \in DOMAIN file : Genuine(file[i], p)

Shapes ==
    /\ files \in [Periods -> [FileNumbers -> Seq(Table)]]
    /\ stream \in [Periods -> Seq(Table)]
    /\ index \in [Periods -> FileNumbers]
    /\ merging \in Seq(Table)
    /\ part \in [Periods -> SUBSET Rows]
    /\ staged \subseteq Rows
    /\ years \subseteq Years
    /\ at \in Periods \cup {0}
    /\ period \in Periods \cup {0}

Filed == \A p \in Periods, i \in FileNumbers : Proper(files[p][i], p)

(* A period is asked for.                                                   *)
Touched(p) == \E z \in years : PeriodOf[z] = p

(* An open file has tables of stations whose turn has come, in their order, *)
(* and a writer that rolled had such a file before.                         *)
Streamed ==
    \A p \in Periods :
        /\ Proper(stream[p], p)
        /\ \A i \in DOMAIN stream[p] :
              /\ stream[p][i].years \subseteq years
              /\ stream[p][i].station \in Leading(landed)
        /\ index[p] > 0 => Touched(p)

(* What a run closed last is of stations before those of the open file.     *)
Rolled ==
    \A p \in Periods :
        index[p] > 0 =>
            \A i \in DOMAIN files[p][index[p] - 1] :
                /\ files[p][index[p] - 1][i].station \in Leading(landed)
                /\ \A j \in DOMAIN stream[p] :
                      files[p][index[p] - 1][i].station < stream[p][j].station

(* A .merging object has the rows of the file whose name it will take.      *)
Merging ==
    pc = "fetch" /\ period # 0 =>
        /\ Proper(merging, period)
        /\ RowsOf(files[period][index[period] - 1]) \subseteq RowsOf(merging)

(* A result without an error is complete.                                   *)
Answered ==
    /\ DOMAIN landed \subseteq Targets
    /\ \A s \in DOMAIN landed :
          /\ landed[s].got \subseteq Reported[s] \cap years
          /\ ~ landed[s].error => landed[s].got = Reported[s] \cap years

(* A row of period p that the run has written is in the open file, in one   *)
(* that it closed before, in a .merging object, or in a file of a writer    *)
(* that is closed.                                                          *)
Kept(p, row) ==
    \/ row \in RowsOf(stream[p])
    \/ \E i \in FileNumbers : i < index[p] /\ row \in RowsOf(files[p][i])
    \/ period = p /\ row \in RowsOf(merging)
    \/ /\ DOMAIN landed = Targets
       /\ stream[p] = <<>> /\ index[p] = 0
       /\ row \in Files(p)

Written ==
    \A s \in Leading(landed) : \A y \in landed[s].got : Kept(PeriodOf[y], <<s, y>>)

(* A watermark in memory that differs is one of a complete station.         *)
Marked ==
    pc \in {"fetch", "exit"} =>
        \A s \in Stations :
            marks[s] # saved[s] => s \in Leading(landed) /\ ~ landed[s].error

(* Before a swap deletes anything, what it deletes is staged.               *)
Swapping == pc = "delete" => period \in Periods /\ Held(period) \subseteq staged

Course ==
    /\ pc \in {"idle", "fetch", "exit", "delete", "move"}
    /\ pc # "fetch" => stream = NoStreams /\ index = NoIndex
    /\ pc \in {"idle", "delete", "move"} => years = {} /\ landed = <<>> /\ merging = <<>>
    /\ pc = "exit" => DOMAIN landed = Targets
    /\ pc \in {"idle", "exit"} => period = 0
    /\ pc \in {"idle", "fetch", "exit"} => staged = {}
    /\ pc = "fetch" /\ period # 0 =>
          DOMAIN landed = Targets /\ index[period] > 0 /\ stream[period] = <<>>
    /\ WholePeriods => Whole(years)

BackfillInv ==
    /\ Shapes /\ Filed /\ Streamed /\ Rolled /\ Merging /\ Answered /\ Written
    /\ Marked /\ Swapping /\ Course

-------------------------------------------------------------------------------
(* Steps of a run *)

LEMMA EmptyFile ==
    /\ <<>> \in Seq(Table)
    /\ Sorted(<<>>)
    /\ DOMAIN <<>> = {}
    /\ RowsOf(<<>>) = {}
    /\ \A p : Proper(<<>>, p)
    BY DEF Sorted, RowsOf, Proper

LEMMA Numbering ==
    /\ FileNumbers \subseteq Nat /\ 0 \in FileNumbers /\ MaxFiles \in Nat
    /\ \A i \in FileNumbers : i > 0 => i - 1 \in FileNumbers
    /\ \A i \in FileNumbers : i < MaxFiles => i + 1 \in FileNumbers
    BY BackfillAssumption DEF FileNumbers

LEMMA InFiles ==
    ASSUME NEW p, NEW row
    PROVE  row \in Files(p) <=> \E i \in FileNumbers : row \in RowsOf(files[p][i])
    BY DEF Files

LEMMA NoPeriodZero == 0 \notin Periods
<1>1. Cardinality(Periods) \in Nat /\ Periods = 1 .. Cardinality(Periods)
    BY BackfillAssumption, FS_CardinalityType
<1> QED
    BY <1>1

(* A station is leading when its own result and those before it are in.     *)
LEMMA LeadingFacts ==
    ASSUME NEW r
    PROVE  /\ Leading(r) \subseteq Targets
           /\ Leading(r) \subseteq DOMAIN r
           /\ Leading(r) \subseteq Stations
           /\ Targets \subseteq DOMAIN r => Leading(r) = Targets
           /\ \A s \in Leading(r), t \in Targets \ Leading(r) : s < t
<1>1. Targets \subseteq Stations /\ Stations \subseteq Int
    BY BackfillAssumption DEF Targets
<1>2. Leading(r) = {s \in Targets : \A t \in Targets \ DOMAIN r : s < t}
    BY DEF Leading
<1>3. ASSUME NEW s \in Leading(r) PROVE s \in DOMAIN r
  <2>1. s \in Targets /\ s \in Int
    BY <1>1, <1>2, <1>3
  <2>2. ~ (s < s)
    BY <2>1
  <2> QED
    BY <1>2, <1>3, <2>1, <2>2
<1>4. ASSUME NEW s \in Leading(r), NEW t \in Targets \ Leading(r) PROVE s < t
  <2>1. PICK u \in Targets \ DOMAIN r : ~ (t < u)
    BY <1>2, <1>4
  <2>2. s < u
    BY <1>2, <1>4, <2>1
  <2>3. s \in Int /\ t \in Int /\ u \in Int
    BY <1>1, <1>2, <1>4, <2>1
  <2> QED
    BY <2>1, <2>2, <2>3
<1> QED
    BY <1>1, <1>2, <1>3, <1>4

LEMMA LandKeeps ==
    ASSUME BackfillInv, NEW s \in Stations, NEW failed \in SUBSET Asked(s), Land(s, failed)
    PROVE  BackfillInv' /\ \A p \in Periods : files'[p] = files[p] \/ Touched(p)
<1> DEFINE result == [got |-> (Reported[s] \cap years) \ failed, error |-> failed # {}]
           now == [t \in DOMAIN landed \cup {s} |-> IF t = s THEN result ELSE landed[t]]
           next == Drained(now)
           flushed(p) == Flushed(next, now, p)
<1>1. /\ pc = "fetch" /\ s \in Targets \ DOMAIN landed
      /\ landed' = now
      /\ stream' = [p \in Periods |-> stream[p] \o flushed(p)]
      /\ marks' = [t \in Stations |-> IF t \in next THEN Recorded(t, now[t]) ELSE marks[t]]
      /\ files' = [p \in Periods |->
                      IF /\ LocalRoot /\ ~ WriterOpen(p) /\ flushed(p) # <<>>
                      THEN [files[p] EXCEPT ![0] = <<>>] ELSE files[p]]
      /\ UNCHANGED <<part, saved, at, pc, years, index, merging, period, staged>>
    BY DEF Land, swap
<1>2. /\ DOMAIN now = DOMAIN landed \cup {s}
      /\ now[s] = result /\ result.got = (Reported[s] \cap years) \ failed
      /\ result.error = (failed # {})
      /\ \A t \in DOMAIN landed : now[t] = landed[t]
    BY <1>1
<1>3. Targets' = Targets
    BY <1>1 DEF Targets, Asked
<1>4. Leading(landed)' = Leading(now)
    BY <1>1, <1>3 DEF Leading
<1>5. /\ next = Leading(now) \ Leading(landed)
      /\ Leading(landed) \subseteq Leading(now)
    BY <1>2 DEF Drained, Leading
<1> HIDE DEF result, now
<1>6. /\ Leading(now) \subseteq DOMAIN now /\ Leading(now) \subseteq Stations
      /\ Leading(now) \subseteq Targets
      /\ Leading(landed) \subseteq DOMAIN landed
    BY LeadingFacts
<1>7. \A t \in Leading(landed) : now[t] = landed[t]
    BY <1>2, <1>6
<1> HIDE DEF next
<1>8. next \in SUBSET Stations /\ next \subseteq Leading(now)
    BY <1>5, <1>6
<1>9. Answered'
    BY <1>1, <1>2, <1>3 DEF BackfillInv, Answered
<1>10. \A t \in next : now[t].got \subseteq Years /\ now[t].got \subseteq Reported[t] \cap years
    BY <1>1, <1>6, <1>8, <1>9 DEF BackfillInv, Answered, Shapes
<1>11. ASSUME NEW p \in Periods
       PROVE  /\ flushed(p) \in Seq(Table)
              /\ Sorted(flushed(p))
              /\ \A i \in DOMAIN flushed(p) :
                    /\ flushed(p)[i].station \in next
                    /\ flushed(p)[i].years = Part(now[flushed(p)[i].station].got, p)
                    /\ flushed(p)[i].years # {}
              /\ \A t \in next : \A y \in Part(now[t].got, p) : <<t, y>> \in RowsOf(flushed(p))
    BY <1>8, <1>10, FlushedFacts
<1> HIDE DEF flushed
<1>12. ASSUME NEW p \in Periods
       PROVE  /\ stream'[p] = stream[p] \o flushed(p)
              /\ stream[p] \in Seq(Table)
              /\ stream'[p] \in Seq(Table)
              /\ RowsOf(stream'[p]) = RowsOf(stream[p]) \cup RowsOf(flushed(p))
              /\ \A i \in DOMAIN stream'[p] :
                    \/ i \in DOMAIN stream[p] /\ stream'[p][i] = stream[p][i]
                    \/ \E j \in DOMAIN flushed(p) : stream'[p][i] = flushed(p)[j]
              /\ (/\ Sorted(stream[p]) /\ Sorted(flushed(p))
                  /\ \A i \in DOMAIN stream[p], j \in DOMAIN flushed(p) :
                        stream[p][i].station < flushed(p)[j].station)
                    => Sorted(stream'[p])
  <2>1. stream'[p] = stream[p] \o flushed(p) /\ stream[p] \in Seq(Table)
    BY <1>1 DEF BackfillInv, Shapes
  <2> QED
    BY <1>11, <2>1, Appending
<1> DEFINE Cleared(p) == /\ files'[p] \in [FileNumbers -> Seq(Table)]
                         /\ \A i \in FileNumbers :
                               files'[p][i] = files[p][i] \/ files'[p][i] = <<>>
                         /\ index[p] > 0 => files'[p] = files[p]
<1>13. ASSUME NEW p \in Periods PROVE Cleared(p)
  <2>1. files[p] \in [FileNumbers -> Seq(Table)]
    BY DEF BackfillInv, Shapes
  <2>2. CASE files'[p] = files[p]
    BY <2>1, <2>2
  <2>3. CASE files'[p] # files[p]
    <3>1. ~ WriterOpen(p) /\ files'[p] = [files[p] EXCEPT ![0] = <<>>]
      BY <1>1, <2>3
    <3>2. ~ (index[p] > 0)
      BY <3>1 DEF WriterOpen
    <3>3. files'[p] \in [FileNumbers -> Seq(Table)]
      BY <2>1, <3>1, EmptyFile
    <3>4. \A i \in FileNumbers : files'[p][i] = files[p][i] \/ files'[p][i] = <<>>
      BY <2>1, <3>1
    <3> QED
      BY <3>2, <3>3, <3>4
  <2> QED
    BY <2>2, <2>3
<1>18. Shapes'
  <2>1. stream' \in [Periods -> Seq(Table)]
    BY <1>1, <1>12
  <2>2. files' \in [Periods -> [FileNumbers -> Seq(Table)]]
    BY <1>1, <1>13
  <2> QED
    BY <1>1, <2>1, <2>2 DEF BackfillInv, Shapes
<1>19. Filed'
  <2> SUFFICES ASSUME NEW p \in Periods, NEW i \in FileNumbers
               PROVE  Proper(files'[p][i], p)
    BY DEF Filed, Proper, Genuine, YearsOf
  <2>1. CASE files'[p][i] = files[p][i]
    BY <2>1 DEF BackfillInv, Filed
  <2>2. CASE files'[p][i] = <<>>
    BY <2>2, EmptyFile
  <2> QED
    BY <1>13, <2>1, <2>2
<1>14. ASSUME NEW p \in Periods
       PROVE  /\ Sorted(stream[p])
              /\ \A i \in DOMAIN stream[p] :
                    /\ Genuine(stream[p][i], p)
                    /\ stream[p][i].years \subseteq years
                    /\ stream[p][i].station \in Leading(landed)
              /\ \A j \in DOMAIN flushed(p) :
                    /\ Genuine(flushed(p)[j], p)
                    /\ flushed(p)[j].years \subseteq years
                    /\ flushed(p)[j].station \in Leading(now)
              /\ \A t \in Leading(landed), j \in DOMAIN flushed(p) :
                    t < flushed(p)[j].station
  <2>1. /\ Sorted(stream[p])
        /\ \A i \in DOMAIN stream[p] :
              /\ Genuine(stream[p][i], p)
              /\ stream[p][i].years \subseteq years
              /\ stream[p][i].station \in Leading(landed)
    BY DEF BackfillInv, Streamed, Proper
  <2>2. \A j \in DOMAIN flushed(p) :
            /\ Genuine(flushed(p)[j], p)
            /\ flushed(p)[j].years \subseteq years
            /\ flushed(p)[j].station \in Leading(now)
    BY <1>8, <1>10, <1>11 DEF Genuine, Part
  <2>3. \A t \in Leading(landed), j \in DOMAIN flushed(p) : t < flushed(p)[j].station
    BY <1>5, <1>6, <1>11, LeadingFacts
  <2> QED
    BY <2>1, <2>2, <2>3
<1>20. Streamed'
  <2> SUFFICES ASSUME NEW p \in Periods
               PROVE  /\ Sorted(stream'[p])
                      /\ \A i \in DOMAIN stream'[p] :
                            /\ Genuine(stream'[p][i], p)
                            /\ stream'[p][i].years \subseteq years
                            /\ stream'[p][i].station \in Leading(now)
                      /\ index[p] > 0 => Touched(p)
    BY <1>1, <1>4 DEF Streamed, Proper, Genuine, YearsOf, Touched
  <2>1. Sorted(stream'[p])
    BY <1>11, <1>12, <1>14
  <2>2. ASSUME NEW i \in DOMAIN stream'[p]
        PROVE  /\ Genuine(stream'[p][i], p)
               /\ stream'[p][i].years \subseteq years
               /\ stream'[p][i].station \in Leading(now)
    <3>1. CASE i \in DOMAIN stream[p] /\ stream'[p][i] = stream[p][i]
      BY <1>5, <1>14, <3>1
    <3>2. CASE \E j \in DOMAIN flushed(p) : stream'[p][i] = flushed(p)[j]
      BY <1>14, <3>2
    <3> QED
      BY <1>12, <2>2, <3>1, <3>2
  <2>3. index[p] > 0 => Touched(p)
    BY DEF BackfillInv, Streamed
  <2> QED
    BY <2>1, <2>2, <2>3
<1>21. Rolled'
  <2> SUFFICES ASSUME NEW p \in Periods, index[p] > 0,
                      NEW i \in DOMAIN files'[p][index[p] - 1]
               PROVE  /\ files'[p][index[p] - 1][i].station \in Leading(now)
                      /\ \A j \in DOMAIN stream'[p] :
                            files'[p][index[p] - 1][i].station < stream'[p][j].station
    BY <1>1, <1>4 DEF Rolled
  <2> DEFINE t == files[p][index[p] - 1][i].station
  <2>1. files'[p] = files[p]
    BY <1>13
  <2>2. t \in Leading(landed) /\ \A j \in DOMAIN stream[p] : t < stream[p][j].station
    BY <2>1 DEF BackfillInv, Rolled
  <2> HIDE DEF t
  <2>3. \A j \in DOMAIN stream'[p] : t < stream'[p][j].station
    BY <1>12, <1>14, <2>2
  <2> QED
    BY <1>5, <2>1, <2>2, <2>3 DEF t
<1>15. Written'
  <2> SUFFICES ASSUME NEW t \in Leading(now), NEW y \in now[t].got
               PROVE  Kept(PeriodOf[y], <<t, y>>)'
    BY <1>1, <1>4 DEF Written
  <2> DEFINE p == PeriodOf[y]
  <2>1. now[t].got \subseteq Reported[t] \cap years
    BY <1>1, <1>6, <1>9 DEF Answered
  <2>2. y \in Years /\ p \in Periods
    BY <2>1, BackfillAssumption DEF BackfillInv, Shapes
  <2>3. CASE t \in Leading(landed)
    <3>1. y \in landed[t].got
      BY <1>7, <2>3
    <3>2. Kept(p, <<t, y>>)
      BY <2>3, <3>1 DEF BackfillInv, Written
    <3>3. DOMAIN landed # Targets
      BY <1>1
    <3>4. CASE <<t, y>> \in RowsOf(stream[p])
      <4>1. <<t, y>> \in RowsOf(stream'[p])
        BY <1>12, <2>2, <3>4
      <4> QED
        BY <4>1 DEF Kept
    <3>5. CASE \E i \in FileNumbers : i < index[p] /\ <<t, y>> \in RowsOf(files[p][i])
      <4>1. PICK i \in FileNumbers : i < index[p] /\ <<t, y>> \in RowsOf(files[p][i])
        BY <3>5
      <4>2. index[p] \in Nat /\ i \in Nat
        BY <2>2, Numbering DEF BackfillInv, Shapes
      <4>3. files'[p] = files[p] /\ index' = index
        BY <1>1, <1>13, <2>2, <4>1, <4>2
      <4> QED
        BY <4>1, <4>3 DEF Kept
    <3>6. CASE period = p /\ <<t, y>> \in RowsOf(merging)
      BY <1>1, <3>6 DEF Kept
    <3> QED
      BY <3>2, <3>3, <3>4, <3>5, <3>6 DEF Kept
  <2>4. CASE t \notin Leading(landed)
    <3>1. t \in next /\ y \in Part(now[t].got, p)
      BY <1>5, <2>2, <2>4 DEF Part, YearsOf
    <3>2. <<t, y>> \in RowsOf(flushed(p))
      BY <1>11, <2>2, <3>1
    <3>3. <<t, y>> \in RowsOf(stream'[p])
      BY <1>12, <2>2, <3>2
    <3> QED
      BY <3>3 DEF Kept
  <2> QED
    BY <2>3, <2>4
<1>16. Marked'
  <2> SUFFICES ASSUME NEW t \in Stations, marks'[t] # saved[t]
               PROVE  t \in Leading(now) /\ ~ now[t].error
    BY <1>1, <1>4 DEF Marked
  <2>1. CASE t \in next /\ Success(now[t])
    BY <1>8, <2>1 DEF Success
  <2>2. CASE ~ (t \in next /\ Success(now[t]))
    <3>1. marks[t] # saved[t]
      BY <1>1, <2>2 DEF Recorded
    <3>2. t \in Leading(landed) /\ ~ landed[t].error
      BY <1>1, <3>1 DEF BackfillInv, Marked
    <3> QED
      BY <1>5, <1>7, <3>2
  <2> QED
    BY <2>1, <2>2
<1>17. Merging' /\ Swapping' /\ Course'
  <2>1. period = 0 /\ staged = {}
    BY <1>1 DEF BackfillInv, Course, Shapes
  <2>2. Merging' /\ Swapping'
    BY <1>1, <2>1 DEF Merging, Swapping
  <2>3. Course'
    BY <1>1, <1>3, <2>1 DEF BackfillInv, Course, Whole
  <2> QED
    BY <2>2, <2>3
<1>22. ASSUME NEW p \in Periods, files'[p] # files[p] PROVE Touched(p)
  <2>1. flushed(p) # <<>> /\ flushed(p) \in Seq(Table)
    BY <1>1, <1>11, <1>22
  <2>2. Len(flushed(p)) \in Nat \ {0} /\ DOMAIN flushed(p) = 1 .. Len(flushed(p))
    BY <2>1, LenProperties, EmptySeq
  <2>3. 1 \in DOMAIN flushed(p)
    BY <2>2
  <2> QED
    BY <1>14, <2>3 DEF Genuine, YearsOf, Touched
<1> QED
  BY <1>22, <1>9, <1>15, <1>16, <1>17, <1>18, <1>19, <1>20, <1>21 DEF BackfillInv

(* Steps that change files and streams only.                                *)
LEMMA SameResults ==
    ASSUME UNCHANGED <<years, landed>>
    PROVE  /\ Targets' = Targets /\ Leading(landed)' = Leading(landed)
           /\ \A p : Touched(p)' = Touched(p)
    BY DEF Targets, Asked, Leading, Touched

LEMMA SameAnswers ==
    ASSUME BackfillInv, UNCHANGED <<years, landed, marks, saved, pc>>
    PROVE  Answered' /\ Marked'
    BY SameResults DEF BackfillInv, Answered, Marked

(* A period other than the one a step is about.                             *)
LEMMA OthersKept ==
    ASSUME UNCHANGED <<years, landed>>, NEW q, NEW row, Kept(q, row),
           stream'[q] = stream[q], index'[q] = index[q], files'[q] = files[q],
           period = q => period' = q /\ merging' = merging
    PROVE  Kept(q, row)'
<1>1. Targets' = Targets
    BY SameResults
<1> QED
    BY <1>1 DEF Kept, Files

(* RollingWriter.write: what was first in the stream is in a closed file.   *)
LEMMA RollKeeps ==
    ASSUME BackfillInv, NEW p \in Periods, NEW n \in 1 .. Len(stream[p]), Roll(p, n)
    PROVE  BackfillInv'
<1> DEFINE k == index[p]
           g == SubSeq(stream[p], 1, n)
           h == SubSeq(stream[p], n + 1, Len(stream[p]))
<1>1. /\ pc = "fetch" /\ period = 0 /\ k < MaxFiles
      /\ files' = [files EXCEPT ![p] =
                      [i \in FileNumbers |->
                         IF i = k THEN g
                         ELSE IF LocalRoot /\ i = k + 1 THEN <<>> ELSE files[p][i]]]
      /\ stream' = [stream EXCEPT ![p] = h]
      /\ index' = [index EXCEPT ![p] = k + 1]
      /\ UNCHANGED <<part, saved, at, pc, years, landed, merging, marks, period, staged>>
    BY DEF Roll, swap
<1>2. /\ files \in [Periods -> [FileNumbers -> Seq(Table)]]
      /\ stream \in [Periods -> Seq(Table)] /\ index \in [Periods -> FileNumbers]
      /\ k \in FileNumbers /\ k \in Nat /\ k + 1 \in FileNumbers /\ FileNumbers \subseteq Nat
    BY <1>1, Numbering DEF BackfillInv, Shapes
<1>3. stream[p] \in Seq(Table) /\ Sorted(stream[p])
    BY <1>2 DEF BackfillInv, Streamed, Proper
<1>4. /\ g \in Seq(Table) /\ h \in Seq(Table)
      /\ Sorted(g) /\ Sorted(h)
      /\ RowsOf(stream[p]) = RowsOf(g) \cup RowsOf(h)
      /\ \A i \in DOMAIN g : \E j \in DOMAIN stream[p] : g[i] = stream[p][j]
      /\ \A i \in DOMAIN h : \E j \in DOMAIN stream[p] : h[i] = stream[p][j]
      /\ \A i \in DOMAIN g, j \in DOMAIN h : g[i].station < h[j].station
    BY <1>3, Splitting
<1>5. Len(stream[p]) \in Nat /\ n \in 1 .. Len(stream[p])
    BY <1>3, LenProperties
<1>6. 1 \in DOMAIN stream[p]
    BY <1>3, <1>5, LenProperties
<1> HIDE DEF g, h, k
<1>7. ASSUME NEW q \in Periods
      PROVE  /\ files'[q] \in [FileNumbers -> Seq(Table)]
             /\ q # p => /\ files'[q] = files[q] /\ stream'[q] = stream[q]
                         /\ index'[q] = index[q]
             /\ q = p => /\ stream'[q] = h /\ index'[q] = k + 1
                         /\ files'[q][k] = g
                         /\ \A i \in FileNumbers :
                              \/ files'[q][i] = g
                              \/ files'[q][i] = <<>>
                              \/ files'[q][i] = files[q][i]
                         /\ \A i \in FileNumbers : i < k => files'[q][i] = files[q][i]
  <2>1. CASE q # p
    BY <1>1, <1>2, <2>1
  <2>2. CASE q = p
    <3>1. files'[q] = [i \in FileNumbers |->
                         IF i = k THEN g
                         ELSE IF LocalRoot /\ i = k + 1 THEN <<>> ELSE files[p][i]]
      BY <1>1, <1>2, <2>2
    <3>2. files[p] \in [FileNumbers -> Seq(Table)]
      BY <1>2
    <3>3. \A i \in FileNumbers : files'[q][i] \in Seq(Table)
      BY <1>4, <3>1, <3>2, EmptyFile
    <3>4. \A i \in FileNumbers : i < k => i # k /\ i # k + 1
      BY <1>2
    <3>5. /\ files'[q][k] = g
          /\ \A i \in FileNumbers :
                \/ files'[q][i] = g \/ files'[q][i] = <<>> \/ files'[q][i] = files[q][i]
          /\ \A i \in FileNumbers : i < k => files'[q][i] = files[q][i]
      BY <1>2, <2>2, <3>1, <3>4
    <3>6. stream'[q] = h /\ index'[q] = k + 1
      BY <1>1, <1>2, <2>2
    <3> QED
      BY <2>2, <3>1, <3>3, <3>5, <3>6
  <2> QED
    BY <2>1, <2>2
<1>8. /\ Proper(stream[p], p) /\ Touched(p)
      /\ \A i \in DOMAIN stream[p] :
            /\ Genuine(stream[p][i], p)
            /\ stream[p][i].years \subseteq years
            /\ stream[p][i].station \in Leading(landed)
  <2>1. /\ Proper(stream[p], p)
        /\ \A i \in DOMAIN stream[p] :
              /\ Genuine(stream[p][i], p)
              /\ stream[p][i].years \subseteq years
              /\ stream[p][i].station \in Leading(landed)
    BY DEF BackfillInv, Streamed, Proper
  <2>2. PICK z \in stream[p][1].years : z \in years /\ PeriodOf[z] = p
    BY <1>6, <2>1 DEF Genuine, YearsOf
  <2> QED
    BY <2>1, <2>2 DEF Touched
<1>9. Proper(g, p) /\ Proper(h, p)
    BY <1>4, <1>8 DEF Proper
<1>10. Shapes'
  <2>1. files' \in [Periods -> [FileNumbers -> Seq(Table)]]
    BY <1>1, <1>2, <1>7
  <2>2. stream' \in [Periods -> Seq(Table)] /\ index' \in [Periods -> FileNumbers]
    BY <1>1, <1>2, <1>4
  <2> QED
    BY <1>1, <2>1, <2>2 DEF BackfillInv, Shapes
<1>11. Filed'
  <2> SUFFICES ASSUME NEW q \in Periods, NEW i \in FileNumbers
               PROVE  Proper(files'[q][i], q)
    BY DEF Filed, Proper, Genuine, YearsOf
  <2>1. Proper(files[q][i], q) /\ Proper(<<>>, q)
    BY EmptyFile DEF BackfillInv, Filed
  <2> QED
    BY <1>7, <1>9, <2>1
<1>12. Streamed'
  <2> SUFFICES ASSUME NEW q \in Periods
               PROVE  /\ Proper(stream'[q], q)
                      /\ \A i \in DOMAIN stream'[q] :
                            /\ stream'[q][i].years \subseteq years
                            /\ stream'[q][i].station \in Leading(landed)
                      /\ index'[q] > 0 => Touched(q)
    BY <1>1, SameResults DEF Streamed, Proper, Genuine, YearsOf, Touched
  <2>1. CASE q # p
    BY <1>7, <2>1 DEF BackfillInv, Streamed
  <2>2. CASE q = p
    BY <1>4, <1>7, <1>8, <1>9, <2>2
  <2> QED
    BY <2>1, <2>2
<1>13. Rolled'
  <2> SUFFICES ASSUME NEW q \in Periods, index'[q] > 0,
                      NEW i \in DOMAIN files'[q][index'[q] - 1]
               PROVE  /\ files'[q][index'[q] - 1][i].station \in Leading(landed)
                      /\ \A j \in DOMAIN stream'[q] :
                            files'[q][index'[q] - 1][i].station < stream'[q][j].station
    BY <1>1, SameResults DEF Rolled
  <2>1. CASE q # p
    BY <1>7, <2>1 DEF BackfillInv, Rolled
  <2>2. CASE q = p
    <3>1. index'[q] - 1 = k
      <4>1. index'[q] = k + 1 /\ k \in Nat
        BY <1>2, <1>7, <2>2
      <4> QED
        BY <4>1
    <3> QED
      BY <1>4, <1>7, <1>8, <2>2, <3>1
  <2> QED
    BY <2>1, <2>2
<1>14. Written'
  <2> SUFFICES ASSUME NEW s \in Leading(landed), NEW y \in landed[s].got
               PROVE  Kept(PeriodOf[y], <<s, y>>)'
    BY <1>1, SameResults DEF Written
  <2> DEFINE q == PeriodOf[y]
  <2>1. landed[s].got \subseteq Reported[s] \cap years
    BY LeadingFacts DEF BackfillInv, Answered
  <2>2. q \in Periods
    BY <2>1, BackfillAssumption DEF BackfillInv, Shapes
  <2>3. Kept(q, <<s, y>>)
    BY DEF BackfillInv, Written
  <2> HIDE DEF q
  <2>4. CASE q # p
    BY <1>1, <1>7, <2>2, <2>3, <2>4, OthersKept DEF q
  <2>5. CASE q = p
    <3>1. CASE <<s, y>> \in RowsOf(stream[p])
      <4>1. CASE <<s, y>> \in RowsOf(h)
        BY <1>7, <2>5, <4>1 DEF Kept, q
      <4>2. CASE <<s, y>> \in RowsOf(g)
        <5>1. k < index'[p] /\ files'[p][k] = g
          BY <1>2, <1>7
        <5> QED
          BY <1>2, <2>5, <4>2, <5>1 DEF Kept, q
      <4> QED
        BY <1>4, <3>1, <4>1, <4>2
    <3>2. CASE \E i \in FileNumbers : i < k /\ <<s, y>> \in RowsOf(files[p][i])
      <4>1. PICK i \in FileNumbers : i < k /\ <<s, y>> \in RowsOf(files[p][i])
        BY <3>2
      <4>2. i < index'[p] /\ files'[p][i] = files[p][i]
        BY <1>2, <1>7, <4>1
      <4> QED
        BY <2>5, <4>1, <4>2 DEF Kept, q
    <3>3. stream[p] # <<>> /\ period # p
      <4>1. stream[p] # <<>>
        BY <1>6, EmptyFile
      <4> QED
        BY <1>1, <4>1, NoPeriodZero
    <3> QED
      BY <2>3, <2>5, <3>1, <3>2, <3>3 DEF Kept, k
  <2> QED
    BY <2>4, <2>5
<1>15. Merging' /\ Swapping' /\ Course'
    BY <1>1 DEF BackfillInv, Merging, Swapping, Course, Whole
<1> QED
  BY <1>1, <1>10, <1>11, <1>12, <1>13, <1>14, <1>15, SameAnswers DEF BackfillInv

(* What one file of one period becomes.                                     *)
LEMMA OneFile ==
    ASSUME BackfillInv, NEW p \in Periods, NEW k \in FileNumbers, NEW f \in Seq(Table),
           Proper(f, p), files' = [files EXCEPT ![p][k] = f]
    PROVE  /\ files' \in [Periods -> [FileNumbers -> Seq(Table)]]
           /\ files'[p][k] = f
           /\ \A i \in FileNumbers : i # k => files'[p][i] = files[p][i]
           /\ \A q \in Periods : q # p => files'[q] = files[q]
           /\ Filed'
<1>1. files \in [Periods -> [FileNumbers -> Seq(Table)]]
    BY DEF BackfillInv, Shapes
<1>2. files[p] \in [FileNumbers -> Seq(Table)]
    BY <1>1
<1>3. files' = [files EXCEPT ![p] = [files[p] EXCEPT ![k] = f]]
    BY <1>1
<1>4. [files[p] EXCEPT ![k] = f] \in [FileNumbers -> Seq(Table)]
    BY <1>2
<1>5. files' \in [Periods -> [FileNumbers -> Seq(Table)]]
    BY <1>1, <1>3, <1>4
<1>6. files'[p] = [files[p] EXCEPT ![k] = f]
    BY <1>1, <1>3
<1>7. files'[p][k] = f /\ \A i \in FileNumbers : i # k => files'[p][i] = files[p][i]
    BY <1>2, <1>6
<1>8. \A q \in Periods : q # p => files'[q] = files[q]
    BY <1>1, <1>3
<1>9. Filed'
  <2> SUFFICES ASSUME NEW q \in Periods, NEW i \in FileNumbers
               PROVE  Proper(files'[q][i], q)
    BY DEF Filed, Proper, Genuine, YearsOf
  <2>1. Proper(files[q][i], q)
    BY DEF BackfillInv, Filed
  <2> QED
    BY <1>7, <1>8, <2>1
<1> QED
    BY <1>5, <1>7, <1>8, <1>9

(* The period of a year for which the service has rows is one.              *)
LEMMA PeriodsOfResults ==
    ASSUME BackfillInv, NEW s \in Leading(landed), NEW y \in landed[s].got
    PROVE  PeriodOf[y] \in Periods /\ Kept(PeriodOf[y], <<s, y>>)
<1>1. landed[s].got \subseteq Reported[s] \cap years
    BY LeadingFacts DEF BackfillInv, Answered
<1> QED
    BY <1>1, BackfillAssumption DEF BackfillInv, Shapes, Written

(* The file of a closed writer has what was in the stream.                  *)
LEMMA CloseKeeps ==
    ASSUME BackfillInv, NEW p \in Periods, CloseWriter(p)
    PROVE  BackfillInv'
<1>1. /\ pc = "fetch" /\ DOMAIN landed = Targets /\ period = 0 /\ stream[p] # <<>>
      /\ files' = [files EXCEPT ![p][index[p]] = stream[p]]
      /\ stream' = [stream EXCEPT ![p] = <<>>]
      /\ index' = [index EXCEPT ![p] = 0]
      /\ UNCHANGED <<part, saved, at, pc, years, landed, merging, marks, period, staged>>
    BY DEF CloseWriter, AllLanded, swap
<1>2. /\ stream \in [Periods -> Seq(Table)] /\ index \in [Periods -> FileNumbers]
      /\ stream[p] \in Seq(Table) /\ index[p] \in FileNumbers /\ index[p] \in Nat
      /\ Proper(stream[p], p)
    BY Numbering DEF BackfillInv, Shapes, Streamed
<1>3. /\ files' \in [Periods -> [FileNumbers -> Seq(Table)]]
      /\ files'[p][index[p]] = stream[p]
      /\ \A i \in FileNumbers : i # index[p] => files'[p][i] = files[p][i]
      /\ \A q \in Periods : q # p => files'[q] = files[q]
      /\ Filed'
    BY <1>1, <1>2, OneFile
<1>4. \A q \in Periods : /\ stream'[q] = IF q = p THEN <<>> ELSE stream[q]
                         /\ index'[q] = IF q = p THEN 0 ELSE index[q]
    BY <1>1, <1>2
<1>5. Shapes'
    BY <1>1, <1>2, <1>3, EmptyFile, Numbering DEF BackfillInv, Shapes
<1>6. Streamed'
  <2> SUFFICES ASSUME NEW q \in Periods
               PROVE  /\ Proper(stream'[q], q)
                      /\ \A i \in DOMAIN stream'[q] :
                            /\ stream'[q][i].years \subseteq years
                            /\ stream'[q][i].station \in Leading(landed)
                      /\ index'[q] > 0 => Touched(q)
    BY <1>1, SameResults DEF Streamed, Proper, Genuine, YearsOf, Touched
  <2> QED
    BY <1>4, EmptyFile DEF BackfillInv, Streamed
<1>7. Rolled'
  <2> SUFFICES ASSUME NEW q \in Periods, index'[q] > 0,
                      NEW i \in DOMAIN files'[q][index'[q] - 1]
               PROVE  /\ files'[q][index'[q] - 1][i].station \in Leading(landed)
                      /\ \A j \in DOMAIN stream'[q] :
                            files'[q][index'[q] - 1][i].station < stream'[q][j].station
    BY <1>1, SameResults DEF Rolled
  <2>1. q # p
    BY <1>4
  <2> QED
    BY <1>3, <1>4, <2>1 DEF BackfillInv, Rolled
<1>8. Written'
  <2> SUFFICES ASSUME NEW s \in Leading(landed), NEW y \in landed[s].got
               PROVE  Kept(PeriodOf[y], <<s, y>>)'
    BY <1>1, SameResults DEF Written
  <2> DEFINE q == PeriodOf[y]
  <2>1. q \in Periods /\ Kept(q, <<s, y>>)
    BY PeriodsOfResults
  <2> HIDE DEF q
  <2>2. CASE q # p
    BY <1>1, <1>3, <1>4, <2>1, <2>2, OthersKept DEF q
  <2>3. CASE q = p
    <3>1. PICK i \in FileNumbers : <<s, y>> \in RowsOf(files'[p][i])
      <4>1. CASE <<s, y>> \in RowsOf(stream[p])
        BY <1>2, <1>3, <4>1
      <4>2. CASE \E i \in FileNumbers : i < index[p] /\ <<s, y>> \in RowsOf(files[p][i])
        <5>1. PICK i \in FileNumbers : i < index[p] /\ <<s, y>> \in RowsOf(files[p][i])
          BY <4>2
        <5>2. i # index[p]
          BY <1>2, <5>1
        <5>3. files'[p][i] = files[p][i]
          BY <1>3, <5>2
        <5> QED
          BY <5>1, <5>3
      <4>3. period # p
        BY <1>1, NoPeriodZero
      <4> QED
        BY <1>1, <2>1, <2>3, <4>1, <4>2, <4>3 DEF Kept
    <3>2. <<s, y>> \in Files(p)'
      BY <3>1 DEF Files
    <3>3. Targets' = Targets
      BY <1>1, SameResults
    <3> QED
      BY <1>1, <1>4, <2>3, <3>2, <3>3 DEF Kept, q
  <2> QED
    BY <2>2, <2>3
<1>9. Merging' /\ Swapping' /\ Course'
  <2>1. Targets' = Targets
    BY <1>1, SameResults
  <2> QED
    BY <1>1, <2>1 DEF BackfillInv, Merging, Swapping, Course, Whole
<1> QED
  BY <1>1, <1>3, <1>5, <1>6, <1>7, <1>8, <1>9, SameAnswers DEF BackfillInv

(* _merge_tail: the third file has the rows of both.                        *)
LEMMA MergeKeeps ==
    ASSUME BackfillInv, NEW p \in Periods, MergeTail(p)
    PROVE  BackfillInv'
<1> DEFINE k == index[p]
           f == files[p][k - 1]
<1>1. /\ pc = "fetch" /\ DOMAIN landed = Targets /\ period = 0 /\ k > 0
      /\ files' = [files EXCEPT ![p][k] = stream[p]]
      /\ merging' = f \o stream[p]
      /\ stream' = [stream EXCEPT ![p] = <<>>]
      /\ period' = p
      /\ UNCHANGED <<part, saved, at, pc, years, landed, index, marks, staged>>
    BY DEF MergeTail, AllLanded
<1>2. /\ stream \in [Periods -> Seq(Table)] /\ stream[p] \in Seq(Table)
      /\ Proper(stream[p], p)
    BY DEF BackfillInv, Shapes, Streamed
<1>3. /\ k \in FileNumbers /\ k \in Nat /\ k - 1 \in FileNumbers
    BY <1>1, Numbering DEF BackfillInv, Shapes
<1>4. f \in Seq(Table) /\ Proper(f, p)
    BY <1>3 DEF BackfillInv, Shapes, Filed
<1>5. \A i \in DOMAIN f : /\ f[i].station \in Leading(landed)
                          /\ \A j \in DOMAIN stream[p] : f[i].station < stream[p][j].station
    BY <1>1 DEF BackfillInv, Rolled
<1> HIDE DEF f
<1>6. /\ merging' \in Seq(Table)
      /\ RowsOf(merging') = RowsOf(f) \cup RowsOf(stream[p])
      /\ Proper(merging', p)
    BY <1>1, <1>2, <1>4, <1>5, Appending DEF Proper
<1>7. /\ files' \in [Periods -> [FileNumbers -> Seq(Table)]]
      /\ \A i \in FileNumbers : i # k => files'[p][i] = files[p][i]
      /\ \A q \in Periods : q # p => files'[q] = files[q]
      /\ Filed'
    BY <1>1, <1>2, <1>3, OneFile
<1>8. files'[p][k - 1] = f
    BY <1>3, <1>7 DEF f
<1>9. \A q \in Periods : stream'[q] = IF q = p THEN <<>> ELSE stream[q]
    BY <1>1, <1>2
<1>10. Shapes'
    BY <1>1, <1>2, <1>6, <1>7, EmptyFile DEF BackfillInv, Shapes
<1>11. Streamed'
  <2> SUFFICES ASSUME NEW q \in Periods
               PROVE  /\ Proper(stream'[q], q)
                      /\ \A i \in DOMAIN stream'[q] :
                            /\ stream'[q][i].years \subseteq years
                            /\ stream'[q][i].station \in Leading(landed)
                      /\ index[q] > 0 => Touched(q)
    BY <1>1, SameResults DEF Streamed, Proper, Genuine, YearsOf, Touched
  <2> QED
    BY <1>9, EmptyFile DEF BackfillInv, Streamed
<1>12. Rolled'
  <2> SUFFICES ASSUME NEW q \in Periods, index[q] > 0,
                      NEW i \in DOMAIN files'[q][index[q] - 1]
               PROVE  /\ files'[q][index[q] - 1][i].station \in Leading(landed)
                      /\ \A j \in DOMAIN stream'[q] :
                            files'[q][index[q] - 1][i].station < stream'[q][j].station
    BY <1>1, SameResults DEF Rolled
  <2>1. CASE q # p
    BY <1>7, <1>9, <2>1 DEF BackfillInv, Rolled
  <2>2. CASE q = p
    BY <1>5, <1>8, <1>9, <2>2, EmptyFile
  <2> QED
    BY <2>1, <2>2
<1>13. Written'
  <2> SUFFICES ASSUME NEW s \in Leading(landed), NEW y \in landed[s].got
               PROVE  Kept(PeriodOf[y], <<s, y>>)'
    BY <1>1, SameResults DEF Written
  <2> DEFINE q == PeriodOf[y]
  <2>1. q \in Periods /\ Kept(q, <<s, y>>)
    BY PeriodsOfResults
  <2> HIDE DEF q
  <2>2. CASE q # p
    <3>1. period # q
      BY <1>1, <2>1, NoPeriodZero
    <3> QED
      BY <1>1, <1>7, <1>9, <2>1, <2>2, <3>1, OthersKept DEF q
  <2>3. CASE q = p
    <3>1. CASE <<s, y>> \in RowsOf(stream[p])
      BY <1>1, <1>6, <2>3, <3>1 DEF Kept, q
    <3>2. CASE \E i \in FileNumbers : i < k /\ <<s, y>> \in RowsOf(files[p][i])
      <4>1. PICK i \in FileNumbers : i < k /\ <<s, y>> \in RowsOf(files[p][i])
        BY <3>2
      <4>2. files'[p][i] = files[p][i] /\ index' = index
        BY <1>1, <1>3, <1>7, <4>1
      <4> QED
        BY <2>3, <4>1, <4>2 DEF Kept, q
    <3>3. period # p /\ k # 0
      BY <1>1, <1>3, NoPeriodZero
    <3> QED
      BY <2>1, <2>3, <3>1, <3>2, <3>3 DEF Kept
  <2> QED
    BY <2>2, <2>3
<1>14. Merging'
    BY <1>1, <1>6, <1>8 DEF Merging, Proper, Genuine, YearsOf
<1>15. Swapping' /\ Course'
  <2>1. Targets' = Targets /\ stream'[p] = <<>>
    BY <1>1, <1>9, SameResults
  <2> QED
    BY <1>1, <2>1 DEF BackfillInv, Swapping, Course, Whole
<1> QED
  BY <1>1, <1>7, <1>10, <1>11, <1>12, <1>13, <1>14, <1>15, SameAnswers DEF BackfillInv

(* A former file goes when the third is complete.                           *)
LEMMA DropKeeps ==
    ASSUME BackfillInv, NEW i \in FileNumbers, DropMerged(i)
    PROVE  BackfillInv'
<1> DEFINE p == period
           k == index[p]
<1>1. /\ pc = "fetch" /\ p # 0
      /\ i = k - 1 \/ (i = k /\ files[p][i - 1] = <<>>)
      /\ files' = [files EXCEPT ![p][i] = <<>>]
      /\ UNCHANGED <<part, saved, at, pc, years, landed, stream, index, merging, marks,
                     period, staged>>
    BY DEF DropMerged, process, swap
<1>2. p \in Periods /\ k \in FileNumbers /\ k \in Nat /\ k > 0 /\ k - 1 \in FileNumbers
  <2>1. p \in Periods /\ k \in FileNumbers /\ k > 0
    BY <1>1 DEF BackfillInv, Shapes, Course
  <2> QED
    BY <2>1, Numbering
<1>3. /\ files' \in [Periods -> [FileNumbers -> Seq(Table)]]
      /\ files'[p][i] = <<>>
      /\ \A j \in FileNumbers : j # i => files'[p][j] = files[p][j]
      /\ \A q \in Periods : q # p => files'[q] = files[q]
      /\ Filed'
    BY <1>1, <1>2, EmptyFile, OneFile
<1>4. files'[p][k - 1] = <<>> \/ files'[p][k - 1] = files[p][k - 1]
    BY <1>2, <1>3
<1>5. Shapes'
    BY <1>1, <1>3 DEF BackfillInv, Shapes
<1>6. Streamed'
    BY <1>1, SameResults DEF BackfillInv, Streamed, Proper, Genuine, YearsOf, Touched
<1>7. Rolled'
  <2> SUFFICES ASSUME NEW q \in Periods, index[q] > 0,
                      NEW j \in DOMAIN files'[q][index[q] - 1]
               PROVE  /\ files'[q][index[q] - 1][j].station \in Leading(landed)
                      /\ \A n \in DOMAIN stream[q] :
                            files'[q][index[q] - 1][j].station < stream[q][n].station
    BY <1>1, SameResults DEF Rolled
  <2>1. CASE q # p
    BY <1>3, <2>1 DEF BackfillInv, Rolled
  <2>2. CASE q = p
    <3>1. files'[q][index[q] - 1] = files[q][index[q] - 1]
      BY <1>4, <2>2, EmptyFile
    <3> QED
      BY <3>1 DEF BackfillInv, Rolled
  <2> QED
    BY <2>1, <2>2
<1>8. Merging'
  <2>1. /\ Proper(merging, p)
        /\ RowsOf(files[p][k - 1]) \subseteq RowsOf(merging)
    BY <1>1 DEF BackfillInv, Merging
  <2>2. RowsOf(files'[p][k - 1]) \subseteq RowsOf(merging)
    BY <1>4, <2>1, EmptyFile
  <2> QED
    BY <1>1, <2>1, <2>2 DEF Merging, Proper, Genuine, YearsOf
<1>9. Written'
  <2> SUFFICES ASSUME NEW s \in Leading(landed), NEW y \in landed[s].got
               PROVE  Kept(PeriodOf[y], <<s, y>>)'
    BY <1>1, SameResults DEF Written
  <2> DEFINE q == PeriodOf[y]
  <2>1. q \in Periods /\ Kept(q, <<s, y>>)
    BY PeriodsOfResults
  <2> HIDE DEF q
  <2>2. CASE q # p
    BY <1>1, <1>3, <2>1, <2>2, OthersKept DEF q
  <2>3. CASE q = p
    <3>1. CASE <<s, y>> \in RowsOf(stream[p])
      BY <1>1, <2>3, <3>1 DEF Kept, q
    <3>2. CASE \E j \in FileNumbers : j < k /\ <<s, y>> \in RowsOf(files[p][j])
      <4>1. PICK j \in FileNumbers : j < k /\ <<s, y>> \in RowsOf(files[p][j])
        BY <3>2
      <4>2. CASE j = k - 1
        <5>1. <<s, y>> \in RowsOf(merging)
          BY <1>1, <4>1, <4>2 DEF BackfillInv, Merging
        <5> QED
          BY <1>1, <2>3, <5>1 DEF Kept, q
      <4>3. CASE j # k - 1
        <5>1. j # i
          BY <1>1, <1>2, <4>1, <4>3
        <5>2. files'[p][j] = files[p][j] /\ index' = index
          BY <1>1, <1>3, <5>1
        <5> QED
          BY <2>3, <4>1, <5>2 DEF Kept, q
      <4> QED
        BY <4>2, <4>3
    <3>3. CASE <<s, y>> \in RowsOf(merging)
      BY <1>1, <2>3, <3>3 DEF Kept, q
    <3>4. k # 0
      BY <1>2
    <3> QED
      BY <2>1, <2>3, <3>1, <3>2, <3>3, <3>4 DEF Kept
  <2> QED
    BY <2>2, <2>3
<1>10. Swapping' /\ Course'
  <2>1. Targets' = Targets
    BY <1>1, SameResults
  <2> QED
    BY <1>1, <2>1 DEF BackfillInv, Swapping, Course, Whole
<1> QED
  BY <1>1, <1>3, <1>5, <1>6, <1>7, <1>8, <1>9, <1>10, SameAnswers DEF BackfillInv

(* The third takes the name of the first, and the writer is closed.         *)
LEMMA MoveMergedKeeps ==
    ASSUME BackfillInv, MoveMerged
    PROVE  BackfillInv'
<1> DEFINE p == period
           k == index[p]
<1>1. /\ pc = "fetch" /\ p # 0
      /\ files[p][k - 1] = <<>>
      /\ files' = [files EXCEPT ![p][k - 1] = merging]
      /\ index' = [index EXCEPT ![p] = 0]
      /\ merging' = <<>> /\ period' = 0
      /\ UNCHANGED <<part, saved, at, pc, years, landed, stream, marks, staged>>
    BY DEF MoveMerged
<1>2. /\ p \in Periods /\ k \in FileNumbers /\ k \in Nat /\ k > 0 /\ k - 1 \in FileNumbers
      /\ DOMAIN landed = Targets /\ stream[p] = <<>>
  <2>1. /\ p \in Periods /\ k \in FileNumbers /\ k > 0
        /\ DOMAIN landed = Targets /\ stream[p] = <<>>
    BY <1>1 DEF BackfillInv, Shapes, Course
  <2> QED
    BY <2>1, Numbering
<1>3. merging \in Seq(Table) /\ Proper(merging, p)
    BY <1>1 DEF BackfillInv, Shapes, Merging
<1>4. /\ files' \in [Periods -> [FileNumbers -> Seq(Table)]]
      /\ files'[p][k - 1] = merging
      /\ \A j \in FileNumbers : j # k - 1 => files'[p][j] = files[p][j]
      /\ \A q \in Periods : q # p => files'[q] = files[q]
      /\ Filed'
    BY <1>1, <1>2, <1>3, OneFile
<1>5. \A q \in Periods : index'[q] = IF q = p THEN 0 ELSE index[q]
    BY <1>1 DEF BackfillInv, Shapes
<1>6. Shapes'
    BY <1>1, <1>4, EmptyFile, Numbering DEF BackfillInv, Shapes
<1>7. Streamed'
  <2> SUFFICES ASSUME NEW q \in Periods
               PROVE  /\ Proper(stream[q], q)
                      /\ \A i \in DOMAIN stream[q] :
                            /\ stream[q][i].years \subseteq years
                            /\ stream[q][i].station \in Leading(landed)
                      /\ index'[q] > 0 => Touched(q)
    BY <1>1, SameResults DEF Streamed, Proper, Genuine, YearsOf, Touched
  <2> QED
    BY <1>5 DEF BackfillInv, Streamed
<1>8. Rolled'
  <2> SUFFICES ASSUME NEW q \in Periods, index'[q] > 0,
                      NEW j \in DOMAIN files'[q][index'[q] - 1]
               PROVE  /\ files'[q][index'[q] - 1][j].station \in Leading(landed)
                      /\ \A n \in DOMAIN stream[q] :
                            files'[q][index'[q] - 1][j].station < stream[q][n].station
    BY <1>1, SameResults DEF Rolled
  <2>1. q # p
    BY <1>5
  <2> QED
    BY <1>4, <1>5, <2>1 DEF BackfillInv, Rolled
<1>9. Written'
  <2> SUFFICES ASSUME NEW s \in Leading(landed), NEW y \in landed[s].got
               PROVE  Kept(PeriodOf[y], <<s, y>>)'
    BY <1>1, SameResults DEF Written
  <2> DEFINE q == PeriodOf[y]
  <2>1. q \in Periods /\ Kept(q, <<s, y>>)
    BY PeriodsOfResults
  <2> HIDE DEF q
  <2>2. CASE q # p
    BY <1>1, <1>4, <1>5, <2>1, <2>2, OthersKept DEF q
  <2>3. CASE q = p
    <3>1. PICK h \in FileNumbers : <<s, y>> \in RowsOf(files'[p][h])
      <4>1. CASE <<s, y>> \in RowsOf(merging)
        BY <1>2, <1>4, <4>1
      <4>2. CASE \E j \in FileNumbers : j < k /\ <<s, y>> \in RowsOf(files[p][j])
        <5>1. PICK j \in FileNumbers : j < k /\ <<s, y>> \in RowsOf(files[p][j])
          BY <4>2
        <5>2. j # k - 1
          BY <1>1, <5>1, EmptyFile
        <5>3. files'[p][j] = files[p][j]
          BY <1>4, <5>2
        <5> QED
          BY <5>1, <5>3
      <4>3. <<s, y>> \notin RowsOf(stream[p]) /\ k # 0
        BY <1>2, EmptyFile
      <4> QED
        BY <2>1, <2>3, <4>1, <4>2, <4>3 DEF Kept
    <3>2. Targets' = Targets /\ index'[p] = 0
      BY <1>1, <1>2, <1>5, SameResults
    <3>3. Kept(q, <<s, y>>)'
      <4>1. /\ landed' = landed /\ stream' = stream /\ q = p
            /\ \E j \in FileNumbers : <<s, y>> \in RowsOf(files'[q][j])
        BY <1>1, <2>3, <3>1
      <4> QED
        BY <1>2, <2>3, <3>2, <4>1 DEF Kept, Files
    <3> QED
      BY <3>3 DEF q
  <2> QED
    BY <2>2, <2>3
<1>10. Merging' /\ Swapping' /\ Course'
    BY <1>1 DEF BackfillInv, Merging, Swapping, Course, Whole
<1> QED
  BY <1>1, <1>4, <1>6, <1>7, <1>8, <1>9, <1>10, SameAnswers DEF BackfillInv

LEMMA Closed ==
    ASSUME BackfillInv, NEW p \in Periods, ~ WriterOpen(p)
    PROVE  stream[p] = <<>> /\ index[p] = 0
<1>1. index[p] \in Nat
    BY Numbering DEF BackfillInv, Shapes
<1> QED
    BY <1>1 DEF WriterOpen

LEMMA SaveKeeps ==
    ASSUME BackfillInv, Save
    PROVE  /\ BackfillInv'
           /\ stream = NoStreams /\ index = NoIndex /\ period = 0
<1>1. /\ pc = "fetch" /\ DOMAIN landed = Targets
      /\ \A p \in Periods : ~ WriterOpen(p)
      /\ saved' = marks /\ pc' = "exit"
      /\ UNCHANGED <<files, part, at, years, landed, stream, index, merging, marks,
                     period, staged>>
    BY DEF Save, AllLanded, process, swap
<1>2. \A p \in Periods : stream[p] = <<>> /\ index[p] = 0
    BY <1>1, Closed
<1>3. stream = NoStreams /\ index = NoIndex
  <2>1. /\ stream = [p \in Periods |-> stream[p]]
        /\ index = [p \in Periods |-> index[p]]
    BY DEF BackfillInv, Shapes
  <2> QED
    BY <1>2, <2>1 DEF NoStreams, NoIndex
<1>4. period = 0 /\ staged = {}
  <2>1. period # 0 => period \in Periods /\ index[period] > 0
    BY <1>1 DEF BackfillInv, Shapes, Course
  <2>2. staged = {}
    BY <1>1 DEF BackfillInv, Course
  <2> QED
    BY <1>2, <2>1, <2>2
<1>5. Targets' = Targets /\ Leading(landed)' = Leading(landed)
    BY <1>1, SameResults
<1>6. Shapes' /\ Filed' /\ Streamed' /\ Rolled'
    BY <1>1, <1>5
    DEF BackfillInv, Shapes, Filed, Streamed, Rolled, Proper, Genuine, YearsOf, Touched
<1>7. Answered' /\ Marked'
    BY <1>1, <1>5 DEF BackfillInv, Answered, Marked
<1>8. Written'
  <2> SUFFICES ASSUME NEW s \in Leading(landed), NEW y \in landed[s].got
               PROVE  Kept(PeriodOf[y], <<s, y>>)'
    BY <1>1, <1>5 DEF Written
  <2>1. Kept(PeriodOf[y], <<s, y>>)
    BY PeriodsOfResults
  <2> QED
    BY <1>1, <2>1, OthersKept
<1>9. Merging' /\ Swapping' /\ Course'
    BY <1>1, <1>3, <1>4, <1>5 DEF BackfillInv, Merging, Swapping, Course, Whole
<1> QED
    BY <1>3, <1>4, <1>6, <1>7, <1>8, <1>9 DEF BackfillInv

-------------------------------------------------------------------------------
(* Steps between runs *)

(* Nothing has landed: what speaks of results holds.                        *)
Fresh == landed = <<>> /\ stream = NoStreams /\ index = NoIndex

Idle == Streamed /\ Rolled /\ Answered /\ Written

LEMMA FreshProcess == Fresh => Idle
<1> SUFFICES ASSUME Fresh PROVE Idle
    OBVIOUS
<1> USE DEF Fresh, Idle
<1>1. Leading(landed) = {}
    BY EmptyFile, LeadingFacts
<1>2. \A p \in Periods : stream[p] = <<>> /\ index[p] = 0
    BY DEF NoStreams, NoIndex
<1>3. Streamed /\ Rolled
    BY <1>2, EmptyFile DEF Streamed, Rolled
<1>4. Answered /\ Written
    BY <1>1, EmptyFile DEF Answered, Written
<1> QED
    BY <1>3, <1>4

LEMMA FilesStay ==
    ASSUME BackfillInv,
           \A p \in Periods, i \in FileNumbers :
               files'[p][i] = files[p][i] \/ files'[p][i] = <<>>
    PROVE  Filed'
<1> SUFFICES ASSUME NEW p \in Periods, NEW i \in FileNumbers
             PROVE  Proper(files'[p][i], p)
    BY DEF Filed, Proper, Genuine, YearsOf
<1>1. Proper(files[p][i], p) /\ Proper(<<>>, p)
    BY EmptyFile DEF BackfillInv, Filed
<1> QED
    BY <1>1

LEMMA HeldRows ==
    ASSUME Shapes, NEW p \in Periods
    PROVE  Held(p) \subseteq Rows
<1> SUFFICES ASSUME NEW row \in Files(p) PROVE row \in Rows
    BY DEF Shapes, Held
<1>1. PICK i \in FileNumbers : row \in RowsOf(files[p][i])
    BY DEF Files
<1>2. files[p][i] \in Seq(Table)
    BY DEF Shapes
<1>3. PICK j \in DOMAIN files[p][i] :
          row \in {files[p][i][j].station} \X files[p][i][j].years
    BY <1>1 DEF RowsOf
<1>4. files[p][i][j] \in Table
    BY <1>2, <1>3, ElementOfSeq, LenProperties
<1> QED
    BY <1>3, <1>4 DEF Rows, Table

LEMMA NextOne == NextPeriod \in Periods \cup {0}
    BY DEF NextPeriod

LEMMA StartKeeps ==
    ASSUME BackfillInv, NEW range \in SUBSET Years, Start(range),
           UNCHANGED <<files, part, saved, at>>,
           WholePeriods => Whole(range)
    PROVE  BackfillInv'
<1>1. /\ pc = "idle" /\ pc' = "fetch" /\ years' = range /\ marks' = saved
      /\ UNCHANGED <<landed, stream, index, merging, period, staged>>
    BY DEF Start, swap
<1>2. landed = <<>> /\ stream = NoStreams /\ index = NoIndex /\ period = 0 /\ staged = {}
    BY <1>1 DEF BackfillInv, Course
<1>3. Shapes' /\ Filed'
    BY <1>1, FilesStay DEF BackfillInv, Shapes
<1>4. Fresh'
    BY <1>1, <1>2 DEF Fresh
<1>5. Idle'
    BY <1>4, FreshProcess, PTL
<1>6. Merging' /\ Swapping' /\ Marked' /\ Course'
    BY <1>1, <1>2 DEF Merging, Swapping, Marked, Course, Whole
<1> QED
    BY <1>3, <1>5, <1>6 DEF BackfillInv, Idle

(* A process ends, and the walk ends or compacts the period it is at.       *)
LEMMA EndKeeps ==
    ASSUME BackfillInv, End, UNCHANGED store, at' \in Periods \cup {0},
           \/ pc' = "idle" /\ period' = 0 /\ staged' = {}
           \/ pc' = "delete" /\ period' \in Periods /\ staged' = Held(period')
    PROVE  BackfillInv'
<1>1. /\ years' = {} /\ landed' = <<>> /\ stream' = NoStreams /\ index' = NoIndex
      /\ merging' = <<>> /\ UNCHANGED <<files, part, saved>>
    BY DEF End, store
<1>2. staged' \subseteq Rows /\ period' \in Periods \cup {0}
    BY HeldRows DEF BackfillInv
<1>3. Shapes'
  <2>1. stream' \in [Periods -> Seq(Table)] /\ index' \in [Periods -> FileNumbers]
    BY <1>1, EmptyFile, Numbering DEF NoStreams, NoIndex
  <2> QED
    BY <1>1, <1>2, <2>1, EmptyFile DEF BackfillInv, Shapes
<1>4. Filed'
    BY <1>1, FilesStay
<1>5. Fresh'
    BY <1>1 DEF Fresh
<1>6. Idle'
    BY <1>5, FreshProcess, PTL
<1>7. Swapping'
  <2> SUFFICES ASSUME pc' = "delete"
               PROVE  period' \in Periods /\ Held(period)' \subseteq staged'
    BY DEF Swapping
  <2>1. period' \in Periods /\ staged' = Held(period')
    OBVIOUS
  <2>2. Held(period)' = Held(period')
    BY <1>1 DEF Held, Files
  <2> QED
    BY <2>1, <2>2
<1>8. Merging' /\ Marked' /\ Course'
    BY <1>1 DEF Merging, Marked, Course, Whole
<1> QED
    BY <1>3, <1>4, <1>6, <1>7, <1>8 DEF BackfillInv, Idle

(* The script or a compaction goes on while no process runs.                *)
LEMMA QuietKeeps ==
    ASSUME BackfillInv, UNCHANGED <<process, saved>>,
           pc \in {"idle", "delete", "move"}, pc' \in {"idle", "delete", "move"},
           pc' = "idle" => period' = 0 /\ staged' = {},
           Shapes', Filed', Swapping'
    PROVE  BackfillInv'
<1>1. /\ years = {} /\ landed = <<>> /\ stream = NoStreams /\ index = NoIndex
      /\ merging = <<>> /\ UNCHANGED <<years, landed, stream, index, merging>>
    BY DEF BackfillInv, Course, process
<1>2. Fresh'
    BY <1>1 DEF Fresh
<1>3. Idle'
    BY <1>2, FreshProcess, PTL
<1>4. Merging' /\ Marked' /\ Course'
    BY <1>1 DEF Merging, Marked, Course, Whole
<1> QED
    BY <1>3, <1>4 DEF BackfillInv, Idle

(* The walk moves on, or a compaction begins or ends, without a change of   *)
(* what is there.                                                           *)
LEMMA TurnKeeps ==
    ASSUME BackfillInv, UNCHANGED <<files, part, saved, process>>,
           pc \in {"idle", "delete", "move"}, at' \in Periods \cup {0},
           \/ pc' = "idle" /\ period' = 0 /\ staged' = {}
           \/ pc' = "move" /\ period' = period /\ staged' = staged
           \/ /\ pc' = "delete" /\ period' \in Periods
              /\ Held(period') \subseteq staged' /\ staged' \subseteq Rows
    PROVE  BackfillInv'
<1>1. Shapes'
    BY DEF BackfillInv, Shapes, process
<1>2. Filed'
    BY FilesStay
<1>3. Swapping'
  <2>1. Held(period)' = Held(period')
    BY DEF Held, Files
  <2> QED
    BY <2>1 DEF Swapping
<1> QED
    BY <1>1, <1>2, <1>3, QuietKeeps

(* compact_period: a file of the period is deleted or moved in.             *)
LEMMA SwapKeeps ==
    ASSUME BackfillInv, pc \in {"delete", "move"},
           UNCHANGED <<saved, at, pc, process, period, staged>>,
           files' \in [Periods -> [FileNumbers -> Seq(Table)]],
           part' \in [Periods -> SUBSET Rows],
           \A p \in Periods, i \in FileNumbers :
               files'[p][i] = files[p][i] \/ files'[p][i] = <<>>,
           pc = "delete" => part'[period] \subseteq part[period]
    PROVE  BackfillInv'
<1>1. Shapes'
    BY DEF BackfillInv, Shapes, process
<1>2. Filed'
    BY FilesStay
<1>3. Swapping'
  <2> SUFFICES ASSUME pc = "delete"
               PROVE  period \in Periods /\ Held(period)' \subseteq staged
    BY DEF Swapping
  <2>1. period \in Periods /\ Held(period) \subseteq staged
    BY DEF BackfillInv, Swapping
  <2>2. ASSUME NEW i \in FileNumbers, NEW row \in RowsOf(files'[period][i])
        PROVE  row \in Files(period)
    BY <2>1, <2>2, EmptyFile, InFiles
  <2>3. Files(period)' \subseteq Files(period)
    BY <2>2 DEF Files
  <2> QED
    BY <2>1, <2>3 DEF Held
<1> QED
    BY <1>1, <1>2, <1>3, QuietKeeps

(* The steps that start, end, or take place outside a run.                  *)
LEMMA WalkSteps ==
    ASSUME BackfillInv,
           Skip \/ StartWalk \/ WalkPeriod \/ WalkCompact \/ WalkFails \/ Dispatch
               \/ DispatchEnds \/ Crash
    PROVE  BackfillInv'
<1>1. at \in Periods \cup {0} /\ period \in Periods \cup {0}
    BY DEF BackfillInv, Shapes
<1>2. pc = "idle" \/ pc = "exit" => period = 0 /\ staged = {}
    BY DEF BackfillInv, Course
<1>3. CASE Skip \/ StartWalk
  <2>1. /\ pc = "idle" /\ at' = NextPeriod
        /\ UNCHANGED <<files, part, saved, pc, process, period, staged>>
    BY <1>3 DEF Skip, StartWalk, store, swap
  <2> QED
    BY <1>2, <2>1, NextOne, TurnKeeps
<1>4. CASE WalkPeriod
  <2>1. Start(YearsOf(at)) /\ UNCHANGED <<files, part, saved, at>>
    BY <1>4 DEF WalkPeriod, WalkRange, store
  <2>2. YearsOf(at) \in SUBSET Years /\ Whole(YearsOf(at))
    BY DEF YearsOf, Whole
  <2> QED
    BY <2>1, <2>2, StartKeeps
<1>5. CASE WalkCompact
  <2>1. /\ End /\ UNCHANGED store /\ at' = at /\ at # 0
        /\ pc' = "delete" /\ period' = at /\ staged' = Held(at)
    BY <1>5 DEF WalkCompact, Swap
  <2> QED
    BY <1>1, <2>1, EndKeeps
<1>6. CASE WalkFails \/ DispatchEnds
  <2>1. /\ pc = "exit" /\ End /\ UNCHANGED store /\ at' \in {at, 0}
        /\ pc' = "idle" /\ period' = period /\ staged' = staged
    BY <1>6 DEF WalkFails, DispatchEnds, swap
  <2> QED
    BY <1>1, <1>2, <2>1, EndKeeps
<1>7. CASE Crash
  <2>1. /\ End /\ UNCHANGED store /\ at' = 0
        /\ pc' = "idle" /\ period' = 0 /\ staged' = {}
    BY <1>7 DEF Crash
  <2> QED
    BY <2>1, EndKeeps
<1>8. CASE Dispatch
  <2>1. PICK range \in Dispatched : Start(range) /\ UNCHANGED <<files, part, saved, at>>
    BY <1>8 DEF Dispatch, store
  <2>2. range \in SUBSET Years /\ (WholePeriods => Whole(range))
    BY BackfillAssumption DEF WholePeriods
  <2> QED
    BY <2>1, <2>2, StartKeeps
<1> QED
    BY <1>3, <1>4, <1>5, <1>6, <1>7, <1>8

(* The steps of a compaction.                                               *)
LEMMA CompactionSteps ==
    ASSUME BackfillInv,
           \/ \E i \in FileNumbers : DeleteFile(i)
           \/ \E R \in SUBSET staged : DeletePart(R) \/ MovePart(R)
           \/ DeleteDone \/ MoveDone
           \/ \E s \in Stations, y \in Years : AppendRun(s, y)
    PROVE  BackfillInv'
<1>1. /\ files \in [Periods -> [FileNumbers -> Seq(Table)]]
      /\ part \in [Periods -> SUBSET Rows] /\ staged \subseteq Rows
      /\ at \in Periods \cup {0} /\ period \in Periods \cup {0}
    BY DEF BackfillInv, Shapes
<1>2. ASSUME NEW i \in FileNumbers, DeleteFile(i) PROVE BackfillInv'
  <2>1. /\ pc = "delete" /\ files' = [files EXCEPT ![period][i] = <<>>]
        /\ UNCHANGED <<part, saved, at, pc, process, period, staged>>
    BY <1>2 DEF DeleteFile, swap
  <2>2. period \in Periods
    BY <2>1 DEF BackfillInv, Swapping
  <2>3. /\ files' \in [Periods -> [FileNumbers -> Seq(Table)]]
        /\ files'[period][i] = <<>>
        /\ \A j \in FileNumbers : j # i => files'[period][j] = files[period][j]
        /\ \A q \in Periods : q # period => files'[q] = files[q]
    BY <2>1, <2>2, EmptyFile, OneFile
  <2>4. \A p \in Periods, j \in FileNumbers :
            files'[p][j] = files[p][j] \/ files'[p][j] = <<>>
    BY <2>3
  <2> QED
    BY <1>1, <2>1, <2>3, <2>4, SwapKeeps
<1>3. ASSUME NEW R \in SUBSET staged, DeletePart(R) PROVE BackfillInv'
  <2>1. /\ pc = "delete" /\ part' = [part EXCEPT ![period] = part[period] \ R]
        /\ UNCHANGED <<files, saved, at, pc, process, period, staged>>
    BY <1>3 DEF DeletePart, swap
  <2>2. period \in Periods
    BY <2>1 DEF BackfillInv, Swapping
  <2>3. part' \in [Periods -> SUBSET Rows] /\ part'[period] \subseteq part[period]
    BY <1>1, <2>1, <2>2
  <2> QED
    BY <1>1, <2>1, <2>3, SwapKeeps
<1>4. ASSUME NEW R \in SUBSET staged, MovePart(R) PROVE BackfillInv'
  <2>1. /\ pc = "move" /\ part' = [part EXCEPT ![period] = part[period] \cup R]
        /\ UNCHANGED <<files, saved, at, pc, process, period, staged>>
    BY <1>4 DEF MovePart, swap
  <2>2. part' \in [Periods -> SUBSET Rows]
    BY <1>1, <2>1
  <2> QED
    BY <1>1, <2>1, <2>2, SwapKeeps
<1>5. CASE DeleteDone
  <2>1. /\ pc = "delete" /\ pc' = "move"
        /\ UNCHANGED <<files, part, saved, at, process, period, staged>>
    BY <1>5 DEF DeleteDone, store, swap
  <2> QED
    BY <1>1, <2>1, TurnKeeps
<1>6. CASE MoveDone
  <2>1. /\ pc = "move" /\ pc' = "idle" /\ at' \in {0, NextPeriod}
        /\ period' = 0 /\ staged' = {} /\ UNCHANGED <<files, part, saved, process>>
    BY <1>6 DEF MoveDone, store
  <2> QED
    BY <2>1, NextOne, TurnKeeps
<1>7. ASSUME NEW s \in Stations, NEW y \in Years, AppendRun(s, y) PROVE BackfillInv'
  <2> DEFINE p == PeriodOf[y]
  <2>1. p \in Periods
    BY BackfillAssumption
  <2>2. /\ pc = "idle" /\ pc' = "delete" /\ period' = p
        /\ staged' = Held(p) \cup {<<s, y>>}
        /\ UNCHANGED <<files, part, saved, at, process>>
    BY <1>7 DEF AppendRun, Swap, store
  <2> HIDE DEF p
  <2>3. staged' \subseteq Rows /\ Held(period') \subseteq staged'
    BY <2>1, <2>2, HeldRows DEF BackfillInv, Rows
  <2> QED
    BY <1>1, <2>1, <2>2, <2>3, TurnKeeps
<1> QED
    BY <1>2, <1>3, <1>4, <1>5, <1>6, <1>7

LEMMA BackfillInductive == BackfillInv /\ [Next]_vars => BackfillInv'
<1> SUFFICES ASSUME BackfillInv, [Next]_vars PROVE BackfillInv'
    OBVIOUS
<1>1. ASSUME NEW s \in Stations, NEW failed \in SUBSET Asked(s), Land(s, failed)
      PROVE  BackfillInv'
    BY <1>1, LandKeeps
<1>2. ASSUME NEW p \in Periods, NEW n \in 1 .. Len(stream[p]), Roll(p, n)
      PROVE  BackfillInv'
    BY <1>2, RollKeeps
<1>3. ASSUME NEW p \in Periods, CloseWriter(p) \/ MergeTail(p) PROVE BackfillInv'
    BY <1>3, CloseKeeps, MergeKeeps
<1>4. ASSUME NEW i \in FileNumbers, DropMerged(i) PROVE BackfillInv'
    BY <1>4, DropKeeps
<1>5. CASE MoveMerged
    BY <1>5, MoveMergedKeeps
<1>6. CASE Save
    BY <1>6, SaveKeeps
<1>7. CASE UNCHANGED vars
  <2>1. UNCHANGED <<files, part, saved, at, pc, years, landed, stream, index, merging,
                    marks, period, staged>>
    BY <1>7 DEF vars
  <2>2. Targets' = Targets /\ Leading(landed)' = Leading(landed)
    BY <2>1, SameResults
  <2>3. Shapes' /\ Filed' /\ Streamed' /\ Rolled'
    BY <2>1, <2>2
    DEF BackfillInv, Shapes, Filed, Streamed, Rolled, Proper, Genuine, YearsOf, Touched
  <2>4. Answered' /\ Marked'
    BY <2>1, SameAnswers
  <2>5. Written'
    <3> SUFFICES ASSUME NEW s \in Leading(landed), NEW y \in landed[s].got
                 PROVE  Kept(PeriodOf[y], <<s, y>>)'
      BY <2>1, <2>2 DEF Written
    <3>1. Kept(PeriodOf[y], <<s, y>>)
      BY PeriodsOfResults
    <3> QED
      BY <2>1, <3>1, OthersKept
  <2>6. Merging' /\ Course'
    BY <2>1, <2>2
    DEF BackfillInv, Merging, Course, Whole, Proper, Genuine, YearsOf
  <2>7. Swapping'
    BY <2>1 DEF BackfillInv, Swapping, Held, Files
  <2> QED
    BY <2>3, <2>4, <2>5, <2>6, <2>7 DEF BackfillInv
<1> QED
    BY <1>1, <1>2, <1>3, <1>4, <1>5, <1>6, <1>7, WalkSteps, CompactionSteps
    DEF Next, Proceed

LEMMA BackfillStarts == Init => BackfillInv
<1> SUFFICES ASSUME Init PROVE BackfillInv
    OBVIOUS
<1>1. /\ pc = "idle" /\ years = {} /\ landed = <<>> /\ stream = NoStreams
      /\ index = NoIndex /\ merging = <<>> /\ period = 0 /\ staged = {} /\ at = 0
      /\ files = [p \in Periods |-> [i \in FileNumbers |-> <<>>]]
      /\ part = [p \in Periods |-> {}]
    BY DEF Init
<1>2. Shapes /\ Filed
  <2>1. stream \in [Periods -> Seq(Table)] /\ index \in [Periods -> FileNumbers]
    BY <1>1, EmptyFile, Numbering DEF NoStreams, NoIndex
  <2>2. /\ files \in [Periods -> [FileNumbers -> Seq(Table)]]
        /\ part \in [Periods -> SUBSET Rows]
    BY <1>1, EmptyFile
  <2>3. Filed
    BY <1>1, EmptyFile DEF Filed
  <2> QED
    BY <1>1, <2>1, <2>2, <2>3, EmptyFile DEF Shapes
<1>3. Idle
    BY <1>1, FreshProcess DEF Fresh
<1>4. Merging /\ Marked /\ Swapping /\ Course
    BY <1>1 DEF Merging, Marked, Swapping, Course, Whole
<1> QED
    BY <1>2, <1>3, <1>4 DEF BackfillInv, Idle

LEMMA BackfillInvariant == Spec => []BackfillInv
    BY BackfillStarts, BackfillInductive, PTL DEF Spec

-------------------------------------------------------------------------------
(* Results *)

(* The tables of every file are in the order of their stations, whatever    *)
(* order the pool's results land in, however often a writer rolls, and in a *)
(* merged tail too (cli.py:284-316, pack.py:107-163).                       *)
THEOREM FilesAreSorted == Spec => []FilesSorted
<1>1. BackfillInv => FilesSorted
    BY DEF BackfillInv, Filed, Proper, Sorted, FilesSorted
<1> QED
    BY <1>1, BackfillInvariant, PTL

(* With every writer closed, what the results of a run have is in files.    *)
LEMMA ClosedRows ==
    ASSUME BackfillInv, DOMAIN landed = Targets, period = 0,
           stream = NoStreams, index = NoIndex,
           NEW s \in DOMAIN landed, NEW y \in landed[s].got
    PROVE  <<s, y>> \in Held(PeriodOf[y])
<1>1. s \in Leading(landed)
    BY LeadingFacts
<1>2. PeriodOf[y] \in Periods /\ Kept(PeriodOf[y], <<s, y>>)
    BY <1>1, PeriodsOfResults
<1>3. /\ <<s, y>> \notin RowsOf(stream[PeriodOf[y]])
      /\ index[PeriodOf[y]] = 0 /\ period # PeriodOf[y]
    BY <1>2, EmptyFile, NoPeriodZero DEF NoStreams, NoIndex
<1>4. \A i \in FileNumbers : ~ (i < 0)
    BY Numbering
<1> QED
    BY <1>2, <1>3, <1>4 DEF Kept, Held

(* A process that has saved its watermarks has every row it fetched in a    *)
(* file or partition of the row's year: the buffer of results is empty and  *)
(* each writer is closed (cli.py:310-338).                                  *)
THEOREM NothingStaysBuffered == Spec => []FetchedIsHeld
<1>1. ASSUME BackfillInv PROVE FetchedIsHeld
  <2> SUFFICES ASSUME pc = "exit", NEW s \in DOMAIN landed, NEW y \in landed[s].got
               PROVE  <<s, y>> \in Held(PeriodOf[y])
    BY DEF FetchedIsHeld
  <2>1. DOMAIN landed = Targets /\ stream = NoStreams /\ index = NoIndex /\ period = 0
    BY <1>1 DEF BackfillInv, Course
  <2> QED
    BY <1>1, <2>1, ClosedRows
<1> QED
    BY <1>1, BackfillInvariant, PTL

(* Only Save moves a watermark.                                             *)
LEMMA SaveSaves ==
    ASSUME [Next]_vars, saved' # saved
    PROVE  Save
<1>1. ASSUME NEW s \in Stations, NEW failed \in SUBSET Asked(s), Land(s, failed)
      PROVE  FALSE
    BY <1>1 DEF Land
<1>2. ASSUME NEW p \in Periods,
             CloseWriter(p) \/ MergeTail(p) \/ (\E n \in 1 .. Len(stream[p]) : Roll(p, n))
      PROVE  FALSE
    BY <1>2 DEF CloseWriter, MergeTail, Roll
<1>3. ASSUME NEW i \in FileNumbers, DropMerged(i) \/ DeleteFile(i) PROVE FALSE
    BY <1>3 DEF DropMerged, DeleteFile
<1>4. ASSUME NEW R \in SUBSET staged, DeletePart(R) \/ MovePart(R) PROVE FALSE
    BY <1>4 DEF DeletePart, MovePart
<1>5. ASSUME NEW s \in Stations, NEW y \in Years, AppendRun(s, y) PROVE FALSE
    BY <1>5 DEF AppendRun, store
<1>6. CASE MoveMerged \/ DeleteDone \/ MoveDone \/ Crash
    BY <1>6 DEF MoveMerged, DeleteDone, MoveDone, Crash, store
<1>7. CASE Skip \/ StartWalk \/ WalkPeriod \/ WalkCompact \/ WalkFails \/ Dispatch
               \/ DispatchEnds
    BY <1>7
    DEF Skip, StartWalk, WalkPeriod, WalkCompact, WalkFails, Dispatch, DispatchEnds, store
<1>8. CASE UNCHANGED vars
    BY <1>8 DEF vars
<1> QED
    BY <1>1, <1>2, <1>3, <1>4, <1>5, <1>6, <1>7, <1>8 DEF Next, Proceed

(* A watermark moves only over a station whose request was answered in full *)
(* and whose rows are in closed files (cli.py:328-340).                     *)
THEOREM SavedMarksAreComplete == Spec => SavedIsComplete
<1>1. ASSUME BackfillInv, [Next]_vars,
             NEW s \in Stations, saved'[s] # saved[s],
             NEW y \in Reported[s] \cap years
      PROVE  <<s, y>> \in Held(PeriodOf[y])'
  <2>1. Save
    BY <1>1, SaveSaves
  <2>2. /\ pc = "fetch" /\ DOMAIN landed = Targets
        /\ saved' = marks /\ UNCHANGED <<files, part>>
    BY <2>1 DEF Save, AllLanded
  <2>3. stream = NoStreams /\ index = NoIndex /\ period = 0
    BY <1>1, <2>1, SaveKeeps
  <2>4. s \in Leading(landed) /\ ~ landed[s].error
    BY <1>1, <2>2 DEF BackfillInv, Marked
  <2>5. s \in DOMAIN landed /\ y \in landed[s].got
    BY <1>1, <2>4, LeadingFacts DEF BackfillInv, Answered
  <2>6. <<s, y>> \in Held(PeriodOf[y])
    BY <1>1, <2>2, <2>3, <2>5, ClosedRows
  <2> QED
    BY <2>2, <2>6 DEF Held, Files
<1>2. BackfillInv /\ [Next]_vars
        => [\A s \in Stations :
               saved'[s] # saved[s] =>
                   \A y \in Reported[s] \cap years : <<s, y>> \in Held(PeriodOf[y])']_vars
    BY <1>1
<1> QED
    BY <1>2, BackfillInvariant, PTL DEF Spec, SavedIsComplete

-------------------------------------------------------------------------------
(* What a run may lose *)

(* While a run fetches, each row of a period it asks for is in the archive, *)
(* in its hands, still to come, or one of a station that failed.            *)
Secured ==
    WholePeriods /\ pc = "fetch" =>
        \A p \in Periods : Touched(p) =>
            \A s \in Stations, y \in YearsOf(p) :
                y \in Reported[s] =>
                    \/ <<s, y>> \in Held(p) \cup Carried(p)
                    \/ s \in DOMAIN landed /\ landed[s].error

LEMMA RowsAreSecured == BackfillInv => Secured
<1> SUFFICES ASSUME BackfillInv, WholePeriods, pc = "fetch",
                    NEW p \in Periods, Touched(p),
                    NEW s \in Stations, NEW y \in YearsOf(p), y \in Reported[s],
                    ~ (s \in DOMAIN landed /\ landed[s].error)
             PROVE  <<s, y>> \in Held(p) \cup Carried(p)
    BY DEF Secured
<1>1. y \in Years /\ PeriodOf[y] = p
    BY DEF YearsOf
<1>2. y \in years
    BY <1>1 DEF Touched, BackfillInv, Course, Whole, Shapes
<1>3. s \in Targets
    BY <1>1, <1>2, BackfillAssumption DEF Targets, Asked, SpanOf
<1>4. CASE s \notin Leading(landed)
  <2>1. y \in (IF s \in DOMAIN landed THEN landed[s].got ELSE Reported[s] \cap years)
    BY <1>2 DEF BackfillInv, Answered
  <2>2. <<s, y>> \in Coming(p)
    BY <1>3, <1>4, <2>1 DEF Coming
  <2> QED
    BY <2>2 DEF Carried
<1>5. CASE s \in Leading(landed)
  <2>1. y \in landed[s].got
    BY <1>2, <1>5, LeadingFacts DEF BackfillInv, Answered
  <2>2. Kept(p, <<s, y>>)
    BY <1>1, <1>5, <2>1, PeriodsOfResults
  <2> QED
    BY <2>2, InFiles DEF Kept, Carried, Held
<1> QED
    BY <1>4, <1>5

(* What an archive's files and a run's hands have of a period are rows the  *)
(* service has; what is in the hands of the run is of a period it asks for. *)
LEMMA RowsAreGenuine ==
    ASSUME BackfillInv, pc = "fetch", NEW p \in Periods
    PROVE  /\ \A row \in Files(p) \cup Carried(p) :
                 \E s \in Stations, y \in YearsOf(p) : y \in Reported[s] /\ row = <<s, y>>
           /\ Carried(p) # {} => Touched(p)
<1> DEFINE Real(row) ==
        \E s \in Stations, y \in YearsOf(p) : y \in Reported[s] /\ row = <<s, y>>
<1>1. ASSUME NEW f \in Seq(Table), Proper(f, p), NEW row \in RowsOf(f)
      PROVE  Real(row)
  <2>1. PICK i \in DOMAIN f : row \in {f[i].station} \X f[i].years
    BY <1>1 DEF RowsOf
  <2>2. f[i] \in Table /\ Genuine(f[i], p)
    BY <1>1, <2>1, ElementOfSeq, LenProperties DEF Proper
  <2> QED
    BY <2>1, <2>2 DEF Genuine, Table
<1>2. ASSUME NEW row \in Files(p) PROVE Real(row)
  <2>1. PICK i \in FileNumbers : row \in RowsOf(files[p][i])
    BY <1>2, InFiles
  <2>2. files[p][i] \in Seq(Table) /\ Proper(files[p][i], p)
    BY <2>1 DEF BackfillInv, Shapes, Filed
  <2> QED
    BY <1>1, <2>1, <2>2
<1>3. ASSUME NEW row \in RowsOf(stream[p]) PROVE Real(row) /\ Touched(p)
  <2>1. stream[p] \in Seq(Table) /\ Proper(stream[p], p)
    BY DEF BackfillInv, Shapes, Streamed
  <2>2. PICK i \in DOMAIN stream[p] :
            row \in {stream[p][i].station} \X stream[p][i].years
    BY <1>3 DEF RowsOf
  <2>3. Touched(p)
    BY <2>1, <2>2 DEF BackfillInv, Streamed, Proper, Genuine, YearsOf, Touched
  <2> QED
    BY <1>1, <1>3, <2>1, <2>3
<1>4. ASSUME NEW row \in Coming(p) PROVE Real(row) /\ Touched(p)
  <2> DEFINE Had(s) == IF s \in DOMAIN landed THEN landed[s].got ELSE Reported[s] \cap years
  <2>1. PICK s \in Targets : row \in {s} \X (YearsOf(p) \cap Had(s))
    BY <1>4 DEF Coming
  <2>2. s \in Stations /\ Had(s) \subseteq Reported[s] \cap years
    BY <2>1 DEF Targets, BackfillInv, Answered
  <2> HIDE DEF Had
  <2>3. PICK y \in YearsOf(p) \cap Had(s) : row = <<s, y>>
    BY <2>1
  <2>4. y \in years /\ y \in Reported[s] /\ PeriodOf[y] = p
    BY <2>2, <2>3 DEF YearsOf
  <2> QED
    BY <2>2, <2>3, <2>4 DEF Touched
<1>5. ASSUME period = p PROVE /\ \A row \in RowsOf(merging) : Real(row)
                              /\ Touched(p) /\ staged = {}
  <2>1. period # 0
    BY <1>5, NoPeriodZero
  <2>2. Proper(merging, p) /\ merging \in Seq(Table) /\ index[p] > 0 /\ staged = {}
    BY <1>5, <2>1 DEF BackfillInv, Merging, Shapes, Course
  <2> QED
    BY <1>1, <2>2 DEF BackfillInv, Streamed
<1> HIDE DEF Real
<1>6. ASSUME NEW row \in Carried(p) PROVE Real(row) /\ Touched(p)
  <2>1. \/ row \in RowsOf(stream[p]) \/ row \in Coming(p)
        \/ period = p /\ row \in RowsOf(merging) \cup staged
    BY <1>6 DEF Carried
  <2> QED
    BY <1>3, <1>4, <1>5, <2>1
<1> QED
    BY <1>2, <1>6 DEF Real

(* Between runs nothing is in anyone's hands but what a swap has staged.    *)
LEMMA EmptyHanded ==
    ASSUME BackfillInv, pc # "fetch", NEW p \in Periods
    PROVE  /\ pc \in {"idle", "exit"} => Carried(p) = {}
           /\ Carried(p) \subseteq staged
           /\ period # p => Carried(p) = {}
<1>1. RowsOf(stream[p]) = {}
    BY EmptyFile DEF BackfillInv, Course, NoStreams
<1>2. Coming(p) = {}
  <2>1. Targets \subseteq DOMAIN landed
    <3>1. CASE pc = "exit"
      BY <3>1 DEF BackfillInv, Course
    <3>2. CASE pc # "exit"
      BY <3>2 DEF BackfillInv, Course, Targets, Asked
    <3> QED
      BY <3>1, <3>2
  <2>2. Targets \ Leading(landed) = {}
    BY <2>1, LeadingFacts
  <2> QED
    BY <2>2 DEF Coming
<1>3. pc \in {"idle", "exit"} => period # p
    BY NoPeriodZero DEF BackfillInv, Course
<1>4. pc \notin {"idle", "exit"} => RowsOf(merging) = {}
    BY EmptyFile DEF BackfillInv, Course
<1> QED
    BY <1>1, <1>2, <1>3, <1>4 DEF Carried

(* What becomes of a row of period p: the rule of LossConfined.             *)
Spared(p, row) ==
    \/ row \in Held(p)' \cup Carried(p)'
    \/ row[1] \in DOMAIN landed' /\ landed'[row[1]].error
    \/ Crash /\ row \notin Held(p)

(* A step of a run that fetches changes files of periods it asks for only.  *)
LEMMA FetchSpares ==
    ASSUME BackfillInv, WholePeriods, Secured', pc = "fetch",
           UNCHANGED <<part, years, pc>>,
           \A p \in Periods : files'[p] = files[p] \/ Touched(p),
           NEW p \in Periods, NEW row \in Held(p) \cup Carried(p)
    PROVE  Spared(p, row)
<1>1. CASE row \in part[p]
    BY <1>1 DEF Held, Spared
<1>2. CASE row \notin part[p] /\ Touched(p)
  <2>1. row \in Files(p) \cup Carried(p)
    BY <1>2 DEF Held
  <2>2. PICK s \in Stations, y \in YearsOf(p) : y \in Reported[s] /\ row = <<s, y>>
    BY <2>1, RowsAreGenuine
  <2>3. Touched(p)'
    BY <1>2 DEF Touched
  <2>4. y \in YearsOf(p)'
    BY <2>2 DEF YearsOf
  <2>5. \/ <<s, y>> \in (Held(p) \cup Carried(p))'
        \/ s \in DOMAIN landed' /\ landed'[s].error
    BY <2>2, <2>3, <2>4 DEF Secured
  <2>6. row[1] = s
    BY <2>2
  <2> QED
    BY <2>2, <2>5, <2>6 DEF Spared
<1>3. CASE row \notin part[p] /\ ~ Touched(p)
  <2>1. row \in Files(p) /\ files'[p] = files[p]
    BY <1>3, RowsAreGenuine DEF Held
  <2> QED
    BY <2>1 DEF Held, Files, Spared
<1> QED
    BY <1>1, <1>2, <1>3

(* A period whose writer is open is asked for.                              *)
LEMMA OpenIsTouched ==
    ASSUME BackfillInv, NEW p \in Periods, stream[p] # <<>> \/ index[p] > 0
    PROVE  Touched(p)
<1>1. CASE index[p] > 0
    BY <1>1 DEF BackfillInv, Streamed
<1>2. CASE stream[p] # <<>>
  <2>1. stream[p] \in Seq(Table)
    BY DEF BackfillInv, Shapes
  <2>2. Len(stream[p]) \in Nat \ {0} /\ DOMAIN stream[p] = 1 .. Len(stream[p])
    BY <1>2, <2>1, LenProperties, EmptySeq
  <2>3. 1 \in DOMAIN stream[p]
    BY <2>2
  <2> QED
    BY <2>3 DEF BackfillInv, Streamed, Proper, Genuine, YearsOf, Touched
<1> QED
    BY <1>1, <1>2

(* A process that starts or ends, and the script, touch nothing.            *)
LEMMA TurnSpares ==
    ASSUME BackfillInv, UNCHANGED <<files, part>>, pc \in {"idle", "exit"} \/ Crash,
           NEW p \in Periods, NEW row \in Held(p) \cup Carried(p)
    PROVE  Spared(p, row)
<1>1. Held(p)' = Held(p)
    BY DEF Held, Files
<1>2. CASE pc \in {"idle", "exit"}
    BY <1>1, <1>2, EmptyHanded DEF Spared
<1>3. CASE Crash
    BY <1>1, <1>3 DEF Spared
<1> QED
    BY <1>2, <1>3

LEMMA SameHands ==
    ASSUME UNCHANGED <<years, landed, stream, merging, period, staged>>, NEW p
    PROVE  Carried(p)' = Carried(p)
<1>1. Targets' = Targets /\ Leading(landed)' = Leading(landed)
    BY SameResults
<1>2. Coming(p)' = Coming(p)
    BY <1>1 DEF Coming, YearsOf
<1> QED
    BY <1>2 DEF Carried

(* What a swap deletes it has staged, and it ends when that is moved in.    *)
LEMMA SwapSpares ==
    ASSUME BackfillInv, BackfillInv',
           \/ \E i \in FileNumbers : DeleteFile(i)
           \/ \E R \in SUBSET staged : DeletePart(R) \/ MovePart(R)
           \/ DeleteDone \/ MoveDone,
           NEW p \in Periods, NEW row \in Held(p) \cup Carried(p)
    PROVE  Spared(p, row)
<1>1. /\ files \in [Periods -> [FileNumbers -> Seq(Table)]]
      /\ part \in [Periods -> SUBSET Rows]
    BY DEF BackfillInv, Shapes
<1>2. ASSUME pc = "delete", UNCHANGED <<process, swap>>,
             p # period => files'[p] = files[p] /\ part'[p] = part[p]
      PROVE  Spared(p, row)
  <2>1. Carried(p)' = Carried(p)
    BY <1>2, SameHands DEF process, swap
  <2>2. CASE p = period
    <3>1. row \in staged
      BY <1>2, <2>2, EmptyHanded DEF BackfillInv, Swapping
    <3>2. row \in Carried(p)
      BY <2>2, <3>1 DEF Carried
    <3> QED
      BY <2>1, <3>2 DEF Spared
  <2>3. CASE p # period
    <3>1. Held(p)' = Held(p)
      BY <1>2, <2>3 DEF Held, Files
    <3> QED
      BY <2>1, <3>1 DEF Spared
  <2> QED
    BY <2>2, <2>3
<1>3. ASSUME NEW i \in FileNumbers, DeleteFile(i) PROVE Spared(p, row)
  <2>1. /\ pc = "delete" /\ UNCHANGED <<process, swap, part>>
        /\ files' = [files EXCEPT ![period][i] = <<>>]
    BY <1>3 DEF DeleteFile
  <2>2. p # period => files'[p] = files[p] /\ part'[p] = part[p]
    BY <1>1, <2>1
  <2> QED
    BY <1>2, <2>1, <2>2
<1>4. ASSUME NEW R \in SUBSET staged, DeletePart(R) PROVE Spared(p, row)
  <2>1. /\ pc = "delete" /\ UNCHANGED <<process, swap, files>>
        /\ part' = [part EXCEPT ![period] = part[period] \ R]
    BY <1>4 DEF DeletePart
  <2>2. p # period => files'[p] = files[p] /\ part'[p] = part[p]
    BY <1>1, <2>1
  <2> QED
    BY <1>2, <2>1, <2>2
<1>5. ASSUME NEW R \in SUBSET staged, MovePart(R) PROVE Spared(p, row)
  <2>1. /\ UNCHANGED <<process, swap, files>>
        /\ part' = [part EXCEPT ![period] = part[period] \cup R]
    BY <1>5 DEF MovePart
  <2>2. part[p] \subseteq part'[p]
    BY <1>1, <2>1
  <2>3. Held(p) \subseteq Held(p)'
    BY <2>1, <2>2 DEF Held, Files
  <2>4. Carried(p)' = Carried(p)
    BY <2>1, SameHands DEF process, swap
  <2> QED
    BY <2>3, <2>4 DEF Spared
<1>6. CASE DeleteDone
  <2>1. UNCHANGED <<files, part, process, swap>>
    BY <1>6 DEF DeleteDone, store
  <2>2. Carried(p)' = Carried(p) /\ Held(p)' = Held(p)
    BY <2>1, SameHands DEF process, swap, Held, Files
  <2> QED
    BY <2>2 DEF Spared
<1>7. CASE MoveDone
  <2>1. pc = "move" /\ part[period] = staged /\ UNCHANGED <<files, part>>
    BY <1>7 DEF MoveDone, store
  <2>2. Held(p)' = Held(p)
    BY <2>1 DEF Held, Files
  <2>3. Carried(p) \subseteq Held(p)
    BY <2>1, EmptyHanded DEF Held
  <2> QED
    BY <2>2, <2>3 DEF Spared
<1> QED
    BY <1>3, <1>4, <1>5, <1>6, <1>7

(* The steps of a run that fetches.                                         *)
LEMMA RunSpares ==
    ASSUME BackfillInv, BackfillInv', Secured', WholePeriods,
           \/ \E s \in Stations : \E failed \in SUBSET Asked(s) : Land(s, failed)
           \/ \E q \in Periods : \E n \in 1 .. Len(stream[q]) : Roll(q, n)
           \/ \E q \in Periods : CloseWriter(q) \/ MergeTail(q)
           \/ \E i \in FileNumbers : DropMerged(i)
           \/ MoveMerged,
           NEW p \in Periods, NEW row \in Held(p) \cup Carried(p)
    PROVE  Spared(p, row)
<1>1. /\ files \in [Periods -> [FileNumbers -> Seq(Table)]]
      /\ index \in [Periods -> FileNumbers] /\ stream \in [Periods -> Seq(Table)]
    BY DEF BackfillInv, Shapes
<1>2. ASSUME NEW s \in Stations, NEW failed \in SUBSET Asked(s), Land(s, failed)
      PROVE  Spared(p, row)
  <2>1. pc = "fetch" /\ UNCHANGED <<part, years, pc>>
    BY <1>2 DEF Land
  <2>2. \A q \in Periods : files'[q] = files[q] \/ Touched(q)
    BY <1>2, LandKeeps
  <2> QED
    BY <2>1, <2>2, FetchSpares
<1>3. ASSUME NEW q \in Periods, stream[q] # <<>> \/ index[q] > 0,
             pc = "fetch", UNCHANGED <<part, years, pc>>,
             \A r \in Periods : r # q => files'[r] = files[r]
      PROVE  Spared(p, row)
  <2>1. Touched(q)
    BY <1>3, OpenIsTouched
  <2> QED
    BY <1>3, <2>1, FetchSpares
<1>4. ASSUME NEW q \in Periods, NEW n \in 1 .. Len(stream[q]), Roll(q, n)
      PROVE  Spared(p, row)
  <2>1. /\ pc = "fetch" /\ UNCHANGED <<part, years, pc>>
        /\ \E f : files' = [files EXCEPT ![q] = f]
    BY <1>4 DEF Roll
  <2>2. stream[q] # <<>>
    BY <1>4, EmptySeq
  <2>3. \A r \in Periods : r # q => files'[r] = files[r]
    BY <1>1, <2>1
  <2> QED
    BY <1>3, <2>1, <2>2, <2>3
<1>5. ASSUME NEW q \in Periods, CloseWriter(q) \/ MergeTail(q) PROVE Spared(p, row)
  <2>1. /\ pc = "fetch" /\ UNCHANGED <<part, years, pc>>
        /\ stream[q] # <<>> \/ index[q] > 0
        /\ files' = [files EXCEPT ![q][index[q]] = stream[q]]
    BY <1>5 DEF CloseWriter, MergeTail, AllLanded
  <2>2. \A r \in Periods : r # q => files'[r] = files[r]
    BY <1>1, <2>1
  <2> QED
    BY <1>3, <2>1, <2>2
<1>6. ASSUME NEW i \in FileNumbers, DropMerged(i) PROVE Spared(p, row)
  <2>1. /\ pc = "fetch" /\ period # 0 /\ UNCHANGED <<part, years, pc>>
        /\ files' = [files EXCEPT ![period][i] = <<>>]
    BY <1>6 DEF DropMerged, process
  <2>2. period \in Periods /\ index[period] > 0
    BY <2>1 DEF BackfillInv, Shapes, Course
  <2>3. \A r \in Periods : r # period => files'[r] = files[r]
    BY <1>1, <2>1
  <2> QED
    BY <1>3, <2>1, <2>2, <2>3
<1>7. CASE MoveMerged
  <2>1. /\ pc = "fetch" /\ period # 0 /\ UNCHANGED <<part, years, pc>>
        /\ files' = [files EXCEPT ![period][index[period] - 1] = merging]
    BY <1>7 DEF MoveMerged
  <2>2. period \in Periods /\ index[period] > 0
    BY <2>1 DEF BackfillInv, Shapes, Course
  <2>3. \A r \in Periods : r # period => files'[r] = files[r]
    BY <1>1, <2>1
  <2> QED
    BY <1>3, <2>1, <2>2, <2>3
<1> QED
    BY <1>2, <1>4, <1>5, <1>6, <1>7

(* Where every dispatched range covers whole periods, as those of the walk  *)
(* do, no step loses a row of the archive, or one that a run or a swap has  *)
(* in hand, but two: a run may lose rows of a station that fails in it, and *)
(* a death what was not in the archive at that moment: what a new file is   *)
(* to bring in place of an old one, and what a swap has deleted and not yet *)
(* moved in (scripts/walk.sh:4-8, pack.py:109-117, compact.py:140-150).     *)
THEOREM RerunsLoseOnlyFailures == WholePeriods => (Spec => LossConfined)
<1> SUFFICES ASSUME WholePeriods PROVE Spec => LossConfined
    OBVIOUS
<1> DEFINE Confined ==
        \A p \in Periods : \A row \in Held(p) \cup Carried(p) :
            \/ row \in Held(p)' \cup Carried(p)'
            \/ row[1] \in DOMAIN landed' /\ landed'[row[1]].error
            \/ Crash /\ row \notin Held(p)
<1>1. ASSUME BackfillInv, BackfillInv', Secured', [Next]_vars PROVE Confined
  <2> SUFFICES ASSUME NEW p \in Periods, NEW row \in Held(p) \cup Carried(p)
               PROVE  Spared(p, row)
    BY DEF Spared
  <2>1. CASE \/ \E s \in Stations : \E failed \in SUBSET Asked(s) : Land(s, failed)
             \/ \E q \in Periods : \E n \in 1 .. Len(stream[q]) : Roll(q, n)
             \/ \E q \in Periods : CloseWriter(q) \/ MergeTail(q)
             \/ \E i \in FileNumbers : DropMerged(i)
             \/ MoveMerged
    BY <1>1, <2>1, RunSpares
  <2>2. CASE Save \/ UNCHANGED vars
    <3>1. UNCHANGED <<files, part, years, landed, stream, merging, period, staged>>
      BY <2>2 DEF Save, process, swap, vars
    <3>2. Carried(p)' = Carried(p) /\ Held(p)' = Held(p)
      BY <3>1, SameHands DEF Held, Files
    <3> QED
      BY <3>2 DEF Spared
  <2>3. CASE \/ \E i \in FileNumbers : DeleteFile(i)
             \/ \E R \in SUBSET staged : DeletePart(R) \/ MovePart(R)
             \/ DeleteDone \/ MoveDone
    BY <1>1, <2>3, SwapSpares
  <2>4. CASE \/ Skip \/ StartWalk \/ WalkPeriod \/ WalkCompact \/ WalkFails
             \/ Dispatch \/ DispatchEnds
    <3>1. UNCHANGED <<files, part>> /\ pc \in {"idle", "exit"}
      BY <2>4
      DEF Skip, StartWalk, WalkPeriod, WalkCompact, WalkFails, Dispatch, DispatchEnds,
          Start, store
    <3> QED
      BY <1>1, <3>1, TurnSpares
  <2>5. CASE Crash \/ \E s \in Stations, y \in Years : AppendRun(s, y)
    <3>1. UNCHANGED <<files, part>> /\ (Crash \/ pc = "idle")
      BY <2>5 DEF Crash, AppendRun, store
    <3> QED
      BY <1>1, <3>1, TurnSpares
  <2> QED
    BY <1>1, <2>1, <2>2, <2>3, <2>4, <2>5 DEF Next, Proceed
<1>2. BackfillInv /\ BackfillInv' /\ Secured' /\ [Next]_vars => [Confined]_vars
    BY <1>1
<1> QED
    BY <1>2, BackfillInvariant, RowsAreSecured, PTL DEF Spec, LossConfined
===============================================================================
