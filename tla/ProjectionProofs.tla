--------------------------- MODULE ProjectionProofs ---------------------------
(****************************************************************************)
(* Type correctness, SKIP and LIMIT, UNION, DISTINCT with its WHERE, and    *)
(* grouping, for every query and every table.                               *)
(****************************************************************************)
EXTENDS Projection, PathMatchProofs

------------------------------------------------------------------------------
\* The first elements of their kind.
Firsts(s, key) == {i \in DOMAIN s : \A j \in 1..(i - 1) : key[j] # key[i]}

KeptUpTo(g, n, key) ==
  g = [k \in 0..n |->
         IF k = 0 THEN <<>>
         ELSE IF \E m \in DOMAIN g[k - 1] : key[g[k - 1][m]] = key[k] THEN g[k - 1]
              ELSE Append(g[k - 1], k)]

LEMMA KeptExists ==
  ASSUME NEW n \in Nat, NEW key
  PROVE  \E g : KeptUpTo(g, n, key)
<1> DEFINE S == {k \in Nat : \E g : KeptUpTo(g, k, key)}
<1>1. 0 \in S
  <2>1. KeptUpTo([k \in 0..0 |-> <<>>], 0, key)
    BY DEF KeptUpTo
  <2> QED
    BY <2>1
<1>2. ASSUME NEW k \in Nat, k \in S PROVE k + 1 \in S
  <2>1. PICK g : KeptUpTo(g, k, key)
    BY <1>2
  <2> DEFINE next(f, j) == IF \E m \in DOMAIN f[j - 1] : key[f[j - 1][m]] = key[j] THEN f[j - 1]
                           ELSE Append(f[j - 1], j)
             h == [j \in 0..(k + 1) |-> IF j = 0 THEN <<>> ELSE next(g, j)]
  <2>2. ASSUME NEW j \in 0..(k + 1), j # 0 PROVE h[j - 1] = g[j - 1]
    <3>1. j - 1 \in 0..k /\ j - 1 \in 0..(k + 1)
      BY <2>2
    <3>2. g[j - 1] = IF j - 1 = 0 THEN <<>> ELSE next(g, j - 1)
      BY <2>1, <3>1 DEF KeptUpTo
    <3>3. h[j - 1] = IF j - 1 = 0 THEN <<>> ELSE next(g, j - 1)
      BY <3>1
    <3> QED
      BY <3>2, <3>3
  <2>3. h = [j \in 0..(k + 1) |-> IF j = 0 THEN <<>> ELSE next(h, j)]
    <3> HIDE DEF h
    <3>1. h = [j \in 0..(k + 1) |-> IF j = 0 THEN <<>> ELSE next(g, j)]
      BY DEF h
    <3>2. \A j \in 0..(k + 1) : j # 0 => next(h, j) = next(g, j)
      BY <2>2
    <3> HIDE DEF next
    <3> QED
      BY <3>1, <3>2
  <2> HIDE DEF h
  <2>4. KeptUpTo(h, k + 1, key)
    BY <2>3 DEF KeptUpTo
  <2> QED
    BY <2>4
<1> HIDE DEF S
<1>3. n \in S
  BY <1>1, <1>2, Induction
<1> QED
  BY <1>3 DEF S

LEMMA AppendList ==
  ASSUME NEW s, IsList(s), NEW x
  PROVE  Append(s, x) = s \o <<x>>
<1> DEFINE S == Range(s) \union {x}
<1>1. s \in Seq(S) /\ <<x>> \in Seq(S)
  BY DEF IsList
<1> HIDE DEF S
<1> QED
  BY <1>1

\* Uniq keeps the first element of each kind, in order.
LEMMA UniqKeepsFirsts ==
  ASSUME NEW s, IsList(s), NEW key
  PROVE  Uniq(s, key) = Along(s, InOrder(Firsts(s, key)))
<1> DEFINE n == Len(s)
           F == Firsts(s, key)
           kept == CHOOSE g : KeptUpTo(g, n, key)
<1>1. n \in Nat /\ DOMAIN s = 1..n
  BY ListShape
<1>2. Uniq(s, key) = [m \in DOMAIN kept[n] |-> s[kept[n][m]]]
  BY DEF Uniq, KeptUpTo
<1>3. KeptUpTo(kept, n, key)
  BY <1>1, KeptExists
<1> HIDE DEF kept
<1> DEFINE Fine(k) == /\ IsList(kept[k]) /\ Increasing(kept[k])
                      /\ Range(kept[k]) = F \intersect 1..k
           S == {k \in Nat : k \in 0..n => Fine(k)}
<1>4. 0 \in S
  <2>1. kept[0] = <<>>
    <3>1. 0 \in 0..n
      BY <1>1
    <3> QED
      BY <1>3, <3>1 DEF KeptUpTo
  <2>2. Increasing(<<>>)
    BY DEF Increasing
  <2>3. F \intersect 1..0 = {}
    OBVIOUS
  <2> QED
    BY <2>1, <2>2, <2>3, SmallLists
<1>5. ASSUME NEW k \in Nat, k \in S PROVE k + 1 \in S
  <2> SUFFICES ASSUME k + 1 \in 0..n PROVE Fine(k + 1)
    BY <1>5
  <2> DEFINE t == kept[k]
             known == \E m \in DOMAIN t : key[t[m]] = key[k + 1]
  <2>1. IsList(t) /\ Increasing(t) /\ Range(t) = F \intersect 1..k
    BY <1>1, <1>5
  <2>2. kept[k + 1] = IF known THEN t ELSE Append(t, k + 1)
    <3>1. k + 1 \in 0..n /\ k + 1 # 0 /\ (k + 1) - 1 = k
      OBVIOUS
    <3>2. \A j \in 0..n : kept[j] =
            IF j = 0 THEN <<>>
            ELSE IF \E m \in DOMAIN kept[j - 1] : key[kept[j - 1][m]] = key[j] THEN kept[j - 1]
                 ELSE Append(kept[j - 1], j)
      BY ONLY <1>3 DEF KeptUpTo
    <3> QED
      BY ONLY <3>1, <3>2
  <2> HIDE DEF t
  <2>3. known <=> \E i \in F \intersect 1..k : key[i] = key[k + 1]
    BY <2>1 DEF Range
  <2> HIDE DEF known
  <2>4. k + 1 \in 1..n /\ \A i \in F : i \in 1..n
    BY <1>1 DEF Firsts
  <2>5. known <=> \E j \in 1..k : key[j] = key[k + 1]
    <3>1. ASSUME NEW j \in 1..k, key[j] = key[k + 1] PROVE known
      <4> DEFINE Same == {i \in Nat : i \in 1..k /\ key[i] = key[k + 1]}
      <4>1. Same # {}
        BY <3>1
      <4>2. PICK i \in Same : \A m \in Same : i <= m
        <5> HIDE DEF Same
        <5>1. Same \in SUBSET Nat
          BY DEF Same
        <5> QED
          BY <4>1, <5>1, LeastOfNat
      <4>3. i \in 1..k /\ key[i] = key[k + 1]
        BY <4>2
      <4>4. ASSUME NEW m \in 1..(i - 1) PROVE key[m] # key[i]
        <5>1. m \in 1..k /\ m \in Nat /\ ~ (i <= m)
          BY <4>3
        <5> QED
          BY <4>2, <4>3, <5>1
      <4>5. i \in F
        BY <1>1, <2>4, <4>3, <4>4 DEF Firsts
      <4> QED
        BY <2>3, <4>3, <4>5
    <3> QED
      BY <2>3, <3>1
  <2>6. k + 1 \in F <=> ~known
    <3>1. k + 1 \in DOMAIN s /\ (k + 1) - 1 = k
      BY <1>1, <2>4
    <3> QED
      BY <2>5, <3>1 DEF Firsts
  <2>7. 1..(k + 1) = 1..k \union {k + 1}
    OBVIOUS
  <2>8. CASE known
    BY <2>1, <2>2, <2>6, <2>7, <2>8
  <2>9. CASE ~known
    <3>1. kept[k + 1] = t \o <<k + 1>>
      BY <2>1, <2>2, <2>9, AppendList
    <3>2. IsList(<<k + 1>>) /\ Range(<<k + 1>>) = {k + 1}
      BY SmallLists
    <3>3. Increasing(<<k + 1>>)
      <4>1. DOMAIN <<k + 1>> = 1..1 /\ \A i, j \in 1..1 : ~ (i < j)
        OBVIOUS
      <4> QED
        BY <4>1 DEF Increasing
    <3>4. Range(t) \subseteq Int /\ \A x \in Range(t), y \in {k + 1} : x < y
      <4>1. 1..k \subseteq Int /\ \A x \in 1..k : x < k + 1
        OBVIOUS
      <4> QED
        BY <2>1, <4>1
    <3>5. Range(<<k + 1>>) \subseteq Int /\ \A x \in Range(t), y \in Range(<<k + 1>>) : x < y
      BY <3>2, <3>4
    <3>6. Increasing(t \o <<k + 1>>)
      BY <2>1, <3>2, <3>3, <3>4, <3>5, IncreasingJoin
    <3>7. IsList(t \o <<k + 1>>) /\ Range(t \o <<k + 1>>) = Range(t) \union {k + 1}
      BY <2>1, <3>2, ConcatList
    <3> QED
      BY <2>1, <2>6, <2>7, <2>9, <3>1, <3>6, <3>7
  <2> QED
    BY <2>8, <2>9
<1> HIDE DEF S
<1>6. n \in S
  BY <1>1, <1>4, <1>5, Induction
<1> USE DEF S
<1>7. Fine(n)
  BY <1>1, <1>6
<1>8. F \subseteq 1..n
  BY <1>1 DEF Firsts
<1>9. kept[n] = InOrder(F)
  <2>1. Numbered(F) /\ F \intersect 1..n = F
    BY <1>1, <1>8 DEF Numbered
  <2> HIDE DEF F
  <2> QED
    BY <1>7, <2>1, InOrderEnumerates, IncreasingAreOne
<1>10. DOMAIN kept[n] = 1..Len(kept[n])
  BY <1>7, ListShape
<1> QED
  BY <1>2, <1>9, <1>10 DEF Along

\* What is at the indices of a set, the smallest first.
LEMMA AlongInOrder ==
  ASSUME NEW s, IsList(s), NEW T \in SUBSET DOMAIN s
  PROVE  /\ Numbered(T)
         /\ Along(s, InOrder(T)) = [n \in 1..Cardinality(T) |-> s[InOrder(T)[n]]]
<1>1. Len(s) \in Nat /\ DOMAIN s = 1..Len(s)
  BY ListShape
<1>2. Numbered(T)
  BY <1>1 DEF Numbered
<1> QED
  BY <1>2, InOrderEnumerates DEF Along

\* UNION gives each row once, whatever its operands give.
FirstRows(all) ==
  {i \in DOMAIN all : \A j \in 1..(i - 1) : FreezeAll(all[j]) # FreezeAll(all[i])}

LEMMA UniqRows ==
  ASSUME NEW all, IsList(all)
  PROVE  Uniq(all, [i \in DOMAIN all |-> FreezeAll(all[i])]) =
           [n \in 1..Cardinality(FirstRows(all)) |-> all[InOrder(FirstRows(all))[n]]]
<1> DEFINE key == [i \in DOMAIN all |-> FreezeAll(all[i])]
<1>1. DOMAIN all = 1..Len(all) /\ Len(all) \in Nat
  BY ListShape
<1>2. \A i \in DOMAIN all : \A j \in 1..(i - 1) :
        key[j] = FreezeAll(all[j]) /\ key[i] = FreezeAll(all[i])
  BY <1>1
<1> HIDE DEF key
<1>3. Firsts(all, key) = FirstRows(all)
  BY <1>2 DEF Firsts, FirstRows
<1>4. FirstRows(all) \in SUBSET DOMAIN all
  BY DEF FirstRows
<1>5. Uniq(all, key) = Along(all, InOrder(FirstRows(all)))
  BY <1>3, UniqKeepsFirsts
<1> QED
  BY <1>4, <1>5, AlongInOrder DEF key

------------------------------------------------------------------------------
\* SKIP and LIMIT.
LEMMA LeastOfTwo ==
  ASSUME NEW a \in Int, NEW b \in Int
  PROVE  Min({a, b}) = IF a <= b THEN a ELSE b
<1> DEFINE m == Min({a, b})
<1>1. \E x \in {a, b} : \A y \in {a, b} : x <= y
  OBVIOUS
<1>2. m \in {a, b} /\ \A y \in {a, b} : m <= y
  BY <1>1 DEF Min
<1> HIDE DEF m
<1> QED
  BY <1>2 DEF m

\* A slice of a list.
LEMMA Slice ==
  ASSUME NEW s, IsList(s), NEW a \in Int, NEW b \in Int, 1 <= a, b <= Len(s)
  PROVE  /\ IsList(SubSeq(s, a, b)) /\ Range(SubSeq(s, a, b)) \subseteq Range(s)
         /\ SubSeq(s, a, b) = [i \in 1..(b - a + 1) |-> s[a + i - 1]]
         /\ Len(SubSeq(s, a, b)) = IF a <= b THEN b - a + 1 ELSE 0
<1>1. Len(s) \in Nat /\ DOMAIN s = 1..Len(s) /\ s \in Seq(Range(s))
  BY ListShape DEF IsList
<1>2. SubSeq(s, a, b) = [i \in 1..(b - a + 1) |-> s[a + i - 1]]
  BY <1>1
<1>3. \A i \in 1..(b - a + 1) : s[a + i - 1] \in Range(s)
  <2> TAKE i \in 1..(b - a + 1)
  <2>1. a + i - 1 \in 1..Len(s)
    BY <1>1
  <2> QED
    BY <1>1, <2>1, ListShape
<1>4. CASE a <= b
  <2>1. b - a + 1 \in Nat
    BY <1>4
  <2>2. SubSeq(s, a, b) \in Seq(Range(s)) /\ Len(SubSeq(s, a, b)) = b - a + 1
    BY <1>2, <1>3, <2>1
  <2> QED
    BY <1>2, <1>4, <2>2, ListOf
<1>5. CASE ~ (a <= b)
  <2>1. 1..(b - a + 1) = {}
    BY <1>5
  <2>2. SubSeq(s, a, b) = <<>>
    BY <1>2, <2>1
  <2> QED
    BY <1>2, <1>5, <2>2, SmallLists
<1> QED
  BY <1>4, <1>5

LEMMA LargestOfTwo ==
  ASSUME NEW k \in Int
  PROVE  Max({k, 0}) = IF k >= 0 THEN k ELSE 0
<1> DEFINE m == Max({k, 0})
<1>1. \E x \in {k, 0} : \A y \in {k, 0} : x >= y
  OBVIOUS
<1>2. m \in {k, 0} /\ \A y \in {k, 0} : m >= y
  BY <1>1 DEF Max
<1> HIDE DEF m
<1>3. m = IF k >= 0 THEN k ELSE 0
  BY <1>2
<1> QED
  BY <1>3 DEF m

LEMMA BoundedWithin ==
  ASSUME NEW s, IsList(s), NEW n \in Int
  PROVE  /\ Bounded(s, n) \in 0..Len(s)
         /\ n >= 0 => Bounded(s, n) = IF n <= Len(s) THEN n ELSE Len(s)
         /\ n < 0 => Bounded(s, n) = IF Len(s) + n >= 0 THEN Len(s) + n ELSE 0
<1>1. Len(s) \in Nat
  BY ListShape
<1>2. CASE n < 0
  <2>1. Len(s) + n \in Int
    BY <1>1
  <2>2. Bounded(s, n) = IF Len(s) + n >= 0 THEN Len(s) + n ELSE 0
    BY <1>2, <2>1, LargestOfTwo DEF Bounded
  <2> QED
    BY <1>1, <1>2, <2>2
<1>3. CASE ~ (n < 0)
  BY <1>1, <1>3, LeastOfTwo DEF Bounded
<1> QED
  BY <1>1, <1>2, <1>3

LEMMA PageIsList ==
  ASSUME NEW s, IsList(s),
         NEW skip \in Int \union {NoFilter}, NEW limit \in Int \union {NoFilter}
  PROVE  /\ IsList(SkipThenLimit(s, skip, limit))
         /\ Range(SkipThenLimit(s, skip, limit)) \subseteq Range(s)
<1> DEFINE rest == IF skip = NoFilter THEN s ELSE SubSeq(s, Bounded(s, skip) + 1, Len(s))
<1>1. IsList(rest) /\ Range(rest) \subseteq Range(s)
  <2>1. CASE skip = NoFilter
    BY <2>1
  <2>2. CASE skip # NoFilter
    <3>1. Bounded(s, skip) \in 0..Len(s) /\ Len(s) \in Nat
      BY <2>2, BoundedWithin, ListShape
    <3>2. Bounded(s, skip) + 1 \in Int /\ 1 <= Bounded(s, skip) + 1 /\ Len(s) <= Len(s)
      BY <3>1
    <3> QED
      BY <2>2, <3>1, <3>2, Slice
  <2> QED
    BY <2>1, <2>2
<1>2. SkipThenLimit(s, skip, limit) =
        IF limit = NoFilter THEN rest ELSE SubSeq(rest, 1, Bounded(rest, limit))
  BY DEF SkipThenLimit
<1> HIDE DEF rest
<1>3. CASE limit = NoFilter
  BY <1>1, <1>2, <1>3
<1>4. CASE limit # NoFilter
  <2>1. Bounded(rest, limit) \in 0..Len(rest) /\ Len(rest) \in Nat
    BY <1>1, <1>4, BoundedWithin, ListShape
  <2>2. /\ IsList(SubSeq(rest, 1, Bounded(rest, limit)))
        /\ Range(SubSeq(rest, 1, Bounded(rest, limit))) \subseteq Range(rest)
    BY <1>1, <2>1, Slice
  <2> QED
    BY <1>1, <1>2, <1>4, <2>2
<1> QED
  BY <1>3, <1>4

\* What is on a page: the rows from the one behind PageStart to PageEnd.
OnPage(s, from, to) == {p \in DOMAIN s : from < p /\ p <= to}

Page(s, from, to) == [i \in 1..Cardinality(OnPage(s, from, to)) |-> s[from + i]]

LEMMA PageBegins ==
  ASSUME NEW n \in Nat, NEW skip \in Int \union {NoFilter}
  PROVE  /\ PageStart(n, skip) \in Nat
         /\ skip = NoFilter => PageStart(n, skip) = 0
         /\ skip # NoFilter =>
              PageStart(n, skip) = IF skip >= 0 THEN skip ELSE IF n + skip >= 0 THEN n + skip ELSE 0
<1>1. CASE skip = NoFilter
  BY <1>1 DEF PageStart
<1>2. CASE skip # NoFilter
  <2>1. skip \in Int /\ n + skip \in Int
    BY <1>2
  <2>2. Max({n + skip, 0}) = IF n + skip >= 0 THEN n + skip ELSE 0
    BY <2>1, LargestOfTwo
  <2>3. PageStart(n, skip) = IF skip >= 0 THEN skip ELSE IF n + skip >= 0 THEN n + skip ELSE 0
    BY <1>2, <2>2 DEF PageStart
  <2> QED
    BY <1>2, <2>1, <2>3
<1> QED
  BY <1>1, <1>2

LEMMA OnPageCounted ==
  ASSUME NEW s, IsList(s), NEW from \in Nat, NEW to \in Int
  PROVE  /\ Cardinality(OnPage(s, from, to)) \in Nat
         /\ Cardinality(OnPage(s, from, to)) =
              IF from >= Len(s) \/ to <= from THEN 0
              ELSE IF to <= Len(s) THEN to - from ELSE Len(s) - from
<1> DEFINE last == IF to <= Len(s) THEN to ELSE Len(s)
<1>1. Len(s) \in Nat /\ DOMAIN s = 1..Len(s)
  BY ListShape
<1>2. OnPage(s, from, to) = (from + 1)..last
  BY <1>1 DEF OnPage
<1>3. last \in Int /\ from + 1 \in Int
  BY <1>1
<1>4. (IF from + 1 > last THEN 0 ELSE last - (from + 1) + 1) =
        IF from >= Len(s) \/ to <= from THEN 0
        ELSE IF to <= Len(s) THEN to - from ELSE Len(s) - from
  BY <1>1
<1> HIDE DEF last
<1>5. Cardinality(OnPage(s, from, to)) = IF from + 1 > last THEN 0 ELSE last - (from + 1) + 1
  BY <1>2, <1>3, FS_Interval
<1> QED
  BY <1>1, <1>4, <1>5

LEMMA RowsBehind ==
  ASSUME NEW s, IsList(s), NEW skip \in Int \union {NoFilter}
  PROVE  LET from  == PageStart(Len(s), skip)
             first == IF from <= Len(s) THEN from ELSE Len(s)
             rest  == IF skip = NoFilter THEN s ELSE SubSeq(s, Bounded(s, skip) + 1, Len(s))
         IN  /\ IsList(rest) /\ Len(rest) = Len(s) - first
             /\ \A i \in 1..(Len(s) - first) : rest[i] = s[first + i]
<1> DEFINE from  == PageStart(Len(s), skip)
           first == IF from <= Len(s) THEN from ELSE Len(s)
           rest  == IF skip = NoFilter THEN s ELSE SubSeq(s, Bounded(s, skip) + 1, Len(s))
<1>1. Len(s) \in Nat /\ DOMAIN s = 1..Len(s)
  BY ListShape
<1>2. CASE skip = NoFilter
  <2>1. first = 0 /\ rest = s
    BY <1>1, <1>2, PageBegins
  <2> HIDE DEF first, rest
  <2>2. IsList(rest) /\ Len(rest) = Len(s) - first
    BY <1>1, <2>1
  <2>3. \A i \in 1..(Len(s) - first) : rest[i] = s[first + i]
    BY <1>1, <2>1
  <2> QED
    BY <2>2, <2>3 DEF first, rest
<1>3. CASE skip # NoFilter
  <2>1. Bounded(s, skip) = first /\ first \in 0..Len(s)
    <3>1. skip \in Int
      BY <1>3
    <3>2. /\ skip >= 0 => Bounded(s, skip) = IF skip <= Len(s) THEN skip ELSE Len(s)
          /\ skip < 0 => Bounded(s, skip) = IF Len(s) + skip >= 0 THEN Len(s) + skip ELSE 0
      BY <3>1, BoundedWithin
    <3>3. from = IF skip >= 0 THEN skip ELSE IF Len(s) + skip >= 0 THEN Len(s) + skip ELSE 0
      BY <1>1, <1>3, PageBegins
    <3> HIDE DEF from
    <3>4. from \in Nat
      BY <1>1, <3>1, <3>3
    <3> QED
      BY <1>1, <3>1, <3>2, <3>3, <3>4
  <2>2. rest = SubSeq(s, first + 1, Len(s))
    BY <1>3, <2>1
  <2> HIDE DEF rest, first
  <2>3. first + 1 \in Int /\ Len(s) \in Int /\ 1 <= first + 1 /\ Len(s) <= Len(s)
    BY <1>1, <2>1
  <2>4. /\ IsList(rest)
        /\ rest = [i \in 1..(Len(s) - (first + 1) + 1) |-> s[(first + 1) + i - 1]]
        /\ Len(rest) = IF first + 1 <= Len(s) THEN Len(s) - (first + 1) + 1 ELSE 0
    <3>1. /\ IsList(SubSeq(s, first + 1, Len(s)))
          /\ SubSeq(s, first + 1, Len(s)) =
               [i \in 1..(Len(s) - (first + 1) + 1) |-> s[(first + 1) + i - 1]]
          /\ Len(SubSeq(s, first + 1, Len(s))) =
               IF first + 1 <= Len(s) THEN Len(s) - (first + 1) + 1 ELSE 0
      BY ONLY <2>3, Slice, IsList(s)
    <3> QED
      BY <2>2, <3>1
  <2>5. Len(s) - (first + 1) + 1 = Len(s) - first /\ Len(rest) = Len(s) - first
    <3>1. \A a, b \in Int : a <= b => /\ b - (a + 1) + 1 = b - a
                                     /\ (IF a + 1 <= b THEN b - (a + 1) + 1 ELSE 0) = b - a
      OBVIOUS
    <3>2. first \in Int /\ first <= Len(s)
      BY <1>1, <2>1
    <3> QED
      BY ONLY <2>3, <2>4, <3>1, <3>2
  <2>6. \A i \in 1..(Len(s) - first) : rest[i] = s[first + i]
    <3>1. \A i \in 1..(Len(s) - first) : (first + 1) + i - 1 = first + i
      BY <1>1, <2>1
    <3> QED
      BY <2>4, <2>5, <3>1
  <2> QED
    BY <2>4, <2>5, <2>6 DEF rest, first
<1> QED
  BY <1>2, <1>3

\* The arithmetic of the page behind from, up to to, of a list of n, of which first
\* are skipped and r are left.
LEMMA PageNumbers ==
  ASSUME NEW n \in Nat, NEW from \in Nat, NEW to \in Int,
         NEW c \in Nat, NEW first \in Nat, NEW r \in Nat,
         first = IF from <= n THEN from ELSE n, r + first = n,
         c = IF from >= n \/ to <= from THEN 0 ELSE IF to <= n THEN to - from ELSE n - from
  PROVE  /\ c <= r /\ (c # 0 => first = from)
         /\ to = n => c = r
         /\ \A l \in Int : /\ l >= 0 /\ to = from + l => c = IF l <= r THEN l ELSE r
                         /\ l < 0 /\ to = n + l => c = IF r + l >= 0 THEN r + l ELSE 0
  OBVIOUS

LEMMA PageHoldsItsRows ==
  ASSUME NEW s, IsList(s),
         NEW skip \in Int \union {NoFilter}, NEW limit \in Int \union {NoFilter}
  PROVE  SkipThenLimit(s, skip, limit) =
           Page(s, PageStart(Len(s), skip), PageEnd(Len(s), skip, limit))
<1> DEFINE n    == Len(s)
           from == PageStart(n, skip)
           to   == PageEnd(n, skip, limit)
           first == IF from <= n THEN from ELSE n
           rest == IF skip = NoFilter THEN s ELSE SubSeq(s, Bounded(s, skip) + 1, Len(s))
           page == SkipThenLimit(s, skip, limit)
           c == Cardinality(OnPage(s, from, to))
<1>1. n \in Nat
  BY ListShape
<1>2. from \in Nat
  BY <1>1, PageBegins
<1>3. /\ limit = NoFilter => to = n
      /\ limit # NoFilter => limit \in Int /\ to = IF limit >= 0 THEN from + limit ELSE n + limit
  BY DEF PageEnd
<1>4. /\ IsList(rest) /\ Len(rest) = n - first
      /\ \A i \in 1..(n - first) : rest[i] = s[first + i]
  BY RowsBehind
<1>5. page = IF limit = NoFilter THEN rest ELSE SubSeq(rest, 1, Bounded(rest, limit))
  BY DEF SkipThenLimit
<1> HIDE DEF from, to
<1>6. to \in Int
  BY <1>1, <1>2, <1>3
<1>7. /\ c \in Nat
      /\ c = IF from >= n \/ to <= from THEN 0 ELSE IF to <= n THEN to - from ELSE n - from
  BY <1>2, <1>6, OnPageCounted
<1> HIDE DEF n, rest, page, c
<1>8. first \in Nat /\ first <= n
  BY <1>1, <1>2
<1>9. first = IF from <= n THEN from ELSE n
  OBVIOUS
<1> HIDE DEF first
<1> DEFINE r == Len(rest)
<1>10. r \in Nat /\ r + first = n
  BY <1>1, <1>4, <1>8
<1> HIDE DEF r
<1>11. /\ c <= r /\ (c # 0 => first = from)
       /\ to = n => c = r
       /\ \A l \in Int : /\ l >= 0 /\ to = from + l => c = IF l <= r THEN l ELSE r
                       /\ l < 0 /\ to = n + l => c = IF r + l >= 0 THEN r + l ELSE 0
  BY ONLY <1>1, <1>2, <1>6, <1>7, <1>8, <1>9, <1>10, PageNumbers
<1>12. page = [i \in 1..c |-> rest[i]]
  <2>1. CASE limit = NoFilter
    <3>1. c = r
      BY <1>3, <1>11, <2>1
    <3> QED
      BY <1>4, <1>5, <2>1, <3>1 DEF IsList, r
  <2>2. CASE limit # NoFilter
    <3>1. limit \in Int /\ to = IF limit >= 0 THEN from + limit ELSE n + limit
      BY <1>3, <2>2
    <3>2. /\ limit >= 0 => Bounded(rest, limit) = IF limit <= r THEN limit ELSE r
          /\ limit < 0 => Bounded(rest, limit) = IF r + limit >= 0 THEN r + limit ELSE 0
      BY <1>4, <3>1, BoundedWithin DEF r
    <3>3. Bounded(rest, limit) = c
      <4>1. CASE limit >= 0
        <5>1. limit \in Int /\ limit >= 0 /\ to = from + limit
          BY <3>1, <4>1
        <5>2. c = IF limit <= r THEN limit ELSE r
          BY <1>1, <1>2, <1>7, <1>8, <1>9, <1>10, <5>1
        <5>3. Bounded(rest, limit) = IF limit <= r THEN limit ELSE r
          BY <3>2, <5>1
        <5> QED
          BY <5>2, <5>3
      <4>2. CASE ~ (limit >= 0)
        <5>1. limit < 0
          BY <3>1, <4>2
        <5> QED
          BY <1>11, <3>1, <3>2, <4>2, <5>1
      <4> QED
        BY <4>1, <4>2
    <3>4. page = SubSeq(rest, 1, c)
      BY <1>5, <2>2, <3>3
    <3>5. c \in Int /\ c <= Len(rest) /\ 1 \in Int /\ 1 <= 1
      BY <1>7, <1>11 DEF r
    <3>6. SubSeq(rest, 1, c) = [i \in 1..(c - 1 + 1) |-> rest[1 + i - 1]]
      BY <1>4, <3>5, Slice
    <3>7. c - 1 + 1 = c /\ \A i \in 1..c : 1 + i - 1 = i
      BY <1>7
    <3> QED
      BY <3>4, <3>6, <3>7
  <2> QED
    BY <2>1, <2>2
<1>13. \A i \in 1..c : rest[i] = s[from + i]
  <2> TAKE i \in 1..c
  <2>1. c # 0 /\ i \in Int /\ 1 <= i /\ i <= c /\ i <= r
    BY <1>7, <1>10, <1>11
  <2>2. first = from /\ i \in 1..(n - first)
    BY <1>1, <1>8, <1>10, <1>11, <2>1
  <2> QED
    BY <1>4, <2>1, <2>2
<1> QED
  BY <1>12, <1>13 DEF Page, page, c, from, to, n

------------------------------------------------------------------------------
\* ORDER BY only rearranges.
LEMMA InsertedList ==
  ASSUME NEW s, IsList(s), NEW p, NEW key
  PROVE  /\ IsList(Inserted(s, p, key))
         /\ Range(Inserted(s, p, key)) \subseteq Range(s) \union {p}
<1> DEFINE behind == {i \in DOMAIN s : Before(key, p, s[i])}
           at == IF behind = {} THEN Len(s) + 1 ELSE Min(behind)
<1>1. Len(s) \in Nat /\ DOMAIN s = 1..Len(s)
  BY ListShape
<1>2. behind \in SUBSET Nat /\ behind \subseteq 1..Len(s)
  BY <1>1
<1>3. Inserted(s, p, key) = SubSeq(s, 1, at - 1) \o <<p>> \o SubSeq(s, at, Len(s))
  BY DEF Inserted, InsertAt
<1> HIDE DEF behind
<1>4. at \in 1..(Len(s) + 1)
  <2>1. CASE behind = {}
    BY <1>1, <2>1
  <2>2. CASE behind # {}
    <3>1. \E i \in behind : \A j \in behind : i <= j
      BY <1>2, <2>2, LeastOfNat
    <3>2. Min(behind) \in behind
      BY <3>1 DEF Min
    <3>3. at \in 1..Len(s)
      BY <1>2, <2>2, <3>2
    <3> HIDE DEF at
    <3> QED
      BY <1>1, <3>3
  <2> QED
    BY <2>1, <2>2
<1> HIDE DEF at
<1>5. /\ at \in Int /\ at - 1 \in Int /\ 1 <= at /\ at - 1 <= Len(s)
      /\ Len(s) \in Int /\ Len(s) <= Len(s) /\ 1 \in Int /\ 1 <= 1
  BY <1>1, <1>4
<1>6. IsList(SubSeq(s, 1, at - 1)) /\ Range(SubSeq(s, 1, at - 1)) \subseteq Range(s)
  BY <1>5, Slice
<1>7. IsList(SubSeq(s, at, Len(s))) /\ Range(SubSeq(s, at, Len(s))) \subseteq Range(s)
  BY <1>5, Slice
<1>8. IsList(<<p>>) /\ Range(<<p>>) = {p}
  BY SmallLists
<1> DEFINE front == SubSeq(s, 1, at - 1)
           back  == SubSeq(s, at, Len(s))
<1> HIDE DEF front, back
<1>9. IsList(front \o <<p>>) /\ Range(front \o <<p>>) = Range(front) \union {p}
  BY <1>6, <1>8, ConcatList DEF front
<1>10. /\ IsList(front \o <<p>> \o back)
       /\ Range(front \o <<p>> \o back) = Range(front) \union {p} \union Range(back)
  BY <1>7, <1>9, ConcatList DEF back
<1> QED
  BY <1>3, <1>6, <1>7, <1>10 DEF front, back

SortsUpTo(g, n, s, key) ==
  g = [k \in 0..n |-> IF k = 0 THEN <<>> ELSE Inserted(g[k - 1], s[k], key)]

LEMMA SortsExist ==
  ASSUME NEW n \in Nat, NEW s, NEW key
  PROVE  \E g : SortsUpTo(g, n, s, key)
<1> DEFINE S == {k \in Nat : \E g : SortsUpTo(g, k, s, key)}
<1>1. 0 \in S
  <2>1. SortsUpTo([k \in 0..0 |-> <<>>], 0, s, key)
    BY DEF SortsUpTo
  <2> QED
    BY <2>1
<1>2. ASSUME NEW k \in Nat, k \in S PROVE k + 1 \in S
  <2>1. PICK g : SortsUpTo(g, k, s, key)
    BY <1>2
  <2> DEFINE h == [j \in 0..(k + 1) |-> IF j = 0 THEN <<>> ELSE Inserted(g[j - 1], s[j], key)]
  <2>2. ASSUME NEW j \in 0..(k + 1), j # 0 PROVE h[j - 1] = g[j - 1]
    <3>1. j - 1 \in 0..k /\ j - 1 \in 0..(k + 1)
      BY <2>2
    <3>2. g[j - 1] = IF j - 1 = 0 THEN <<>> ELSE Inserted(g[j - 1 - 1], s[j - 1], key)
      BY <2>1, <3>1 DEF SortsUpTo
    <3> QED
      BY <3>1, <3>2
  <2>3. h = [j \in 0..(k + 1) |-> IF j = 0 THEN <<>> ELSE Inserted(h[j - 1], s[j], key)]
    <3> HIDE DEF h
    <3>1. h = [j \in 0..(k + 1) |-> IF j = 0 THEN <<>> ELSE Inserted(g[j - 1], s[j], key)]
      BY DEF h
    <3>2. \A j \in 0..(k + 1) :
            j # 0 => Inserted(h[j - 1], s[j], key) = Inserted(g[j - 1], s[j], key)
      BY <2>2
    <3> QED
      BY <3>1, <3>2
  <2> HIDE DEF h
  <2>4. SortsUpTo(h, k + 1, s, key)
    BY <2>3 DEF SortsUpTo
  <2> QED
    BY <2>4
<1> HIDE DEF S
<1>3. n \in S
  BY <1>1, <1>2, Induction
<1> QED
  BY <1>3 DEF S

LEMMA SortedList ==
  ASSUME NEW s, IsList(s), NEW key
  PROVE  IsList(Sorted(s, key)) /\ Range(Sorted(s, key)) \subseteq Range(s)
<1> DEFINE n == Len(s)
           upTo == CHOOSE g : SortsUpTo(g, n, s, key)
           S == {k \in Nat : k \in 0..n => IsList(upTo[k]) /\ Range(upTo[k]) \subseteq Range(s)}
<1>1. n \in Nat /\ DOMAIN s = 1..n
  BY ListShape
<1>2. Sorted(s, key) = upTo[n]
  BY DEF Sorted, SortsUpTo
<1>3. SortsUpTo(upTo, n, s, key)
  BY <1>1, SortsExist
<1> HIDE DEF upTo
<1>4. \A j \in 0..n : upTo[j] = IF j = 0 THEN <<>> ELSE Inserted(upTo[j - 1], s[j], key)
  BY ONLY <1>3 DEF SortsUpTo
<1>5. 0 \in S
  <2>1. 0 \in 0..n
    BY <1>1
  <2>2. upTo[0] = <<>>
    BY <1>4, <2>1
  <2> QED
    BY <2>2, SmallLists
<1>6. ASSUME NEW k \in Nat, k \in S PROVE k + 1 \in S
  <2> SUFFICES ASSUME k + 1 \in 0..n
               PROVE  IsList(upTo[k + 1]) /\ Range(upTo[k + 1]) \subseteq Range(s)
    OBVIOUS
  <2>1. k \in 0..n /\ k + 1 # 0 /\ (k + 1) - 1 = k /\ k + 1 \in DOMAIN s
    BY <1>1
  <2>2. IsList(upTo[k]) /\ Range(upTo[k]) \subseteq Range(s)
    BY <1>6, <2>1
  <2>3. upTo[k + 1] = Inserted(upTo[k], s[k + 1], key)
    BY <1>4, <2>1
  <2>4. s[k + 1] \in Range(s)
    BY <2>1 DEF Range
  <2> QED
    BY <2>2, <2>3, <2>4, InsertedList
<1> HIDE DEF S
<1>7. n \in S
  BY <1>1, <1>5, <1>6, Induction
<1> QED
  BY <1>1, <1>2, <1>7 DEF S

LEMMA ReverseList ==
  ASSUME NEW s, IsList(s)
  PROVE  IsList(Reverse(s)) /\ Len(Reverse(s)) = Len(s)
<1>1. Len(s) \in Nat
  BY ListShape
<1>2. Reverse(s) = [i \in 1..Len(s) |-> Reverse(s)[i]]
  BY DEF Reverse
<1> QED
  BY <1>1, <1>2, FunctionIsList

------------------------------------------------------------------------------
\* The values of rows.  Where they are lists, those are lists of such values:
\* U holds the lists there are.
Sound(v, U)      == "list" \in DOMAIN v => v \in U
SoundRow(row, U) == \A x \in DOMAIN row : Sound(row[x], U)
Nested(U)        == \A v \in U : IsList(v.list) /\ \A w \in Range(v.list) : Sound(w, U)

LEMMA FrozenIsNoList ==
  \A v : "list" \notin DOMAIN Freeze(v)
BY DEF Freeze, FreezeAtom, HoldsList

LEMMA NestedGrows ==
  ASSUME NEW U, Nested(U), NEW new,
         \A v \in new : IsList(v.list) /\ \A w \in Range(v.list) : Sound(w, U)
  PROVE  Nested(U \union new)
BY DEF Nested, Sound

LEMMA FlatIsNested ==
  ASSUME NEW V, \A v \in V : IsFlat(v)
  PROVE  LET lists == {v \in V : "list" \in DOMAIN v}
         IN  \A v \in lists : IsList(v.list) /\ \A w \in Range(v.list), U \in {{}, lists} : Sound(w, U)
BY DEF IsFlat, IsList, Sound

FillsUpTo(g, n, pieces) ==
  g = [k \in 0..n |-> IF k = 0 THEN EmptyRow ELSE Updated(g[k - 1], pieces[k])]

LEMMA FillsExist ==
  ASSUME NEW n \in Nat, NEW pieces
  PROVE  \E g : FillsUpTo(g, n, pieces)
<1> DEFINE S == {k \in Nat : \E g : FillsUpTo(g, k, pieces)}
<1>1. 0 \in S
  <2>1. FillsUpTo([k \in 0..0 |-> EmptyRow], 0, pieces)
    BY DEF FillsUpTo
  <2> QED
    BY <2>1
<1>2. ASSUME NEW k \in Nat, k \in S PROVE k + 1 \in S
  <2>1. PICK g : FillsUpTo(g, k, pieces)
    BY <1>2
  <2> DEFINE h == [j \in 0..(k + 1) |-> IF j = 0 THEN EmptyRow ELSE Updated(g[j - 1], pieces[j])]
  <2>2. ASSUME NEW j \in 0..(k + 1), j # 0 PROVE h[j - 1] = g[j - 1]
    <3>1. j - 1 \in 0..k /\ j - 1 \in 0..(k + 1)
      BY <2>2
    <3>2. g[j - 1] = IF j - 1 = 0 THEN EmptyRow ELSE Updated(g[j - 1 - 1], pieces[j - 1])
      BY <2>1, <3>1 DEF FillsUpTo
    <3> QED
      BY <3>1, <3>2
  <2>3. h = [j \in 0..(k + 1) |-> IF j = 0 THEN EmptyRow ELSE Updated(h[j - 1], pieces[j])]
    <3> HIDE DEF h
    <3>1. h = [j \in 0..(k + 1) |-> IF j = 0 THEN EmptyRow ELSE Updated(g[j - 1], pieces[j])]
      BY DEF h
    <3>2. \A j \in 0..(k + 1) : j # 0 => Updated(h[j - 1], pieces[j]) = Updated(g[j - 1], pieces[j])
      BY <2>2
    <3> QED
      BY <3>1, <3>2
  <2> HIDE DEF h
  <2>4. FillsUpTo(h, k + 1, pieces)
    BY <2>3 DEF FillsUpTo
  <2> QED
    BY <2>4
<1> HIDE DEF S
<1>3. n \in S
  BY <1>1, <1>2, Induction
<1> QED
  BY <1>3 DEF S

LEMMA FilledSound ==
  ASSUME NEW pieces, IsList(pieces), NEW U, \A k \in DOMAIN pieces : SoundRow(pieces[k], U)
  PROVE  SoundRow(Filled(pieces), U)
<1> DEFINE n == Len(pieces)
           new == CHOOSE g : FillsUpTo(g, n, pieces)
           S == {k \in Nat : k \in 0..n => SoundRow(new[k], U)}
<1>1. n \in Nat /\ DOMAIN pieces = 1..n
  BY ListShape
<1>2. Filled(pieces) = new[n]
  BY DEF Filled, FillsUpTo
<1>3. FillsUpTo(new, n, pieces)
  BY <1>1, FillsExist
<1> HIDE DEF new
<1>4. \A j \in 0..n : new[j] = IF j = 0 THEN EmptyRow ELSE Updated(new[j - 1], pieces[j])
  BY ONLY <1>3 DEF FillsUpTo
<1>5. 0 \in S
  <2>1. 0 \in 0..n
    BY <1>1
  <2>2. new[0] = EmptyRow
    BY <1>4, <2>1
  <2>3. DOMAIN EmptyRow = {}
    BY DEF EmptyRow
  <2> QED
    BY <2>2, <2>3 DEF SoundRow
<1>6. ASSUME NEW k \in Nat, k \in S PROVE k + 1 \in S
  <2> SUFFICES ASSUME k + 1 \in 0..n PROVE SoundRow(new[k + 1], U)
    OBVIOUS
  <2>1. k \in 0..n /\ k + 1 # 0 /\ (k + 1) - 1 = k /\ k + 1 \in DOMAIN pieces
    BY <1>1
  <2>2. SoundRow(new[k], U) /\ SoundRow(pieces[k + 1], U)
    BY <1>6, <2>1
  <2>3. new[k + 1] = Updated(new[k], pieces[k + 1])
    BY <1>4, <2>1
  <2> DEFINE above == pieces[k + 1]
             below == new[k]
  <2> HIDE DEF above, below
  <2>4. SoundRow(Updated(below, above), U)
    <3>1. SoundRow(above, U) /\ SoundRow(below, U)
      BY <2>2 DEF above, below
    <3> QED
      BY <3>1 DEF SoundRow, Updated
  <2> QED
    BY <2>3, <2>4 DEF above, below
<1> HIDE DEF S
<1>7. n \in S
  BY <1>1, <1>5, <1>6, Induction
<1> QED
  BY <1>1, <1>2, <1>7 DEF S

------------------------------------------------------------------------------
\* Lists made of lists.
LEMMA MappedList ==
  ASSUME NEW s, IsList(s), NEW f, f = [i \in DOMAIN s |-> f[i]]
  PROVE  /\ IsList(f) /\ Len(f) = Len(s) /\ DOMAIN f = DOMAIN s
         /\ \A x \in Range(f) : \E i \in DOMAIN s : x = f[i]
<1>1. DOMAIN s = 1..Len(s) /\ Len(s) \in Nat
  BY ListShape
<1>2. IsList(f) /\ Len(f) = Len(s)
  BY <1>1, FunctionIsList
<1>3. DOMAIN f = DOMAIN s
  OBVIOUS
<1> QED
  BY <1>2, <1>3 DEF Range

LEMMA UniqList ==
  ASSUME NEW s, IsList(s), NEW key
  PROVE  IsList(Uniq(s, key)) /\ Range(Uniq(s, key)) \subseteq Range(s)
<1> DEFINE F == Firsts(s, key)
           at == InOrder(F)
<1>1. F \in SUBSET DOMAIN s
  BY DEF Firsts
<1>2. Uniq(s, key) = Along(s, at)
  BY UniqKeepsFirsts
<1>3. Numbered(F)
  BY <1>1, AlongInOrder
<1> HIDE DEF F
<1>4. IsList(at) /\ Range(at) = F
  BY <1>3, InOrderList
<1> HIDE DEF at
<1>5. Len(at) \in Nat /\ DOMAIN at = 1..Len(at)
  BY <1>4, ListShape
<1>6. \A k \in 1..Len(at) : s[at[k]] \in Range(s)
  BY <1>1, <1>4, <1>5 DEF Range
<1>7. Along(s, at) \in Seq(Range(s))
  BY <1>5, <1>6 DEF Along
<1> QED
  BY <1>2, <1>7, ListOf

\* UNWIND: the elements of a sound value are sound.
LEMMA ElementsSound ==
  ASSUME NEW U, Nested(U), NEW v, Sound(v, U)
  PROVE  IsList(ElementsOf(v)) /\ \A w \in Range(ElementsOf(v)) : Sound(w, U)
<1>1. CASE IsNull(v)
  BY <1>1, SmallLists DEF ElementsOf
<1>2. CASE ~IsNull(v) /\ HoldsList(v)
  BY <1>2 DEF ElementsOf, HoldsList, Sound, Nested
<1>3. CASE ~IsNull(v) /\ ~HoldsList(v)
  BY <1>3, SmallLists DEF ElementsOf, HoldsList, Sound
<1> QED
  BY <1>1, <1>2, <1>3

LEMMA AssignedSound ==
  ASSUME NEW U, NEW row, SoundRow(row, U), NEW v, Sound(v, U), NEW var
  PROVE  SoundRow(Assign(row, var, v), U)
BY DEF Assign, SoundRow

SoundRows(s, U) == IsList(s) /\ \A row \in Range(s) : SoundRow(row, U)

LEMMA UnwoundSound ==
  ASSUME NEW U, Nested(U), NEW s, SoundRows(s, U), NEW var, NEW as,
         \A i \in DOMAIN s : Bound(s[i], var)
  PROVE  SoundRows(Unwound(s, var, as), U)
<1> DEFINE vals(i) == ElementsOf(s[i][var])
           lists == [i \in DOMAIN s |-> [k \in DOMAIN vals(i) |-> Assign(s[i], as, vals(i)[k])]]
<1>1. Unwound(s, var, as) = FlattenSeq(lists)
  BY DEF Unwound, FlatMap
<1>2. \A i \in DOMAIN s : SoundRow(s[i], U) /\ Sound(s[i][var], U)
  BY DEF SoundRows, SoundRow, Bound, Range
<1>3. ASSUME NEW i \in DOMAIN s
      PROVE  IsList(lists[i]) /\ \A row \in Range(lists[i]) : SoundRow(row, U)
  <2>1. IsList(vals(i)) /\ \A w \in Range(vals(i)) : Sound(w, U)
    BY <1>2, ElementsSound
  <2> DEFINE all == vals(i)
             new == [k \in DOMAIN all |-> Assign(s[i], as, all[k])]
  <2>2. lists[i] = new
    OBVIOUS
  <2> HIDE DEF all
  <2>3. new = [k \in DOMAIN all |-> new[k]]
    OBVIOUS
  <2>4. \A k \in DOMAIN all : SoundRow(new[k], U)
    <3>1. \A k \in DOMAIN all : Sound(all[k], U)
      BY <2>1 DEF all, Range
    <3> QED
      BY <1>2, <3>1, AssignedSound
  <2> HIDE DEF new
  <2>5. IsList(new) /\ \A row \in Range(new) : \E k \in DOMAIN all : row = new[k]
    BY <2>1, <2>3, MappedList DEF all
  <2> QED
    BY <2>2, <2>4, <2>5
<1>4. lists = [i \in DOMAIN s |-> lists[i]]
  OBVIOUS
<1> HIDE DEF lists
<1>5. /\ IsList(FlattenSeq(lists))
      /\ \A x : x \in Range(FlattenSeq(lists)) <=> \E i \in DOMAIN s : x \in Range(lists[i])
  BY <1>3, <1>4, Mapped DEF SoundRows
<1> QED
  BY <1>1, <1>3, <1>5 DEF SoundRows

LEMMA NotAList == "list" \notin DOMAIN NullRef /\ \A i : "list" \notin DOMAIN Number(i)
BY DEF NullRef, Number

LEMMA SoundStays ==
  ASSUME NEW U, NEW V, U \subseteq V
  PROVE  /\ \A v : Sound(v, U) => Sound(v, V)
         /\ \A row : SoundRow(row, U) => SoundRow(row, V)
         /\ \A s : SoundRows(s, U) => SoundRows(s, V)
BY DEF Sound, SoundRow, SoundRows

LEMMA YieldedSound ==
  ASSUME NEW U, Nested(U), SoundRows(rows, U), NEW c, IsClause(c), c.op = "CALL"
  PROVE  \E V : U \subseteq V /\ Nested(V) /\ SoundRows(Yielded(c), V)
<1> DEFINE answer == IF c.answer = <<>> THEN <<EmptyRow>> ELSE c.answer
           told(i) == IF Bound(answer[i], c.yield) THEN answer[i][c.yield] ELSE NullRef
           new == {v \in {told(i) : i \in DOMAIN answer} : "list" \in DOMAIN v}
           V == U \union new
           lists == [n \in DOMAIN rows |-> [i \in DOMAIN answer |-> Assign(rows[n], c.as, told(i))]]
<1>1. IsList(answer)
  <2>1. c.answer \in Seq(Range(c.answer))
    BY DEF IsClause
  <2> QED
    BY <2>1, SmallLists DEF IsList
<1>2. \A i \in DOMAIN answer : "list" \in DOMAIN told(i) => IsFlat(told(i))
  <2>1. CASE c.answer = <<>>
    <3>1. \A i \in DOMAIN answer : answer[i] = EmptyRow
      <4>1. Range(answer) = {EmptyRow}
        BY <2>1, SmallLists
      <4> QED
        BY <4>1 DEF Range
    <3>2. \A i \in DOMAIN answer : told(i) = NullRef
      BY <3>1 DEF Bound, EmptyRow
    <3> QED
      BY <3>2, NotAList
  <2>2. CASE c.answer # <<>>
    <3>1. answer = c.answer /\ \A i \in DOMAIN answer : answer[i] \in Range(c.answer)
      BY <2>2 DEF Range
    <3>2. \A row \in Range(c.answer) : Bound(row, c.yield) => IsFlat(row[c.yield])
      BY DEF IsClause
    <3> HIDE DEF answer
    <3> QED
      BY <3>1, <3>2, NotAList
  <2> QED
    BY <2>1, <2>2
<1> HIDE DEF answer
<1>3. Nested(V)
  <2>1. \A v \in new : IsFlat(v) /\ "list" \in DOMAIN v
    BY <1>2
  <2>2. \A v \in new : IsList(v.list) /\ \A w \in Range(v.list) : Sound(w, U)
    BY <2>1 DEF IsFlat, IsList, Sound
  <2> HIDE DEF new
  <2> QED
    BY <2>2, NestedGrows
<1>4. \A i \in DOMAIN answer : Sound(told(i), V)
  BY DEF Sound
<1>5. U \subseteq V
  OBVIOUS
<1>6. Yielded(c) = FlattenSeq(lists)
  BY DEF Yielded, FlatMap, answer
<1> HIDE DEF V, told
<1>7. \A n \in DOMAIN rows : SoundRow(rows[n], V)
  BY <1>5, SoundStays DEF SoundRows, Range
<1>8. ASSUME NEW n \in DOMAIN rows
      PROVE  IsList(lists[n]) /\ \A row \in Range(lists[n]) : SoundRow(row, V)
  <2> DEFINE made == [i \in DOMAIN answer |-> Assign(rows[n], c.as, told(i))]
  <2>1. lists[n] = made
    OBVIOUS
  <2>2. made = [i \in DOMAIN answer |-> made[i]]
    OBVIOUS
  <2>3. \A i \in DOMAIN answer : SoundRow(made[i], V)
    BY <1>4, <1>7, AssignedSound
  <2> HIDE DEF made
  <2>4. IsList(made) /\ \A row \in Range(made) : \E i \in DOMAIN answer : row = made[i]
    BY <1>1, <2>2, MappedList
  <2> QED
    BY <2>1, <2>3, <2>4
<1>9. lists = [n \in DOMAIN rows |-> lists[n]]
  OBVIOUS
<1> HIDE DEF lists
<1>10. /\ IsList(FlattenSeq(lists))
       /\ \A x : x \in Range(FlattenSeq(lists)) <=> \E n \in DOMAIN rows : x \in Range(lists[n])
  BY <1>8, <1>9, Mapped DEF SoundRows
<1>11. SoundRows(Yielded(c), V)
  BY <1>6, <1>8, <1>10 DEF SoundRows
<1> QED
  BY <1>3, <1>5, <1>11

\* WHERE on rows, and on pairs of rows.
LEMMA SatisfyingList ==
  ASSUME NEW s, IsList(s), NEW where
  PROVE  IsList(Satisfying(s, where)) /\ Range(Satisfying(s, where)) \subseteq Range(s)
<1> DEFINE T == {row \in Range(s) : Satisfies(where, row)}
           lists == [i \in DOMAIN s |-> IF s[i] \in T THEN <<s[i]>> ELSE <<>>]
<1>1. lists = [i \in DOMAIN s |-> IF Satisfies(where, s[i]) THEN <<s[i]>> ELSE <<>>]
  BY DEF Range
<1>2. Satisfying(s, where) = FlattenSeq(lists)
  BY <1>1 DEF Satisfying, Select, FlatMap
<1>3. IsList(FlattenSeq(lists)) /\ Range(FlattenSeq(lists)) = Range(s) \intersect T
  <2> HIDE DEF T
  <2> QED
    BY Selected
<1> QED
  BY <1>2, <1>3

LEMMA SatisfyingPairsList ==
  ASSUME NEW s, IsList(s), NEW where
  PROVE  IsList(SatisfyingPairs(s, where)) /\ Range(SatisfyingPairs(s, where)) \subseteq Range(s)
<1> DEFINE T == {p \in Range(s) : Satisfies(where, p.proj)}
           lists == [i \in DOMAIN s |-> IF s[i] \in T THEN <<s[i]>> ELSE <<>>]
<1>1. lists = [i \in DOMAIN s |-> IF Satisfies(where, s[i].proj) THEN <<s[i]>> ELSE <<>>]
  BY DEF Range
<1>2. SatisfyingPairs(s, where) = FlattenSeq(lists)
  BY <1>1 DEF SatisfyingPairs, Select, FlatMap
<1>3. IsList(FlattenSeq(lists)) /\ Range(FlattenSeq(lists)) = Range(s) \intersect T
  <2> HIDE DEF T
  <2> QED
    BY Selected
<1> QED
  BY <1>2, <1>3

\* A pass of ORDER BY.
LEMMA PassedList ==
  ASSUME NEW s, IsList(s), NEW key
  PROVE  IsList(Passed(s, key)) /\ Range(Passed(s, key)) \subseteq Range(s)
<1> DEFINE nulls  == Select(s, LAMBDA p : IsNull(KeyValue(key, p)))
           rest   == Select(s, LAMBDA p : ~IsNull(KeyValue(key, p)))
           sorted == Sorted(rest, key)
<1>0. Passed(s, key) = IF NullsFirst(key) THEN nulls \o sorted ELSE sorted \o nulls
  BY DEF Passed
<1>1. IsList(nulls) /\ Range(nulls) \subseteq Range(s)
  <2> DEFINE T == {p \in Range(s) : IsNull(KeyValue(key, p))}
             lists == [i \in DOMAIN s |-> IF s[i] \in T THEN <<s[i]>> ELSE <<>>]
  <2>1. lists = [i \in DOMAIN s |-> IF IsNull(KeyValue(key, s[i])) THEN <<s[i]>> ELSE <<>>]
    BY DEF Range
  <2>2. nulls = FlattenSeq(lists)
    BY <2>1 DEF Select, FlatMap
  <2> HIDE DEF T, nulls
  <2>3. IsList(FlattenSeq(lists)) /\ Range(FlattenSeq(lists)) = Range(s) \intersect T
    BY Selected
  <2> QED
    BY <2>2, <2>3
<1>2. IsList(rest) /\ Range(rest) \subseteq Range(s)
  <2> DEFINE T == {p \in Range(s) : ~IsNull(KeyValue(key, p))}
             lists == [i \in DOMAIN s |-> IF s[i] \in T THEN <<s[i]>> ELSE <<>>]
  <2>1. lists = [i \in DOMAIN s |-> IF ~IsNull(KeyValue(key, s[i])) THEN <<s[i]>> ELSE <<>>]
    BY DEF Range
  <2>2. rest = FlattenSeq(lists)
    BY <2>1 DEF Select, FlatMap
  <2> HIDE DEF T, rest
  <2>3. IsList(FlattenSeq(lists)) /\ Range(FlattenSeq(lists)) = Range(s) \intersect T
    BY Selected
  <2> QED
    BY <2>2, <2>3
<1> HIDE DEF nulls, rest
<1>3. IsList(sorted) /\ Range(sorted) \subseteq Range(s)
  BY <1>2, SortedList
<1> HIDE DEF sorted
<1>4. IsList(nulls \o sorted) /\ Range(nulls \o sorted) \subseteq Range(s)
  BY <1>1, <1>3, ConcatList
<1>5. IsList(sorted \o nulls) /\ Range(sorted \o nulls) \subseteq Range(s)
  BY <1>1, <1>3, ConcatList
<1> QED
  BY <1>0, <1>4, <1>5

\* What WITH and RETURN make of a row, and of a group.
LEMMA ProjectedSound ==
  ASSUME NEW U, Nested(U), NEW s, SoundRows(s, U),
         NEW items, IsList(items), \A item \in Range(items) : IsItem(item) /\ ~IsAgg(item),
         \A i \in DOMAIN s, k \in DOMAIN items : Known(items[k], s[i])
  PROVE  \E V : /\ U \subseteq V /\ Nested(V)
                /\ \A i \in DOMAIN s : SoundRow(ProjectRow(items, s[i]), V)
<1> DEFINE consts == {k \in DOMAIN items : items[k].from = "const"}
           new == {v \in {items[k].value : k \in consts} : "list" \in DOMAIN v}
           V == U \union new
<1>1. \A k \in DOMAIN items : IsItem(items[k]) /\ ~IsAgg(items[k])
  BY DEF Range
<1>2. Nested(V)
  <2>1. \A v \in new : IsFlat(v) /\ "list" \in DOMAIN v
    BY <1>1 DEF IsItem
  <2>2. \A v \in new : IsList(v.list) /\ \A w \in Range(v.list) : Sound(w, U)
    BY <2>1 DEF IsFlat, IsList, Sound
  <2> HIDE DEF new
  <2> QED
    BY <2>2, NestedGrows
<1>3. U \subseteq V
  OBVIOUS
<1>4. \A k \in consts : Sound(items[k].value, V)
  BY DEF Sound
<1> HIDE DEF V
<1>5. ASSUME NEW i \in DOMAIN s PROVE SoundRow(ProjectRow(items, s[i]), V)
  <2> DEFINE pieces == [k \in DOMAIN items |-> IF items[k].from = "star" THEN s[i]
                                               ELSE Cell(items[k].as, Value(items[k], s[i]))]
  <2>1. SoundRow(s[i], V)
    BY <1>3, SoundStays DEF SoundRows, Range
  <2>2. ASSUME NEW k \in DOMAIN items PROVE SoundRow(pieces[k], V)
    <3>1. CASE items[k].from = "star"
      BY <2>1, <3>1
    <3>2. CASE items[k].from # "star"
      <4>1. items[k].from = "var" \/ items[k].from = "const"
        BY <1>1, <3>2 DEF IsItem, IsAgg
      <4>2. Sound(Value(items[k], s[i]), V)
        <5>1. CASE items[k].from = "var"
          <6>1. items[k].var \in DOMAIN s[i]
            BY <5>1 DEF Known, NeedsVar, Bound
          <6> QED
            BY <2>1, <5>1, <6>1 DEF Value, SoundRow
        <5>2. CASE items[k].from = "const"
          BY <1>4, <5>2 DEF Value
        <5> QED
          BY <4>1, <5>1, <5>2
      <4>3. pieces[k] = Cell(items[k].as, Value(items[k], s[i]))
        BY <3>2
      <4> QED
        BY <4>2, <4>3 DEF Cell, SoundRow
    <3> QED
      BY <3>1, <3>2
  <2>3. ProjectRow(items, s[i]) = Filled(pieces)
    BY DEF ProjectRow
  <2>4. pieces = [k \in DOMAIN items |-> pieces[k]] /\ DOMAIN pieces = DOMAIN items
    OBVIOUS
  <2> HIDE DEF pieces
  <2>5. IsList(pieces)
    BY <2>4, MappedList
  <2> QED
    BY <2>2, <2>3, <2>4, <2>5, FilledSound
<1> QED
  BY <1>2, <1>3, <1>5

LEMMA ArgumentsList ==
  ASSUME NEW item, NEW group, IsList(group)
  PROVE  /\ IsList(Arguments(item, group))
         /\ \A v \in Range(Arguments(item, group)) : \E i \in DOMAIN group : v = group[i][item.var]
<1> DEFINE all == [i \in DOMAIN group |-> group[i][item.var]]
           known == Select(all, LAMBDA v : ~IsNull(v))
           once == Uniq(known, FreezeAll(known))
<1>1. Arguments(item, group) = IF item.distinct THEN once ELSE known
  BY DEF Arguments
<1>2. IsList(all) /\ \A v \in Range(all) : \E i \in DOMAIN group : v = all[i]
  <2>1. all = [i \in DOMAIN group |-> all[i]]
    OBVIOUS
  <2> HIDE DEF all
  <2> QED
    BY <2>1, MappedList
<1>3. \A v \in Range(all) : \E i \in DOMAIN group : v = group[i][item.var]
  BY <1>2
<1> HIDE DEF all
<1>4. IsList(known) /\ Range(known) \subseteq Range(all)
  <2> DEFINE T == {v \in Range(all) : ~IsNull(v)}
             lists == [i \in DOMAIN all |-> IF all[i] \in T THEN <<all[i]>> ELSE <<>>]
  <2>1. lists = [i \in DOMAIN all |-> IF ~IsNull(all[i]) THEN <<all[i]>> ELSE <<>>]
    BY DEF Range
  <2>2. known = FlattenSeq(lists)
    BY <2>1 DEF Select, FlatMap
  <2> HIDE DEF T, known
  <2>3. IsList(FlattenSeq(lists)) /\ Range(FlattenSeq(lists)) = Range(all) \intersect T
    BY <1>2, Selected
  <2> QED
    BY <2>2, <2>3
<1> HIDE DEF known
<1>5. IsList(once) /\ Range(once) \subseteq Range(known)
  BY <1>4, UniqList
<1> HIDE DEF once
<1> QED
  BY <1>1, <1>3, <1>4, <1>5

LEMMA GroupsList ==
  ASSUME NEW items, NEW given, IsList(given)
  PROVE  /\ IsList(GroupsOf(items, given))
         /\ \A g \in DOMAIN GroupsOf(items, given) :
              /\ IsList(GroupsOf(items, given)[g])
              /\ Range(GroupsOf(items, given)[g]) \subseteq Range(given)
<1> DEFINE first == Uniq(given, [i \in DOMAIN given |-> GroupKey(items, given[i])])
           group(g) == Select(given, LAMBDA row : GroupKey(items, row) = GroupKey(items, first[g]))
           groups == [g \in DOMAIN first |-> group(g)]
<1>1. GroupsOf(items, given) = groups
  BY DEF GroupsOf
<1>2. IsList(first)
  BY UniqList
<1> HIDE DEF first
<1>3. ASSUME NEW g \in DOMAIN first PROVE IsList(group(g)) /\ Range(group(g)) \subseteq Range(given)
  <2> DEFINE T == {row \in Range(given) : GroupKey(items, row) = GroupKey(items, first[g])}
             lists == [i \in DOMAIN given |-> IF given[i] \in T THEN <<given[i]>> ELSE <<>>]
             members == group(g)
  <2>1. lists = [i \in DOMAIN given |-> IF GroupKey(items, given[i]) = GroupKey(items, first[g])
                                        THEN <<given[i]>> ELSE <<>>]
    BY DEF Range
  <2>2. members = FlattenSeq(lists)
    BY <2>1 DEF Select, FlatMap
  <2> HIDE DEF T, members
  <2>3. IsList(FlattenSeq(lists)) /\ Range(FlattenSeq(lists)) = Range(given) \intersect T
    BY Selected
  <2>4. IsList(members) /\ Range(members) \subseteq Range(given)
    BY <2>2, <2>3
  <2> QED
    BY <2>4 DEF members
<1>4. groups = [g \in DOMAIN first |-> groups[g]] /\ DOMAIN groups = DOMAIN first
  OBVIOUS
<1>5. \A g \in DOMAIN groups : IsList(groups[g]) /\ Range(groups[g]) \subseteq Range(given)
  BY <1>3
<1> HIDE DEF groups
<1>6. IsList(groups)
  BY <1>2, <1>4, MappedList
<1> QED
  BY <1>1, <1>5, <1>6

LEMMA GroupedSound ==
  ASSUME NEW U, Nested(U), NEW given, SoundRows(given, U),
         NEW items, IsList(items), \A item \in Range(items) : IsItem(item),
         \A i \in DOMAIN given, k \in DOMAIN items : Known(items[k], given[i])
  PROVE  \E V : /\ U \subseteq V /\ Nested(V)
                /\ \A g \in DOMAIN GroupsOf(items, given) :
                     SoundRow(GroupRow(items, GroupsOf(items, given)[g]), V)
<1> DEFINE groups == GroupsOf(items, given)
           collected(k, g) == List(Arguments(items[k], groups[g]))
           needs == {k \in DOMAIN items : IsAgg(items[k]) /\ items[k].var # EveryRow}
           new == {collected(k, g) : k \in needs, g \in DOMAIN groups}
           V == U \union new
<1>1. \A g \in DOMAIN groups : IsList(groups[g]) /\ Range(groups[g]) \subseteq Range(given)
  BY GroupsList DEF SoundRows
<1> HIDE DEF groups
<1>2. \A k \in DOMAIN items : IsItem(items[k])
  BY DEF Range
<1>3. ASSUME NEW k \in needs, NEW g \in DOMAIN groups
      PROVE  IsList(collected(k, g).list) /\ \A w \in Range(collected(k, g).list) : Sound(w, U)
  <2> DEFINE vals == Arguments(items[k], groups[g])
  <2>1. collected(k, g).list = vals
    BY DEF List
  <2>2. IsList(vals) /\ \A v \in Range(vals) : \E i \in DOMAIN groups[g] : v = groups[g][i][items[k].var]
    BY <1>1, ArgumentsList
  <2>3. ASSUME NEW i \in DOMAIN groups[g] PROVE Sound(groups[g][i][items[k].var], U)
    <3>1. groups[g][i] \in Range(given)
      BY <1>1 DEF Range
    <3>2. PICK j \in DOMAIN given : groups[g][i] = given[j]
      BY <3>1 DEF Range
    <3>3. items[k].var \in DOMAIN given[j] /\ SoundRow(given[j], U)
      BY DEF Known, NeedsVar, Bound, SoundRows, Range
    <3> QED
      BY <3>2, <3>3 DEF SoundRow
  <2> HIDE DEF vals, collected
  <2> QED
    BY <2>1, <2>2, <2>3
<1>4. Nested(V)
  <2>1. \A v \in new : IsList(v.list) /\ \A w \in Range(v.list) : Sound(w, U)
    <3> HIDE DEF collected, needs
    <3> QED
      BY <1>3
  <2> HIDE DEF new
  <2> QED
    BY <2>1, NestedGrows
<1>5. U \subseteq V
  OBVIOUS
<1>6. ASSUME NEW g \in DOMAIN groups, NEW k \in DOMAIN items, IsAgg(items[k])
      PROVE  Sound(Aggregate(items[k], groups[g]), V)
  <2>1. CASE items[k].var = EveryRow
    BY <2>1, NotAList DEF Aggregate, Sound
  <2>2. CASE items[k].var # EveryRow
    <3> DEFINE vals == Arguments(items[k], groups[g])
    <3>1. items[k].fn \in {"count", "collect", "sum"}
      BY <1>2, <1>6 DEF IsItem, IsAgg
    <3>2. Aggregate(items[k], groups[g]) =
            CASE items[k].fn = "count"   -> Number(Len(vals))
              [] items[k].fn = "collect" -> List(vals)
              [] items[k].fn = "sum"     -> IF vals = <<>> THEN NullRef ELSE Number(SumOf(vals))
      BY <2>2 DEF Aggregate
    <3>3. List(vals) \in V
      BY <1>6, <2>2
    <3> HIDE DEF V, vals
    <3> QED
      BY <3>1, <3>2, <3>3, NotAList DEF Sound
  <2> QED
    BY <2>1, <2>2
<1> HIDE DEF V
<1>7. ASSUME NEW g \in DOMAIN groups PROVE SoundRow(GroupRow(items, groups[g]), V)
  <2> DEFINE pieces == [k \in DOMAIN items |->
                          Cell(items[k].as, IF IsAgg(items[k]) THEN Aggregate(items[k], groups[g])
                                            ELSE Freeze(Value(items[k], Head(groups[g]))))]
  <2>1. ASSUME NEW k \in DOMAIN items PROVE SoundRow(pieces[k], V)
    <3> DEFINE v == IF IsAgg(items[k]) THEN Aggregate(items[k], groups[g])
                    ELSE Freeze(Value(items[k], Head(groups[g])))
    <3>1. Sound(v, V)
      BY <1>6, FrozenIsNoList DEF Sound
    <3>2. pieces[k] = Cell(items[k].as, v)
      OBVIOUS
    <3> HIDE DEF v, pieces
    <3> QED
      BY <3>1, <3>2 DEF Cell, SoundRow
  <2>2. GroupRow(items, groups[g]) = Filled(pieces)
    BY DEF GroupRow
  <2>3. pieces = [k \in DOMAIN items |-> pieces[k]] /\ DOMAIN pieces = DOMAIN items
    OBVIOUS
  <2> HIDE DEF pieces
  <2>4. IsList(pieces)
    BY <2>3, MappedList
  <2> QED
    BY <2>1, <2>2, <2>3, <2>4, FilledSound
<1> QED
  BY <1>4, <1>5, <1>7 DEF groups

------------------------------------------------------------------------------
\* The inductive invariant: lists are lists, what is left to do comes from the
\* parser, and lists in rows hold what lists of rows may hold.
Listed ==
  /\ IsList(parts) /\ \A p \in Range(parts) : IsPart(p)
  /\ IsList(todo) /\ \A c \in Range(todo) : IsClause(c)
  /\ IsList(pairs) /\ IsList(keys) /\ IsList(table) /\ IsList(union)

SoundBy(U) ==
  /\ Nested(U)
  /\ SoundRows(rows, U)
  /\ \A p \in Range(pairs) : SoundRow(p.proj, U)

PInv ==
  /\ TypeOK
  /\ Listed
  /\ phase \notin {"start", "raised"} => parts # <<>>
  /\ \E U : SoundBy(U)

LEMMA NoRows ==
  ASSUME NEW U
  PROVE  SoundRows(<<>>, U) /\ SoundRows(<<EmptyRow>>, U)
<1>1. SoundRow(EmptyRow, U)
  BY DEF SoundRow, EmptyRow
<1> QED
  BY <1>1, SmallLists DEF SoundRows

LEMMA PInitInv == PInit => PInv
<1> SUFFICES ASSUME PInit PROVE PInv
  OBVIOUS
<1>1. parts \in Queries /\ IsList(<<>>) /\ Range(<<>>) = {}
  BY SmallLists DEF PInit
<1>2. TypeOK
  BY DEF PInit, TypeOK
<1>3. Listed
  <2>1. IsList(parts) /\ \A p \in Range(parts) : IsPart(p)
    BY <1>1, QueriesAssumption DEF IsList
  <2> QED
    BY <1>1, <2>1 DEF PInit, Listed
<1>4. SoundBy({})
  BY <1>1, NoRows DEF PInit, SoundBy, Nested
<1> QED
  BY <1>2, <1>3, <1>4 DEF PInv, PInit

\* The clause at hand is one of the parser's.
LEMMA ClauseAtHand ==
  ASSUME Listed, todo # <<>>
  PROVE  /\ IsClause(clause) /\ IsList(Tail(todo))
         /\ \A c \in Range(Tail(todo)) : IsClause(c)
<1>1. IsList(todo)
  BY DEF Listed
<1>2. IsList(Tail(todo)) /\ Range(Tail(todo)) \subseteq Range(todo) /\ Head(todo) \in Range(todo)
  BY <1>1, TailList
<1> QED
  BY <1>2 DEF Listed, clause

LEMMA YieldKeepsInv ==
  ASSUME PInv, todo # <<>>, parts # <<>>, keys = <<>>,
         phase' = "clause", todo' = Tail(todo), pairs' = <<>>, UNCHANGED <<parts, union, keys>>,
         IsList(table'), NEW U, Nested(U), SoundRows(rows', U)
  PROVE  PInv'
<1>1. IsList(<<>>) /\ Range(<<>>) = {}
  BY SmallLists
<1>2. TypeOK'
  BY DEF TypeOK
<1>3. Listed'
  <2>1. Listed
    BY DEF PInv
  <2>2. IsList(Tail(todo)) /\ \A c \in Range(Tail(todo)) : IsClause(c)
    BY <2>1, ClauseAtHand
  <2> QED
    BY <1>1, <2>1, <2>2 DEF Listed
<1>4. SoundBy(U)'
  BY <1>1 DEF SoundBy
<1> QED
  BY <1>2, <1>3, <1>4 DEF PInv

LEMMA BeginPartInv == PInv /\ BeginPart => PInv'
<1> SUFFICES ASSUME PInv, BeginPart PROVE PInv'
  OBVIOUS
<1>1. pairs = <<>> /\ keys = <<>> /\ IsList(<<>>) /\ Range(<<>>) = {}
  BY SmallLists DEF PInv, BeginPart, TypeOK
<1>2. IsPart(part)
  <2>1. IsList(parts) /\ parts # <<>>
    BY DEF PInv, Listed, BeginPart
  <2>2. Head(parts) \in Range(parts)
    BY <2>1, TailList
  <2> QED
    BY <2>2 DEF PInv, Listed, part
<1>3. TypeOK'
  BY <1>1 DEF BeginPart, TypeOK
<1>4. Listed'
  BY <1>1, <1>2 DEF PInv, Listed, BeginPart, IsPart, IsList
<1>5. \E U : Nested(U) /\ SoundRows(rows', U)
  <2> DEFINE values == UNION {{row[x] : x \in DOMAIN row} : row \in Range(rows')}
             U == {v \in values : "list" \in DOMAIN v}
  <2>1. IsList(rows') /\ \A v \in values : IsFlat(v)
    <3>1. rows' \in Tables[part.reads]
      BY DEF BeginPart
    <3> QED
      BY <1>2, <3>1 DEF IsPart, IsList
  <2>2. SoundRows(rows', U)
    BY <2>1 DEF SoundRows, SoundRow, Sound
  <2>3. \A v \in U : IsFlat(v) /\ "list" \in DOMAIN v
    BY <2>1
  <2> HIDE DEF U
  <2>4. Nested(U)
    BY <2>3 DEF Nested, IsFlat, IsList, Sound
  <2> QED
    BY <2>2, <2>4
<1>6. PICK U : Nested(U) /\ SoundRows(rows', U)
  BY <1>5
<1>7. pairs' = <<>>
  BY <1>1 DEF BeginPart
<1>8. SoundBy(U)'
  BY <1>1, <1>6, <1>7 DEF SoundBy
<1>9. parts' # <<>>
  BY DEF BeginPart
<1> QED
  BY <1>3, <1>4, <1>8, <1>9 DEF PInv

LEMMA RaiseInv == PInv /\ Raise /\ phase \in {"clause", "distinct", "order"} => PInv'
BY DEF PInv, Raise, TypeOK, Listed, SoundBy, clause

LEMMA UnwindInv == PInv /\ Unwind => PInv'
<1> SUFFICES ASSUME PInv, Unwind PROVE PInv'
  OBVIOUS
<1>1. /\ todo # <<>> /\ parts # <<>> /\ keys = <<>> /\ IsList(table)
      /\ phase' = "clause" /\ todo' = Tail(todo) /\ pairs' = <<>> /\ UNCHANGED <<parts, union, keys>>
      /\ table' = table
  BY DEF PInv, Listed, TypeOK, Unwind, Begins, Yield
<1>2. PICK U : SoundBy(U)
  BY DEF PInv
<1>3. Nested(U) /\ SoundRows(rows, U)
  BY <1>2 DEF SoundBy
<1>4. \A i \in DOMAIN rows : Bound(rows[i], clause.var)
  BY DEF Unwind
<1>5. rows' = Unwound(rows, clause.var, clause.as)
  BY DEF Unwind, Yield
<1>6. SoundRows(rows', U)
  BY <1>3, <1>4, <1>5, UnwoundSound
<1> QED
  BY <1>1, <1>3, <1>6, YieldKeepsInv

LEMMA CallInv == PInv /\ CallProcedure => PInv'
<1> SUFFICES ASSUME PInv, CallProcedure PROVE PInv'
  OBVIOUS
<1>1. /\ todo # <<>> /\ parts # <<>> /\ keys = <<>> /\ IsList(table) /\ clause.op = "CALL"
      /\ phase' = "clause" /\ todo' = Tail(todo) /\ pairs' = <<>> /\ UNCHANGED <<parts, union, keys>>
      /\ table' = table
  BY DEF PInv, Listed, TypeOK, CallProcedure, Begins, Yield
<1>2. PICK U : SoundBy(U)
  BY DEF PInv
<1>3. IsClause(clause)
  BY <1>1, ClauseAtHand DEF PInv
<1>4. PICK V : U \subseteq V /\ Nested(V) /\ SoundRows(Yielded(clause), V)
  BY <1>1, <1>2, <1>3, YieldedSound DEF SoundBy
<1> DEFINE given == Yielded(clause)
           kept == Satisfying(given, clause.where)
<1>5. rows' = IF kept = <<>> THEN <<EmptyRow>> ELSE kept
  BY DEF CallProcedure, Yield
<1>6. SoundRows(given, V)
  BY <1>4
<1> HIDE DEF given
<1>7. IsList(kept) /\ Range(kept) \subseteq Range(given)
  BY <1>6, SatisfyingList DEF SoundRows
<1> HIDE DEF kept
<1>8. SoundRows(rows', V)
  BY <1>5, <1>6, <1>7, NoRows DEF SoundRows
<1> QED
  BY <1>1, <1>4, <1>8, YieldKeepsInv

\* The stages of a clause leave what is left to do, and the rows, alone.
LEMMA StageKeepsInv ==
  ASSUME PInv, phase' \in {"projected", "distinct", "order"}, todo # <<>>, parts # <<>>,
         Reshapes(clause), UNCHANGED <<parts, union, todo, rows, table>>,
         IsList(pairs'), \A i \in DOMAIN pairs' : DOMAIN pairs'[i] = {"orig", "proj"},
         IsList(keys'), keys' # <<>> => Len(keys') <= Len(clause.order),
         NEW U, Nested(U), SoundRows(rows, U), \A p \in Range(pairs') : SoundRow(p.proj, U)
  PROVE  PInv'
<1>1. TypeOK'
  BY DEF TypeOK, clause
<1>2. Listed'
  BY DEF PInv, Listed
<1>3. SoundBy(U)'
  BY DEF SoundBy
<1> QED
  BY <1>1, <1>2, <1>3 DEF PInv

LEMMA ProjectInv == PInv /\ Project => PInv'
<1> SUFFICES ASSUME PInv, Project PROVE PInv'
  OBVIOUS
<1> DEFINE items == clause.items
           made(i) == [orig |-> rows[i], proj |-> ProjectRow(items, rows[i])]
<1>1. /\ phase' = "projected" /\ todo # <<>> /\ parts # <<>> /\ keys = <<>> /\ keys' = keys
      /\ Reshapes(clause) /\ UNCHANGED <<parts, union, todo, rows, table>>
      /\ pairs' = [i \in DOMAIN rows |-> made(i)]
  BY DEF PInv, TypeOK, Project
<1>2. PICK U : SoundBy(U)
  BY DEF PInv
<1>3. Nested(U) /\ SoundRows(rows, U) /\ IsList(rows)
  BY <1>2 DEF SoundBy, SoundRows
<1>4. IsList(items) /\ \A item \in Range(items) : IsItem(item) /\ ~IsAgg(item)
  <2>1. IsClause(clause)
    BY <1>1, ClauseAtHand DEF PInv
  <2>2. ~Aggregates(clause)
    BY DEF Project
  <2> QED
    BY <1>1, <2>1, <2>2 DEF IsClause, Reshapes, IsList, Aggregates, Range
<1>5. \A i \in DOMAIN rows, k \in DOMAIN items : Known(items[k], rows[i])
  BY DEF Project
<1> HIDE DEF items
<1>6. PICK V : /\ U \subseteq V /\ Nested(V)
               /\ \A i \in DOMAIN rows : SoundRow(ProjectRow(items, rows[i]), V)
  BY <1>3, <1>4, <1>5, ProjectedSound
<1>7. /\ IsList(pairs') /\ DOMAIN pairs' = DOMAIN rows
      /\ \A p \in Range(pairs') : \E i \in DOMAIN rows : p = made(i)
  <2> DEFINE new == [i \in DOMAIN rows |-> made(i)]
  <2>1. new = [i \in DOMAIN rows |-> new[i]] /\ \A i \in DOMAIN rows : new[i] = made(i)
    OBVIOUS
  <2>2. pairs' = new
    BY <1>1
  <2> HIDE DEF new, made
  <2> QED
    BY <1>3, <2>1, <2>2, MappedList
<1>8. \A i \in DOMAIN pairs' : DOMAIN pairs'[i] = {"orig", "proj"}
  BY <1>1
<1>9. \A p \in Range(pairs') : SoundRow(p.proj, V)
  BY <1>6, <1>7
<1>10. IsList(keys') /\ keys' = <<>>
  BY <1>1, SmallLists
<1>11. SoundRows(rows, V)
  BY <1>3, <1>6, SoundStays
<1> HIDE DEF made
<1> QED
  BY <1>1, <1>6, <1>7, <1>8, <1>9, <1>10, <1>11, StageKeepsInv

LEMMA GroupInv == PInv /\ Group => PInv'
<1> SUFFICES ASSUME PInv, Group PROVE PInv'
  OBVIOUS
<1> DEFINE items == clause.items
           groups == GroupsOf(items, rows)
           made(g) == [orig |-> GroupRow(items, groups[g]), proj |-> GroupRow(items, groups[g])]
<1>1. /\ phase' = "projected" /\ todo # <<>> /\ parts # <<>> /\ keys = <<>> /\ keys' = keys
      /\ Reshapes(clause) /\ UNCHANGED <<parts, union, todo, rows, table>>
      /\ pairs' = [g \in DOMAIN groups |-> made(g)]
  BY DEF PInv, TypeOK, Group
<1>2. PICK U : SoundBy(U)
  BY DEF PInv
<1>3. Nested(U) /\ SoundRows(rows, U) /\ IsList(rows)
  BY <1>2 DEF SoundBy, SoundRows
<1>4. IsList(items) /\ \A item \in Range(items) : IsItem(item)
  <2>1. IsClause(clause)
    BY <1>1, ClauseAtHand DEF PInv
  <2> QED
    BY <1>1, <2>1 DEF IsClause, Reshapes, IsList
<1>5. \A i \in DOMAIN rows, k \in DOMAIN items : Known(items[k], rows[i])
  BY DEF Group
<1> HIDE DEF items
<1>6. PICK V : /\ U \subseteq V /\ Nested(V)
               /\ \A g \in DOMAIN groups : SoundRow(GroupRow(items, groups[g]), V)
  BY <1>3, <1>4, <1>5, GroupedSound
<1>7. IsList(groups)
  BY <1>3, GroupsList
<1> HIDE DEF groups
<1>8. /\ IsList(pairs') /\ DOMAIN pairs' = DOMAIN groups
      /\ \A p \in Range(pairs') : \E g \in DOMAIN groups : p = made(g)
  <2> DEFINE new == [g \in DOMAIN groups |-> made(g)]
  <2>1. new = [g \in DOMAIN groups |-> new[g]] /\ \A g \in DOMAIN groups : new[g] = made(g)
    OBVIOUS
  <2>2. pairs' = new
    BY <1>1
  <2> HIDE DEF new, made
  <2> QED
    BY <1>7, <2>1, <2>2, MappedList
<1>9. \A g \in DOMAIN pairs' : DOMAIN pairs'[g] = {"orig", "proj"}
  BY <1>1
<1>10. \A p \in Range(pairs') : SoundRow(p.proj, V)
  BY <1>6, <1>8
<1>11. IsList(keys') /\ keys' = <<>>
  BY <1>1, SmallLists
<1>12. SoundRows(rows, V)
  BY <1>3, <1>6, SoundStays
<1> HIDE DEF made
<1> QED
  BY <1>1, <1>6, <1>8, <1>9, <1>10, <1>11, <1>12, StageKeepsInv

\* Stages that only drop or rearrange pairs.
LEMMA PairsKeepInv ==
  ASSUME PInv, phase \in {"projected", "distinct", "order"},
         phase' \in {"projected", "distinct", "order"},
         UNCHANGED <<parts, union, todo, rows, table>>,
         IsList(pairs'), Range(pairs') \subseteq Range(pairs),
         IsList(keys'), keys' # <<>> => Len(keys') <= Len(clause.order)
  PROVE  PInv'
<1>1. PICK U : SoundBy(U)
  BY DEF PInv
<1>2. Nested(U) /\ SoundRows(rows, U) /\ \A p \in Range(pairs') : SoundRow(p.proj, U)
  BY <1>1 DEF SoundBy
<1>3. \A i \in DOMAIN pairs' : DOMAIN pairs'[i] = {"orig", "proj"}
  <2>1. \A p \in Range(pairs) : DOMAIN p = {"orig", "proj"}
    BY DEF PInv, TypeOK, Range
  <2>2. \A i \in DOMAIN pairs' : pairs'[i] \in Range(pairs)
    BY DEF Range
  <2> QED
    BY <2>1, <2>2
<1>4. todo # <<>> /\ Reshapes(clause) /\ parts # <<>>
  BY DEF PInv, TypeOK
<1> QED
  BY <1>2, <1>3, <1>4, StageKeepsInv

LEMMA DistinctInv == PInv /\ Distinct => PInv'
<1> SUFFICES ASSUME PInv, Distinct PROVE PInv'
  OBVIOUS
<1>1. IsList(pairs) /\ IsList(keys)
  BY DEF PInv, Listed
<1>2. IsList(pairs') /\ Range(pairs') \subseteq Range(pairs)
  BY <1>1, UniqList DEF Distinct
<1>3. keys' = keys /\ (keys # <<>> => Len(keys) <= Len(clause.order))
  BY DEF PInv, TypeOK, Distinct
<1> QED
  BY <1>1, <1>2, <1>3, PairsKeepInv DEF Distinct

LEMMA FilterInv == PInv /\ Filter => PInv'
<1> SUFFICES ASSUME PInv, Filter PROVE PInv'
  OBVIOUS
<1>1. IsList(pairs)
  BY DEF PInv, Listed
<1>2. IsList(pairs') /\ Range(pairs') \subseteq Range(pairs)
  BY <1>1, SatisfyingPairsList DEF Filter
<1>3. IsList(clause.order)
  <2>1. todo # <<>> /\ Reshapes(clause)
    BY DEF PInv, TypeOK, Filter
  <2>2. IsClause(clause)
    BY <2>1, ClauseAtHand DEF PInv
  <2> QED
    BY <2>1, <2>2 DEF IsClause, Reshapes, IsList
<1>4. IsList(keys') /\ Len(keys') = Len(clause.order) /\ Len(clause.order) \in Nat
  BY <1>3, ReverseList, ListShape DEF Filter
<1>5. Len(keys') <= Len(clause.order)
  BY <1>4
<1> QED
  BY <1>2, <1>4, <1>5, PairsKeepInv DEF Filter

LEMMA OrderPassInv == PInv /\ OrderPass => PInv'
<1> SUFFICES ASSUME PInv, OrderPass PROVE PInv'
  OBVIOUS
<1>1. IsList(pairs) /\ IsList(keys) /\ keys # <<>>
  BY DEF PInv, Listed, OrderPass
<1>2. IsList(pairs') /\ Range(pairs') \subseteq Range(pairs)
  BY <1>1, PassedList DEF OrderPass
<1>3. IsList(keys') /\ Len(keys') \in Nat /\ Len(keys) \in Nat /\ Len(keys') <= Len(keys)
  <2>1. keys' = Tail(keys) /\ IsList(Tail(keys))
    BY <1>1, TailList DEF OrderPass
  <2>2. Len(keys) \in Nat /\ Len(Tail(keys)) \in Nat
    BY <1>1, <2>1, ListShape
  <2>3. keys \in Seq(Range(keys))
    BY <1>1 DEF IsList
  <2>4. Len(Tail(keys)) = Len(keys) - 1
    BY <1>1, <2>3
  <2> QED
    BY <2>1, <2>2, <2>4
<1>4. Len(keys) <= Len(clause.order) /\ Len(clause.order) \in Nat
  <2>1. todo # <<>> /\ Reshapes(clause)
    BY DEF PInv, TypeOK, OrderPass
  <2>2. IsClause(clause)
    BY <2>1, ClauseAtHand DEF PInv
  <2>3. IsList(clause.order)
    BY <2>1, <2>2 DEF IsClause, Reshapes, IsList
  <2> QED
    BY <1>1, <2>3, ListShape DEF PInv, TypeOK
<1>5. Len(keys') <= Len(clause.order)
  BY <1>3, <1>4
<1> QED
  BY <1>2, <1>3, <1>5, PairsKeepInv DEF OrderPass

\* What SKIP and LIMIT leave of the pairs.
LEMMA PageAtHand ==
  ASSUME PInv, phase = "order"
  PROVE  /\ todo # <<>> /\ parts # <<>> /\ IsList(pairs)
         /\ clause.skip \in Int \union {NoFilter} /\ clause.limit \in Int \union {NoFilter}
         /\ IsList(SkipThenLimit(pairs, clause.skip, clause.limit))
         /\ Range(SkipThenLimit(pairs, clause.skip, clause.limit)) \subseteq Range(pairs)
<1>1. todo # <<>> /\ parts # <<>> /\ IsList(pairs) /\ Reshapes(clause)
  BY DEF PInv, TypeOK, Listed
<1>2. IsClause(clause)
  BY <1>1, ClauseAtHand DEF PInv
<1>3. clause.skip \in Int \union {NoFilter} /\ clause.limit \in Int \union {NoFilter}
  BY <1>1, <1>2 DEF IsClause, Reshapes
<1> QED
  BY <1>1, <1>3, PageIsList

LEMMA FinishWithInv == PInv /\ FinishWith => PInv'
<1> SUFFICES ASSUME PInv, FinishWith PROVE PInv'
  OBVIOUS
<1> DEFINE page == SkipThenLimit(pairs, clause.skip, clause.limit)
           new  == [i \in DOMAIN page |-> page[i].proj]
<1>1. /\ phase = "order" /\ keys = <<>> /\ IsList(table)
      /\ phase' = "clause" /\ todo' = Tail(todo) /\ pairs' = <<>> /\ UNCHANGED <<parts, union, keys>>
      /\ table' = table
      /\ rows' = IF FiltersLast(clause) THEN Satisfying(new, clause.where) ELSE new
  BY DEF PInv, Listed, FinishWith, Yield
<1>2. todo # <<>> /\ parts # <<>> /\ IsList(page) /\ Range(page) \subseteq Range(pairs)
  BY <1>1, PageAtHand
<1>3. PICK U : SoundBy(U)
  BY DEF PInv
<1> HIDE DEF page
<1>4. SoundRows(new, U)
  <2>1. new = [i \in DOMAIN page |-> new[i]] /\ \A i \in DOMAIN page : new[i] = page[i].proj
    OBVIOUS
  <2> HIDE DEF new
  <2>2. IsList(new) /\ \A row \in Range(new) : \E i \in DOMAIN page : row = new[i]
    BY <1>2, <2>1, MappedList
  <2>3. \A i \in DOMAIN page : SoundRow(page[i].proj, U)
    BY <1>2, <1>3 DEF SoundBy, Range
  <2> QED
    BY <2>1, <2>2, <2>3 DEF SoundRows
<1> HIDE DEF new
<1>5. IsList(Satisfying(new, clause.where)) /\ Range(Satisfying(new, clause.where)) \subseteq Range(new)
  BY <1>4, SatisfyingList DEF SoundRows
<1>6. SoundRows(rows', U)
  BY <1>1, <1>4, <1>5 DEF SoundRows
<1> QED
  BY <1>1, <1>2, <1>3, <1>6, YieldKeepsInv DEF SoundBy

LEMMA FinishReturnInv == PInv /\ FinishReturn => PInv'
<1> SUFFICES ASSUME PInv, FinishReturn PROVE PInv'
  OBVIOUS
<1> DEFINE page == SkipThenLimit(pairs, clause.skip, clause.limit)
           new  == [i \in DOMAIN page |-> ResultRow(clause.items, page[i].proj)]
<1>1. /\ phase = "order" /\ keys = <<>>
      /\ phase' = "clause" /\ todo' = Tail(todo) /\ pairs' = <<>> /\ UNCHANGED <<parts, union, keys>>
      /\ table' = new /\ rows' = <<>>
  BY DEF FinishReturn, Yield
<1>2. todo # <<>> /\ parts # <<>> /\ IsList(page)
  BY <1>1, PageAtHand
<1>3. PICK U : SoundBy(U)
  BY DEF PInv
<1> HIDE DEF page
<1>4. IsList(table')
  <2>1. new = [i \in DOMAIN page |-> new[i]]
    OBVIOUS
  <2> HIDE DEF new
  <2> QED
    BY <1>1, <1>2, <2>1, MappedList
<1>5. SoundRows(rows', U)
  BY <1>1, NoRows
<1> QED
  BY <1>1, <1>2, <1>3, <1>4, <1>5, YieldKeepsInv DEF SoundBy

LEMMA EndPartInv == PInv /\ EndPart => PInv'
<1> SUFFICES ASSUME PInv, EndPart PROVE PInv'
  OBVIOUS
<1>1. /\ pairs = <<>> /\ keys = <<>> /\ parts # <<>> /\ phase' = "start" /\ parts' = Tail(parts)
      /\ UNCHANGED <<todo, rows, pairs, keys, table>>
      /\ IsList(parts) /\ IsList(union) /\ IsList(table)
  BY DEF PInv, TypeOK, Listed, EndPart
<1>2. IsList(Tail(parts)) /\ Range(Tail(parts)) \subseteq Range(parts)
  BY <1>1, TailList
<1>3. IsList(union')
  <2> DEFINE all == union \o table
  <2>1. IsList(all)
    BY <1>1, ConcatList
  <2>2. union' = IF part.distinct THEN Uniq(all, [i \in DOMAIN all |-> FreezeAll(all[i])]) ELSE all
    BY DEF EndPart
  <2> HIDE DEF all
  <2> QED
    BY <2>1, <2>2, UniqList
<1>4. TypeOK'
  BY <1>1 DEF TypeOK
<1>5. Listed'
  BY <1>1, <1>2, <1>3 DEF PInv, Listed
<1>6. PICK U : SoundBy(U)
  BY DEF PInv
<1>7. SoundBy(U)'
  BY <1>1, <1>6 DEF SoundBy
<1> QED
  BY <1>1, <1>4, <1>5, <1>7 DEF PInv

LEMMA PNextInv == PInv /\ [PNext]_pvars => PInv'
<1> SUFFICES ASSUME PInv, [PNext]_pvars PROVE PInv'
  OBVIOUS
<1>1. CASE BeginPart
  BY <1>1, BeginPartInv
<1>2. CASE EndPart
  BY <1>2, EndPartInv
<1>3. CASE UNCHANGED pvars
  BY <1>3 DEF pvars, PInv, TypeOK, Listed, SoundBy, clause
<1>4. CASE Done
  BY <1>3, <1>4 DEF Done
<1>5. CASE Unwind
  BY <1>5, UnwindInv
<1>6. CASE CallProcedure
  BY <1>6, CallInv
<1>7. CASE Project
  BY <1>7, ProjectInv
<1>8. CASE Group
  BY <1>8, GroupInv
<1>9. CASE Distinct
  BY <1>9, DistinctInv
<1>10. CASE Filter
  BY <1>10, FilterInv
<1>11. CASE OrderPass
  BY <1>11, OrderPassInv
<1>12. CASE FinishWith
  BY <1>12, FinishWithInv
<1>13. CASE FinishReturn
  BY <1>13, FinishReturnInv
<1>14. CASE UnknownVariable
  BY <1>14, RaiseInv DEF UnknownVariable, Begins
<1>15. CASE NotANumber
  BY <1>15, RaiseInv DEF NotANumber
<1>16. CASE CannotOrder
  BY <1>16, RaiseInv DEF CannotOrder
<1> QED
  BY <1>1, <1>2, <1>3, <1>4, <1>5, <1>6, <1>7, <1>8, <1>9, <1>10, <1>11, <1>12, <1>13,
     <1>14, <1>15, <1>16 DEF PNext

LEMMA ProjectionInvariant == PSpec => []PInv
<1>1. PInit => PInv
  BY PInitInv
<1>2. PInv /\ [PNext]_pvars => PInv'
  BY PNextInv
<1> QED
  BY <1>1, <1>2, PTL DEF PSpec

------------------------------------------------------------------------------
\* The stages of _project follow one another: rows are only paired with what
\* they were made of while a WITH or RETURN is at hand, and each stage has the
\* keys of ORDER BY it needs.
THEOREM ProjectionTypeCorrect == PSpec => []TypeOK
<1>1. PInv => TypeOK
  BY DEF PInv
<1> QED
  BY <1>1, ProjectionInvariant, PTL

\* SKIP and LIMIT of every WITH and RETURN cut exactly their page out of the
\* order, whatever was done to the rows before: pages neither overlap nor leave
\* a row out, and negative bounds count from its end (engine.py, the end of _project).
THEOREM PagesAlwaysTile == PSpec => PagesTile
<1> DEFINE Step ==
      Ordered /\ phase' = "clause" /\ ~FiltersLast(clause) =>
       LET from  == PageStart(Len(pairs), clause.skip)
           to    == PageEnd(Len(pairs), clause.skip, clause.limit)
           given == IF clause.op = "WITH" THEN rows' ELSE table'
           row(i) == IF clause.op = "WITH" THEN pairs[i].proj
                     ELSE ResultRow(clause.items, pairs[i].proj)
       IN  given = [i \in 1..Cardinality({p \in DOMAIN pairs : from < p /\ p <= to}) |->
                      row(from + i)]
<1>1. PInv /\ [PNext]_pvars => [Step]_pvars
  <2> DEFINE from == PageStart(Len(pairs), clause.skip)
             c    == Cardinality(OnPage(pairs, from, PageEnd(Len(pairs), clause.skip, clause.limit)))
             page == SkipThenLimit(pairs, clause.skip, clause.limit)
  <2> SUFFICES ASSUME PInv, PNext, Ordered, phase' = "clause", ~FiltersLast(clause)
               PROVE  (IF clause.op = "WITH" THEN rows' ELSE table') =
                        [i \in 1..c |->
                           IF clause.op = "WITH" THEN pairs[from + i].proj
                           ELSE ResultRow(clause.items, pairs[from + i].proj)]
    BY DEF OnPage
  <2>1. phase = "order" /\ keys = <<>>
    BY DEF Ordered
  <2>2. page = [i \in 1..c |-> pairs[from + i]]
    <3>1. /\ IsList(pairs) /\ clause.skip \in Int \union {NoFilter}
          /\ clause.limit \in Int \union {NoFilter}
      BY <2>1, PageAtHand
    <3>2. page = Page(pairs, from, PageEnd(Len(pairs), clause.skip, clause.limit))
      BY <3>1, PageHoldsItsRows
    <3> QED
      BY <3>2 DEF Page
  <2>3. FinishWith \/ FinishReturn
    BY <2>1 DEF PNext, BeginPart, EndPart, Done, Unwind, CallProcedure, Begins, Project, Group,
                Distinct, Filter, OrderPass, UnknownVariable, NotANumber, CannotOrder, Raise
  <2> HIDE DEF from, c
  <2>4. CASE FinishWith
    <3>1. clause.op = "WITH" /\ rows' = [i \in DOMAIN page |-> page[i].proj]
      BY <2>4 DEF FinishWith, Yield
    <3> HIDE DEF page
    <3> QED
      BY <2>2, <3>1 DEF from, c
  <2>5. CASE FinishReturn
    <3>1. /\ clause.op = "RETURN"
          /\ table' = [i \in DOMAIN page |-> ResultRow(clause.items, page[i].proj)]
      BY <2>5 DEF FinishReturn, Yield
    <3> HIDE DEF page
    <3> QED
      BY <2>2, <3>1 DEF from, c
  <2> QED
    BY <2>3, <2>4, <2>5
<1>2. PagesTile <=> [][Step]_pvars
  BY PTL DEF PagesTile
<1> QED
  BY <1>1, <1>2, ProjectionInvariant, PTL DEF PSpec

\* UNION without ALL gives each row once, at the place where it first comes,
\* whatever its operands are and however often they are put together (run_union).
THEOREM UnionAlwaysGivesEachRowOnce == PSpec => UnionGivesEachRowOnce
<1> DEFINE Step ==
      phase = "clause" /\ phase' = "start" /\ part.distinct =>
       LET all == union \o table
           new == {i \in DOMAIN all : \A j \in 1..(i - 1) : FreezeAll(all[j]) # FreezeAll(all[i])}
       IN  union' = [n \in 1..Cardinality(new) |-> all[InOrder(new)[n]]]
<1>1. PInv /\ [PNext]_pvars => [Step]_pvars
  <2> DEFINE all == union \o table
  <2> SUFFICES ASSUME PInv, PNext, phase = "clause", phase' = "start", part.distinct
               PROVE  union' = [n \in 1..Cardinality(FirstRows(all)) |-> all[InOrder(FirstRows(all))[n]]]
    BY DEF FirstRows
  <2>1. EndPart
    BY DEF PNext, BeginPart, EndPart, Done, Unwind, CallProcedure, Begins, Project, Group,
           Distinct, Filter, OrderPass, FinishWith, FinishReturn, Yield,
           UnknownVariable, NotANumber, CannotOrder, Raise
  <2>2. IsList(all)
    BY ConcatList DEF PInv, Listed
  <2>3. union' = Uniq(all, [i \in DOMAIN all |-> FreezeAll(all[i])])
    BY <2>1 DEF EndPart
  <2> HIDE DEF all
  <2> QED
    BY <2>2, <2>3, UniqRows
<1>2. UnionGivesEachRowOnce <=> [][Step]_pvars
  BY PTL DEF UnionGivesEachRowOnce
<1> QED
  BY <1>1, <1>2, ProjectionInvariant, PTL DEF PSpec

------------------------------------------------------------------------------
\* Taking what is at some indices, and of that what is at some indices again.
LEMMA AlongAlong ==
  ASSUME NEW s, NEW d, IsList(d), NEW e, IsList(e), Range(e) \subseteq DOMAIN d
  PROVE  Along(Along(s, d), e) = Along(s, Along(d, e))
<1>1. /\ Len(d) \in Nat /\ DOMAIN d = 1..Len(d)
      /\ Len(e) \in Nat /\ DOMAIN e = 1..Len(e)
  BY ListShape
<1>2. Along(d, e) = [k \in 1..Len(e) |-> d[e[k]]]
  BY DEF Along
<1>3. Len(Along(d, e)) = Len(e)
  <2>1. Along(d, e) = [k \in 1..Len(e) |-> Along(d, e)[k]]
    BY <1>2
  <2> QED
    BY <1>1, <2>1, FunctionIsList
<1>4. \A k \in 1..Len(e) : e[k] \in 1..Len(d)
  BY <1>1 DEF Range
<1>5. \A k \in 1..Len(e) : Along(s, d)[e[k]] = s[Along(d, e)[k]]
  <2>1. \A m \in 1..Len(d) : Along(s, d)[m] = s[d[m]]
    BY DEF Along
  <2> QED
    BY <1>2, <1>4, <2>1
<1>6. Along(Along(s, d), e) = [k \in 1..Len(e) |-> Along(s, d)[e[k]]]
  BY DEF Along
<1>7. Along(s, Along(d, e)) = [k \in 1..Len(e) |-> s[Along(d, e)[k]]]
  BY <1>3 DEF Along
<1> QED
  BY <1>5, <1>6, <1>7

LEMMA AlongIncreasing ==
  ASSUME NEW d, IsList(d), Increasing(d), Range(d) \subseteq Int,
         NEW e, IsList(e), Increasing(e), Range(e) \subseteq DOMAIN d
  PROVE  /\ IsList(Along(d, e)) /\ Increasing(Along(d, e))
         /\ Range(Along(d, e)) = {d[n] : n \in Range(e)}
<1>1. /\ Len(d) \in Nat /\ DOMAIN d = 1..Len(d)
      /\ Len(e) \in Nat /\ DOMAIN e = 1..Len(e)
  BY ListShape
<1>2. Along(d, e) = [k \in 1..Len(e) |-> d[e[k]]]
  BY DEF Along
<1>3. IsList(Along(d, e))
  <2>1. Along(d, e) = [k \in 1..Len(e) |-> Along(d, e)[k]]
    BY <1>2
  <2> QED
    BY <1>1, <2>1, FunctionIsList
<1>4. DOMAIN Along(d, e) = DOMAIN e /\ \A k \in DOMAIN e : Along(d, e)[k] = d[e[k]]
  BY <1>1, <1>2
<1>5. Range(Along(d, e)) = {d[n] : n \in Range(e)}
  BY <1>4 DEF Range
<1>6. Increasing(Along(d, e))
  <2>1. ASSUME NEW i \in DOMAIN e, NEW j \in DOMAIN e, i < j PROVE d[e[i]] < d[e[j]]
    <3>1. e[i] < e[j] /\ e[i] \in DOMAIN d /\ e[j] \in DOMAIN d
      BY <2>1 DEF Increasing, Range
    <3> QED
      BY <3>1 DEF Increasing
  <2> QED
    BY <1>4, <2>1 DEF Increasing
<1> QED
  BY <1>3, <1>5, <1>6

LEMMA WhollyInOrder ==
  ASSUME NEW s, IsList(s)
  PROVE  Along(s, InOrder(DOMAIN s)) = s
<1> DEFINE n == Len(s)
           id == [i \in 1..n |-> i]
<1>1. n \in Nat /\ DOMAIN s = 1..n /\ s = [i \in 1..n |-> s[i]]
  BY ListShape DEF IsList
<1>2. IsList(id) /\ Len(id) = n /\ Range(id) = 1..n /\ Increasing(id)
  <2>1. id = [i \in 1..n |-> id[i]] /\ DOMAIN id = 1..n /\ \A i \in 1..n : id[i] = i
    OBVIOUS
  <2> HIDE DEF id
  <2>2. IsList(id) /\ Len(id) = n
    BY <1>1, <2>1, FunctionIsList
  <2> QED
    BY <2>1, <2>2 DEF Range, Increasing
<1>3. Numbered(1..n) /\ 1..n \subseteq Int
  BY <1>1 DEF Numbered
<1>4. /\ IsList(InOrder(1..n)) /\ Increasing(InOrder(1..n)) /\ Range(InOrder(1..n)) = 1..n
  BY <1>3, InOrderEnumerates
<1> HIDE DEF id
<1>5. InOrder(1..n) = id
  BY <1>2, <1>3, <1>4, IncreasingAreOne
<1>6. Along(s, id) = [i \in 1..n |-> s[i]]
  BY <1>2 DEF Along, id
<1> QED
  BY <1>1, <1>5, <1>6

\* What is kept of the elements at some indices, when those at K are kept.
LEMMA SelectedAlong ==
  ASSUME NEW s, IsList(s), NEW D \in SUBSET DOMAIN s, NEW K \in SUBSET D,
         NEW lists, lists = [n \in DOMAIN Along(s, InOrder(D)) |->
                               IF InOrder(D)[n] \in K THEN <<Along(s, InOrder(D))[n]>> ELSE <<>>]
  PROVE  FlattenSeq(lists) = Along(s, InOrder(K))
<1> DEFINE d == InOrder(D)
           t == Along(s, d)
           T == {n \in DOMAIN t : d[n] \in K}
<1>1. Len(s) \in Nat /\ DOMAIN s = 1..Len(s)
  BY ListShape
<1>2. Numbered(D) /\ Numbered(K)
  BY <1>1 DEF Numbered
<1>3. IsList(d) /\ Increasing(d) /\ Range(d) = D /\ D \subseteq Int
  BY <1>2, InOrderEnumerates
<1>4. lists = [n \in DOMAIN t |-> IF n \in T THEN <<t[n]>> ELSE <<>>]
  BY DEF t, T
<1> HIDE DEF d
<1>5. Len(d) \in Nat /\ DOMAIN d = 1..Len(d)
  BY <1>3, ListShape
<1>6. DOMAIN t = DOMAIN d
  BY <1>5 DEF Along
<1>7. IsList(t)
  <2>1. t = [n \in 1..Len(d) |-> t[n]]
    BY DEF Along
  <2> HIDE DEF t
  <2> QED
    BY <1>5, <2>1, FunctionIsList
<1> HIDE DEF t
<1>8. FlattenSeq(lists) = Along(t, InOrder(T))
  <2> HIDE DEF T
  <2>1. T \in SUBSET DOMAIN t
    BY DEF T
  <2> QED
    BY <1>4, <1>7, <2>1, SelectedInOrder
<1> DEFINE e == InOrder(T)
<1>9. IsList(e) /\ Increasing(e) /\ Range(e) = T /\ T \subseteq DOMAIN d
  <2>1. T \subseteq DOMAIN d
    BY <1>6
  <2>2. Numbered(T)
    BY <1>5, <2>1 DEF Numbered
  <2> HIDE DEF T
  <2> QED
    BY <2>1, <2>2, InOrderEnumerates
<1>10. {d[n] : n \in T} = K
  <2>1. \A i \in K : \E n \in DOMAIN d : i = d[n]
    BY <1>3 DEF Range
  <2> QED
    BY <1>6, <2>1
<1> HIDE DEF T, e
<1>11. Along(d, e) = InOrder(K)
  <2>1. /\ IsList(Along(d, e)) /\ Increasing(Along(d, e)) /\ Range(Along(d, e)) = K
    BY <1>3, <1>9, <1>10, AlongIncreasing
  <2>2. /\ IsList(InOrder(K)) /\ Increasing(InOrder(K)) /\ Range(InOrder(K)) = K
        /\ K \subseteq Int
    BY <1>2, InOrderEnumerates
  <2> QED
    BY <2>1, <2>2, IncreasingAreOne
<1>12. Along(t, e) = Along(s, Along(d, e))
  BY <1>3, <1>9, AlongAlong DEF t
<1> QED
  BY <1>8, <1>11, <1>12 DEF t, d, e

\* What a condition keeps of the rows at some indices.
LEMMA SatisfyingAlong ==
  ASSUME NEW s, IsList(s), NEW D \in SUBSET DOMAIN s, NEW where
  PROVE  SatisfyingPairs(Along(s, InOrder(D)), where) =
           Along(s, InOrder({i \in D : Satisfies(where, s[i].proj)}))
<1> DEFINE d == InOrder(D)
           t == Along(s, d)
           K == {i \in D : Satisfies(where, s[i].proj)}
           lists == [n \in DOMAIN t |-> IF Satisfies(where, t[n].proj) THEN <<t[n]>> ELSE <<>>]
<1>1. Len(s) \in Nat /\ DOMAIN s = 1..Len(s)
  BY ListShape
<1>2. IsList(d) /\ Range(d) = D
  <2>1. Numbered(D)
    BY <1>1 DEF Numbered
  <2> QED
    BY <2>1, InOrderEnumerates
<1> HIDE DEF d
<1>3. \A n \in DOMAIN t : t[n] = s[d[n]] /\ d[n] \in D
  BY <1>2, ListShape DEF Along
<1>4. SatisfyingPairs(t, where) = FlattenSeq(lists)
  <2> HIDE DEF t
  <2> QED
    BY DEF SatisfyingPairs, Select, FlatMap
<1> HIDE DEF t
<1>5. lists = [n \in DOMAIN t |-> IF d[n] \in K THEN <<t[n]>> ELSE <<>>]
  BY <1>3
<1>6. K \in SUBSET D
  OBVIOUS
<1> HIDE DEF K, lists
<1>7. FlattenSeq(lists) = Along(s, InOrder(K))
  BY <1>5, <1>6, SelectedAlong DEF t, d
<1> QED
  BY <1>4, <1>7 DEF t, d, K

\* The pairs that a clause without aggregates makes, the indices of those that
\* DISTINCT keeps, and of those that WHERE keeps of them.
Made(c, s) == [i \in DOMAIN s |-> [orig |-> s[i], proj |-> ProjectRow(c.items, s[i])]]
Once(c, s) == IF c.distinct THEN Firsts(Made(c, s), Kinds(Made(c, s))) ELSE DOMAIN s
Chosen(c, s) == {i \in Once(c, s) : FiltersFirst(c) => Satisfies(c.where, Made(c, s)[i].proj)}

KInv ==
  ~Aggregates(clause) =>
    /\ phase = "projected" => pairs = Made(clause, rows)
    /\ phase = "distinct" => pairs = Along(Made(clause, rows), InOrder(Once(clause, rows)))
    /\ phase = "order" /\ Len(keys) = Len(clause.order) =>
         pairs = Along(Made(clause, rows), InOrder(Chosen(clause, rows)))

LEMMA MadeList ==
  ASSUME NEW c, NEW s, IsList(s)
  PROVE  /\ IsList(Made(c, s)) /\ DOMAIN Made(c, s) = DOMAIN s
         /\ Once(c, s) \in SUBSET DOMAIN s /\ Chosen(c, s) \in SUBSET DOMAIN s
<1>1. Made(c, s) = [i \in DOMAIN s |-> Made(c, s)[i]] /\ DOMAIN Made(c, s) = DOMAIN s
  BY DEF Made
<1>2. IsList(Made(c, s))
  BY <1>1, MappedList
<1> QED
  BY <1>1, <1>2 DEF Once, Chosen, Firsts

LEMMA RowsListed == PInv => IsList(rows)
BY DEF PInv, SoundBy, SoundRows

LEMMA DistinctKeeps == PInv /\ KInv /\ Distinct => KInv'
<1> SUFFICES ASSUME PInv, KInv, Distinct, ~Aggregates(clause) PROVE KInv'
  BY DEF Distinct, KInv, clause
<1> DEFINE made == Made(clause, rows)
<1>1. /\ pairs = made /\ phase' = "distinct" /\ UNCHANGED <<todo, rows>>
      /\ pairs' = IF clause.distinct THEN Uniq(pairs, Kinds(pairs)) ELSE pairs
  BY DEF KInv, Distinct
<1>2. IsList(made) /\ DOMAIN made = DOMAIN rows
  BY RowsListed, MadeList
<1> HIDE DEF made
<1>3. CASE clause.distinct
  <2>1. pairs' = Along(made, InOrder(Firsts(made, Kinds(made))))
    BY <1>1, <1>2, <1>3, UniqKeepsFirsts
  <2>2. Once(clause, rows) = Firsts(made, Kinds(made))
    BY <1>3 DEF Once, made
  <2> QED
    BY <1>1, <2>1, <2>2 DEF KInv, clause, made
<1>4. CASE ~clause.distinct
  <2>1. Along(made, InOrder(DOMAIN rows)) = made
    BY <1>2, WhollyInOrder
  <2>2. Once(clause, rows) = DOMAIN rows
    BY <1>4 DEF Once
  <2> QED
    BY <1>1, <1>4, <2>1, <2>2 DEF KInv, clause, made
<1> QED
  BY <1>3, <1>4

LEMMA FilterKeeps == PInv /\ KInv /\ Filter => KInv'
<1> SUFFICES ASSUME PInv, KInv, Filter, ~Aggregates(clause) PROVE KInv'
  BY DEF Filter, KInv, clause
<1> DEFINE made == Made(clause, rows)
           D    == Once(clause, rows)
           K    == Chosen(clause, rows)
<1>1. /\ pairs = Along(made, InOrder(D)) /\ phase' = "order" /\ UNCHANGED <<todo, rows>>
      /\ pairs' = IF FiltersFirst(clause) THEN SatisfyingPairs(pairs, clause.where) ELSE pairs
  BY DEF KInv, Filter
<1>2. IsList(made) /\ DOMAIN made = DOMAIN rows /\ D \in SUBSET DOMAIN rows
  BY RowsListed, MadeList
<1>3. K = {i \in D : FiltersFirst(clause) => Satisfies(clause.where, made[i].proj)}
  BY DEF Chosen
<1> HIDE DEF made, D, K
<1>4. pairs' = Along(made, InOrder(K))
  <2>1. CASE FiltersFirst(clause)
    <3> DEFINE kept == {i \in D : Satisfies(clause.where, made[i].proj)}
    <3>1. SatisfyingPairs(Along(made, InOrder(D)), clause.where) = Along(made, InOrder(kept))
      BY <1>2, SatisfyingAlong
    <3>2. K = kept
      BY <1>3, <2>1
    <3> HIDE DEF kept
    <3> QED
      BY <1>1, <2>1, <3>1, <3>2
  <2>2. CASE ~FiltersFirst(clause)
    BY <1>1, <1>3, <2>2
  <2> QED
    BY <2>1, <2>2
<1> QED
  BY <1>1, <1>4 DEF KInv, clause, made, K

LEMMA OrderPassKeeps == PInv /\ OrderPass => Len(keys') # Len(clause.order) /\ clause' = clause
<1> SUFFICES ASSUME PInv, OrderPass PROVE Len(keys') # Len(clause.order)
  BY DEF OrderPass, clause
<1>1. IsList(keys) /\ keys # <<>> /\ keys' = Tail(keys) /\ Len(keys) <= Len(clause.order)
  BY DEF PInv, Listed, TypeOK, OrderPass
<1>2. keys \in Seq(Range(keys)) /\ Len(keys) \in Nat
  BY <1>1, ListShape DEF IsList
<1>3. Len(keys') = Len(keys) - 1
  BY <1>1, <1>2
<1>4. Len(clause.order) \in Nat
  <2>1. todo # <<>> /\ Reshapes(clause)
    BY DEF PInv, TypeOK, OrderPass
  <2>2. IsClause(clause)
    BY <2>1, ClauseAtHand DEF PInv
  <2>3. IsList(clause.order)
    BY <2>1, <2>2 DEF IsClause, Reshapes, IsList
  <2> QED
    BY <2>3, ListShape
<1>5. Len(keys) <= Len(clause.order) /\ Len(keys) \in Nat
  BY <1>1, <1>2
<1> QED
  BY ONLY <1>3, <1>4, <1>5

LEMMA PNextKeeps == PInv /\ KInv /\ [PNext]_pvars => KInv'
<1> SUFFICES ASSUME PInv, KInv, [PNext]_pvars PROVE KInv'
  OBVIOUS
<1>1. CASE Distinct
  BY <1>1, DistinctKeeps
<1>2. CASE Filter
  BY <1>2, FilterKeeps
<1>3. CASE OrderPass
  <2>1. phase' = "order" /\ Len(keys') # Len(clause.order) /\ clause' = clause
    BY <1>3, OrderPassKeeps DEF OrderPass
  <2> QED
    BY <2>1 DEF KInv
<1>4. CASE Project
  <2>1. phase' = "projected" /\ UNCHANGED <<todo, rows>> /\ pairs' = Made(clause, rows)
    BY <1>4 DEF Project, Made
  <2> QED
    BY <2>1 DEF KInv, clause
<1>5. CASE Group
  BY <1>5 DEF Group, KInv, clause
<1>6. CASE UNCHANGED pvars
  BY <1>6 DEF pvars, KInv, clause
<1>7. CASE Done
  BY <1>6, <1>7 DEF Done
<1>8. CASE phase' \notin {"projected", "distinct", "order"}
  BY <1>8 DEF KInv
<1>9. CASE \/ BeginPart \/ EndPart \/ Unwind \/ CallProcedure \/ FinishWith \/ FinishReturn
           \/ UnknownVariable \/ NotANumber \/ CannotOrder
  BY <1>8, <1>9 DEF BeginPart, EndPart, Unwind, CallProcedure, FinishWith, FinishReturn, Yield,
                    UnknownVariable, NotANumber, CannotOrder, Raise
<1> QED
  BY <1>1, <1>2, <1>3, <1>4, <1>5, <1>6, <1>7, <1>9 DEF PNext

LEMMA KeepsInvariant == PSpec => []KInv
<1>1. PInit => KInv
  BY DEF PInit, KInv
<1>2. PInv /\ KInv /\ [PNext]_pvars => KInv'
  BY PNextKeeps
<1> QED
  BY <1>1, <1>2, ProjectionInvariant, PTL DEF PSpec

\* What DISTINCT compares, it can tell apart: rows that _freeze makes the same
\* are the same.
KindsTellApart ==
  clause.distinct =>
    \A i, j \in DOMAIN rows :
      FreezeRow(ProjectRow(clause.items, rows[i])) = FreezeRow(ProjectRow(clause.items, rows[j])) =>
        ProjectRow(clause.items, rows[i]) = ProjectRow(clause.items, rows[j])

\* What DISTINCT and WHERE choose are the rows they are to keep.
LEMMA ChosenRows ==
  ASSUME IsList(rows), KindsTellApart
  PROVE  Along(Made(clause, rows), InOrder(Chosen(clause, rows))) = KeptRows(clause, rows)
<1> DEFINE made == Made(clause, rows)
           row(i) == ProjectRow(clause.items, rows[i])
           K == Chosen(clause, rows)
           kept == {i \in DOMAIN rows :
                      /\ clause.distinct => \A j \in 1..(i - 1) : row(j) # row(i)
                      /\ FiltersFirst(clause) => Satisfies(clause.where, row(i))}
<1>1. /\ IsList(made) /\ DOMAIN made = DOMAIN rows
      /\ K \in SUBSET DOMAIN rows
  BY MadeList
<1>2. \A i \in DOMAIN rows :
        made[i] = [orig |-> rows[i], proj |-> row(i)] /\ made[i].proj = row(i)
  BY DEF Made
<1>3. \A i \in DOMAIN rows : Kinds(made)[i] = FreezeRow(row(i))
  BY <1>1, <1>2 DEF Kinds
<1>4. DOMAIN rows = 1..Len(rows) /\ Len(rows) \in Nat
  BY <1>1, ListShape
<1>5. \A i \in DOMAIN rows : \A j \in 1..(i - 1) : j \in DOMAIN rows
  BY <1>4
<1>6. Once(clause, rows) = {i \in DOMAIN rows : clause.distinct => \A j \in 1..(i - 1) : row(j) # row(i)}
  <2>1. ASSUME clause.distinct
        PROVE  \A i \in DOMAIN rows : \A j \in 1..(i - 1) :
                 Kinds(made)[j] # Kinds(made)[i] <=> row(j) # row(i)
    BY <1>3, <1>5, <2>1 DEF KindsTellApart
  <2> HIDE DEF row
  <2>2. CASE clause.distinct
    <3>1. Once(clause, rows) = Firsts(made, Kinds(made))
      BY <2>2 DEF Once
    <3> HIDE DEF made
    <3> QED
      BY <1>1, <2>1, <2>2, <3>1 DEF Firsts
  <2>3. CASE ~clause.distinct
    BY <2>3 DEF Once
  <2> QED
    BY <2>2, <2>3
<1>7. K = kept
  <2>1. K = {i \in Once(clause, rows) : FiltersFirst(clause) => Satisfies(clause.where, made[i].proj)}
    BY DEF Chosen
  <2> HIDE DEF made, row, K
  <2>2. \A i \in DOMAIN rows : made[i].proj = row(i)
    BY <1>2
  <2> QED
    BY <1>6, <2>1, <2>2
<1> HIDE DEF made, K
<1>8. Along(made, InOrder(K)) = [k \in 1..Cardinality(K) |-> made[InOrder(K)[k]]]
  BY <1>1, AlongInOrder
<1>9. \A k \in 1..Cardinality(K) : InOrder(K)[k] \in DOMAIN rows
  <2>1. Numbered(K)
    BY <1>1, <1>4 DEF Numbered
  <2>2. IsList(InOrder(K)) /\ Range(InOrder(K)) = K /\ Cardinality(K) = Len(InOrder(K))
    BY <2>1, InOrderEnumerates
  <2>3. DOMAIN InOrder(K) = 1..Cardinality(K)
    BY <2>2, ListShape
  <2> QED
    BY <1>1, <2>2, <2>3 DEF Range
<1>10. KeptRows(clause, rows) =
         [k \in 1..Cardinality(kept) |-> [orig |-> rows[InOrder(kept)[k]], proj |-> row(InOrder(kept)[k])]]
  BY DEF KeptRows
<1> HIDE DEF kept, row
<1>11. \A k \in 1..Cardinality(K) :
         made[InOrder(K)[k]] = [orig |-> rows[InOrder(K)[k]], proj |-> row(InOrder(K)[k])]
  BY <1>2, <1>9
<1> QED
  BY <1>7, <1>8, <1>10, <1>11 DEF made, K

\* DISTINCT and WHERE of a WITH or RETURN without aggregates keep, in order, the
\* first of the rows that are equal and true of the condition, each with the row
\* it was made of, which ORDER BY reads: unless _freeze makes one value of two.
THEOREM AlwaysKeepsTheFirstOfEach == PSpec => [](KindsTellApart => KeepsTheFirstOfEach)
<1>1. PInv /\ KInv => (KindsTellApart => KeepsTheFirstOfEach)
  <2> SUFFICES ASSUME PInv, KInv, KindsTellApart, phase = "order",
                      Len(keys) = Len(clause.order), ~Aggregates(clause)
               PROVE  pairs = KeptRows(clause, rows)
    BY DEF KeepsTheFirstOfEach
  <2>1. pairs = Along(Made(clause, rows), InOrder(Chosen(clause, rows)))
    BY DEF KInv
  <2> QED
    BY <2>1, RowsListed, ChosenRows
<1> QED
  BY <1>1, ProjectionInvariant, KeepsInvariant, PTL

------------------------------------------------------------------------------
\* _freeze tells the values of queries apart, but not from what it has made.
Unfrozen(v) ==
  /\ "frozen" \notin DOMAIN v
  /\ "list" \in DOMAIN v => /\ v = List(v.list) /\ IsList(v.list)
                           /\ \A i \in DOMAIN v.list : "frozen" \notin DOMAIN v.list[i]

UnfrozenRow(row) == row = [x \in DOMAIN row |-> row[x]] /\ \A x \in DOMAIN row : Unfrozen(row[x])

LEMMA AtomsToldApart ==
  ASSUME NEW v, NEW w, "frozen" \notin DOMAIN v, "frozen" \notin DOMAIN w,
         FreezeAtom(v) = FreezeAtom(w)
  PROVE  v = w
<1>1. \A u : "frozen" \in DOMAIN [frozen |-> u] /\ [frozen |-> u].frozen = u
  OBVIOUS
<1>2. FreezeAtom(v) \in {v, [frozen |-> v]} /\ FreezeAtom(w) \in {w, [frozen |-> w]}
  BY DEF FreezeAtom
<1> QED
  BY <1>1, <1>2

LEMMA ValuesToldApart ==
  ASSUME NEW v, NEW w, Unfrozen(v), Unfrozen(w), Freeze(v) = Freeze(w)
  PROVE  v = w
<1> DEFINE frozen(u) == [i \in DOMAIN u.list |-> FreezeAtom(u.list[i])]
<1>1. \A u : "frozen" \in DOMAIN [frozen |-> u] /\ [frozen |-> u].frozen = u
  OBVIOUS
<1>2. \A u : "list" \in DOMAIN List(u) /\ List(u).list = u
  BY DEF List
<1>3. \A u : IF HoldsList(u) THEN Freeze(u) = [frozen |-> List(frozen(u))]
             ELSE Freeze(u) = FreezeAtom(u) /\ Freeze(u) \in {u, [frozen |-> u]}
  BY DEF Freeze, FreezeAtom
<1>4. CASE HoldsList(v) /\ HoldsList(w)
  <2>1. frozen(v) = frozen(w)
    <3>1. Freeze(v) = [frozen |-> List(frozen(v))] /\ Freeze(w) = [frozen |-> List(frozen(w))]
      BY <1>3, <1>4
    <3> HIDE DEF frozen
    <3>2. Freeze(v).frozen = List(frozen(v)) /\ Freeze(w).frozen = List(frozen(w))
      BY ONLY <1>1, <3>1
    <3>3. List(frozen(v)) = List(frozen(w))
      BY <3>2
    <3>4. List(frozen(v)).list = frozen(v) /\ List(frozen(w)).list = frozen(w)
      BY ONLY <1>2
    <3> QED
      BY <3>3, <3>4
  <2>2. DOMAIN v.list = DOMAIN w.list
    BY <2>1
  <2>3. ASSUME NEW i \in DOMAIN v.list PROVE v.list[i] = w.list[i]
    <3>1. FreezeAtom(v.list[i]) = FreezeAtom(w.list[i])
      BY <2>1, <2>2
    <3> QED
      BY <1>4, <2>2, <3>1, AtomsToldApart DEF Unfrozen, HoldsList
  <2>4. v.list = w.list
    <3>1. IsList(v.list) /\ IsList(w.list)
      BY <1>4 DEF Unfrozen, HoldsList
    <3> QED
      BY <2>2, <2>3, <3>1 DEF IsList
  <2> QED
    BY <1>4, <2>4 DEF Unfrozen, HoldsList
<1>5. CASE HoldsList(v) /\ ~HoldsList(w)
  <2>1. Freeze(v) = [frozen |-> List(frozen(v))] /\ Freeze(w) \in {w, [frozen |-> w]}
    BY <1>3, <1>5
  <2>2. "frozen" \notin DOMAIN w /\ "list" \notin DOMAIN w
    BY <1>5 DEF Unfrozen, HoldsList
  <2> HIDE DEF frozen
  <2> QED
    BY <1>1, <1>2, <2>1, <2>2
<1>6. CASE ~HoldsList(v) /\ HoldsList(w)
  <2>1. Freeze(w) = [frozen |-> List(frozen(w))] /\ Freeze(v) \in {v, [frozen |-> v]}
    BY <1>3, <1>6
  <2>2. "frozen" \notin DOMAIN v /\ "list" \notin DOMAIN v
    BY <1>6 DEF Unfrozen, HoldsList
  <2> HIDE DEF frozen
  <2> QED
    BY <1>1, <1>2, <2>1, <2>2
<1>7. CASE ~HoldsList(v) /\ ~HoldsList(w)
  <2>1. FreezeAtom(v) = FreezeAtom(w) /\ "frozen" \notin DOMAIN v /\ "frozen" \notin DOMAIN w
    BY <1>3, <1>7 DEF Unfrozen
  <2> QED
    BY <2>1, AtomsToldApart
<1> QED
  BY <1>4, <1>5, <1>6, <1>7

LEMMA RowsToldApart ==
  ASSUME NEW r, NEW t, UnfrozenRow(r), UnfrozenRow(t), FreezeRow(r) = FreezeRow(t)
  PROVE  r = t
<1>1. DOMAIN r = DOMAIN t
  BY DEF FreezeRow
<1>2. ASSUME NEW x \in DOMAIN r PROVE r[x] = t[x]
  <2>1. Freeze(r[x]) = Freeze(t[x])
    BY <1>1 DEF FreezeRow
  <2> QED
    BY <1>1, <2>1, ValuesToldApart DEF UnfrozenRow
<1> QED
  BY <1>1, <1>2 DEF UnfrozenRow

\* Where no grouping has put frozen keys into the rows, DISTINCT and WHERE keep
\* exactly the first of the rows that are equal and true of the condition.
NothingFrozen == \A i \in DOMAIN rows : UnfrozenRow(ProjectRow(clause.items, rows[i]))

THEOREM DistinctIsExactOnUnfrozenRows == PSpec => [](NothingFrozen => KeepsTheFirstOfEach)
<1>1. NothingFrozen => KindsTellApart
  <2> SUFFICES ASSUME NothingFrozen, NEW i \in DOMAIN rows, NEW j \in DOMAIN rows,
                      FreezeRow(ProjectRow(clause.items, rows[i])) =
                        FreezeRow(ProjectRow(clause.items, rows[j]))
               PROVE  ProjectRow(clause.items, rows[i]) = ProjectRow(clause.items, rows[j])
    BY DEF KindsTellApart
  <2> QED
    BY RowsToldApart DEF NothingFrozen
<1> QED
  BY <1>1, AlwaysKeepsTheFirstOfEach, PTL

------------------------------------------------------------------------------
\* Elements that are told apart by their keys: one first for each value.
LEMMA FirstsCountValues ==
  ASSUME NEW s, IsList(s), NEW key,
         \A i, j \in DOMAIN s : key[i] = key[j] <=> s[i] = s[j]
  PROVE  Cardinality(Firsts(s, key)) = Cardinality(Range(s))
<1> DEFINE F == Firsts(s, key)
           f == [i \in F |-> s[i]]
<1>1. Len(s) \in Nat /\ DOMAIN s = 1..Len(s)
  BY ListShape
<1>2. F \subseteq 1..Len(s) /\ \A i \in F : \A j \in 1..(i - 1) : key[j] # key[i]
  BY <1>1 DEF Firsts
<1>3. IsFiniteSet(F)
  <2>1. Numbered(F)
    BY <1>1, <1>2 DEF Numbered
  <2> QED
    BY <2>1, InOrderEnumerates
<1>4. \A i, j \in F : s[i] = s[j] => i = j
  <2> SUFFICES ASSUME NEW i \in F, NEW j \in F, s[i] = s[j], i < j PROVE FALSE
    BY <1>1, <1>2
  <2>1. i \in 1..(j - 1)
    BY <1>1, <1>2
  <2> QED
    BY <1>1, <1>2, <2>1
<1>5. ASSUME NEW x \in Range(s) PROVE \E i \in F : s[i] = x
  <2> DEFINE P == {i \in DOMAIN s : s[i] = x}
  <2>1. P \in SUBSET Nat /\ P # {}
    BY <1>1 DEF Range
  <2>2. PICK i \in P : \A j \in P : i <= j
    BY <2>1, LeastOfNat
  <2>3. ASSUME NEW j \in 1..(i - 1) PROVE key[j] # key[i]
    <3>1. j \in DOMAIN s /\ i \in DOMAIN s /\ ~(i <= j)
      BY <1>1, <2>2
    <3> QED
      BY <2>2, <3>1
  <2>4. i \in F
    BY <2>2, <2>3 DEF Firsts
  <2> QED
    BY <2>2, <2>4
<1>6. f \in Bijection(F, Range(s))
  <2>1. f \in [F -> Range(s)]
    BY <1>1, <1>2 DEF Range
  <2>2. f \in Injection(F, Range(s))
    BY <1>4, <2>1 DEF Injection, IsInjective
  <2>3. f \in Surjection(F, Range(s))
    BY <1>5, <2>1 DEF Surjection
  <2> QED
    BY <2>2, <2>3 DEF Bijection
<1> HIDE DEF F, f
<1>7. ExistsBijection(F, Range(s))
  BY <1>6 DEF ExistsBijection
<1> QED
  BY <1>3, <1>7, FS_Bijection DEF F

\* A column that no later piece fills.
LEMMA FilledAt ==
  ASSUME NEW pieces, IsList(pieces), NEW k \in DOMAIN pieces, NEW x \in DOMAIN pieces[k],
         \A l \in DOMAIN pieces : k < l => x \notin DOMAIN pieces[l]
  PROVE  Filled(pieces)[x] = pieces[k][x]
<1> DEFINE n == Len(pieces)
           new == CHOOSE g : FillsUpTo(g, n, pieces)
           S == {m \in Nat : m \in k..n => x \in DOMAIN new[m] /\ new[m][x] = pieces[k][x]}
<1>1. n \in Nat /\ DOMAIN pieces = 1..n
  BY ListShape
<1>2. Filled(pieces) = new[n]
  BY DEF Filled, FillsUpTo
<1>3. FillsUpTo(new, n, pieces)
  BY <1>1, FillsExist
<1> HIDE DEF n, new
<1>4. \A m \in 1..n : new[m] = Updated(new[m - 1], pieces[m])
  BY <1>1, <1>3 DEF FillsUpTo
<1>5. 0 \in S
  BY <1>1
<1>6. ASSUME NEW m \in Nat, m \in S PROVE m + 1 \in S
  <2> SUFFICES ASSUME m + 1 \in k..n
               PROVE  x \in DOMAIN new[m + 1] /\ new[m + 1][x] = pieces[k][x]
    BY DEF S
  <2>1. m + 1 \in 1..n /\ new[m + 1] = Updated(new[m], pieces[m + 1])
    BY <1>1, <1>4
  <2>2. CASE m + 1 = k
    BY <2>1, <2>2 DEF Updated
  <2>3. CASE m + 1 # k
    <3>1. m \in k..n /\ k < m + 1
      BY <1>1, <2>3
    <3>2. x \in DOMAIN new[m] /\ new[m][x] = pieces[k][x]
      BY <1>6, <3>1
    <3>3. x \notin DOMAIN pieces[m + 1]
      BY <1>1, <2>1, <3>1
    <3> QED
      BY <2>1, <3>2, <3>3 DEF Updated
  <2> QED
    BY <2>2, <2>3
<1> HIDE DEF S
<1>7. n \in S /\ n \in k..n
  BY <1>1, <1>5, <1>6, Induction
<1> QED
  BY <1>2, <1>7 DEF S

------------------------------------------------------------------------------
\* Two rows have the same key when _freeze makes the same of what is not
\* aggregated.
SameKey(items, r, t) ==
  \A k \in DOMAIN items : ~IsAgg(items[k]) => Freeze(Value(items[k], r)) = Freeze(Value(items[k], t))

LEMMA KeysCompared ==
  ASSUME NEW items, IsList(items), NEW r, NEW t
  PROVE  GroupKey(items, r) = GroupKey(items, t) <=> SameKey(items, r, t)
<1> DEFINE T == {item \in Range(items) : ~IsAgg(item)}
           lists == [k \in DOMAIN items |-> IF items[k] \in T THEN <<items[k]>> ELSE <<>>]
           keyItems == FlattenSeq(lists)
           key(row) == [i \in DOMAIN keyItems |-> Freeze(Value(keyItems[i], row))]
<1>1. DOMAIN items = 1..Len(items) /\ \A k \in DOMAIN items : items[k] \in Range(items)
  BY ListShape
<1>2. lists = [k \in DOMAIN items |-> IF ~IsAgg(items[k]) THEN <<items[k]>> ELSE <<>>]
  BY <1>1
<1>3. Select(items, LAMBDA item : ~IsAgg(item)) = keyItems
  <2> HIDE DEF lists
  <2> QED
    BY <1>2 DEF Select, FlatMap
<1>4. GroupKey(items, r) = key(r) /\ GroupKey(items, t) = key(t)
  <2> HIDE DEF keyItems
  <2> QED
    BY <1>3 DEF GroupKey
<1>5. IsList(keyItems) /\ Range(keyItems) = Range(items) \intersect T
  <2> HIDE DEF T
  <2> QED
    BY Selected
<1>6. Range(keyItems) = T
  BY <1>5
<1> HIDE DEF keyItems
<1>7. \A k \in DOMAIN items : ~IsAgg(items[k]) => \E i \in DOMAIN keyItems : keyItems[i] = items[k]
  BY <1>1, <1>6 DEF Range
<1>8. \A i \in DOMAIN keyItems : \E k \in DOMAIN items : ~IsAgg(items[k]) /\ keyItems[i] = items[k]
  <2>1. \A i \in DOMAIN keyItems : keyItems[i] \in T
    BY <1>6 DEF Range
  <2> QED
    BY <2>1 DEF Range
<1>9. key(r) = key(t) <=> \A i \in DOMAIN keyItems : Freeze(Value(keyItems[i], r)) = Freeze(Value(keyItems[i], t))
  OBVIOUS
<1> HIDE DEF key
<1>10. ASSUME SameKey(items, r, t), NEW i \in DOMAIN keyItems
       PROVE  Freeze(Value(keyItems[i], r)) = Freeze(Value(keyItems[i], t))
  BY <1>8, <1>10 DEF SameKey
<1>11. ASSUME \A i \in DOMAIN keyItems : Freeze(Value(keyItems[i], r)) = Freeze(Value(keyItems[i], t))
       PROVE  SameKey(items, r, t)
  BY <1>7, <1>11 DEF SameKey
<1> QED
  BY <1>4, <1>9, <1>10, <1>11

\* The groups, by the indices of their rows: each begins at the first of its key.
FirstOfGroups(items, given) ==
  {i \in DOMAIN given : \A j \in 1..(i - 1) : ~SameKey(items, given[j], given[i])}

Members(items, given, i) == {j \in DOMAIN given : SameKey(items, given[j], given[i])}

LEMMA GroupsAlong ==
  ASSUME NEW items, IsList(items), NEW given, IsList(given)
  PROVE  LET B == FirstOfGroups(items, given)
         IN  /\ DOMAIN GroupsOf(items, given) = 1..Cardinality(B)
             /\ IsList(GroupsOf(items, given))
             /\ \A g \in 1..Cardinality(B) :
                  /\ InOrder(B)[g] \in DOMAIN given
                  /\ GroupsOf(items, given)[g] =
                       Along(given, InOrder(Members(items, given, InOrder(B)[g])))
<1> DEFINE B == FirstOfGroups(items, given)
           key == [i \in DOMAIN given |-> GroupKey(items, given[i])]
           first == Uniq(given, key)
           same(g) == {j \in DOMAIN given : GroupKey(items, given[j]) = GroupKey(items, first[g])}
<1>1. Len(given) \in Nat /\ DOMAIN given = 1..Len(given)
  BY ListShape
<1>2. \A i \in DOMAIN given : \A j \in 1..(i - 1) :
        j \in DOMAIN given /\ (key[j] # key[i] <=> ~SameKey(items, given[j], given[i]))
  BY <1>1, KeysCompared
<1>3. first = Along(given, InOrder(Firsts(given, key)))
  <2> HIDE DEF key
  <2> QED
    BY UniqKeepsFirsts
<1>4. Firsts(given, key) = B
  <2> HIDE DEF key
  <2> QED
    BY <1>2 DEF Firsts, FirstOfGroups
<1>5. GroupsOf(items, given) =
        [g \in DOMAIN first |->
           Select(given, LAMBDA row : GroupKey(items, row) = GroupKey(items, first[g]))]
  BY DEF GroupsOf
<1> HIDE DEF key, first
<1>6. B \in SUBSET DOMAIN given
  BY DEF FirstOfGroups
<1>7. /\ Numbered(B) /\ IsList(InOrder(B)) /\ Range(InOrder(B)) = B /\ Cardinality(B) = Len(InOrder(B))
      /\ first = [n \in 1..Cardinality(B) |-> given[InOrder(B)[n]]]
  <2> HIDE DEF B
  <2> QED
    BY <1>3, <1>4, <1>6, AlongInOrder, InOrderEnumerates
<1> HIDE DEF B
<1>8. Cardinality(B) \in Nat /\ DOMAIN InOrder(B) = 1..Cardinality(B)
  BY <1>7, ListShape
<1>9. \A g \in 1..Cardinality(B) : InOrder(B)[g] \in DOMAIN given
  BY <1>6, <1>7, <1>8 DEF Range
<1>10. ASSUME NEW g \in 1..Cardinality(B)
       PROVE  GroupsOf(items, given)[g] = Along(given, InOrder(Members(items, given, InOrder(B)[g])))
  <2>1. first[g] = given[InOrder(B)[g]]
    BY <1>7
  <2>2. same(g) = Members(items, given, InOrder(B)[g])
    BY <2>1, KeysCompared DEF Members
  <2> DEFINE lists == [j \in DOMAIN given |->
                         IF GroupKey(items, given[j]) = GroupKey(items, first[g]) THEN <<given[j]>> ELSE <<>>]
  <2>3. Select(given, LAMBDA row : GroupKey(items, row) = GroupKey(items, first[g])) = FlattenSeq(lists)
    BY DEF Select, FlatMap
  <2>4. lists = [j \in DOMAIN given |-> IF j \in same(g) THEN <<given[j]>> ELSE <<>>]
    OBVIOUS
  <2>5. same(g) \in SUBSET DOMAIN given
    OBVIOUS
  <2> HIDE DEF lists, same
  <2>6. FlattenSeq(lists) = Along(given, InOrder(same(g)))
    BY <2>4, <2>5, SelectedInOrder
  <2> QED
    BY <1>5, <1>7, <2>2, <2>3, <2>6
<1>11. DOMAIN GroupsOf(items, given) = 1..Cardinality(B)
  BY <1>5, <1>7
<1>12. IsList(GroupsOf(items, given))
  <2>1. GroupsOf(items, given) = [g \in 1..Cardinality(B) |-> GroupsOf(items, given)[g]]
    BY <1>5, <1>11
  <2> QED
    BY <1>8, <2>1, FunctionIsList
<1> QED
  BY <1>9, <1>10, <1>11, <1>12 DEF B


\* What an aggregate takes from the rows at the indices of M: what is not null,
\* of each row once, or each value once.
ToldApartBy(given, M, var) ==
  \A i, j \in M : Freeze(given[i][var]) = Freeze(given[j][var]) => given[i][var] = given[j][var]

TakesEachOnce(given, M, item) ==
  LET args  == Arguments(item, Along(given, InOrder(M)))
      bound == {j \in M : ~IsNull(given[j][item.var])}
  IN  /\ ~item.distinct => args = [n \in 1..Cardinality(bound) |-> given[InOrder(bound)[n]][item.var]]
      /\ Len(args) = IF item.distinct THEN Cardinality({given[j][item.var] : j \in bound})
                     ELSE Cardinality(bound)

LEMMA ArgumentsAlong ==
  ASSUME NEW given, IsList(given), NEW M \in SUBSET DOMAIN given, NEW item,
         ToldApartBy(given, M, item.var)
  PROVE  TakesEachOnce(given, M, item)
<1> DEFINE group == Along(given, InOrder(M))
           bound == {j \in M : ~IsNull(given[j][item.var])}
           col   == [j \in DOMAIN given |-> given[j][item.var]]
           all   == [i \in DOMAIN group |-> group[i][item.var]]
           known == Select(all, LAMBDA v : ~IsNull(v))
           d     == InOrder(M)
<1>1. Len(given) \in Nat /\ DOMAIN given = 1..Len(given)
  BY ListShape
<1>2. IsList(col) /\ DOMAIN col = DOMAIN given
  <2>1. col = [j \in 1..Len(given) |-> col[j]]
    BY <1>1
  <2> HIDE DEF col
  <2> QED
    BY <1>1, <2>1, FunctionIsList
<1>3. \A j \in DOMAIN given : col[j] = given[j][item.var]
  OBVIOUS
<1>4. Numbered(M) /\ Numbered(bound)
  BY <1>1 DEF Numbered
<1>5. IsList(d) /\ Range(d) = M
  BY <1>4, InOrderEnumerates
<1> HIDE DEF d
<1>6. DOMAIN d = 1..Len(d) /\ \A n \in 1..Len(d) : d[n] \in M /\ d[n] \in DOMAIN given
  BY <1>5, ListShape
<1>7. all = Along(col, d)
  <2>1. DOMAIN group = 1..Len(d) /\ \A n \in 1..Len(d) : group[n] = given[d[n]]
    BY DEF Along, d
  <2> HIDE DEF group
  <2>2. all = [n \in 1..Len(d) |-> given[d[n]][item.var]]
    BY <2>1
  <2> QED
    BY <1>3, <1>6, <2>2 DEF Along
<1> HIDE DEF col, group
<1>8. known = Along(col, InOrder(bound))
  <2> DEFINE lists == [n \in DOMAIN all |-> IF ~IsNull(all[n]) THEN <<all[n]>> ELSE <<>>]
  <2>1. known = FlattenSeq(lists)
    BY DEF Select, FlatMap
  <2>2. \A n \in DOMAIN all : all[n] = col[d[n]] /\ (~IsNull(all[n]) <=> d[n] \in bound)
    BY <1>3, <1>6, <1>7 DEF Along
  <2> HIDE DEF all
  <2>3. lists = [n \in DOMAIN Along(col, d) |-> IF d[n] \in bound THEN <<Along(col, d)[n]>> ELSE <<>>]
    BY <1>7, <2>2
  <2>4. bound \in SUBSET M /\ M \in SUBSET DOMAIN col
    BY <1>2
  <2> HIDE DEF lists, bound
  <2>5. FlattenSeq(lists) = Along(col, InOrder(bound))
    BY <1>2, <2>3, <2>4, SelectedAlong DEF d
  <2> QED
    BY <2>1, <2>5
<1> HIDE DEF all, known
<1> DEFINE e == InOrder(bound)
<1>9. IsList(e) /\ Range(e) = bound /\ Cardinality(bound) = Len(e)
  <2> HIDE DEF bound
  <2> QED
    BY <1>4, InOrderEnumerates
<1>10. Len(e) \in Nat /\ DOMAIN e = 1..Len(e) /\ \A n \in 1..Len(e) : e[n] \in bound
  <2> HIDE DEF e
  <2> QED
    BY <1>9, ListShape
<1>11. known = [n \in 1..Cardinality(bound) |-> given[e[n]][item.var]]
  <2>1. known = [n \in 1..Len(e) |-> col[e[n]]]
    BY <1>8 DEF Along
  <2>2. \A n \in 1..Len(e) : col[e[n]] = given[e[n]][item.var]
    BY <1>3, <1>10 DEF bound
  <2> QED
    BY <1>9, <2>1, <2>2
<1>12. IsList(known) /\ Len(known) = Cardinality(bound) /\ DOMAIN known = 1..Len(e)
  <2>1. known = [n \in 1..Len(e) |-> known[n]]
    BY <1>9, <1>11
  <2> QED
    BY <1>9, <1>10, <2>1, FunctionIsList
<1>13. Arguments(item, group) = IF item.distinct THEN Uniq(known, FreezeAll(known)) ELSE known
  BY DEF Arguments, known, all
<1>14. CASE ~item.distinct
  <2>1. Arguments(item, group) = known
    BY <1>13, <1>14
  <2> QED
    BY <1>11, <1>12, <1>14, <2>1 DEF TakesEachOnce, group, bound
<1>15. CASE item.distinct
  <2> DEFINE key == FreezeAll(known)
             F   == Firsts(known, key)
  <2>1. \A i, j \in DOMAIN known : key[i] = key[j] <=> known[i] = known[j]
    <3> SUFFICES ASSUME NEW i \in DOMAIN known, NEW j \in DOMAIN known
                 PROVE  key[i] = key[j] <=> known[i] = known[j]
      OBVIOUS
    <3>1. key[i] = Freeze(known[i]) /\ key[j] = Freeze(known[j])
      BY DEF FreezeAll
    <3>2. e[i] \in M /\ e[j] \in M
      BY <1>10, <1>12 DEF bound
    <3>3. known[i] = given[e[i]][item.var] /\ known[j] = given[e[j]][item.var]
      BY <1>9, <1>11, <1>12
    <3> HIDE DEF key, e
    <3> QED
      BY <3>1, <3>2, <3>3 DEF ToldApartBy
  <2> HIDE DEF key
  <2>2. Cardinality(F) = Cardinality(Range(known))
    BY <1>12, <2>1, FirstsCountValues
  <2>3. Range(known) = {given[j][item.var] : j \in bound}
    <3>1. Range(known) = {given[e[n]][item.var] : n \in 1..Len(e)}
      BY <1>9, <1>11, <1>12 DEF Range
    <3>2. \A j \in bound : \E n \in 1..Len(e) : e[n] = j
      BY <1>9, <1>10 DEF Range
    <3> HIDE DEF e
    <3> QED
      BY <1>10, <3>1, <3>2
  <2>4. Uniq(known, key) = Along(known, InOrder(F))
    BY <1>12, UniqKeepsFirsts
  <2>5. F \in SUBSET DOMAIN known
    BY DEF Firsts
  <2> HIDE DEF F
  <2>6. Along(known, InOrder(F)) = [n \in 1..Cardinality(F) |-> known[InOrder(F)[n]]] /\ Numbered(F)
    BY <1>12, <2>5, AlongInOrder
  <2>7. Cardinality(F) \in Nat
    BY <2>6, InOrderEnumerates, ListShape
  <2>8. Len(Uniq(known, key)) = Cardinality(F)
    <3>1. Uniq(known, key) = [n \in 1..Cardinality(F) |-> Uniq(known, key)[n]]
      BY <2>4, <2>6
    <3> QED
      BY <2>7, <3>1, FunctionIsList
  <2> QED
    BY <1>13, <1>15, <2>2, <2>3, <2>8 DEF TakesEachOnce, key, group, bound
<1> QED
  BY <1>14, <1>15


LEMMA AggregateAt ==
  ASSUME NEW items, IsList(items), NEW group, NEW k \in DOMAIN items, IsAgg(items[k]),
         \A l \in DOMAIN items : items[l].as = items[k].as => l = k
  PROVE  GroupRow(items, group)[items[k].as] = Aggregate(items[k], group)
<1> DEFINE value(l) == IF IsAgg(items[l]) THEN Aggregate(items[l], group)
                       ELSE Freeze(Value(items[l], Head(group)))
           pieces == [l \in DOMAIN items |-> Cell(items[l].as, value(l))]
<1>1. GroupRow(items, group) = Filled(pieces)
  BY DEF GroupRow
<1>2. \A l \in DOMAIN items : pieces[l] = Cell(items[l].as, value(l))
  OBVIOUS
<1>3. value(k) = Aggregate(items[k], group)
  OBVIOUS
<1> HIDE DEF value
<1>4. IsList(pieces) /\ DOMAIN pieces = DOMAIN items
  <2>1. pieces = [l \in DOMAIN items |-> pieces[l]] /\ DOMAIN pieces = DOMAIN items
    OBVIOUS
  <2> HIDE DEF pieces
  <2> QED
    BY <2>1, MappedList
<1> HIDE DEF pieces
<1>5. \A l \in DOMAIN items : DOMAIN pieces[l] = {items[l].as} /\ pieces[l][items[l].as] = value(l)
  <2> TAKE l \in DOMAIN items
  <2> DEFINE x == items[l].as
             v == value(l)
  <2>1. pieces[l] = Cell(x, v)
    BY <1>2
  <2> HIDE DEF x, v
  <2>2. DOMAIN Cell(x, v) = {x} /\ Cell(x, v)[x] = v
    BY DEF Cell
  <2> QED
    BY <2>1, <2>2 DEF x, v
<1>6. \A l \in DOMAIN pieces : k < l => items[k].as \notin DOMAIN pieces[l]
  <2>1. DOMAIN items = 1..Len(items)
    BY ListShape
  <2> QED
    BY <1>4, <1>5, <2>1
<1>7. Filled(pieces)[items[k].as] = pieces[k][items[k].as]
  BY <1>4, <1>5, <1>6, FilledAt
<1> QED
  BY <1>1, <1>3, <1>5, <1>7

\* The pairs that a clause with aggregates makes.
GroupedRows(items, given) ==
  LET groups == GroupsOf(items, given)
  IN  [g \in DOMAIN groups |-> LET row == GroupRow(items, groups[g]) IN [orig |-> row, proj |-> row]]

GInv ==
  phase = "projected" /\ Aggregates(clause) =>
    /\ pairs = GroupedRows(clause.items, rows)
    /\ \A i \in DOMAIN rows, j \in DOMAIN clause.items : Known(clause.items[j], rows[i])

LEMMA GroupsInvariant == PSpec => []GInv
<1>1. PInit => GInv
  BY DEF PInit, GInv
<1>2. GInv /\ [PNext]_pvars => GInv'
  <2> SUFFICES ASSUME GInv, [PNext]_pvars PROVE GInv'
    OBVIOUS
  <2>1. CASE Group
    BY <2>1 DEF Group, GInv, GroupedRows, clause
  <2>2. CASE Project
    BY <2>2 DEF Project, GInv, clause
  <2>3. CASE UNCHANGED pvars
    BY <2>3 DEF pvars, GInv, clause
  <2>4. CASE Done
    BY <2>3, <2>4 DEF Done
  <2>5. CASE phase' # "projected"
    BY <2>5 DEF GInv
  <2>6. CASE \/ BeginPart \/ EndPart \/ Unwind \/ CallProcedure \/ Distinct \/ Filter \/ OrderPass
             \/ FinishWith \/ FinishReturn \/ UnknownVariable \/ NotANumber \/ CannotOrder
    BY <2>5, <2>6 DEF BeginPart, EndPart, Unwind, CallProcedure, Distinct, Filter, OrderPass,
                      FinishWith, FinishReturn, Yield, UnknownVariable, NotANumber, CannotOrder, Raise
  <2> QED
    BY <2>1, <2>2, <2>3, <2>4, <2>6 DEF PNext
<1> QED
  BY <1>1, <1>2, PTL DEF PSpec

\* No column has two values that _freeze does not tell apart.
ColumnsToldApart ==
  \A i, j \in DOMAIN rows : \A x \in DOMAIN rows[i] \intersect DOMAIN rows[j] :
    Freeze(rows[i][x]) = Freeze(rows[j][x]) => rows[i][x] = rows[j][x]

\* No two items of the clause have the same name; of two the later one would win.
NamedOnce == \A k, l \in DOMAIN clause.items : clause.items[k].as = clause.items[l].as => k = l

\* Grouping puts each row into one group with all the rows that have its values,
\* and no other; the groups come in the order in which they begin; and count and
\* collect take what is not null of each row of their group once
\* (_aggregate_return, eval_agg).
THEOREM GroupsAlwaysPartition == PSpec => [](ColumnsToldApart /\ NamedOnce => GroupsPartitionTheRows)
<1>1. PInv /\ GInv => (ColumnsToldApart /\ NamedOnce => GroupsPartitionTheRows)
  <2> SUFFICES ASSUME PInv, GInv, ColumnsToldApart, NamedOnce, phase = "projected", Aggregates(clause)
               PROVE  GroupsPartitionTheRows
    BY DEF GroupsPartitionTheRows
  <2> DEFINE items == clause.items
             B == FirstOfGroups(items, rows)
             M(g) == Members(items, rows, InOrder(B)[g])
             groups == GroupsOf(items, rows)
             together(i, j) ==
               \A k \in DOMAIN items : ~IsAgg(items[k]) => Value(items[k], rows[i]) = Value(items[k], rows[j])
             begins == {i \in DOMAIN rows : \A j \in 1..(i - 1) : ~together(i, j)}
             members(g) == {j \in DOMAIN rows : together(InOrder(begins)[g], j)}
  <2>1. IsList(rows) /\ IsList(items) /\ \A item \in Range(items) : IsItem(item)
    <3>1. todo # <<>> /\ Reshapes(clause)
      BY DEF PInv, TypeOK
    <3>2. IsClause(clause)
      BY <3>1, ClauseAtHand DEF PInv
    <3> QED
      BY <3>1, <3>2, RowsListed DEF IsClause, Reshapes, IsList
  <2>2. /\ pairs = GroupedRows(items, rows)
        /\ \A i \in DOMAIN rows, k \in DOMAIN items : Known(items[k], rows[i])
    BY DEF GInv
  <2>3. \A k, l \in DOMAIN items : items[k].as = items[l].as => k = l
    BY DEF NamedOnce
  <2> HIDE DEF items
  <2>4. DOMAIN rows = 1..Len(rows) /\ Len(rows) \in Nat
    BY <2>1, ListShape
  <2>5. ASSUME NEW i \in DOMAIN rows, NEW j \in DOMAIN rows
        PROVE  SameKey(items, rows[j], rows[i]) <=> together(i, j)
    <3>1. ASSUME NEW k \in DOMAIN items
          PROVE  Freeze(Value(items[k], rows[j])) = Freeze(Value(items[k], rows[i])) <=>
                   Value(items[k], rows[i]) = Value(items[k], rows[j])
      <4>1. CASE items[k].from = "var"
        <5>1. items[k].var \in DOMAIN rows[i] \intersect DOMAIN rows[j]
          BY <2>2, <4>1 DEF Known, NeedsVar, Bound
        <5> QED
          BY <4>1, <5>1 DEF Value, ColumnsToldApart
      <4>2. CASE items[k].from # "var"
        BY <4>2 DEF Value
      <4> QED
        BY <4>1, <4>2
    <3> QED
      BY <3>1 DEF SameKey
  <2>6. begins = B
    <3>1. \A i \in DOMAIN rows : \A j \in 1..(i - 1) : j \in DOMAIN rows
      BY <2>4
    <3> HIDE DEF together
    <3> QED
      BY <2>5, <3>1 DEF FirstOfGroups
  <2> HIDE DEF together
  <2>7. /\ DOMAIN groups = 1..Cardinality(B)
        /\ \A g \in 1..Cardinality(B) : /\ InOrder(B)[g] \in DOMAIN rows
                                        /\ groups[g] = Along(rows, InOrder(M(g)))
    BY <2>1, GroupsAlong
  <2>8. DOMAIN pairs = 1..Cardinality(B) /\ Cardinality(B) \in Nat /\ Len(pairs) = Cardinality(B)
    <3>1. DOMAIN pairs = 1..Cardinality(B)
      BY <2>2, <2>7 DEF GroupedRows
    <3>2. IsList(pairs) /\ Len(pairs) \in Nat
      BY ListShape DEF PInv, Listed
    <3>3. Cardinality(B) \in Nat
      <4>1. Numbered(B)
        BY <2>4 DEF FirstOfGroups, Numbered
      <4> HIDE DEF B
      <4> QED
        BY <4>1, InOrderEnumerates, ListShape
    <3> HIDE DEF B
    <3>4. 1..Len(pairs) = 1..Cardinality(B)
      BY <3>1, <3>2, ListShape
    <3> QED
      BY <3>1, <3>2, <3>3, <3>4
  <2> HIDE DEF begins, B
  <2>9. ASSUME NEW g \in DOMAIN pairs, NEW k \in DOMAIN items
        PROVE  LET item  == items[k]
                   bound == {j \in members(g) : ~IsNull(rows[j][item.var])}
                   value == pairs[g].proj[item.as]
               IN  /\ IsAgg(item) /\ item.var = EveryRow => value = Number(Cardinality(members(g)))
                   /\ IsAgg(item) /\ item.var # EveryRow /\ item.fn = "count" =>
                        value = Number(IF item.distinct
                                       THEN Cardinality({rows[j][item.var] : j \in bound})
                                       ELSE Cardinality(bound))
                   /\ IsAgg(item) /\ item.fn = "collect" /\ ~item.distinct =>
                        value = List([n \in 1..Cardinality(bound) |-> rows[InOrder(bound)[n]][item.var]])
    <3> DEFINE item  == items[k]
               bound == {j \in members(g) : ~IsNull(rows[j][item.var])}
               value == pairs[g].proj[item.as]
               args  == Arguments(item, groups[g])
    <3>1. M(g) = members(g) /\ M(g) \in SUBSET DOMAIN rows /\ InOrder(begins)[g] \in DOMAIN rows
          /\ groups[g] = Along(rows, InOrder(M(g)))
      <4>1. InOrder(B)[g] \in DOMAIN rows /\ groups[g] = Along(rows, InOrder(M(g)))
        BY <2>7, <2>8
      <4> QED
        BY <2>5, <2>6, <4>1 DEF Members
    <3> HIDE DEF M, members, groups
    <3> SUFFICES ASSUME IsAgg(item)
                 PROVE  /\ item.var = EveryRow => value = Number(Cardinality(members(g)))
                        /\ item.var # EveryRow /\ item.fn = "count" =>
                             value = Number(IF item.distinct
                                            THEN Cardinality({rows[j][item.var] : j \in bound})
                                            ELSE Cardinality(bound))
                        /\ item.fn = "collect" /\ ~item.distinct =>
                             value = List([n \in 1..Cardinality(bound) |-> rows[InOrder(bound)[n]][item.var]])
      OBVIOUS
    <3>2. value = Aggregate(item, groups[g])
      <4>1. pairs[g].proj = GroupRow(items, groups[g])
        BY <2>2, <2>7, <2>8 DEF GroupedRows, groups
      <4>2. GroupRow(items, groups[g])[items[k].as] = Aggregate(items[k], groups[g])
        BY <2>1, <2>3, AggregateAt
      <4> QED
        BY <4>1, <4>2
    <3>3. item.var = EveryRow => item.fn = "count"
      <4>1. items[k] \in Range(items)
        BY DEF Range
      <4>2. IsItem(items[k])
        BY <2>1, <4>1
      <4> QED
        BY <4>2 DEF IsAgg, IsItem
    <3>4. CASE item.var = EveryRow
      <4>1. Len(groups[g]) = Cardinality(members(g))
        <5>1. Numbered(M(g))
          BY <2>4, <3>1 DEF Numbered
        <5>2. groups[g] = [n \in 1..Cardinality(M(g)) |-> rows[InOrder(M(g))[n]]]
          BY <2>1, <3>1, AlongInOrder
        <5>3. Cardinality(M(g)) \in Nat
          BY <5>1, InOrderEnumerates, ListShape
        <5> QED
          <6>1. groups[g] = [n \in 1..Cardinality(M(g)) |-> groups[g][n]]
            BY <5>2
          <6> QED
            BY <3>1, <5>3, <6>1, FunctionIsList
      <4>2. value = Number(Len(groups[g]))
        BY <3>2, <3>4 DEF Aggregate
      <4> QED
        BY <3>3, <3>4, <4>1, <4>2
    <3>5. CASE item.var # EveryRow
      <4>1. \A i \in DOMAIN rows : item.var \in DOMAIN rows[i]
        BY <2>2, <3>5 DEF Known, NeedsVar, Bound
      <4>2. \A i, j \in M(g) : Freeze(rows[i][item.var]) = Freeze(rows[j][item.var]) =>
                                rows[i][item.var] = rows[j][item.var]
        BY <3>1, <4>1 DEF ColumnsToldApart
      <4>3. bound = {j \in M(g) : ~IsNull(rows[j][item.var])}
        BY <3>1
      <4> HIDE DEF bound, item, value
      <4> DEFINE m == M(g)
      <4>4. m \in SUBSET DOMAIN rows /\ ToldApartBy(rows, m, item.var)
        BY <3>1, <4>2 DEF ToldApartBy
      <4> HIDE DEF m
      <4>5. TakesEachOnce(rows, m, item)
        BY <2>1, <4>4, ArgumentsAlong
      <4>6. /\ ~item.distinct => args = [n \in 1..Cardinality(bound) |-> rows[InOrder(bound)[n]][item.var]]
            /\ Len(args) = IF item.distinct THEN Cardinality({rows[j][item.var] : j \in bound})
                           ELSE Cardinality(bound)
        <5>1. args = Arguments(item, Along(rows, InOrder(m))) /\ bound = {j \in m : ~IsNull(rows[j][item.var])}
          BY <3>1, <4>3 DEF m
        <5> QED
          BY <4>5, <5>1 DEF TakesEachOnce
      <4> HIDE DEF args
      <4>7. /\ item.fn = "count" => value = Number(Len(args))
            /\ item.fn = "collect" => value = List(args)
        BY <3>2, <3>5 DEF Aggregate, args
      <4> QED
        BY <3>5, <4>6, <4>7
    <3> QED
      BY <3>4, <3>5
  <2> QED
    BY <2>6, <2>8, <2>9 DEF GroupsPartitionTheRows, begins, together, items
<1> QED
  BY <1>1, ProjectionInvariant, GroupsInvariant, PTL
==============================================================================
