-------------------------- MODULE MatchClauseProofs --------------------------
(****************************************************************************)
(* MATCH and OPTIONAL MATCH on every graph, for every pattern and list of   *)
(* rows that may come in.                                                   *)
(****************************************************************************)
EXTENDS MatchClause, PathMatchProofs

------------------------------------------------------------------------------
\* Lists that repeat nothing.
\* A list without repetitions.
Distinct(s) == IsList(s) /\ \A i, j \in DOMAIN s : s[i] = s[j] => i = j

\* Short lists repeat nothing.
LEMMA SmallDistinct ==
  Distinct(<<>>) /\ \A x : Distinct(<<x>>)
<1>1. ASSUME NEW x PROVE Distinct(<<x>>)
  <2>1. \A i, j \in DOMAIN <<x>> : i = j
    OBVIOUS
  <2> QED
    BY <2>1, SmallLists DEF Distinct
<1> QED
  BY <1>1, SmallLists DEF Distinct

\* Two lists without repetitions that have nothing in common, joined.
LEMMA ConcatDistinct ==
  ASSUME NEW s, NEW t, Distinct(s), Distinct(t), Range(s) \intersect Range(t) = {}
  PROVE  Distinct(s \o t)
<1>1. /\ Len(s) \in Nat /\ DOMAIN s = 1..Len(s) /\ Len(t) \in Nat /\ DOMAIN t = 1..Len(t)
      /\ \A i \in 1..Len(s) : s[i] \in Range(s)
      /\ \A i \in 1..Len(t) : t[i] \in Range(t)
  BY ListShape DEF Distinct
<1>2. /\ IsList(s \o t)
      /\ DOMAIN (s \o t) = 1..(Len(s) + Len(t))
      /\ \A i \in 1..(Len(s) + Len(t)) :
           (s \o t)[i] = IF i <= Len(s) THEN s[i] ELSE t[i - Len(s)]
  <2>1. IsList(s \o t)
    BY ConcatList DEF Distinct
  <2>2. s \in Seq(Range(s) \union Range(t)) /\ t \in Seq(Range(s) \union Range(t))
    BY DEF IsList, Distinct
  <2> QED
    BY <2>1, <2>2
<1>3. ASSUME NEW i \in 1..(Len(s) + Len(t)), NEW j \in 1..(Len(s) + Len(t)),
             (s \o t)[i] = (s \o t)[j]
      PROVE  i = j
  <2>1. CASE i <= Len(s) /\ j <= Len(s)
    <3>1. i \in DOMAIN s /\ j \in DOMAIN s /\ s[i] = s[j]
      BY <1>1, <1>2, <1>3, <2>1
    <3> QED
      BY <3>1 DEF Distinct
  <2>2. CASE ~(i <= Len(s)) /\ ~(j <= Len(s))
    <3>1. i - Len(s) \in DOMAIN t /\ j - Len(s) \in DOMAIN t /\ t[i - Len(s)] = t[j - Len(s)]
      BY <1>1, <1>2, <1>3, <2>2
    <3>2. i - Len(s) = j - Len(s)
      BY <3>1 DEF Distinct
    <3> QED
      BY <1>1, <3>2
  <2>3. CASE i <= Len(s) /\ ~(j <= Len(s))
    <3>1. s[i] \in Range(s) /\ t[j - Len(s)] \in Range(t) /\ s[i] = t[j - Len(s)]
      BY <1>1, <1>2, <1>3, <2>3
    <3> QED
      BY <3>1
  <2>4. CASE ~(i <= Len(s)) /\ j <= Len(s)
    <3>1. s[j] \in Range(s) /\ t[i - Len(s)] \in Range(t) /\ s[j] = t[i - Len(s)]
      BY <1>1, <1>2, <1>3, <2>4
    <3> QED
      BY <3>1
  <2> QED
    BY <2>1, <2>2, <2>3, <2>4
<1> QED
  BY <1>2, <1>3 DEF Distinct

\* How FlattenSeq goes through its lists.
LEMMA FlattenSteps ==
  ASSUME NEW lists, IsList(lists), lists # <<>>
  PROVE  \E flatten :
           /\ FlattenSeq(lists) = flatten[Len(lists)]
           /\ flatten[1] = lists[1]
           /\ \A i \in 1..Len(lists) : i # 1 => flatten[i] = flatten[i - 1] \o lists[i]
<1> DEFINE n == Len(lists)
           flatten == CHOOSE g : Flattens(g, n, lists)
<1>1. n \in Nat /\ DOMAIN lists = 1..n
  BY ListShape
<1>2. n # 0
  BY DEF IsList
<1>3. Flattens(flatten, n, lists)
  BY <1>1, FlattenExists
<1>4. FlattenSeq(lists) = flatten[n]
  BY <1>2 DEF FlattenSeq, Flattens
<1> HIDE DEF flatten
<1>5. \A i \in 1..n : flatten[i] = IF i = 1 THEN lists[i] ELSE flatten[i - 1] \o lists[i]
  BY <1>3 DEF Flattens
<1>6. 1 \in 1..n
  BY <1>1, <1>2
<1> QED
  BY <1>4, <1>5, <1>6

\* Lists without repetitions that have nothing in common, one after the other.
LEMMA FlattenedDistinct ==
  ASSUME NEW lists, IsList(lists), \A i \in DOMAIN lists : Distinct(lists[i]),
         \A i, j \in DOMAIN lists : i # j => Range(lists[i]) \intersect Range(lists[j]) = {}
  PROVE  Distinct(FlattenSeq(lists))
<1> DEFINE n == Len(lists)
<1>1. n \in Nat /\ DOMAIN lists = 1..n
  BY ListShape
<1>2. CASE lists = <<>>
  <2>1. FlattenSeq(lists) = <<>>
    BY <1>2 DEF FlattenSeq
  <2> QED
    BY <2>1, SmallDistinct
<1>3. CASE lists # <<>>
  <2>1. PICK flatten : /\ FlattenSeq(lists) = flatten[n]
                       /\ flatten[1] = lists[1]
                       /\ \A i \in 1..n : i # 1 => flatten[i] = flatten[i - 1] \o lists[i]
    BY <1>3, FlattenSteps
  <2> DEFINE Fine(i) == /\ Distinct(flatten[i])
                        /\ \A x : x \in Range(flatten[i]) => \E j \in 1..i : x \in Range(lists[j])
             S == {i \in Nat : i \in 1..n => Fine(i)}
  <2>2. 0 \in S
    OBVIOUS
  <2>3. ASSUME NEW k \in Nat, k \in S PROVE k + 1 \in S
    <3> SUFFICES ASSUME k + 1 \in 1..n PROVE Fine(k + 1)
      BY <2>3
    <3>1. CASE k = 0
      <4>1. flatten[1] = lists[1] /\ 1 \in 1..n
        BY <2>1, <3>1
      <4>2. Distinct(flatten[1]) /\ \A x \in Range(flatten[1]) : 1 \in 1..1 /\ x \in Range(lists[1])
        BY <1>1, <4>1
      <4>3. k + 1 = 1
        BY <3>1
      <4> QED
        BY <4>2, <4>3
    <3>2. CASE k # 0
      <4>1. k \in 1..n /\ Fine(k)
        BY <1>1, <2>3, <3>2
      <4>2. flatten[k + 1] = flatten[k] \o lists[k + 1] /\ Distinct(lists[k + 1])
        <5>1. k + 1 # 1 /\ (k + 1) - 1 = k
          BY <4>1
        <5> QED
          BY <1>1, <2>1, <5>1
      <4>3. Range(flatten[k]) \intersect Range(lists[k + 1]) = {}
        <5> SUFFICES ASSUME NEW x \in Range(flatten[k]), x \in Range(lists[k + 1]) PROVE FALSE
          OBVIOUS
        <5>1. PICK j \in 1..k : x \in Range(lists[j])
          BY <4>1
        <5>2. j \in 1..n /\ j # k + 1
          BY <1>1, <4>1
        <5> QED
          BY <1>1, <5>1, <5>2
      <4>4. Distinct(flatten[k + 1])
        BY <4>1, <4>2, <4>3, ConcatDistinct
      <4>5. Range(flatten[k + 1]) = Range(flatten[k]) \union Range(lists[k + 1])
        BY <4>1, <4>2, ConcatList DEF Distinct
      <4>6. ASSUME NEW x \in Range(flatten[k + 1])
            PROVE  \E j \in 1..(k + 1) : x \in Range(lists[j])
        <5>1. CASE x \in Range(flatten[k])
          <6>1. PICK j \in 1..k : x \in Range(lists[j])
            BY <4>1, <5>1
          <6> QED
            BY <6>1
        <5>2. CASE x \in Range(lists[k + 1])
          BY <5>2
        <5> QED
          BY <4>5, <4>6, <5>1, <5>2
      <4> QED
        BY <4>4, <4>6
    <3> QED
      BY <3>1, <3>2
  <2>4. n \in S
    <3> HIDE DEF S
    <3> QED
      BY <1>1, <2>2, <2>3, Induction
  <2>5. n \in 1..n
    BY <1>1, <1>3 DEF IsList
  <2> QED
    BY <2>1, <2>4, <2>5
<1> QED
  BY <1>2, <1>3

\* An injective function of the elements keeps them apart.
LEMMA MappedDistinct ==
  ASSUME NEW s, IsList(s), NEW lists, lists = [i \in DOMAIN s |-> lists[i]],
         \A i \in DOMAIN s : Distinct(lists[i]),
         \A i, j \in DOMAIN s : i # j => Range(lists[i]) \intersect Range(lists[j]) = {}
  PROVE  /\ Distinct(FlattenSeq(lists))
         /\ \A x : x \in Range(FlattenSeq(lists)) <=> \E i \in DOMAIN s : x \in Range(lists[i])
<1>1. DOMAIN s = 1..Len(s) /\ Len(s) \in Nat
  BY ListShape
<1>2. IsList(lists) /\ DOMAIN lists = DOMAIN s
  BY <1>1, FunctionIsList
<1>3. Distinct(FlattenSeq(lists))
  BY <1>2, FlattenedDistinct
<1>4. \A i \in DOMAIN s : IsList(lists[i])
  BY DEF Distinct
<1> QED
  BY <1>3, <1>4, Mapped

\* What Select joins, when nothing is repeated.
LEMMA SelectedDistinct ==
  ASSUME NEW s, Distinct(s), NEW T,
         NEW lists, lists = [i \in DOMAIN s |-> IF s[i] \in T THEN <<s[i]>> ELSE <<>>]
  PROVE  Distinct(FlattenSeq(lists)) /\ Range(FlattenSeq(lists)) = Range(s) \intersect T
<1>1. \A i \in DOMAIN s : Distinct(lists[i])
  BY SmallDistinct
<1>2. \A i \in DOMAIN s : \A x : x \in Range(lists[i]) <=> x = s[i] /\ x \in T
  BY SmallLists
<1>3. IsList(s) /\ lists = [i \in DOMAIN s |-> lists[i]]
  BY DEF Distinct
<1>4. \A i, j \in DOMAIN s : i # j => Range(lists[i]) \intersect Range(lists[j]) = {}
  BY <1>2 DEF Distinct
<1>5. Distinct(FlattenSeq(lists))
  BY ONLY <1>1, <1>3, <1>4, MappedDistinct
<1> QED
  BY <1>3, <1>5, Selected

\* What Image joins, when nothing is repeated.
LEMMA ImagedDistinct ==
  ASSUME NEW s, IsList(s), NEW f, NEW lists, lists = [i \in DOMAIN s |-> <<f[i]>>],
         \A i, j \in DOMAIN s : f[i] = f[j] => i = j
  PROVE  Distinct(FlattenSeq(lists)) /\ Range(FlattenSeq(lists)) = {f[i] : i \in DOMAIN s}
<1>1. \A i \in DOMAIN s : Distinct(lists[i])
  BY SmallDistinct
<1>2. \A i \in DOMAIN s : Range(lists[i]) = {f[i]}
  BY SmallLists
<1>3. lists = [i \in DOMAIN s |-> lists[i]]
  OBVIOUS
<1>4. \A i, j \in DOMAIN s : i # j => Range(lists[i]) \intersect Range(lists[j]) = {}
  BY <1>2
<1>5. Distinct(FlattenSeq(lists))
  BY ONLY <1>1, <1>3, <1>4, IsList(s), MappedDistinct
<1> QED
  BY <1>5, Imaged

\* Identifiers in creation order.
LEMMA InOrderDistinct ==
  ASSUME NEW S, Numbered(S)
  PROVE  Distinct(InOrder(S)) /\ Range(InOrder(S)) = S
<1> DEFINE s == InOrder(S)
<1>1. /\ IsList(s) /\ Increasing(s) /\ Range(s) = S /\ S \subseteq Int
  BY InOrderEnumerates
<1> HIDE DEF s
<1>2. Len(s) \in Nat /\ DOMAIN s = 1..Len(s) /\ \A i \in 1..Len(s) : s[i] \in Int
  BY <1>1, ListShape
<1>3. ASSUME NEW i \in DOMAIN s, NEW j \in DOMAIN s, s[i] = s[j] PROVE i = j
  <2>1. s[i] \in Int /\ s[j] \in Int /\ i \in Int /\ j \in Int
    BY <1>2
  <2>2. ~(i < j) /\ ~(j < i)
    BY <1>1, <1>3, <2>1 DEF Increasing
  <2> QED
    BY <2>1, <2>2
<1>4. Distinct(s)
  BY <1>1, <1>3 DEF Distinct
<1> QED
  BY <1>1, <1>4 DEF s

------------------------------------------------------------------------------
\* Lists of rows: a row for every element of a set.
\* The rows of a list of records.
RowsOf(s) == [i \in DOMAIN s |-> s[i].row]

\* A list of records and the list of their rows.
LEMMA RowsOfList ==
  ASSUME NEW s, IsList(s)
  PROVE  /\ IsList(RowsOf(s)) /\ DOMAIN RowsOf(s) = DOMAIN s /\ Len(RowsOf(s)) = Len(s)
         /\ \A i \in DOMAIN s : RowsOf(s)[i] = s[i].row
<1>1. DOMAIN s = 1..Len(s) /\ Len(s) \in Nat
  BY ListShape
<1>2. RowsOf(s) = [i \in 1..Len(s) |-> RowsOf(s)[i]]
  BY <1>1 DEF RowsOf
<1>3. IsList(RowsOf(s)) /\ Len(RowsOf(s)) = Len(s)
  BY <1>1, <1>2, FunctionIsList
<1> QED
  BY <1>3 DEF RowsOf

\* A list is a function on its positions.
LEMMA ListFunction ==
  ASSUME NEW s, IsList(s)
  PROVE  s = [i \in 1..Len(s) |-> s[i]]
<1> DEFINE S == Range(s)
<1>1. s \in Seq(S)
  BY DEF IsList
<1> HIDE DEF S
<1> QED
  BY <1>1

\* The rows of two lists, joined.
LEMMA RowsOfConcat ==
  ASSUME NEW s, NEW t, IsList(s), IsList(t)
  PROVE  RowsOf(s \o t) = RowsOf(s) \o RowsOf(t)
<1> DEFINE f == RowsOf(s)
           g == RowsOf(t)
<1>1. /\ Len(s) \in Nat /\ DOMAIN s = 1..Len(s) /\ Len(t) \in Nat /\ DOMAIN t = 1..Len(t)
  BY ListShape
<1>2. /\ IsList(f) /\ IsList(g) /\ Len(f) = Len(s) /\ Len(g) = Len(t)
      /\ \A i \in 1..Len(s) : f[i] = s[i].row
      /\ \A i \in 1..Len(t) : g[i] = t[i].row
  BY <1>1, RowsOfList
<1>3. s \in Seq(Range(s) \union Range(t)) /\ t \in Seq(Range(s) \union Range(t))
  BY DEF IsList
<1>4. /\ DOMAIN (s \o t) = 1..(Len(s) + Len(t))
      /\ \A i \in 1..(Len(s) + Len(t)) :
           (s \o t)[i] = IF i <= Len(s) THEN s[i] ELSE t[i - Len(s)]
  BY <1>3
<1> HIDE DEF f, g
<1>5. f \in Seq(Range(f) \union Range(g)) /\ g \in Seq(Range(f) \union Range(g))
  BY <1>2 DEF IsList
<1>6. f \o g = [i \in 1..(Len(f) + Len(g)) |-> IF i <= Len(f) THEN f[i] ELSE g[i - Len(f)]]
  <2>1. IsList(f \o g)
    BY <1>2, ConcatList
  <2>2. /\ Len(f \o g) = Len(f) + Len(g)
        /\ \A i \in 1..(Len(f) + Len(g)) :
             (f \o g)[i] = IF i <= Len(f) THEN f[i] ELSE g[i - Len(f)]
    BY <1>5
  <2>3. f \o g = [i \in 1..Len(f \o g) |-> (f \o g)[i]]
    BY <2>1, ListFunction
  <2> QED
    BY <2>2, <2>3
<1>7. RowsOf(s \o t) = [i \in 1..(Len(s) + Len(t)) |-> (s \o t)[i].row]
  BY <1>4 DEF RowsOf
<1>8. ASSUME NEW i \in 1..(Len(s) + Len(t))
      PROVE  (s \o t)[i].row = IF i <= Len(f) THEN f[i] ELSE g[i - Len(f)]
  <2>1. CASE i <= Len(s)
    BY <1>1, <1>2, <1>4, <2>1
  <2>2. CASE ~(i <= Len(s))
    <3>1. i - Len(s) \in 1..Len(t)
      BY <1>1, <2>2
    <3> QED
      BY <1>2, <1>4, <2>2, <3>1
  <2> QED
    BY <2>1, <2>2
<1>9. RowsOf(s \o t) = f \o g
  BY <1>2, <1>6, <1>7, <1>8
<1> QED
  BY <1>9 DEF f, g

\* The rows of many lists, joined.
LEMMA RowsOfFlattened ==
  ASSUME NEW lists, IsList(lists), \A i \in DOMAIN lists : IsList(lists[i]),
         NEW rows, rows = [i \in DOMAIN lists |-> RowsOf(lists[i])]
  PROVE  RowsOf(FlattenSeq(lists)) = FlattenSeq(rows)
<1> DEFINE n == Len(lists)
<1>1. n \in Nat /\ DOMAIN lists = 1..n
  BY ListShape
<1>2. IsList(rows) /\ Len(rows) = n /\ \A i \in 1..n : rows[i] = RowsOf(lists[i])
  <2>1. rows = [i \in 1..n |-> rows[i]]
    BY <1>1
  <2> QED
    BY <1>1, <2>1, FunctionIsList
<1>3. CASE lists = <<>>
  <2>1. rows = <<>>
    BY <1>2, <1>3 DEF IsList
  <2>2. FlattenSeq(lists) = <<>> /\ FlattenSeq(rows) = <<>>
    BY <1>3, <2>1 DEF FlattenSeq
  <2>3. RowsOf(<<>>) = <<>>
    BY DEF RowsOf
  <2> QED
    BY <2>2, <2>3
<1>4. CASE lists # <<>>
  <2>1. n # 0 /\ rows # <<>>
    BY <1>2, <1>4 DEF IsList
  <2>2. PICK g : /\ FlattenSeq(lists) = g[n]
                 /\ g[1] = lists[1]
                 /\ \A i \in 1..n : i # 1 => g[i] = g[i - 1] \o lists[i]
    BY <1>4, FlattenSteps
  <2>3. PICK h : /\ FlattenSeq(rows) = h[n]
                 /\ h[1] = rows[1]
                 /\ \A i \in 1..n : i # 1 => h[i] = h[i - 1] \o rows[i]
    <3>1. \E h : /\ FlattenSeq(rows) = h[Len(rows)]
                 /\ h[1] = rows[1]
                 /\ \A i \in 1..Len(rows) : i # 1 => h[i] = h[i - 1] \o rows[i]
      <4>1. IsList(rows) /\ rows # <<>>
        BY <1>2, <2>1
      <4> QED
        BY ONLY <4>1, FlattenSteps
    <3>2. Len(rows) = n
      BY <1>2
    <3> QED
      BY ONLY <3>1, <3>2
  <2> DEFINE S == {i \in Nat : i \in 1..n => IsList(g[i]) /\ RowsOf(g[i]) = h[i]}
  <2>4. 0 \in S
    OBVIOUS
  <2>5. ASSUME NEW k \in Nat, k \in S PROVE k + 1 \in S
    <3> SUFFICES ASSUME k + 1 \in 1..n PROVE IsList(g[k + 1]) /\ RowsOf(g[k + 1]) = h[k + 1]
      BY <2>5
    <3>1. CASE k = 0
      BY <1>1, <1>2, <2>2, <2>3, <3>1
    <3>2. CASE k # 0
      <4>1. k \in 1..n /\ k + 1 # 1 /\ (k + 1) - 1 = k
        BY <1>1, <3>2
      <4>2. IsList(g[k]) /\ RowsOf(g[k]) = h[k] /\ IsList(lists[k + 1])
        BY <1>1, <2>5, <4>1
      <4>3. g[k + 1] = g[k] \o lists[k + 1] /\ h[k + 1] = h[k] \o rows[k + 1]
        BY <2>2, <2>3, <4>1
      <4>4. IsList(g[k] \o lists[k + 1])
        BY <4>2, ConcatList
      <4>5. RowsOf(g[k] \o lists[k + 1]) = RowsOf(g[k]) \o RowsOf(lists[k + 1])
        BY <4>2, RowsOfConcat
      <4> QED
        BY <1>2, <4>2, <4>3, <4>4, <4>5
    <3> QED
      BY <3>1, <3>2
  <2>6. n \in S
    <3> HIDE DEF S
    <3> QED
      BY <1>1, <2>4, <2>5, Induction
  <2> QED
    BY <1>1, <2>1, <2>2, <2>3, <2>6
<1> QED
  BY <1>3, <1>4

\* s has one row for every element of W, and no other.
Listed(s, W) == \E e : Distinct(e) /\ Range(e) = W /\ s = RowsOf(e)

\* The rows of a listed set are its rows.
LEMMA ListedList ==
  ASSUME NEW s, NEW W, Listed(s, W)
  PROVE  IsList(s) /\ Range(s) = {w.row : w \in W}
<1>1. PICK e : Distinct(e) /\ Range(e) = W /\ s = RowsOf(e)
  BY DEF Listed
<1>2. IsList(s) /\ DOMAIN s = DOMAIN e /\ \A i \in DOMAIN e : s[i] = e[i].row
  BY <1>1, RowsOfList DEF Distinct
<1>3. Range(s) = {w.row : w \in W}
  BY <1>1, <1>2 DEF Range
<1> QED
  BY <1>2, <1>3

\* Nothing, or one element, listed.
LEMMA ListedNone ==
  Listed(<<>>, {}) /\ \A w : Listed(<<w.row>>, {w})
<1>1. RowsOf(<<>>) = <<>>
  BY DEF RowsOf
<1>2. ASSUME NEW w PROVE RowsOf(<<w>>) = <<w.row>>
  <2>1. DOMAIN <<w>> = {1} /\ DOMAIN <<w.row>> = {1} /\ <<w.row>> = [i \in {1} |-> w.row]
    OBVIOUS
  <2>2. RowsOf(<<w>>) = [i \in {1} |-> w.row]
    BY <2>1 DEF RowsOf
  <2> QED
    BY <2>1, <2>2
<1> QED
  BY <1>1, <1>2, SmallDistinct, SmallLists DEF Listed

\* Two sets that are listed one after the other.
LEMMA ListedConcat ==
  ASSUME NEW s, NEW t, NEW W, NEW V, Listed(s, W), Listed(t, V), W \intersect V = {}
  PROVE  Listed(s \o t, W \union V)
<1>1. PICK e : Distinct(e) /\ Range(e) = W /\ s = RowsOf(e)
  BY DEF Listed
<1>2. PICK f : Distinct(f) /\ Range(f) = V /\ t = RowsOf(f)
  BY DEF Listed
<1>3. Distinct(e \o f) /\ Range(e \o f) = W \union V
  BY <1>1, <1>2, ConcatDistinct, ConcatList DEF Distinct
<1>4. RowsOf(e \o f) = s \o t
  BY <1>1, <1>2, RowsOfConcat DEF Distinct
<1> QED
  BY <1>3, <1>4 DEF Listed

\* The set may be replaced by another that stands for the same rows.
LEMMA ListedRenamed ==
  ASSUME NEW s, NEW W, Listed(s, W), NEW B,
         \A w, v \in W : B[w] = B[v] => w = v, \A w \in W : B[w].row = w.row
  PROVE  Listed(s, {B[w] : w \in W})
<1>1. PICK e : Distinct(e) /\ Range(e) = W /\ s = RowsOf(e)
  BY DEF Listed
<1> DEFINE f == [i \in DOMAIN e |-> B[e[i]]]
<1>2. DOMAIN e = 1..Len(e) /\ Len(e) \in Nat /\ \A i \in DOMAIN e : e[i] \in W
  BY <1>1, ListShape DEF Distinct
<1>3. IsList(f)
  <2>1. f = [i \in 1..Len(e) |-> f[i]]
    BY <1>2
  <2> QED
    BY <1>2, <2>1, FunctionIsList
<1>4. Distinct(f)
  BY <1>1, <1>2, <1>3 DEF Distinct
<1>5. Range(f) = {B[w] : w \in W}
  BY <1>1 DEF Range
<1>6. RowsOf(f) = s
  BY <1>1, <1>2 DEF RowsOf
<1> QED
  BY <1>4, <1>5, <1>6 DEF Listed

\* The elements whose row passes a test.
LEMMA ListedSelected ==
  ASSUME NEW s, NEW W, Listed(s, W), NEW T,
         NEW lists, lists = [i \in DOMAIN s |-> IF s[i] \in T THEN <<s[i]>> ELSE <<>>]
  PROVE  Listed(FlattenSeq(lists), {w \in W : w.row \in T})
<1>1. PICK e : Distinct(e) /\ Range(e) = W /\ s = RowsOf(e)
  BY DEF Listed
<1> DEFINE U == {w \in W : w.row \in T}
           kept == [i \in DOMAIN e |-> IF e[i] \in U THEN <<e[i]>> ELSE <<>>]
<1>2. /\ DOMAIN s = DOMAIN e /\ \A i \in DOMAIN e : s[i] = e[i].row
      /\ DOMAIN e = 1..Len(e) /\ Len(e) \in Nat /\ \A i \in DOMAIN e : e[i] \in W
  BY <1>1, RowsOfList, ListShape DEF Distinct
<1>3. Distinct(FlattenSeq(kept)) /\ Range(FlattenSeq(kept)) = W \intersect U
  <2> HIDE DEF U
  <2> QED
    BY <1>1, SelectedDistinct
<1>4. RowsOf(<<>>) = <<>> /\ \A w : RowsOf(<<w>>) = <<w.row>>
  <2>1. ASSUME NEW w PROVE RowsOf(<<w>>) = <<w.row>>
    <3>1. DOMAIN <<w>> = {1} /\ DOMAIN <<w.row>> = {1} /\ <<w.row>> = [i \in {1} |-> w.row]
      OBVIOUS
    <3>2. RowsOf(<<w>>) = [i \in {1} |-> w.row]
      BY <3>1 DEF RowsOf
    <3> QED
      BY <3>1, <3>2
  <2> QED
    BY <2>1 DEF RowsOf
<1>5. lists = [i \in DOMAIN kept |-> RowsOf(kept[i])]
  <2>1. \A i \in DOMAIN e : RowsOf(kept[i]) = IF s[i] \in T THEN <<s[i]>> ELSE <<>>
    BY <1>2, <1>4
  <2> QED
    BY <1>2, <2>1
<1>6. IsList(kept) /\ \A i \in DOMAIN kept : IsList(kept[i])
  <2>1. kept = [i \in 1..Len(e) |-> kept[i]]
    BY <1>2
  <2> QED
    BY <1>2, <2>1, FunctionIsList, SmallLists
<1>7. RowsOf(FlattenSeq(kept)) = FlattenSeq(lists)
  <2> HIDE DEF kept
  <2> QED
    BY <1>5, <1>6, RowsOfFlattened
<1>8. W \intersect U = U
  OBVIOUS
<1> QED
  BY <1>3, <1>7, <1>8 DEF Listed

\* What follows from each element of W, x being one of X[w].
Pairs(W, X) == UNION {{[by |-> <<w, x>>, row |-> x.row] : x \in X[w]} : w \in W}

\* For every element of W the rows of a set of its own, one after the other.
LEMMA ListedFlattened ==
  ASSUME NEW s, NEW W, Listed(s, W), NEW lists, lists = [i \in DOMAIN s |-> lists[i]],
         NEW X, \A w \in W, i \in DOMAIN s : s[i] = w.row => Listed(lists[i], X[w])
  PROVE  Listed(FlattenSeq(lists), Pairs(W, X))
<1>1. PICK e : Distinct(e) /\ Range(e) = W /\ s = RowsOf(e)
  BY DEF Listed
<1>2. /\ DOMAIN s = DOMAIN e /\ \A i \in DOMAIN e : s[i] = e[i].row
      /\ DOMAIN e = 1..Len(e) /\ Len(e) \in Nat /\ \A i \in DOMAIN e : e[i] \in W
  BY <1>1, RowsOfList, ListShape DEF Distinct
<1> DEFINE Is(l, i) == Distinct(l) /\ Range(l) = X[e[i]] /\ lists[i] = RowsOf(l)
           f == [i \in DOMAIN e |-> CHOOSE l : Is(l, i)]
           g == [i \in DOMAIN e |-> [j \in DOMAIN f[i] |-> [by |-> <<e[i], f[i][j]>>, row |-> f[i][j].row]]]
<1>3. \A i \in DOMAIN e : Is(f[i], i)
  <2> SUFFICES ASSUME NEW i \in DOMAIN e PROVE \E l : Is(l, i)
    OBVIOUS
  <2>1. Listed(lists[i], X[e[i]])
    BY <1>2
  <2> QED
    BY <2>1 DEF Listed
<1>4. ASSUME NEW i \in DOMAIN e
      PROVE  /\ Distinct(g[i]) /\ RowsOf(g[i]) = lists[i]
             /\ \A y : y \in Range(g[i]) <=>
                         \E x \in X[e[i]] : y = [by |-> <<e[i], x>>, row |-> x.row]
  <2> DEFINE l == f[i]
  <2>1. Distinct(l) /\ Range(l) = X[e[i]] /\ lists[i] = RowsOf(l)
    BY <1>3
  <2>2. g[i] = [j \in DOMAIN l |-> [by |-> <<e[i], l[j]>>, row |-> l[j].row]]
    OBVIOUS
  <2> HIDE DEF l, g
  <2>3. Len(l) \in Nat /\ DOMAIN l = 1..Len(l)
    BY <2>1, ListShape DEF Distinct
  <2>4. IsList(g[i])
    <3>1. g[i] = [j \in 1..Len(l) |-> g[i][j]]
      BY <2>2, <2>3
    <3> QED
      BY <2>3, <3>1, FunctionIsList
  <2>5. Distinct(g[i])
    <3> SUFFICES ASSUME NEW j \in DOMAIN g[i], NEW k \in DOMAIN g[i], g[i][j] = g[i][k] PROVE j = k
      BY <2>4 DEF Distinct
    <3>1. j \in DOMAIN l /\ k \in DOMAIN l
      BY <2>2
    <3>2. g[i][j].by = g[i][k].by /\ g[i][j].by = <<e[i], l[j]>> /\ g[i][k].by = <<e[i], l[k]>>
      BY <2>2, <3>1
    <3>3. l[j] = l[k]
      BY <3>2
    <3> QED
      BY <2>1, <3>1, <3>3 DEF Distinct
  <2>6. RowsOf(g[i]) = RowsOf(l)
    BY <2>2 DEF RowsOf
  <2>7. \A y : y \in Range(g[i]) <=> \E j \in DOMAIN l : y = [by |-> <<e[i], l[j]>>, row |-> l[j].row]
    BY <2>2 DEF Range
  <2>8. \A x : x \in X[e[i]] <=> \E j \in DOMAIN l : x = l[j]
    BY <2>1 DEF Range
  <2> QED
    BY <2>1, <2>5, <2>6, <2>7, <2>8
<1>5. DOMAIN g = DOMAIN e /\ IsList(g) /\ g = [i \in DOMAIN e |-> g[i]]
  <2>1. g = [i \in 1..Len(e) |-> g[i]]
    BY <1>2
  <2> QED
    BY <1>2, <2>1, FunctionIsList
<1> HIDE DEF f, g
<1>6. ASSUME NEW i \in DOMAIN e, NEW j \in DOMAIN e, i # j
      PROVE  Range(g[i]) \intersect Range(g[j]) = {}
  <2> SUFFICES ASSUME NEW y, y \in Range(g[i]), y \in Range(g[j]) PROVE FALSE
    OBVIOUS
  <2>1. PICK x : y = [by |-> <<e[i], x>>, row |-> x.row]
    BY <1>4
  <2>2. PICK z : y = [by |-> <<e[j], z>>, row |-> z.row]
    BY <1>4
  <2>3. y.by = <<e[i], x>> /\ y.by = <<e[j], z>>
    BY <2>1, <2>2
  <2>4. e[i] = e[j]
    BY <2>3
  <2> QED
    BY <1>1, <1>6, <2>4 DEF Distinct
<1>7. /\ Distinct(FlattenSeq(g))
      /\ \A y : y \in Range(FlattenSeq(g)) <=> \E i \in DOMAIN e : y \in Range(g[i])
  BY <1>1, <1>4, <1>5, <1>6, MappedDistinct DEF Distinct
<1>8. RowsOf(FlattenSeq(g)) = FlattenSeq(lists)
  <2>1. lists = [i \in DOMAIN g |-> RowsOf(g[i])]
    BY <1>2, <1>4, <1>5
  <2>2. \A i \in DOMAIN g : IsList(g[i])
    BY <1>4, <1>5 DEF Distinct
  <2> QED
    BY <1>5, <2>1, <2>2, RowsOfFlattened
<1>9. \A y : y \in Range(FlattenSeq(g)) <=>
               \E w \in W : \E x \in X[w] : y = [by |-> <<w, x>>, row |-> x.row]
  <2>1. \A w : w \in W <=> \E i \in DOMAIN e : w = e[i]
    BY <1>1 DEF Range
  <2> QED
    BY ONLY <1>4, <1>7, <2>1
<1>10. Range(FlattenSeq(g)) = Pairs(W, X)
  BY <1>9 DEF Pairs
<1> QED
  BY <1>7, <1>8, <1>10 DEF Listed

\* Every row as often as there are elements of W for it.
LEMMA ListedCount ==
  ASSUME NEW s, NEW W, Listed(s, W), NEW r
  PROVE  Cardinality({i \in DOMAIN s : s[i] = r}) = Cardinality({w \in W : w.row = r})
<1>1. PICK e : Distinct(e) /\ Range(e) = W /\ s = RowsOf(e)
  BY DEF Listed
<1> DEFINE S == {i \in DOMAIN s : s[i] = r}
           T == {w \in W : w.row = r}
           f == [i \in S |-> e[i]]
<1>2. /\ DOMAIN s = DOMAIN e /\ \A i \in DOMAIN e : s[i] = e[i].row
      /\ DOMAIN e = 1..Len(e) /\ Len(e) \in Nat /\ \A i \in DOMAIN e : e[i] \in W
      /\ \A w \in W : \E i \in DOMAIN e : e[i] = w
  BY <1>1, RowsOfList, ListShape DEF Distinct
<1>3. IsFiniteSet(S)
  <2>1. IsFiniteSet(1..Len(e)) /\ S \in SUBSET (1..Len(e))
    BY <1>2, FS_Interval
  <2> HIDE DEF S
  <2> QED
    BY <2>1, FS_Subset
<1>4. f \in [S -> T]
  BY <1>2
<1>5. \A i, j \in S : f[i] = f[j] => i = j
  BY <1>1, <1>2 DEF Distinct
<1>6. \A w \in T : \E i \in S : f[i] = w
  BY <1>2
<1>7. ExistsBijection(S, T)
  <2> HIDE DEF S, T, f
  <2>1. f \in Bijection(S, T)
    BY <1>4, <1>5, <1>6 DEF Bijection, Injection, Surjection, IsInjective
  <2> QED
    BY <2>1 DEF ExistsBijection
<1> HIDE DEF S, T
<1>8. Cardinality(T) = Cardinality(S)
  BY <1>3, <1>7, FS_Bijection
<1> QED
  BY <1>8 DEF S, T

------------------------------------------------------------------------------
\* Hops and trails.
\* The node objects of the graph, those of deleted nodes among them.
Objects == DOMAIN graph.labels

GraphIsFine == IsGraph(graph) /\ HasNodeObjects(graph)

\* A relationship at n that a pattern of that direction may follow.
Touches(dir, r, n) ==
  \/ dir # "IN" /\ graph.rels[r].start = n
  \/ dir # "OUT" /\ graph.rels[r].end = n

\* A relationship joins a node with its far end and no other node.
LEMMA JoinsTheFarEnd ==
  ASSUME NEW dir, NEW r, NEW a, NEW b
  PROVE  Joins(dir, r, a, b) <=> Touches(dir, r, a) /\ b = FarEnd(graph, r, a)
<1> DEFINE x == graph.rels[r].start
           y == graph.rels[r].end
<1>1. /\ Joins(dir, r, a, b) <=> \/ dir # "IN" /\ x = a /\ y = b
                                 \/ dir # "OUT" /\ x = b /\ y = a
      /\ Touches(dir, r, a) <=> \/ dir # "IN" /\ x = a
                                \/ dir # "OUT" /\ y = a
      /\ FarEnd(graph, r, a) = IF x = a THEN y ELSE x
  BY DEF Joins, Touches, FarEnd
<1> HIDE DEF x, y
<1> QED
  BY <1>1

\* The relationships at a node are listed once each: an undirected self-loop too.
LEMMA RelsAtDistinct ==
  ASSUME IsGraph(graph), NEW dir \in {"OUT", "IN", "BOTH"}, NEW n
  PROVE  /\ Distinct(RelsAt(graph, dir, n))
         /\ \A r : r \in Range(RelsAt(graph, dir, n)) <=> r \in DOMAIN graph.rels /\ Touches(dir, r, n)
<1> DEFINE leaving  == {r \in DOMAIN graph.rels : graph.rels[r].start = n}
           entering == {r \in DOMAIN graph.rels : graph.rels[r].end = n}
<1>1. \A S \in SUBSET DOMAIN graph.rels : Distinct(InOrder(S)) /\ Range(InOrder(S)) = S
  BY InOrderDistinct, GraphIsNumbered DEF Numbered
<1>2. /\ Distinct(InOrder(leaving)) /\ Range(InOrder(leaving)) = leaving
      /\ Distinct(InOrder(entering)) /\ Range(InOrder(entering)) = entering
      /\ Distinct(InOrder(entering \ leaving))
      /\ Range(InOrder(entering \ leaving)) = entering \ leaving
  BY <1>1
<1>3. RelsAt(graph, dir, n) = CASE dir = "OUT"  -> InOrder(leaving)
                                [] dir = "IN"   -> InOrder(entering)
                                [] dir = "BOTH" -> InOrder(leaving) \o InOrder(entering \ leaving)
  BY DEF RelsAt
<1>4. /\ \A r : r \in leaving <=> r \in DOMAIN graph.rels /\ graph.rels[r].start = n
      /\ \A r : r \in entering <=> r \in DOMAIN graph.rels /\ graph.rels[r].end = n
  OBVIOUS
<1> HIDE DEF leaving, entering
<1>5. CASE dir = "OUT"
  <2>1. RelsAt(graph, dir, n) = InOrder(leaving)
    BY <1>3, <1>5
  <2>2. \A r : r \in leaving <=> r \in DOMAIN graph.rels /\ Touches(dir, r, n)
    BY <1>4, <1>5 DEF Touches
  <2> QED
    BY <1>2, <2>1, <2>2
<1>6. CASE dir = "IN"
  <2>1. RelsAt(graph, dir, n) = InOrder(entering)
    BY <1>3, <1>6
  <2>2. \A r : r \in entering <=> r \in DOMAIN graph.rels /\ Touches(dir, r, n)
    BY <1>4, <1>6 DEF Touches
  <2> QED
    BY <1>2, <2>1, <2>2
<1>7. CASE dir = "BOTH"
  <2>1. RelsAt(graph, dir, n) = InOrder(leaving) \o InOrder(entering \ leaving)
    BY <1>3, <1>7
  <2>2. Distinct(RelsAt(graph, dir, n))
    BY <1>2, <2>1, ConcatDistinct
  <2>3. Range(RelsAt(graph, dir, n)) = leaving \union (entering \ leaving)
    <3>1. IsList(InOrder(leaving)) /\ IsList(InOrder(entering \ leaving))
      BY <1>2 DEF Distinct
    <3>2. Range(InOrder(leaving) \o InOrder(entering \ leaving))
            = Range(InOrder(leaving)) \union Range(InOrder(entering \ leaving))
      BY <3>1, ConcatList
    <3> QED
      BY <1>2, <2>1, <3>2
  <2>4. \A r : r \in leaving \union (entering \ leaving)
                <=> r \in DOMAIN graph.rels /\ Touches(dir, r, n)
    BY <1>4, <1>7 DEF Touches
  <2> QED
    BY <2>2, <2>3, <2>4
<1> QED
  BY <1>5, <1>6, <1>7

\* A relationship that one hop of the pattern follows from n.
Follows(pat, r, n) ==
  /\ r \in DOMAIN graph.rels /\ Touches(pat.dir, r, n) /\ TypeFits(graph, pat, r)
  /\ FarEnd(graph, r, n) \in graph.nodes

\* One hop may follow every relationship that Follows, once.
LEMMA HopsDistinct ==
  ASSUME IsGraph(graph), NEW pat, IsHop(pat), NEW n
  PROVE  /\ Distinct(Hops(graph, pat, n))
         /\ \A r : r \in Range(Hops(graph, pat, n)) <=> Follows(pat, r, n)
<1> DEFINE s == RelsAt(graph, pat.dir, n)
           T == {r \in Range(s) : TypeFits(graph, pat, r) /\ FarEnd(graph, r, n) \in graph.nodes}
           lists == [i \in DOMAIN s |-> IF s[i] \in T THEN <<s[i]>> ELSE <<>>]
<1>1. Distinct(s) /\ \A r : r \in Range(s) <=> r \in DOMAIN graph.rels /\ Touches(pat.dir, r, n)
  BY RelsAtDistinct DEF IsHop
<1> HIDE DEF s
<1>2. \A i \in DOMAIN s :
        s[i] \in T <=> TypeFits(graph, pat, s[i]) /\ FarEnd(graph, s[i], n) \in graph.nodes
  BY DEF Range
<1>3. lists = [i \in DOMAIN s |->
                 IF TypeFits(graph, pat, s[i]) /\ FarEnd(graph, s[i], n) \in graph.nodes
                 THEN <<s[i]>> ELSE <<>>]
  BY <1>2
<1>4. Hops(graph, pat, n) = FlattenSeq(lists)
  BY <1>3 DEF Hops, Select, FlatMap, s
<1>5. \A r : r \in Range(s) \intersect T <=> Follows(pat, r, n)
  BY <1>1 DEF Follows
<1>6. Distinct(FlattenSeq(lists)) /\ Range(FlattenSeq(lists)) = Range(s) \intersect T
  <2> HIDE DEF T
  <2> QED
    BY <1>1, SelectedDistinct
<1> QED
  BY <1>4, <1>5, <1>6

\* A trail is extended by every relationship that it does not hold yet, once.
LEMMA ExtensionsDistinct ==
  ASSUME IsGraph(graph), NEW pat, IsHop(pat), NEW t, t.path \in Seq(DOMAIN graph.rels)
  PROVE  /\ Distinct(Extensions(graph, pat, t))
         /\ \A y : y \in Range(Extensions(graph, pat, t)) <=>
              \E r : /\ Follows(pat, r, t.at) /\ r \notin Range(t.path)
                     /\ y = [path |-> Append(t.path, r), at |-> FarEnd(graph, r, t.at)]
<1> DEFINE s == Hops(graph, pat, t.at)
           T == {r \in Range(s) : ~Contains(t.path, r)}
           lists == [i \in DOMAIN s |-> IF s[i] \in T THEN <<s[i]>> ELSE <<>>]
           kept == FlattenSeq(lists)
           f == [i \in DOMAIN kept |->
                   [path |-> Append(t.path, kept[i]), at |-> FarEnd(graph, kept[i], t.at)]]
           longer == [i \in DOMAIN kept |-> <<f[i]>>]
<1>1. Distinct(s) /\ \A r : r \in Range(s) <=> Follows(pat, r, t.at)
  BY HopsDistinct
<1> HIDE DEF s
<1>2. \A i \in DOMAIN s : s[i] \in T <=> ~Contains(t.path, s[i])
  BY DEF Range
<1>3. lists = [i \in DOMAIN s |-> IF ~Contains(t.path, s[i]) THEN <<s[i]>> ELSE <<>>]
  BY <1>2
<1>4. kept = Select(s, LAMBDA r : ~Contains(t.path, r))
  BY <1>3 DEF Select, FlatMap
<1>5. Distinct(kept) /\ Range(kept) = Range(s) \intersect T
  <2> HIDE DEF T
  <2> QED
    BY <1>1, SelectedDistinct
<1>6. \A r : Contains(t.path, r) <=> r \in Range(t.path)
  <2>1. DOMAIN t.path = 1..Len(t.path)
    OBVIOUS
  <2> QED
    BY <2>1 DEF Contains, Range
<1>7. \A r : r \in Range(kept) <=> Follows(pat, r, t.at) /\ r \notin Range(t.path)
  BY <1>1, <1>5, <1>6
<1> HIDE DEF lists, kept
<1>8. Extensions(graph, pat, t) = FlattenSeq(longer)
  BY <1>4 DEF Extensions, Image, FlatMap, s
<1>9. \A i \in DOMAIN kept : kept[i] \in DOMAIN graph.rels
  BY <1>7 DEF Range, Follows
<1>10. ASSUME NEW i \in DOMAIN kept, NEW j \in DOMAIN kept, f[i] = f[j] PROVE i = j
  <2>1. Append(t.path, kept[i]) = Append(t.path, kept[j])
    <3>1. f[i].path = f[j].path
      BY <1>10
    <3> QED
      BY <3>1
  <2>2. kept[i] = kept[j]
    BY <1>9, <2>1
  <2> QED
    BY <1>5, <2>2 DEF Distinct
<1>11. \A y : y \in {f[i] : i \in DOMAIN kept} <=>
         \E r \in Range(kept) :
           y = [path |-> Append(t.path, r), at |-> FarEnd(graph, r, t.at)]
  BY DEF Range
<1> HIDE DEF f
<1>12. Distinct(FlattenSeq(longer)) /\ Range(FlattenSeq(longer)) = {f[i] : i \in DOMAIN kept}
  <2>1. IsList(kept) /\ \A i, j \in DOMAIN kept : f[i] = f[j] => i = j
    BY <1>5, <1>10 DEF Distinct
  <2>2. longer = [i \in DOMAIN kept |-> <<f[i]>>]
    OBVIOUS
  <2> HIDE DEF longer
  <2> QED
    BY ONLY <2>1, <2>2, ImagedDistinct
<1> QED
  BY <1>7, <1>8, <1>11, <1>12

------------------------------------------------------------------------------
\* Trails of no relationships, and of one more.
LEMMA LeadsNowhere ==
  ASSUME NEW hop, NEW a \in Objects, NEW b
  PROVE  Leads(hop, <<>>, a, b) <=> a = b
<1>1. Len(<<>>) = 0 /\ DOMAIN <<>> = {}
  OBVIOUS
<1>2. ASSUME Leads(hop, <<>>, a, b) PROVE a = b
  BY <1>1, <1>2 DEF Leads
<1>3. ASSUME a = b PROVE Leads(hop, <<>>, a, b)
  <2> DEFINE via == [i \in 0..Len(<<>>) |-> a]
  <2>1. via \in [0..Len(<<>>) -> DOMAIN graph.labels] /\ via[0] = a /\ via[Len(<<>>)] = b
    BY <1>1, <1>3 DEF Objects
  <2> QED
    BY <1>1, <2>1 DEF Leads
<1> QED
  BY <1>2, <1>3

\* What a trail is after one relationship more.
LEMMA AppendedPath ==
  ASSUME NEW S, NEW p \in Seq(S), NEW r \in S
  PROVE  /\ Len(p) \in Nat /\ DOMAIN p = 1..Len(p)
         /\ Append(p, r) \in Seq(S) /\ Len(Append(p, r)) = Len(p) + 1
         /\ DOMAIN Append(p, r) = 1..(Len(p) + 1)
         /\ Append(p, r)[Len(p) + 1] = r
         /\ \A i \in 1..Len(p) : Append(p, r)[i] = p[i]
OBVIOUS

\* A trail of one relationship more comes from a trail.
LEMMA LeadsToTheLast ==
  ASSUME GraphIsFine, NEW hop, NEW p \in Seq(DOMAIN graph.rels), NEW r \in DOMAIN graph.rels,
         NEW a, NEW c, Leads(hop, Append(p, r), a, c)
  PROVE  \E b : Leads(hop, p, a, b) /\ r \notin Range(p) /\ Follows(hop, r, b)
                /\ c = FarEnd(graph, r, b)
<1> DEFINE q == Append(p, r)
           m == Len(p)
<1>1. /\ Leads(hop, q, a, c)
      /\ m \in Nat /\ DOMAIN p = 1..m /\ Len(q) = m + 1 /\ DOMAIN q = 1..(m + 1)
      /\ q[m + 1] = r /\ \A i \in 1..m : q[i] = p[i]
  BY AppendedPath
<1> HIDE DEF q, m
<1>2. PICK via \in [0..(m + 1) -> DOMAIN graph.labels] :
        /\ via[0] = a /\ via[m + 1] = c
        /\ \A i \in 1..(m + 1) : Joins(hop.dir, q[i], via[i - 1], via[i]) /\ via[i] \in graph.nodes
  BY <1>1 DEF Leads
<1>3. /\ \A i, j \in 1..(m + 1) : q[i] = q[j] => i = j
      /\ \A i \in 1..(m + 1) : hop.types = {} \/ graph.rels[q[i]].type \in hop.types
  BY <1>1 DEF Leads
<1>4. m + 1 \in 1..(m + 1) /\ (m + 1) - 1 = m /\ m \in 0..m /\ \A i \in 1..m : i \in 1..(m + 1) /\ i # m + 1
  BY <1>1
<1>5. Leads(hop, p, a, via[m])
  <2> DEFINE sub == [i \in 0..m |-> via[i]]
  <2>1. sub \in [0..m -> DOMAIN graph.labels]
    BY <1>1, <1>2
  <2>2. sub[0] = a /\ sub[m] = via[m]
    BY <1>1, <1>2
  <2>3. \A i \in 1..m : Joins(hop.dir, p[i], sub[i - 1], sub[i]) /\ sub[i] \in graph.nodes
    BY <1>1, <1>2
  <2> HIDE DEF sub
  <2>4. /\ \A i, j \in 1..m : p[i] = p[j] => i = j
        /\ \A i \in 1..m : hop.types = {} \/ graph.rels[p[i]].type \in hop.types
    BY <1>1, <1>3, <1>4
  <2> QED
    BY <1>1, <2>1, <2>2, <2>3, <2>4 DEF Leads, m
<1>6. r \notin Range(p)
  BY <1>1, <1>3, <1>4 DEF Range
<1>7. Joins(hop.dir, r, via[m], c) /\ c \in graph.nodes
  BY <1>1, <1>2, <1>4
<1>8. hop.types = {} \/ graph.rels[r].type \in hop.types
  BY <1>1, <1>3, <1>4
<1>9. Follows(hop, r, via[m]) /\ c = FarEnd(graph, r, via[m])
  BY <1>7, <1>8, JoinsTheFarEnd DEF Follows, TypeFits
<1> QED
  BY <1>5, <1>6, <1>9

\* A trail that may be followed one relationship further.
LEMMA LeadsOneFurther ==
  ASSUME GraphIsFine, NEW hop, NEW p \in Seq(DOMAIN graph.rels), NEW r \in DOMAIN graph.rels,
         NEW a, NEW b, NEW c,
         Leads(hop, p, a, b), r \notin Range(p), Follows(hop, r, b), c = FarEnd(graph, r, b)
  PROVE  Leads(hop, Append(p, r), a, c)
<1> DEFINE q == Append(p, r)
           m == Len(p)
<1>1. /\ m \in Nat /\ DOMAIN p = 1..m /\ Len(q) = m + 1 /\ DOMAIN q = 1..(m + 1)
      /\ q[m + 1] = r /\ \A i \in 1..m : q[i] = p[i]
  BY AppendedPath
<1> HIDE DEF q, m
<1>2. PICK via \in [0..m -> DOMAIN graph.labels] :
        /\ via[0] = a /\ via[m] = b
        /\ \A i \in 1..m : Joins(hop.dir, p[i], via[i - 1], via[i]) /\ via[i] \in graph.nodes
  BY <1>1 DEF Leads, m
<1>3. /\ \A i, j \in 1..m : p[i] = p[j] => i = j
      /\ \A i \in 1..m : hop.types = {} \/ graph.rels[p[i]].type \in hop.types
  BY <1>1 DEF Leads
<1>4. /\ Joins(hop.dir, r, b, c) /\ c \in graph.nodes /\ c \in DOMAIN graph.labels
      /\ hop.types = {} \/ graph.rels[r].type \in hop.types
  BY <1>1, JoinsTheFarEnd DEF Follows, TypeFits, GraphIsFine, HasNodeObjects
<1> DEFINE more == [i \in 0..(m + 1) |-> IF i = m + 1 THEN c ELSE via[i]]
<1>5. more \in [0..(m + 1) -> DOMAIN graph.labels]
  BY <1>1, <1>2, <1>4
<1>6. more[0] = a /\ more[m + 1] = c
  BY <1>1, <1>2
<1>7. \A i \in 1..(m + 1) : Joins(hop.dir, q[i], more[i - 1], more[i]) /\ more[i] \in graph.nodes
  <2> TAKE i \in 1..(m + 1)
  <2>1. CASE i = m + 1
    <3>1. more[i - 1] = b /\ more[i] = c /\ q[i] = r
      BY <1>1, <1>2, <2>1
    <3> QED
      BY <1>4, <3>1
  <2>2. CASE i # m + 1
    <3>1. i \in 1..m /\ more[i - 1] = via[i - 1] /\ more[i] = via[i] /\ q[i] = p[i]
      BY <1>1, <2>2
    <3> QED
      BY <1>2, <3>1
  <2> QED
    BY <2>1, <2>2
<1> HIDE DEF more
<1>8. \A i, j \in 1..(m + 1) : q[i] = q[j] => i = j
  <2> SUFFICES ASSUME NEW i \in 1..(m + 1), NEW j \in 1..(m + 1), q[i] = q[j] PROVE i = j
    OBVIOUS
  <2>1. \A k \in 1..m : p[k] \in Range(p)
    BY <1>1 DEF Range
  <2>2. CASE i \in 1..m /\ j \in 1..m
    BY <1>1, <1>3, <2>2
  <2>3. CASE i = m + 1 /\ j \in 1..m
    BY <1>1, <2>1, <2>3
  <2>4. CASE i \in 1..m /\ j = m + 1
    BY <1>1, <2>1, <2>4
  <2> QED
    BY <1>1, <2>2, <2>3, <2>4
<1>9. \A i \in 1..(m + 1) : hop.types = {} \/ graph.rels[q[i]].type \in hop.types
  <2> TAKE i \in 1..(m + 1)
  <2>1. CASE i \in 1..m
    BY <1>1, <1>3, <2>1
  <2>2. CASE i = m + 1
    BY <1>1, <1>4, <2>2
  <2> QED
    BY <1>1, <2>1, <2>2
<1>10. Leads(hop, q, a, c)
  BY <1>1, <1>5, <1>6, <1>7, <1>8, <1>9 DEF Leads
<1> QED
  BY <1>10 DEF q

\* Appending to a list of different elements one that it lacks.
LEMMA AppendedOnce ==
  ASSUME NEW S, NEW p \in Seq(S), NEW q \in Seq(S), NEW r \in S, NEW u \in S,
         Append(p, r) = Append(q, u)
  PROVE  p = q /\ r = u
<1>1. /\ Len(p) \in Nat /\ Len(Append(p, r)) = Len(p) + 1 /\ Append(p, r)[Len(p) + 1] = r
      /\ \A i \in 1..Len(p) : Append(p, r)[i] = p[i]
  BY AppendedPath
<1>2. /\ Len(q) \in Nat /\ Len(Append(q, u)) = Len(q) + 1 /\ Append(q, u)[Len(q) + 1] = u
      /\ \A i \in 1..Len(q) : Append(q, u)[i] = q[i]
  BY AppendedPath
<1>3. Len(p) = Len(q)
  BY <1>1, <1>2
<1>4. p = [i \in 1..Len(p) |-> p[i]] /\ q = [i \in 1..Len(q) |-> q[i]]
  BY ListOf, ListFunction
<1>5. \A i \in 1..Len(p) : p[i] = q[i]
  BY <1>1, <1>2, <1>3
<1>6. p = q
  BY <1>3, <1>4, <1>5
<1> QED
  BY <1>1, <1>2, <1>3, <1>6

\* The last of different elements is not among the others.
LEMMA LastApart ==
  ASSUME NEW S, NEW k \in Nat, NEW q \in [1..(k + 1) -> S],
         NEW p, p = [i \in 1..k |-> q[i]]
  PROVE  /\ p \in [1..k -> S] /\ p \in Seq(S) /\ q[k + 1] \in S
         /\ q = Append(p, q[k + 1])
<1>1. p \in [1..k -> S] /\ p \in Seq(S) /\ Len(p) = k /\ q[k + 1] \in S
  OBVIOUS
<1>2. Append(p, q[k + 1]) = [i \in 1..(k + 1) |-> IF i = k + 1 THEN q[k + 1] ELSE p[i]]
  BY <1>1
<1>3. \A i \in 1..(k + 1) : i = k + 1 \/ q[i] = p[i]
  OBVIOUS
<1>4. q = Append(p, q[k + 1])
  BY <1>2, <1>3
<1> QED
  BY <1>1, <1>4

\* Sequences of k elements are the functions on 1..k.
LEMMA SequenceIsFunction ==
  ASSUME NEW S, NEW p \in Seq(S)
  PROVE  p \in [1..Len(p) -> S]
OBVIOUS

\* A trail ends at a node object.
LEMMA LeadsToAnObject ==
  ASSUME NEW S, NEW hop, NEW p \in Seq(S), NEW a, NEW b, Leads(hop, p, a, b)
  PROVE  b \in Objects
<1>1. Len(p) \in Nat
  OBVIOUS
<1> QED
  BY <1>1 DEF Leads, Objects

\* s lists the trails of k relationships from n.
TrailsListed(s, k, pat, n) ==
  /\ Distinct(s)
  /\ \A t : t \in Range(s) <=> \E p \in [1..k -> DOMAIN graph.rels], b \in Objects :
                                 t = [path |-> p, at |-> b] /\ Leads(pat, p, n, b)
  /\ \A t, u \in Range(s) : t.path = u.path => t = u

\* Every level of the search has every trail of its length once.
LEMMA LevelsListed ==
  ASSUME GraphIsFine, NEW pat, IsHop(pat), pat.varlen, NEW n \in Objects, NEW k \in 0..pat.max
  PROVE  TrailsListed(TrailsOfLength(graph, pat, n)[k], k, pat, n)
<1> DEFINE level == TrailsOfLength(graph, pat, n)
           S == {j \in Nat : j \in 0..pat.max => TrailsListed(level[j], j, pat, n)}
<1>1. pat.max \in Nat /\ IsGraph(graph)
  BY DEF IsHop, GraphIsFine
<1>2. LevelsUpTo(level, pat.max, graph, pat, n)
  <2>1. level = CHOOSE g : LevelsUpTo(g, pat.max, graph, pat, n)
    BY DEF TrailsOfLength, LevelsUpTo
  <2> QED
    BY <1>1, <2>1, LevelsExist
<1> HIDE DEF level
<1>3. 0 \in S
  <2> DEFINE root == [path |-> <<>>, at |-> n]
  <2>1. level[0] = <<root>>
    <3>1. 0 \in 0..pat.max
      BY <1>1
    <3> QED
      BY <1>2, <3>1 DEF LevelsUpTo
  <2>2. Distinct(level[0]) /\ Range(level[0]) = {root}
    BY <2>1, SmallLists, SmallDistinct
  <2>3. \A p : p \in [1..0 -> DOMAIN graph.rels] <=> p = <<>>
    <3>1. ASSUME NEW p \in [1..0 -> DOMAIN graph.rels] PROVE p = <<>>
      <4>1. p \in Seq(DOMAIN graph.rels) /\ Len(p) = 0
        OBVIOUS
      <4> QED
        BY <4>1
    <3>2. <<>> \in [1..0 -> DOMAIN graph.rels]
      <4>1. <<>> \in Seq(DOMAIN graph.rels) /\ Len(<<>>) = 0
        OBVIOUS
      <4> QED
        BY <4>1
    <3> QED
      BY <3>1, <3>2
  <2>4. \A b : Leads(pat, <<>>, n, b) <=> n = b
    BY LeadsNowhere
  <2>5. \A t : t = root <=> \E p \in [1..0 -> DOMAIN graph.rels], b \in Objects :
                              t = [path |-> p, at |-> b] /\ Leads(pat, p, n, b)
    BY <2>3, <2>4
  <2> HIDE DEF root
  <2> QED
    BY <2>2, <2>5 DEF TrailsListed
<1>4. ASSUME NEW j \in Nat, j \in S PROVE j + 1 \in S
  <2> SUFFICES ASSUME j + 1 \in 0..pat.max PROVE TrailsListed(level[j + 1], j + 1, pat, n)
    BY <1>4
  <2> DEFINE s == level[j]
             lists == [i \in DOMAIN s |-> Extensions(graph, pat, s[i])]
             R == DOMAIN graph.rels
  <2>1. TrailsListed(s, j, pat, n)
    BY <1>1, <1>4
  <2>2. level[j + 1] = FlattenSeq(lists)
    <3>1. j + 1 # 0 /\ (j + 1) - 1 = j
      OBVIOUS
    <3>2. level[j + 1] = FlatMap(LAMBDA t : Extensions(graph, pat, t), level[j])
      BY <1>1, <1>2, <3>1 DEF LevelsUpTo
    <3> QED
      BY <3>2 DEF FlatMap
  <2> HIDE DEF s
  <2>3. ASSUME NEW i \in DOMAIN s
        PROVE  \E p \in [1..j -> R], b \in Objects : /\ p \in Seq(R) /\ s[i] = [path |-> p, at |-> b]
                                         /\ Leads(pat, p, n, b)
    <3>1. s[i] \in Range(s)
      BY DEF Range
    <3>2. PICK p \in [1..j -> R], b \in Objects : s[i] = [path |-> p, at |-> b] /\ Leads(pat, p, n, b)
      BY <2>1, <3>1 DEF TrailsListed
    <3>3. p \in Seq(R)
      OBVIOUS
    <3> QED
      BY <3>2, <3>3
  <2>4. ASSUME NEW i \in DOMAIN s
        PROVE  /\ Distinct(lists[i])
               /\ \A y : y \in Range(lists[i]) <=>
                    \E r : /\ Follows(pat, r, s[i].at) /\ r \notin Range(s[i].path)
                           /\ y = [path |-> Append(s[i].path, r), at |-> FarEnd(graph, r, s[i].at)]
    <3>1. s[i].path \in Seq(R)
      BY <2>3
    <3> QED
      BY <1>1, <3>1, ExtensionsDistinct
  <2>5. lists = [i \in DOMAIN s |-> lists[i]]
    OBVIOUS
  <2> HIDE DEF lists
  <2>6. ASSUME NEW i \in DOMAIN s, NEW y \in Range(lists[i])
        PROVE  \E r \in R : /\ Follows(pat, r, s[i].at) /\ r \notin Range(s[i].path)
                            /\ y = [path |-> Append(s[i].path, r), at |-> FarEnd(graph, r, s[i].at)]
    BY <2>4 DEF Follows
  <2>7. ASSUME NEW i \in DOMAIN s, NEW l \in DOMAIN s, NEW y \in Range(lists[i]),
               NEW z \in Range(lists[l]), y.path = z.path
        PROVE  i = l /\ y = z
    <3>1. PICK r \in R : y = [path |-> Append(s[i].path, r), at |-> FarEnd(graph, r, s[i].at)]
      BY <2>6
    <3>2. PICK u \in R : z = [path |-> Append(s[l].path, u), at |-> FarEnd(graph, u, s[l].at)]
      BY <2>6
    <3>3. Append(s[i].path, r) = Append(s[l].path, u)
      BY <2>7, <3>1, <3>2
    <3>4. s[i].path \in Seq(R) /\ s[l].path \in Seq(R)
      BY <2>3
    <3>5. s[i].path = s[l].path /\ r = u
      BY <3>3, <3>4, AppendedOnce
    <3>6. s[i] \in Range(s) /\ s[l] \in Range(s)
      BY DEF Range
    <3>7. s[i] = s[l]
      BY <2>1, <3>5, <3>6 DEF TrailsListed
    <3>8. i = l
      BY <2>1, <3>7 DEF TrailsListed, Distinct
    <3> QED
      BY <3>1, <3>2, <3>5, <3>8
  <2>8. /\ Distinct(FlattenSeq(lists))
        /\ \A y : y \in Range(FlattenSeq(lists)) <=> \E i \in DOMAIN s : y \in Range(lists[i])
    <3>1. \A i, l \in DOMAIN s : i # l => Range(lists[i]) \intersect Range(lists[l]) = {}
      BY <2>7
    <3>2. IsList(s) /\ \A i \in DOMAIN s : Distinct(lists[i])
      BY <2>1, <2>4 DEF TrailsListed, Distinct
    <3> QED
      BY <2>5, <3>1, <3>2, MappedDistinct
  <2> HIDE DEF R
  <2>9. ASSUME NEW y, y \in Range(FlattenSeq(lists))
        PROVE  \E q \in [1..(j + 1) -> R], c \in Objects : y = [path |-> q, at |-> c] /\ Leads(pat, q, n, c)
    <3>1. PICK i \in DOMAIN s : y \in Range(lists[i])
      BY <2>8, <2>9
    <3>2. PICK p \in [1..j -> R], b \in Objects : /\ p \in Seq(R) /\ s[i] = [path |-> p, at |-> b]
                                      /\ Leads(pat, p, n, b)
      BY <2>3
    <3>3. PICK r \in R : /\ Follows(pat, r, b) /\ r \notin Range(p)
                         /\ y = [path |-> Append(p, r), at |-> FarEnd(graph, r, b)]
      <4>1. s[i].path = p /\ s[i].at = b
        BY <3>2
      <4> QED
        BY <2>6, <3>1, <4>1
    <3>4. Leads(pat, Append(p, r), n, FarEnd(graph, r, b))
      <4>1. p \in Seq(DOMAIN graph.rels) /\ r \in DOMAIN graph.rels
        BY <3>2 DEF R
      <4> QED
        BY <3>2, <3>3, <4>1, LeadsOneFurther
    <3>5. Append(p, r) \in [1..(j + 1) -> R]
      <4>1. Len(p) = j
        BY <3>2
      <4>2. Append(p, r) \in Seq(R) /\ Len(Append(p, r)) = j + 1
        BY <3>2, <4>1, AppendedPath
      <4> QED
        BY <4>2, SequenceIsFunction
    <3>6. FarEnd(graph, r, b) \in Objects
      BY <3>3 DEF Follows, GraphIsFine, HasNodeObjects, Objects
    <3> QED
      BY <3>3, <3>4, <3>5, <3>6
  <2>10. ASSUME NEW q \in [1..(j + 1) -> R], NEW c, Leads(pat, q, n, c)
         PROVE  [path |-> q, at |-> c] \in Range(FlattenSeq(lists))
    <3> DEFINE p == [i \in 1..j |-> q[i]]
               r == q[j + 1]
    <3>1. p \in [1..j -> R] /\ r \in R /\ p \in Seq(R) /\ q = Append(p, r)
      BY LastApart
    <3> HIDE DEF p, r
    <3>2. PICK b : /\ Leads(pat, p, n, b) /\ r \notin Range(p) /\ Follows(pat, r, b)
                   /\ c = FarEnd(graph, r, b)
      <4>1. p \in Seq(DOMAIN graph.rels) /\ r \in DOMAIN graph.rels
        BY <3>1 DEF R
      <4>2. Leads(pat, Append(p, r), n, c)
        BY <2>10, <3>1
      <4> QED
        BY <4>1, <4>2, LeadsToTheLast
    <3>3. [path |-> p, at |-> b] \in Range(s)
      <4>1. b \in Objects
        BY <3>1, <3>2, LeadsToAnObject
      <4> QED
        BY <2>1, <3>1, <3>2, <4>1 DEF TrailsListed, R
    <3>4. PICK i \in DOMAIN s : s[i] = [path |-> p, at |-> b]
      BY <3>3 DEF Range
    <3>5. s[i].path = p /\ s[i].at = b
      BY <3>4
    <3>6. [path |-> q, at |-> c] \in Range(lists[i])
      BY <2>4, <3>1, <3>2, <3>5
    <3> QED
      BY <2>8, <3>6
  <2>11. \A y, z \in Range(FlattenSeq(lists)) : y.path = z.path => y = z
    BY <2>7, <2>8
  <2>12. \A t : t \in Range(FlattenSeq(lists)) <=>
                  \E p \in [1..(j + 1) -> R], b \in Objects : t = [path |-> p, at |-> b] /\ Leads(pat, p, n, b)
    BY <2>9, <2>10
  <2> QED
    BY <2>2, <2>8, <2>11, <2>12 DEF TrailsListed, R
<1>5. k \in S
  <2> HIDE DEF S
  <2> QED
    BY <1>1, <1>3, <1>4, Induction
<1> QED
  BY <1>5 DEF level

\* The trails of every length that the pattern asks for.
LEMMA TrailsAreListed ==
  ASSUME GraphIsFine, NEW pat, IsHop(pat), pat.varlen, NEW n \in Objects
  PROVE  /\ Distinct(Trails(graph, pat, n))
         /\ \A t : t \in Range(Trails(graph, pat, n)) <=>
              \E p \in UNION {[1..k -> DOMAIN graph.rels] : k \in pat.min..pat.max}, b \in Objects :
                t = [path |-> p, at |-> b] /\ Leads(pat, p, n, b)
         /\ \A t, u \in Range(Trails(graph, pat, n)) : t.path = u.path => t = u
<1> DEFINE s == [i \in 1..(pat.max - pat.min + 1) |-> pat.min + i - 1]
           lists == [i \in DOMAIN s |-> TrailsOfLength(graph, pat, n)[s[i]]]
           R == DOMAIN graph.rels
<1>1. pat.min \in Nat /\ pat.max \in Nat
  BY DEF IsHop
<1>2. Trails(graph, pat, n) = FlattenSeq(lists)
  BY DEF Trails, FlatMap
<1>3. IsList(s)
  <2>1. CASE pat.max - pat.min + 1 \in Nat
    BY <2>1, FunctionIsList
  <2>2. CASE pat.max - pat.min + 1 \notin Nat
    <3>1. s = [i \in 1..0 |-> s[i]]
      BY <1>1, <2>2
    <3> QED
      BY <3>1, FunctionIsList
  <2> QED
    BY <2>1, <2>2
<1>4. /\ \A i \in DOMAIN s : s[i] \in 0..pat.max /\ s[i] \in pat.min..pat.max
      /\ \A k \in pat.min..pat.max : \E i \in DOMAIN s : s[i] = k
      /\ \A i, j \in DOMAIN s : s[i] = s[j] => i = j
  <2>1. ASSUME NEW k \in pat.min..pat.max PROVE \E i \in DOMAIN s : s[i] = k
    <3>1. k - pat.min + 1 \in DOMAIN s /\ s[k - pat.min + 1] = k
      BY <1>1
    <3> QED
      BY <3>1
  <2>2. /\ \A i \in DOMAIN s : s[i] \in 0..pat.max /\ s[i] \in pat.min..pat.max
        /\ \A i, j \in DOMAIN s : s[i] = s[j] => i = j
    BY <1>1
  <2> QED
    BY <2>1, <2>2
<1> HIDE DEF s
<1>5. \A i \in DOMAIN s : TrailsListed(lists[i], s[i], pat, n)
  BY <1>4, LevelsListed
<1>6. lists = [i \in DOMAIN s |-> lists[i]]
  OBVIOUS
<1> HIDE DEF lists
<1>7. ASSUME NEW i \in DOMAIN s, NEW j \in DOMAIN s, NEW t \in Range(lists[i]), NEW u \in Range(lists[j]),
             t.path = u.path
      PROVE  i = j /\ t = u
  <2>1. PICK p \in [1..s[i] -> R], b \in Objects : t = [path |-> p, at |-> b]
    BY <1>5 DEF TrailsListed
  <2>2. PICK q \in [1..s[j] -> R], c \in Objects : u = [path |-> q, at |-> c]
    BY <1>5 DEF TrailsListed
  <2>3. p = q
    BY <1>7, <2>1, <2>2
  <2>4. s[i] = s[j]
    <3>1. 1..s[i] = 1..s[j] /\ s[i] \in Nat /\ s[j] \in Nat
      BY <1>1, <1>4, <2>3
    <3> QED
      BY <3>1
  <2>5. i = j
    BY <1>4, <2>4
  <2> QED
    BY <1>5, <1>7, <2>5 DEF TrailsListed
<1>8. /\ Distinct(FlattenSeq(lists))
      /\ \A t : t \in Range(FlattenSeq(lists)) <=> \E i \in DOMAIN s : t \in Range(lists[i])
  <2>1. \A i, j \in DOMAIN s : i # j => Range(lists[i]) \intersect Range(lists[j]) = {}
    BY <1>7
  <2>2. \A i \in DOMAIN s : Distinct(lists[i])
    BY <1>5 DEF TrailsListed
  <2> QED
    BY <1>3, <1>6, <2>1, <2>2, MappedDistinct
<1>9. \A t : t \in Range(FlattenSeq(lists)) <=>
        \E i \in DOMAIN s : \E p \in [1..s[i] -> R], b \in Objects :
          t = [path |-> p, at |-> b] /\ Leads(pat, p, n, b)
  BY <1>5, <1>8 DEF TrailsListed
<1>10. \A p : p \in UNION {[1..k -> R] : k \in pat.min..pat.max}
                <=> \E i \in DOMAIN s : p \in [1..s[i] -> R]
  BY <1>4
<1>11. \A t : t \in Range(FlattenSeq(lists)) <=>
         \E p \in UNION {[1..k -> R] : k \in pat.min..pat.max}, b \in Objects :
           t = [path |-> p, at |-> b] /\ Leads(pat, p, n, b)
  BY <1>9, <1>10
<1>12. \A t, u \in Range(FlattenSeq(lists)) : t.path = u.path => t = u
  BY <1>7, <1>8
<1> QED
  BY <1>2, <1>8, <1>11, <1>12

\* What a hop may follow from n is what connects n with some node, once.
LEMMA CandidatesAreConnections ==
  ASSUME GraphIsFine, NEW pat, IsHop(pat), NEW n \in Objects
  PROVE  /\ Distinct(CandidateRels(graph, pat, n))
         /\ \A c : c \in Range(CandidateRels(graph, pat, n)) <=>
              \E v : \E b \in Objects : c = [value |-> v, at |-> b] /\ v \in Connections(pat, n, b)
<1>1. CASE pat.varlen
  <2> DEFINE s == Trails(graph, pat, n)
             f == [i \in DOMAIN s |-> [value |-> TrailRef(s[i].path), at |-> s[i].at]]
             lists == [i \in DOMAIN s |-> <<f[i]>>]
             Long == UNION {[1..k -> DOMAIN graph.rels] : k \in pat.min..pat.max}
  <2>1. /\ Distinct(s)
        /\ \A t : t \in Range(s) <=> \E p \in Long, b \in Objects : t = [path |-> p, at |-> b] /\ Leads(pat, p, n, b)
        /\ \A t, u \in Range(s) : t.path = u.path => t = u
    BY <1>1, TrailsAreListed
  <2>2. CandidateRels(graph, pat, n) = FlattenSeq(lists)
    BY <1>1 DEF CandidateRels, Image, FlatMap
  <2>3. \A v : \A b \in Objects : v \in Connections(pat, n, b) <=>
                    \E p \in Long : v = TrailRef(p) /\ Leads(pat, p, n, b)
    BY <1>1 DEF Connections
  <2> HIDE DEF s, Long
  <2>4. ASSUME NEW i \in DOMAIN s, NEW j \in DOMAIN s, f[i] = f[j] PROVE i = j
    <3>1. TrailRef(s[i].path) = TrailRef(s[j].path)
      <4>1. f[i].value = f[j].value
        BY <2>4
      <4> QED
        BY <4>1
    <3>2. s[i].path = s[j].path
      <4>1. TrailRef(s[i].path).trail = s[i].path /\ TrailRef(s[j].path).trail = s[j].path
        BY DEF TrailRef
      <4> QED
        BY <3>1, <4>1
    <3>3. s[i] \in Range(s) /\ s[j] \in Range(s)
      BY DEF Range
    <3>4. s[i] = s[j]
      BY <2>1, <3>2, <3>3
    <3> QED
      BY <2>1, <3>4 DEF Distinct
  <2>5. \A c : c \in {f[i] : i \in DOMAIN s} <=>
          \E t \in Range(s) : c = [value |-> TrailRef(t.path), at |-> t.at]
    BY DEF Range
  <2>6. \A c : c \in {f[i] : i \in DOMAIN s} <=>
          \E p \in Long, b \in Objects : c = [value |-> TrailRef(p), at |-> b] /\ Leads(pat, p, n, b)
    <3> HIDE DEF f
    <3>1. ASSUME NEW c, NEW t \in Range(s), c = [value |-> TrailRef(t.path), at |-> t.at]
          PROVE  \E p \in Long, b \in Objects : c = [value |-> TrailRef(p), at |-> b] /\ Leads(pat, p, n, b)
      <4>1. PICK p \in Long, b \in Objects : t = [path |-> p, at |-> b] /\ Leads(pat, p, n, b)
        BY <2>1
      <4>2. t.path = p /\ t.at = b
        BY <4>1
      <4> QED
        BY <3>1, <4>1, <4>2
    <3>2. ASSUME NEW p \in Long, NEW b \in Objects, Leads(pat, p, n, b)
          PROVE  \E t \in Range(s) : [value |-> TrailRef(p), at |-> b] = [value |-> TrailRef(t.path), at |-> t.at]
      <4>1. [path |-> p, at |-> b] \in Range(s)
        BY <2>1, <3>2
      <4> QED
        BY <4>1
    <3> QED
      BY <2>5, <3>1, <3>2
  <2> HIDE DEF f
  <2>7. Distinct(FlattenSeq(lists)) /\ Range(FlattenSeq(lists)) = {f[i] : i \in DOMAIN s}
    <3>1. IsList(s) /\ \A i, j \in DOMAIN s : f[i] = f[j] => i = j
      BY <2>1, <2>4 DEF Distinct
    <3>2. lists = [i \in DOMAIN s |-> <<f[i]>>]
      OBVIOUS
    <3> HIDE DEF lists
    <3> QED
      BY ONLY <3>1, <3>2, ImagedDistinct
  <2> HIDE DEF lists
  <2>8. \A c : c \in Range(CandidateRels(graph, pat, n)) <=>
          \E p \in Long, b \in Objects : c = [value |-> TrailRef(p), at |-> b] /\ Leads(pat, p, n, b)
    BY <2>2, <2>6, <2>7
  <2>9. \A c : c \in Range(CandidateRels(graph, pat, n)) <=>
          \E v : \E b \in Objects : c = [value |-> v, at |-> b] /\ v \in Connections(pat, n, b)
    BY <2>3, <2>8
  <2> QED
    BY <2>2, <2>7, <2>9
<1>2. CASE ~pat.varlen
  <2> DEFINE s == Hops(graph, pat, n)
             T == {r \in Range(s) : RelFits(graph, pat, r)}
             chosen == [i \in DOMAIN s |-> IF s[i] \in T THEN <<s[i]>> ELSE <<>>]
             kept == FlattenSeq(chosen)
             f == [i \in DOMAIN kept |-> [value |-> RelRef(kept[i]), at |-> FarEnd(graph, kept[i], n)]]
             lists == [i \in DOMAIN kept |-> <<f[i]>>]
  <2>1. Distinct(s) /\ \A r : r \in Range(s) <=> Follows(pat, r, n)
    BY HopsDistinct DEF GraphIsFine
  <2> HIDE DEF s
  <2>2. \A i \in DOMAIN s : s[i] \in T <=> RelFits(graph, pat, s[i])
    BY DEF Range
  <2>3. chosen = [i \in DOMAIN s |-> IF RelFits(graph, pat, s[i]) THEN <<s[i]>> ELSE <<>>]
    BY <2>2
  <2>4. kept = Select(s, LAMBDA r : RelFits(graph, pat, r))
    BY <2>3 DEF Select, FlatMap
  <2>5. Distinct(kept) /\ Range(kept) = Range(s) \intersect T
    <3> HIDE DEF T
    <3> QED
      BY <2>1, SelectedDistinct
  <2>6. \A r : r \in Range(kept) <=> Follows(pat, r, n) /\ RelFits(graph, pat, r)
    BY <2>1, <2>5
  <2> HIDE DEF T, chosen, kept
  <2>7. CandidateRels(graph, pat, n) = FlattenSeq(lists)
    BY <1>2, <2>4 DEF CandidateRels, Image, FlatMap, s
  <2>8. ASSUME NEW i \in DOMAIN kept, NEW j \in DOMAIN kept, f[i] = f[j] PROVE i = j
    <3>1. RelRef(kept[i]) = RelRef(kept[j])
      <4>1. f[i].value = f[j].value
        BY <2>8
      <4> QED
        BY <4>1
    <3>2. kept[i] = kept[j]
      <4>1. RelRef(kept[i]).rel = kept[i] /\ RelRef(kept[j]).rel = kept[j]
        BY DEF RelRef
      <4> QED
        BY <3>1, <4>1
    <3> QED
      BY <2>5, <3>2 DEF Distinct
  <2>9. \A c : c \in {f[i] : i \in DOMAIN kept} <=>
          \E r \in Range(kept) : c = [value |-> RelRef(r), at |-> FarEnd(graph, r, n)]
    BY DEF Range
  <2> HIDE DEF f
  <2>10. Distinct(FlattenSeq(lists)) /\ Range(FlattenSeq(lists)) = {f[i] : i \in DOMAIN kept}
    <3>1. IsList(kept) /\ \A i, j \in DOMAIN kept : f[i] = f[j] => i = j
      BY <2>5, <2>8 DEF Distinct
    <3>2. lists = [i \in DOMAIN kept |-> <<f[i]>>]
      OBVIOUS
    <3> HIDE DEF lists
    <3> QED
      BY ONLY <3>1, <3>2, ImagedDistinct
  <2> HIDE DEF lists
  <2>11. ASSUME NEW r \in DOMAIN graph.rels, NEW b
         PROVE  Leads(pat, <<r>>, n, b) <=> Follows(pat, r, n) /\ b = FarEnd(graph, r, n)
    <3>1. <<>> \in Seq(DOMAIN graph.rels) /\ Append(<<>>, r) = <<r>> /\ Range(<<>>) = {}
      BY SmallLists
    <3>2. \A a : Leads(pat, <<>>, n, a) <=> n = a
      BY LeadsNowhere
    <3>3. ASSUME Leads(pat, <<r>>, n, b) PROVE Follows(pat, r, n) /\ b = FarEnd(graph, r, n)
      <4> DEFINE p == <<>>
      <4>1. Leads(pat, Append(p, r), n, b) /\ p \in Seq(DOMAIN graph.rels)
        BY <3>1, <3>3
      <4>2. \A a : Leads(pat, p, n, a) <=> n = a
        BY <3>2
      <4> HIDE DEF p
      <4>3. PICK a : Leads(pat, p, n, a) /\ Follows(pat, r, a) /\ b = FarEnd(graph, r, a)
        BY <4>1, LeadsToTheLast
      <4> QED
        BY <4>2, <4>3
    <3>4. ASSUME Follows(pat, r, n), b = FarEnd(graph, r, n) PROVE Leads(pat, <<r>>, n, b)
      <4>1. Leads(pat, <<>>, n, n) /\ r \notin Range(<<>>)
        BY <3>1, <3>2
      <4>2. Leads(pat, Append(<<>>, r), n, b)
        BY <3>1, <3>4, <4>1, LeadsOneFurther
      <4> QED
        BY <3>1, <4>2
    <3> QED
      BY <3>3, <3>4
  <2>12. \A r : pat.prop \in {NoFilter, graph.prop[r]} <=> RelFits(graph, pat, r)
    BY DEF RelFits
  <2>13. \A v : \A b \in Objects : v \in Connections(pat, n, b) <=>
           \E r \in DOMAIN graph.rels : /\ v = RelRef(r) /\ Leads(pat, <<r>>, n, b)
                                        /\ pat.prop \in {NoFilter, graph.prop[r]}
    BY <1>2 DEF Connections
  <2>14. \A v : \A b \in Objects : v \in Connections(pat, n, b) <=>
           \E r \in Range(kept) : v = RelRef(r) /\ b = FarEnd(graph, r, n)
    <3>1. \A r \in Range(kept) : r \in DOMAIN graph.rels
      BY <2>6 DEF Follows
    <3> QED
      BY <2>6, <2>11, <2>12, <2>13, <3>1
  <2>15. \A c : c \in Range(CandidateRels(graph, pat, n)) <=>
          \E r \in Range(kept) : c = [value |-> RelRef(r), at |-> FarEnd(graph, r, n)]
    BY <2>7, <2>9, <2>10
  <2>16. \A c : c \in Range(CandidateRels(graph, pat, n)) <=>
          \E v : \E b \in Objects : c = [value |-> v, at |-> b] /\ v \in Connections(pat, n, b)
    <3>1. \A r \in Range(kept) : FarEnd(graph, r, n) \in Objects
      BY <2>6 DEF Follows, GraphIsFine, HasNodeObjects, Objects
    <3> QED
      BY <2>14, <2>15, <3>1
  <2> QED
    BY <2>7, <2>10, <2>16
<1> QED
  BY <1>1, <1>2

------------------------------------------------------------------------------
\* What a row is told by the places of a pattern.
\* Bindings: a set of records [at, var, value], no variable being NoVar; "at"
\* is the place of the pattern that gives the variable the value.
Vars(B) == {b.var : b \in B}

IsRow(row) == row = [x \in DOMAIN row |-> row[x]]

\* The bindings agree with the row and with each other; a variable stands for a
\* list of relationships only once.
Consistent(row, B) ==
  /\ \A b \in B : b.var \in DOMAIN row => row[b.var] = b.value /\ ~IsTrail(b.value)
  /\ \A b, c \in B : b.var = c.var /\ b # c => b.value = c.value /\ ~IsTrail(b.value)

\* r is the row with the bindings added.
Adds(r, row, B) ==
  /\ IsRow(r)
  /\ DOMAIN r = DOMAIN row \union Vars(B)
  /\ \A b \in B : r[b.var] = b.value
  /\ \A x \in DOMAIN row \ Vars(B) : r[x] = row[x]

\* There is one row with the bindings added.
LEMMA AddsOneRow ==
  ASSUME NEW row, NEW B, NEW r, NEW q, Adds(r, row, B), Adds(q, row, B)
  PROVE  r = q
<1>1. DOMAIN r = DOMAIN q
  BY DEF Adds
<1>2. \A x \in DOMAIN r : r[x] = q[x]
  BY DEF Adds, Vars
<1>3. r = [x \in DOMAIN r |-> r[x]] /\ q = [x \in DOMAIN q |-> q[x]]
  BY DEF Adds, IsRow
<1> QED
  BY <1>1, <1>2, <1>3

\* No bindings leave the row as it is.
LEMMA AddsNothing ==
  ASSUME NEW row, IsRow(row), NEW r
  PROVE  Adds(r, row, {}) <=> r = row
<1>1. Vars({}) = {}
  BY DEF Vars
<1>2. ASSUME r = row PROVE Adds(r, row, {})
  BY <1>1, <1>2 DEF Adds
<1>3. Adds(row, row, {})
  BY <1>1 DEF Adds
<1> QED
  BY <1>2, <1>3, AddsOneRow

\* Bindings that do not contradict each other can be added.
LEMMA SomethingAdds ==
  ASSUME NEW row, NEW B, \A b, c \in B : b.var = c.var => b.value = c.value
  PROVE  \E r : Adds(r, row, B)
<1> DEFINE r == [x \in DOMAIN row \union Vars(B) |->
                   IF x \in Vars(B) THEN (CHOOSE b \in B : b.var = x).value ELSE row[x]]
<1>1. IsRow(r) /\ DOMAIN r = DOMAIN row \union Vars(B)
  BY DEF IsRow
<1>2. \A x \in DOMAIN row \ Vars(B) : r[x] = row[x]
  OBVIOUS
<1>3. ASSUME NEW b \in B PROVE r[b.var] = b.value
  <2>1. b.var \in Vars(B)
    BY DEF Vars
  <2> DEFINE c == CHOOSE c \in B : c.var = b.var
  <2>2. c \in B /\ c.var = b.var
    OBVIOUS
  <2>3. r[b.var] = c.value
    BY <2>1
  <2> QED
    BY <2>2, <2>3
<1>4. Adds(r, row, B)
  BY <1>1, <1>2, <1>3 DEF Adds
<1> QED
  BY <1>4

\* Consistent bindings of a variable have one value.
LEMMA ConsistentValues ==
  ASSUME NEW row, NEW B, Consistent(row, B)
  PROVE  \A b, c \in B : b.var = c.var => b.value = c.value
BY DEF Consistent

\* Bindings made one set after the other.
LEMMA ConsistentInTurn ==
  ASSUME NEW row, NEW B, NEW P, NEW D, NEW r, Consistent(row, B), NEW E, E = B \union P, Adds(r, row, E),
         B \intersect D = {}, Vars(P) \intersect Vars(D) = {}, NEW C, C = B \union D
  PROVE  Consistent(row, C) <=> Consistent(r, D)
<1>1. /\ DOMAIN r = DOMAIN row \union Vars(B) \union Vars(P)
      /\ \A b \in B : r[b.var] = b.value
      /\ \A x \in DOMAIN row : x \in Vars(B) \/ x \in Vars(P) \/ r[x] = row[x]
  BY DEF Adds, Vars
<1>2. \A d \in D : d.var \notin Vars(P)
  BY DEF Vars
<1>3. ASSUME Consistent(row, C) PROVE Consistent(r, D)
  <2>1. ASSUME NEW d \in D, d.var \in DOMAIN r PROVE r[d.var] = d.value /\ ~IsTrail(d.value)
    <3>1. CASE d.var \in Vars(B)
      <4>1. PICK b \in B : b.var = d.var
        BY <3>1 DEF Vars
      <4>2. b # d
        OBVIOUS
      <4>3. b.value = d.value /\ ~IsTrail(b.value)
        BY <1>3, <4>1, <4>2 DEF Consistent
      <4> QED
        BY <1>1, <4>1, <4>3
    <3>2. CASE d.var \notin Vars(B)
      <4>1. d.var \in DOMAIN row /\ r[d.var] = row[d.var]
        BY <1>1, <1>2, <2>1, <3>2
      <4> QED
        BY <1>3, <4>1 DEF Consistent
    <3> QED
      BY <3>1, <3>2
  <2> QED
    BY <1>3, <2>1 DEF Consistent
<1>4. ASSUME Consistent(r, D) PROVE Consistent(row, C)
  <2>1. ASSUME NEW b \in B, NEW d \in D, b.var = d.var
        PROVE  b.value = d.value /\ ~IsTrail(b.value)
    <3>1. d.var \in DOMAIN r /\ r[d.var] = b.value
      BY <1>1, <2>1 DEF Vars
    <3> QED
      BY <1>4, <3>1 DEF Consistent
  <2>2. ASSUME NEW d \in D, d.var \in DOMAIN row PROVE row[d.var] = d.value /\ ~IsTrail(d.value)
    <3>1. r[d.var] = d.value /\ ~IsTrail(d.value)
      BY <1>1, <1>4, <2>2 DEF Consistent
    <3>2. CASE d.var \in Vars(B)
      <4>1. PICK b \in B : b.var = d.var
        BY <3>2 DEF Vars
      <4>2. row[b.var] = b.value
        BY <2>2, <4>1 DEF Consistent
      <4> QED
        BY <2>1, <3>1, <4>1, <4>2
    <3>3. CASE d.var \notin Vars(B)
      BY <1>1, <1>2, <2>2, <3>1, <3>3
    <3> QED
      BY <3>2, <3>3
  <2>3. \A b, c \in B : b.var = c.var /\ b # c => b.value = c.value /\ ~IsTrail(b.value)
    BY DEF Consistent
  <2>4. \A b, c \in D : b.var = c.var /\ b # c => b.value = c.value /\ ~IsTrail(b.value)
    BY <1>4 DEF Consistent
  <2>5. \A b, c \in C : b.var = c.var /\ b # c => b.value = c.value /\ ~IsTrail(b.value)
    <3> SUFFICES ASSUME NEW b \in C, NEW c \in C, b.var = c.var, b # c
                 PROVE  b.value = c.value /\ ~IsTrail(b.value)
      OBVIOUS
    <3> QED
      BY <2>1, <2>3, <2>4
  <2>6. \A b \in C : b.var \in DOMAIN row => row[b.var] = b.value /\ ~IsTrail(b.value)
    BY <2>2 DEF Consistent
  <2> QED
    BY <2>5, <2>6 DEF Consistent
<1> QED
  BY <1>3, <1>4

\* Bindings that are consistent together are so without the first of them.
LEMMA ConsistentNext ==
  ASSUME NEW row, NEW B, NEW D, NEW r, Consistent(row, B), Adds(r, row, B),
         B \intersect D = {}, NEW C, C = B \union D
  PROVE  Consistent(row, C) <=> Consistent(r, D)
<1>1. Vars({}) = {} /\ B = B \union {}
  BY DEF Vars
<1> QED
  BY <1>1, ConsistentInTurn

\* Adding bindings one set after the other adds them all.
LEMMA AddsInTurn ==
  ASSUME NEW row, NEW B, NEW D, NEW r, NEW q, Adds(r, row, B),
         \A b \in B, d \in D : b.var = d.var => b.value = d.value,
         NEW C, C = B \union D
  PROVE  Adds(q, r, D) <=> Adds(q, row, C)
<1>1. Vars(C) = Vars(B) \union Vars(D)
  BY DEF Vars
<1>2. /\ DOMAIN r = DOMAIN row \union Vars(B)
      /\ \A b \in B : r[b.var] = b.value
      /\ \A x \in DOMAIN row \ Vars(B) : r[x] = row[x]
  BY DEF Adds
<1>3. ASSUME Adds(q, r, D) PROVE Adds(q, row, C)
  <2>1. DOMAIN q = DOMAIN row \union Vars(C)
    BY <1>1, <1>2, <1>3 DEF Adds
  <2>2. ASSUME NEW b \in B PROVE q[b.var] = b.value
    <3>1. CASE b.var \in Vars(D)
      BY <1>3, <3>1 DEF Vars, Adds
    <3>2. CASE b.var \notin Vars(D)
      BY <1>2, <1>3, <3>2 DEF Vars, Adds
    <3> QED
      BY <3>1, <3>2
  <2>3. \A d \in D : q[d.var] = d.value
    BY <1>3 DEF Adds
  <2>4. \A x \in DOMAIN row \ Vars(C) : q[x] = row[x]
    BY <1>1, <1>2, <1>3 DEF Adds
  <2> QED
    BY <1>3, <2>1, <2>2, <2>3, <2>4 DEF Adds
<1>4. ASSUME Adds(q, row, C) PROVE Adds(q, r, D)
  <2>1. DOMAIN q = DOMAIN r \union Vars(D)
    BY <1>1, <1>2, <1>4 DEF Adds
  <2>2. \A x \in DOMAIN r \ Vars(D) : q[x] = r[x]
    <3> SUFFICES ASSUME NEW x \in DOMAIN r \ Vars(D) PROVE q[x] = r[x]
      OBVIOUS
    <3>1. CASE x \in Vars(B)
      BY <1>2, <1>4, <3>1 DEF Vars, Adds
    <3>2. CASE x \notin Vars(B)
      BY <1>1, <1>2, <1>4, <3>2 DEF Adds
    <3> QED
      BY <3>1, <3>2
  <2> QED
    BY <1>4, <2>1, <2>2 DEF Adds
<1> QED
  BY <1>3, <1>4

\* What binding one variable does.
Single(at, var, value) == {b \in {[at |-> at, var |-> var, value |-> value]} : b.var # NoVar}

\* One place of the pattern binds its variable, or nothing when it has none.
LEMMA SingleBinding ==
  ASSUME NEW at, NEW var, NEW value
  PROVE  /\ var = NoVar => Single(at, var, value) = {}
         /\ var # NoVar => /\ Single(at, var, value) = {[at |-> at, var |-> var, value |-> value]}
                           /\ Vars(Single(at, var, value)) = {var}
         /\ \A b \in Single(at, var, value) : b.at = at /\ b.var = var /\ b.value = value /\ var # NoVar
<1> DEFINE b == [at |-> at, var |-> var, value |-> value]
<1>1. b.at = at /\ b.var = var /\ b.value = value
  OBVIOUS
<1> HIDE DEF b
<1>2. Single(at, var, value) = {c \in {b} : c.var # NoVar}
  BY DEF Single, b
<1>3. var # NoVar => Single(at, var, value) = {b} /\ Vars(Single(at, var, value)) = {var}
  BY <1>1, <1>2 DEF Vars
<1> QED
  BY <1>1, <1>2, <1>3 DEF b

\* Bind gives the row with the variable bound when that is consistent, and else none.
LEMMA BindOne ==
  ASSUME NEW row, IsRow(row), NEW at, NEW var, NEW value,
         NEW D, D = Single(at, var, value)
  PROVE  /\ Distinct(Bind(row, var, value))
         /\ \A r : r \in Range(Bind(row, var, value)) <=> Consistent(row, D) /\ Adds(r, row, D)
<1> DEFINE b == [at |-> at, var |-> var, value |-> value]
<1>1. \A x : Distinct(<<x>>) /\ Range(<<x>>) = {x}
  BY SmallDistinct, SmallLists
<1>2. Distinct(<<>>) /\ Range(<<>>) = {}
  BY SmallDistinct, SmallLists
<1>3. CASE var = NoVar
  <2>1. D = {} /\ Bind(row, var, value) = <<row>>
    BY <1>3, SingleBinding DEF Bind
  <2>2. Consistent(row, D)
    BY <2>1 DEF Consistent
  <2>3. \A r : Adds(r, row, D) <=> r = row
    BY <2>1, AddsNothing
  <2> QED
    BY <1>1, <2>1, <2>2, <2>3
<1>4. CASE var # NoVar
  <2>1. D = {b} /\ Vars(D) = {var} /\ b.var = var /\ b.value = value
    BY <1>4, SingleBinding
  <2> HIDE DEF b
  <2>2. Consistent(row, D) <=> (var \in DOMAIN row => row[var] = value /\ ~IsTrail(value))
    BY <2>1 DEF Consistent
  <2>3. CASE var \notin DOMAIN row
    <3>1. Bind(row, var, value) = <<Assign(row, var, value)>>
      BY <1>4, <2>3 DEF Bind, Bound
    <3>2. Adds(Assign(row, var, value), row, D)
      BY <2>1 DEF Adds, Assign, IsRow
    <3>3. \A r : Adds(r, row, D) <=> r = Assign(row, var, value)
      BY <3>2, AddsOneRow
    <3> QED
      BY <1>1, <2>2, <2>3, <3>1, <3>3
  <2>4. CASE var \in DOMAIN row /\ row[var] = value /\ ~IsTrail(value)
    <3>1. Bind(row, var, value) = <<row>>
      BY <1>4, <2>4 DEF Bind, Bound
    <3>2. Adds(row, row, D)
      BY <2>1, <2>4 DEF Adds
    <3>3. \A r : Adds(r, row, D) <=> r = row
      BY <3>2, AddsOneRow
    <3> QED
      BY <1>1, <2>2, <2>4, <3>1, <3>3
  <2>5. CASE var \in DOMAIN row /\ ~(row[var] = value /\ ~IsTrail(value))
    <3>1. Bind(row, var, value) = <<>>
      BY <1>4, <2>5 DEF Bind, Bound
    <3> QED
      BY <1>2, <2>2, <2>5, <3>1
  <2> QED
    BY <2>3, <2>4, <2>5
<1> QED
  BY <1>3, <1>4

\* A relationship pattern and then a node pattern, bound.
LEMMA BindTwo ==
  ASSUME NEW row, IsRow(row), NEW at, NEW var, NEW value, NEW D, D = Single(at, var, value),
         NEW to, NEW name, NEW thing, NEW E, E = Single(to, name, thing), D \intersect E = {}
  PROVE  /\ Distinct(BindEach(Bind(row, var, value), name, thing))
         /\ \A r : r \in Range(BindEach(Bind(row, var, value), name, thing)) <=>
                     Consistent(row, D \union E) /\ Adds(r, row, D \union E)
<1> DEFINE s == Bind(row, var, value)
           lists == [i \in DOMAIN s |-> Bind(s[i], name, thing)]
<1>1. Distinct(s) /\ \A r : r \in Range(s) <=> Consistent(row, D) /\ Adds(r, row, D)
  BY BindOne
<1>2. BindEach(s, name, thing) = FlattenSeq(lists)
  BY DEF BindEach, FlatMap
<1> HIDE DEF s
<1>3. \A i, j \in DOMAIN s : i = j
  <2>1. \A i \in DOMAIN s : s[i] \in Range(s)
    BY DEF Range
  <2>2. \A q, r \in Range(s) : q = r
    BY <1>1, AddsOneRow
  <2> QED
    BY <1>1, <2>1, <2>2 DEF Distinct
<1>4. ASSUME NEW i \in DOMAIN s
      PROVE  /\ Distinct(lists[i])
             /\ \A r : r \in Range(lists[i]) <=> Consistent(s[i], E) /\ Adds(r, s[i], E)
  <2>1. IsRow(s[i])
    <3>1. s[i] \in Range(s)
      BY DEF Range
    <3> QED
      BY <1>1, <3>1 DEF Adds
  <2> QED
    BY <2>1, BindOne
<1>5. lists = [i \in DOMAIN s |-> lists[i]]
  OBVIOUS
<1> HIDE DEF lists
<1>6. /\ Distinct(FlattenSeq(lists))
      /\ \A r : r \in Range(FlattenSeq(lists)) <=> \E i \in DOMAIN s : r \in Range(lists[i])
  <2>1. IsList(s) /\ \A i, j \in DOMAIN s : i # j => Range(lists[i]) \intersect Range(lists[j]) = {}
    BY <1>1, <1>3 DEF Distinct
  <2> QED
    BY <1>4, <1>5, <2>1, MappedDistinct
<1>7. \A r : r \in Range(FlattenSeq(lists)) <=>
               \E q : /\ Consistent(row, D) /\ Adds(q, row, D) /\ Consistent(q, E) /\ Adds(r, q, E)
  <2>1. \A q : q \in Range(s) <=> \E i \in DOMAIN s : s[i] = q
    BY DEF Range
  <2> QED
    BY <1>1, <1>4, <1>6, <2>1
<1>8. ASSUME NEW q, Consistent(row, D), Adds(q, row, D)
      PROVE  /\ Consistent(row, D \union E) <=> Consistent(q, E)
             /\ Consistent(q, E) => \A r : Adds(r, q, E) <=> Adds(r, row, D \union E)
  <2>1. Vars({}) = {} /\ D \union {} = D
    BY DEF Vars
  <2>2. Consistent(row, D \union E) <=> Consistent(q, E)
    BY <1>8, <2>1, ConsistentInTurn
  <2>3. ASSUME Consistent(q, E), NEW r PROVE Adds(r, q, E) <=> Adds(r, row, D \union E)
    <3>1. \A b \in D, e \in E : b.var = e.var => b.value = e.value
      BY <2>2, <2>3, ConsistentValues
    <3> QED
      BY <1>8, <3>1, AddsInTurn
  <2> QED
    BY <2>2, <2>3
<1>9. ASSUME Consistent(row, D \union E) PROVE Consistent(row, D) /\ \E q : Adds(q, row, D)
  <2>1. Consistent(row, D)
    BY <1>9 DEF Consistent
  <2> QED
    BY <2>1, ConsistentValues, SomethingAdds
<1>10. \A r : r \in Range(FlattenSeq(lists)) <=>
               Consistent(row, D \union E) /\ Adds(r, row, D \union E)
  BY <1>7, <1>8, <1>9
<1> QED
  BY <1>2, <1>6, <1>10 DEF s

\* The partial matches of some rows at one node.
LEMMA AtNodeRows ==
  ASSUME NEW rows, Distinct(rows), NEW n, NEW acc
  PROVE  /\ Distinct(AtNode(rows, n, acc))
         /\ \A m : m \in Range(AtNode(rows, n, acc)) <=>
                     m.row \in Range(rows) /\ m = [row |-> m.row, at |-> n, acc |-> acc]
<1> DEFINE f == [i \in DOMAIN rows |-> [row |-> rows[i], at |-> n, acc |-> acc]]
           lists == [i \in DOMAIN rows |-> <<f[i]>>]
<1>1. AtNode(rows, n, acc) = FlattenSeq(lists)
  BY DEF AtNode, Image, FlatMap
<1>2. \A i, j \in DOMAIN rows : f[i] = f[j] => i = j
  <2> SUFFICES ASSUME NEW i \in DOMAIN rows, NEW j \in DOMAIN rows, f[i] = f[j] PROVE i = j
    OBVIOUS
  <2>1. f[i].row = rows[i] /\ f[j].row = rows[j]
    OBVIOUS
  <2> QED
    BY <2>1 DEF Distinct
<1>3. \A m : m \in {f[i] : i \in DOMAIN rows} <=>
               m.row \in Range(rows) /\ m = [row |-> m.row, at |-> n, acc |-> acc]
  <2>1. \A m : m \in {f[i] : i \in DOMAIN rows} <=>
                 \E r \in Range(rows) : m = [row |-> r, at |-> n, acc |-> acc]
    BY DEF Range
  <2> QED
    BY <2>1
<1> HIDE DEF f
<1>4. Distinct(FlattenSeq(lists)) /\ Range(FlattenSeq(lists)) = {f[i] : i \in DOMAIN rows}
  <2>1. IsList(rows) /\ lists = [i \in DOMAIN rows |-> <<f[i]>>]
    BY DEF Distinct
  <2> HIDE DEF lists
  <2> QED
    BY <1>2, <2>1, ImagedDistinct
<1> QED
  BY <1>1, <1>3, <1>4

\* s is p with a and b after it.
TwoAfter(s, p, a, b) == s = p \o <<a, b>>

\* What two more elements of a path are.
LEMMA TwoMore ==
  ASSUME NEW p, IsList(p), NEW q, IsList(q), NEW a, NEW b, NEW c, NEW d,
         NEW s, TwoAfter(s, p, a, b), TwoAfter(s, q, c, d)
  PROVE  p = q /\ a = c /\ b = d
<1>1. p \o <<a, b>> = q \o <<c, d>>
  BY DEF TwoAfter
<1> DEFINE S == Range(p) \union Range(q) \union {a, b, c, d}
<1>2. p \in Seq(S) /\ q \in Seq(S)
  <2>1. p \in Seq(Range(p)) /\ q \in Seq(Range(q))
    BY DEF IsList
  <2>2. Range(p) \subseteq S /\ Range(q) \subseteq S
    OBVIOUS
  <2> HIDE DEF S
  <2> QED
    BY <2>1, <2>2
<1>3. a \in S /\ b \in S /\ c \in S /\ d \in S
  OBVIOUS
<1> HIDE DEF S
<1>4. /\ Len(p) \in Nat /\ Len(p \o <<a, b>>) = Len(p) + 2
      /\ \A i \in 1..Len(p) : (p \o <<a, b>>)[i] = p[i]
      /\ (p \o <<a, b>>)[Len(p) + 1] = a /\ (p \o <<a, b>>)[Len(p) + 2] = b
  BY <1>2, <1>3
<1>5. /\ Len(q) \in Nat /\ Len(q \o <<c, d>>) = Len(q) + 2
      /\ \A i \in 1..Len(q) : (q \o <<c, d>>)[i] = q[i]
      /\ (q \o <<c, d>>)[Len(q) + 1] = c /\ (q \o <<c, d>>)[Len(q) + 2] = d
  BY <1>2, <1>3
<1>6. Len(p) = Len(q)
  BY <1>1, <1>4, <1>5
<1>7. \A i \in 1..Len(p) : p[i] = q[i]
  BY <1>1, <1>4, <1>5, <1>6
<1>8. p = [i \in 1..Len(p) |-> p[i]] /\ q = [i \in 1..Len(q) |-> q[i]]
  BY ListFunction
<1>9. p = q
  BY <1>6, <1>7, <1>8
<1> QED
  BY <1>1, <1>4, <1>5, <1>6, <1>9

\* What the j-th hop of the i-th path and the node it leads to give values to.
HopBindings(i, path, j, v, n) ==
  Single(<<i, "hop", j>>, path.hops[j].var, v)
    \union Single(<<i, "node", j + 1>>, path.nodes[j + 1].var, NodeRef(n))

\* y is m with the j-th hop.
HopTaken(y, m, i, path, j, v, n) ==
  /\ v \in Connections(path.hops[j], m.at, n) /\ NodeFits(path.nodes[j + 1], n)
  /\ Consistent(m.row, HopBindings(i, path, j, v, n))
  /\ Adds(y.row, m.row, HopBindings(i, path, j, v, n))
  /\ y = [row |-> y.row, at |-> n, acc |-> m.acc \o <<v, NodeRef(n)>>]

\* A partial match is extended in every way the hop may be taken, once.
LEMMA ExtendedByHop ==
  ASSUME GraphIsFine, NEW path, NEW j, IsHop(path.hops[j]), NEW m, m.at \in Objects,
         IsRow(m.row), IsList(m.acc), NEW i,
         NEW rp, rp = path.hops[j], NEW np, np = path.nodes[j + 1]
  PROVE  /\ Distinct(ExtendByHop(graph, rp, np, m))
         /\ \A y : y \in Range(ExtendByHop(graph, rp, np, m)) <=>
              \E v : \E n \in Objects : HopTaken(y, m, i, path, j, v, n)
<1> DEFINE s == CandidateRels(graph, rp, m.at)
           reached(c) == IF ~NodeMatches(graph, np, c.at) THEN <<>>
                         ELSE BindEach(Bind(m.row, rp.var, c.value), np.var, NodeRef(c.at))
           lists == [k \in DOMAIN s |->
                       AtNode(reached(s[k]), s[k].at, m.acc \o <<s[k].value, NodeRef(s[k].at)>>)]
           Fits(y, v, n) == /\ NodeFits(np, n)
                            /\ Consistent(m.row, HopBindings(i, path, j, v, n))
                            /\ Adds(y.row, m.row, HopBindings(i, path, j, v, n))
                            /\ y = [row |-> y.row, at |-> n, acc |-> m.acc \o <<v, NodeRef(n)>>]
<1>1. /\ Distinct(s)
      /\ \A c : c \in Range(s) <=>
           \E v : \E b \in Objects : c = [value |-> v, at |-> b] /\ v \in Connections(rp, m.at, b)
  BY CandidatesAreConnections
<1>2. ExtendByHop(graph, rp, np, m) = FlattenSeq(lists)
  BY DEF ExtendByHop, FlatMap
<1> HIDE DEF s
<1>3. \A n : NodeMatches(graph, np, n) <=> NodeFits(np, n)
  BY DEF NodeMatches, NodeFits
<1>4. ASSUME NEW c
      PROVE  /\ Distinct(reached(c))
             /\ \A r : r \in Range(reached(c)) <=>
                  /\ NodeFits(np, c.at)
                  /\ Consistent(m.row, HopBindings(i, path, j, c.value, c.at))
                  /\ Adds(r, m.row, HopBindings(i, path, j, c.value, c.at))
  <2>1. CASE NodeFits(np, c.at)
    <3> DEFINE D == Single(<<i, "hop", j>>, rp.var, c.value)
               E == Single(<<i, "node", j + 1>>, np.var, NodeRef(c.at))
    <3>1. D \intersect E = {}
      <4>1. \A b \in D : b.at = <<i, "hop", j>>
        BY SingleBinding
      <4>2. \A b \in E : b.at = <<i, "node", j + 1>>
        BY SingleBinding
      <4>3. <<i, "hop", j>> # <<i, "node", j + 1>>
        OBVIOUS
      <4> HIDE DEF D, E
      <4> QED
        BY <4>1, <4>2, <4>3
    <3>2. HopBindings(i, path, j, c.value, c.at) = D \union E
      BY DEF HopBindings
    <3>3. reached(c) = BindEach(Bind(m.row, rp.var, c.value), np.var, NodeRef(c.at))
      BY <1>3, <2>1
    <3>4. D = Single(<<i, "hop", j>>, rp.var, c.value) /\ E = Single(<<i, "node", j + 1>>, np.var, NodeRef(c.at))
      OBVIOUS
    <3> HIDE DEF D, E, reached
    <3>5. /\ Distinct(BindEach(Bind(m.row, rp.var, c.value), np.var, NodeRef(c.at)))
          /\ \A r : r \in Range(BindEach(Bind(m.row, rp.var, c.value), np.var, NodeRef(c.at))) <=>
               Consistent(m.row, D \union E) /\ Adds(r, m.row, D \union E)
      <4> HIDE DEF s, lists, Fits
      <4>1. Distinct(BindEach(Bind(m.row, rp.var, c.value), np.var, NodeRef(c.at)))
        BY <3>1, <3>4, BindTwo
      <4>2. \A r : r \in Range(BindEach(Bind(m.row, rp.var, c.value), np.var, NodeRef(c.at))) <=>
               Consistent(m.row, D \union E) /\ Adds(r, m.row, D \union E)
        BY <3>1, <3>4, BindTwo
      <4> QED
        BY <4>1, <4>2
    <3> QED
      BY <2>1, <3>2, <3>3, <3>5
  <2>2. CASE ~NodeFits(np, c.at)
    <3>1. reached(c) = <<>>
      BY <1>3, <2>2
    <3>2. Distinct(<<>>) /\ Range(<<>>) = {}
      BY SmallDistinct, SmallLists
    <3> HIDE DEF reached
    <3> QED
      BY <2>2, <3>1, <3>2
  <2> QED
    BY <2>1, <2>2
<1> HIDE DEF reached
<1>5. ASSUME NEW k \in DOMAIN s
      PROVE  /\ Distinct(lists[k])
             /\ \A y : y \in Range(lists[k]) <=> Fits(y, s[k].value, s[k].at)
  <2> DEFINE l == m.acc \o <<s[k].value, NodeRef(s[k].at)>>
             rows == reached(s[k])
  <2>1. lists[k] = AtNode(rows, s[k].at, l)
    OBVIOUS
  <2>2. Distinct(rows)
    BY <1>4
  <2> HIDE DEF lists, rows, l
  <2>3. /\ Distinct(AtNode(rows, s[k].at, l))
        /\ \A y : y \in Range(AtNode(rows, s[k].at, l)) <=>
             y.row \in Range(rows) /\ y = [row |-> y.row, at |-> s[k].at, acc |-> l]
    BY <2>2, AtNodeRows
  <2> QED
    BY <1>4, <2>1, <2>3 DEF rows, l
<1>6. lists = [k \in DOMAIN s |-> lists[k]]
  OBVIOUS
<1> HIDE DEF lists
<1>7. \A k \in DOMAIN s : s[k] = [value |-> s[k].value, at |-> s[k].at]
  <2>1. \A k \in DOMAIN s : s[k] \in Range(s)
    BY DEF Range
  <2> QED
    BY <1>1, <2>1
<1>8. ASSUME NEW k \in DOMAIN s, NEW l \in DOMAIN s, NEW y, y \in Range(lists[k]), y \in Range(lists[l])
      PROVE  k = l
  <2>1. \A h \in DOMAIN s : y \in Range(lists[h]) =>
          y.at = s[h].at /\ y.acc = m.acc \o <<s[h].value, NodeRef(s[h].at)>>
    <3> SUFFICES ASSUME NEW h \in DOMAIN s, y \in Range(lists[h])
                 PROVE  y.at = s[h].at /\ y.acc = m.acc \o <<s[h].value, NodeRef(s[h].at)>>
      OBVIOUS
    <3>1. \E r : y = [row |-> r, at |-> s[h].at, acc |-> m.acc \o <<s[h].value, NodeRef(s[h].at)>>]
      BY <1>5
    <3> QED
      BY <3>1
  <2>2. /\ y.at = s[k].at /\ y.acc = m.acc \o <<s[k].value, NodeRef(s[k].at)>>
        /\ y.at = s[l].at /\ y.acc = m.acc \o <<s[l].value, NodeRef(s[l].at)>>
    BY <1>8, <2>1
  <2>3. s[k].value = s[l].value
    <3>1. TwoAfter(y.acc, m.acc, s[k].value, NodeRef(s[k].at)) /\ TwoAfter(y.acc, m.acc, s[l].value, NodeRef(s[l].at))
      BY <2>2 DEF TwoAfter
    <3> QED
      BY <3>1, TwoMore
  <2>4. s[k] = s[l]
    BY <1>7, <2>2, <2>3
  <2> QED
    BY <1>1, <2>4 DEF Distinct
<1>9. /\ Distinct(FlattenSeq(lists))
      /\ \A y : y \in Range(FlattenSeq(lists)) <=> \E k \in DOMAIN s : y \in Range(lists[k])
  <2>1. \A k, l \in DOMAIN s : k # l => Range(lists[k]) \intersect Range(lists[l]) = {}
    BY <1>8
  <2>2. IsList(s) /\ \A k \in DOMAIN s : Distinct(lists[k])
    BY <1>1, <1>5 DEF Distinct
  <2> QED
    BY <1>6, <2>1, <2>2, MappedDistinct
<1>10. \A y : y \in Range(FlattenSeq(lists)) <=>
         \E c \in Range(s) : Fits(y, c.value, c.at)
  <2>1. \A c : c \in Range(s) <=> \E k \in DOMAIN s : s[k] = c
    BY DEF Range
  <2> HIDE DEF Fits
  <2> QED
    BY <1>5, <1>9, <2>1
<1>11. \A y : (\E c \in Range(s) : Fits(y, c.value, c.at)) <=>
              \E v : \E n \in Objects : v \in Connections(rp, m.at, n) /\ Fits(y, v, n)
  <2> HIDE DEF Fits
  <2>1. ASSUME NEW y, NEW c \in Range(s), Fits(y, c.value, c.at)
        PROVE  \E v : \E n \in Objects : v \in Connections(rp, m.at, n) /\ Fits(y, v, n)
    <3>1. PICK v : \E b \in Objects : c = [value |-> v, at |-> b] /\ v \in Connections(rp, m.at, b)
      BY <1>1
    <3>2. PICK b \in Objects : c = [value |-> v, at |-> b] /\ v \in Connections(rp, m.at, b)
      BY <3>1
    <3>3. c.value = v /\ c.at = b
      BY <3>2
    <3> QED
      BY <2>1, <3>2, <3>3
  <2>2. ASSUME NEW y, NEW v, NEW n \in Objects, v \in Connections(rp, m.at, n), Fits(y, v, n)
        PROVE  \E c \in Range(s) : Fits(y, c.value, c.at)
    <3> DEFINE c == [value |-> v, at |-> n]
    <3>1. c \in Range(s) /\ c.value = v /\ c.at = n
      BY <1>1, <2>2
    <3> HIDE DEF c
    <3> QED
      BY <2>2, <3>1
  <2> QED
    BY <2>1, <2>2
<1>12. \A y : y \in Range(ExtendByHop(graph, rp, np, m)) <=>
              \E v : \E n \in Objects : v \in Connections(rp, m.at, n) /\ Fits(y, v, n)
  <2> HIDE DEF Fits
  <2> QED
    BY <1>2, <1>10, <1>11
<1>13. \A y, v, n : v \in Connections(rp, m.at, n) /\ Fits(y, v, n) <=> HopTaken(y, m, i, path, j, v, n)
  BY DEF HopTaken
<1> HIDE DEF Fits
<1> QED
  BY <1>2, <1>9, <1>12, <1>13

------------------------------------------------------------------------------
\* Paths.
\* The values along a path of k hops: node, relationship, node and so on.
Line(ns, hs, k) ==
  [q \in 1..(2 * k + 1) |-> IF q % 2 = 1 THEN NodeRef(ns[(q + 1) \div 2]) ELSE hs[q \div 2]]

\* A path has nodes at its odd places and what connects them between.
LEMMA LineValues ==
  ASSUME NEW k \in Nat, NEW ns, NEW hs
  PROVE  /\ IsList(Line(ns, hs, k)) /\ Len(Line(ns, hs, k)) = 2 * k + 1
         /\ \A j \in 1..(k + 1) : 2 * j - 1 \in 1..(2 * k + 1) /\ Line(ns, hs, k)[2 * j - 1] = NodeRef(ns[j])
         /\ \A j \in 1..k : 2 * j \in 1..(2 * k + 1) /\ Line(ns, hs, k)[2 * j] = hs[j]
         /\ \A q \in 1..(2 * k + 1) : \/ \E j \in 1..(k + 1) : q = 2 * j - 1
                                      \/ \E j \in 1..k : q = 2 * j
<1> DEFINE l == Line(ns, hs, k)
<1>1. l = [q \in 1..(2 * k + 1) |-> l[q]]
  BY DEF Line
<1>2. IsList(l) /\ Len(l) = 2 * k + 1
  <2>1. 2 * k + 1 \in Nat
    OBVIOUS
  <2> HIDE DEF l
  <2> QED
    BY <1>1, <2>1, FunctionIsList
<1>3. ASSUME NEW j \in 1..(k + 1)
      PROVE  2 * j - 1 \in 1..(2 * k + 1) /\ l[2 * j - 1] = NodeRef(ns[j])
  <2>1. 2 * j - 1 \in 1..(2 * k + 1) /\ (2 * j - 1) % 2 = 1 /\ ((2 * j - 1) + 1) \div 2 = j
    OBVIOUS
  <2> QED
    BY <2>1 DEF Line
<1>4. ASSUME NEW j \in 1..k
      PROVE  2 * j \in 1..(2 * k + 1) /\ l[2 * j] = hs[j]
  <2>1. 2 * j \in 1..(2 * k + 1) /\ (2 * j) % 2 # 1 /\ (2 * j) \div 2 = j
    OBVIOUS
  <2> QED
    BY <2>1 DEF Line
<1>5. ASSUME NEW q \in 1..(2 * k + 1)
      PROVE  \/ \E j \in 1..(k + 1) : q = 2 * j - 1
             \/ \E j \in 1..k : q = 2 * j
  <2>1. CASE q % 2 = 1
    <3>1. (q + 1) \div 2 \in 1..(k + 1) /\ q = 2 * ((q + 1) \div 2) - 1
      BY <2>1
    <3> QED
      BY <3>1
  <2>2. CASE q % 2 # 1
    <3>1. q \div 2 \in 1..k /\ q = 2 * (q \div 2)
      BY <2>2
    <3> QED
      BY <3>1
  <2> QED
    BY <2>1, <2>2
<1> QED
  BY <1>2, <1>3, <1>4, <1>5

\* A path determines its nodes and what connects them.
LEMMA LineOnce ==
  ASSUME NEW k \in Nat, NEW ns, NEW hs, NEW ms, NEW gs,
         ns = [j \in 1..(k + 1) |-> ns[j]], ms = [j \in 1..(k + 1) |-> ms[j]],
         hs = [j \in 1..k |-> hs[j]], gs = [j \in 1..k |-> gs[j]],
         Line(ns, hs, k) = Line(ms, gs, k)
  PROVE  ns = ms /\ hs = gs
<1> DEFINE l == Line(ns, hs, k)
           m == Line(ms, gs, k)
<1>1. /\ \A j \in 1..(k + 1) : l[2 * j - 1] = NodeRef(ns[j])
      /\ \A j \in 1..k : l[2 * j] = hs[j]
  BY ONLY k \in Nat, LineValues
<1>2. /\ \A j \in 1..(k + 1) : m[2 * j - 1] = NodeRef(ms[j])
      /\ \A j \in 1..k : m[2 * j] = gs[j]
  BY ONLY k \in Nat, LineValues
<1>3. l = m
  OBVIOUS
<1> HIDE DEF l, m
<1>4. ASSUME NEW a, NEW b, NodeRef(a) = NodeRef(b) PROVE a = b
  <2>1. NodeRef(a).node = a /\ NodeRef(b).node = b
    BY DEF NodeRef
  <2> QED
    BY <1>4, <2>1
<1>5. \A j \in 1..(k + 1) : ns[j] = ms[j]
  <2> TAKE j \in 1..(k + 1)
  <2>1. NodeRef(ns[j]) = NodeRef(ms[j])
    BY <1>1, <1>2, <1>3
  <2> QED
    BY <1>4, <2>1
<1>6. \A j \in 1..k : hs[j] = gs[j]
  BY <1>1, <1>2, <1>3
<1> QED
  BY <1>5, <1>6

\* The h-th hop comes after k hops; it adds a relationship and a node.
Succ(k, h) == k \in Nat /\ h = k + 1

MoreRels(hs, v, h) == [j \in 1..h |-> IF j = h THEN v ELSE hs[j]]

MoreNodes(ns, n, h) == [j \in 1..(h + 1) |-> IF j = h + 1 THEN n ELSE ns[j]]

\* A path of one hop more.
LEMMA LineGrows ==
  ASSUME NEW k, NEW ns, NEW hs, NEW v, NEW n, NEW ms, NEW gs, NEW h, Succ(k, h),
         ms = MoreNodes(ns, n, h), gs = MoreRels(hs, v, h)
  PROVE  Line(ms, gs, h) = Line(ns, hs, k) \o <<v, NodeRef(n)>>
<1>1. k \in Nat /\ h = k + 1
  BY DEF Succ
<1> USE <1>1
<1>2. /\ ms = [j \in 1..(h + 1) |-> IF j = h + 1 THEN n ELSE ns[j]]
      /\ gs = [j \in 1..h |-> IF j = h THEN v ELSE hs[j]]
  BY DEF MoreNodes, MoreRels
<1> DEFINE l == Line(ns, hs, k)
           x == NodeRef(n)
           m == Line(ms, gs, h)
<1>3. /\ IsList(l) /\ Len(l) = 2 * k + 1
      /\ \A j \in 1..(k + 1) : 2 * j - 1 \in 1..(2 * k + 1) /\ l[2 * j - 1] = NodeRef(ns[j])
      /\ \A j \in 1..k : 2 * j \in 1..(2 * k + 1) /\ l[2 * j] = hs[j]
  BY LineValues
<1>4. /\ IsList(m) /\ Len(m) = 2 * h + 1
      /\ \A j \in 1..(h + 1) : 2 * j - 1 \in 1..(2 * h + 1) /\ m[2 * j - 1] = NodeRef(ms[j])
      /\ \A j \in 1..h : 2 * j \in 1..(2 * h + 1) /\ m[2 * j] = gs[j]
      /\ \A q \in 1..(2 * h + 1) : \/ \E j \in 1..(h + 1) : q = 2 * j - 1
                                   \/ \E j \in 1..h : q = 2 * j
  <2>1. h \in Nat
    OBVIOUS
  <2> QED
    BY ONLY <2>1, LineValues
<1> DEFINE S == Range(l) \union {v, x}
<1>5. l \in Seq(S) /\ v \in S /\ x \in S
  <2>1. l \in Seq(Range(l))
    BY <1>3 DEF IsList
  <2> HIDE DEF l
  <2> QED
    BY <2>1
<1> HIDE DEF S, l, m
<1>6. /\ l \o <<v, x>> \in Seq(S) /\ Len(l \o <<v, x>>) = 2 * h + 1
      /\ \A q \in 1..(2 * k + 1) : (l \o <<v, x>>)[q] = l[q]
      /\ (l \o <<v, x>>)[2 * k + 2] = v /\ (l \o <<v, x>>)[2 * k + 3] = x
  <2>1. Len(l) = 2 * k + 1 /\ 2 * k + 1 \in Nat
    BY <1>3
  <2>2. \A u, w \in S : /\ l \o <<u, w>> \in Seq(S) /\ Len(l \o <<u, w>>) = Len(l) + 2
                        /\ \A q \in 1..Len(l) : (l \o <<u, w>>)[q] = l[q]
                        /\ (l \o <<u, w>>)[Len(l) + 1] = u /\ (l \o <<u, w>>)[Len(l) + 2] = w
    BY <1>5
  <2> QED
    BY <1>5, <2>1, <2>2
<1>7. ASSUME NEW q \in 1..(2 * h + 1) PROVE m[q] = (l \o <<v, x>>)[q]
  <2>1. ASSUME NEW j \in 1..(h + 1), q = 2 * j - 1 PROVE m[q] = (l \o <<v, x>>)[q]
    <3>1. m[q] = NodeRef(ms[j])
      BY <1>4, <2>1
    <3>2. CASE j = h + 1
      <4>1. ms[j] = n /\ q = 2 * k + 3
        BY <1>2, <2>1, <3>2
      <4> QED
        BY <1>6, <3>1, <4>1
    <3>3. CASE j # h + 1
      <4>1. j \in 1..(k + 1) /\ ms[j] = ns[j] /\ q \in 1..(2 * k + 1)
        BY <1>2, <2>1, <3>3
      <4>2. l[q] = NodeRef(ns[j])
        BY <1>3, <2>1, <4>1
      <4> QED
        BY <1>6, <3>1, <4>1, <4>2
    <3> QED
      BY <3>2, <3>3
  <2>2. ASSUME NEW j \in 1..h, q = 2 * j PROVE m[q] = (l \o <<v, x>>)[q]
    <3>1. m[q] = gs[j]
      BY <1>4, <2>2
    <3>2. CASE j = h
      <4>1. gs[j] = v /\ q = 2 * k + 2
        BY <1>2, <2>2, <3>2
      <4> QED
        BY <1>6, <3>1, <4>1
    <3>3. CASE j # h
      <4>1. j \in 1..k /\ gs[j] = hs[j] /\ q \in 1..(2 * k + 1)
        BY <1>2, <2>2, <3>3
      <4>2. l[q] = hs[j]
        BY <1>3, <2>2, <4>1
      <4> QED
        BY <1>6, <3>1, <4>1, <4>2
    <3> QED
      BY <3>2, <3>3
  <2> QED
    BY <1>4, <2>1, <2>2
<1>8. m = [q \in 1..(2 * h + 1) |-> m[q]]
  BY <1>4, ListFunction
<1>9. l \o <<v, x>> = [q \in 1..(2 * h + 1) |-> (l \o <<v, x>>)[q]]
  <2>1. IsList(l \o <<v, x>>)
    BY <1>6, ListOf
  <2> QED
    BY <1>6, <2>1, ListFunction
<1>10. m = l \o <<v, x>>
  <2> DEFINE y == l \o <<v, x>>
             N == 2 * h + 1
  <2>1. /\ m = [q \in 1..N |-> m[q]] /\ y = [q \in 1..N |-> y[q]]
        /\ \A q \in 1..N : m[q] = y[q]
    BY <1>7, <1>8, <1>9
  <2> HIDE DEF y, N
  <2>2. m = y
    BY <2>1
  <2> QED
    BY <2>2 DEF y
<1> QED
  BY <1>10 DEF l, m

\* What the first k hops of the i-th path give values to, when it goes along the
\* nodes ns and what connects them, hs.
NodeBindings(i, path, ns, S) ==
  UNION {Single(<<i, "node", j>>, path.nodes[j].var, NodeRef(ns[j])) : j \in S}

RelBindings(i, path, hs, S) ==
  UNION {Single(<<i, "hop", j>>, path.hops[j].var, hs[j]) : j \in S}

PathBindings(i, path, ns, hs, k) == NodeBindings(i, path, ns, 1..(k + 1)) \union RelBindings(i, path, hs, 1..k)

Shaped(ns, hs, k) == ns \in [1..(k + 1) -> Objects] /\ hs = [j \in 1..k |-> hs[j]]

Fits(path, ns, hs, k) ==
  /\ Shaped(ns, hs, k)
  /\ \A j \in 1..(k + 1) : NodeFits(path.nodes[j], ns[j])
  /\ \A j \in 1..k : hs[j] \in Connections(path.hops[j], ns[j], ns[j + 1])

\* The bindings of a path, place by place.
LEMMA PathBindingsAre ==
  ASSUME NEW i, NEW path, NEW ns, NEW hs, NEW k
  PROVE  \A b : b \in PathBindings(i, path, ns, hs, k) <=>
           \/ \E j \in 1..(k + 1) : b \in Single(<<i, "node", j>>, path.nodes[j].var, NodeRef(ns[j]))
           \/ \E j \in 1..k : b \in Single(<<i, "hop", j>>, path.hops[j].var, hs[j])
<1>1. \A S, b : b \in NodeBindings(i, path, ns, S) <=>
        \E j \in S : b \in Single(<<i, "node", j>>, path.nodes[j].var, NodeRef(ns[j]))
  BY DEF NodeBindings
<1>2. \A S, b : b \in RelBindings(i, path, hs, S) <=>
        \E j \in S : b \in Single(<<i, "hop", j>>, path.hops[j].var, hs[j])
  BY DEF RelBindings
<1> QED
  BY <1>1, <1>2 DEF PathBindings

\* One hop more binds what the hop and the node after it bind, at new places.
LEMMA BindingsGrow ==
  ASSUME NEW i, NEW path, NEW k, NEW ns, NEW hs, NEW v, NEW n, NEW ms, NEW gs, NEW h, Succ(k, h),
         ms = MoreNodes(ns, n, h), gs = MoreRels(hs, v, h),
         NEW B, B = PathBindings(i, path, ns, hs, k), NEW C, C = PathBindings(i, path, ms, gs, h),
         NEW D, D = HopBindings(i, path, h, v, n)
  PROVE  C = B \union D /\ B \intersect D = {}
<1>1. k \in Nat /\ h = k + 1
  BY DEF Succ
<1> USE <1>1
<1> DEFINE N(l, x) == Single(<<i, "node", l>>, path.nodes[l].var, NodeRef(x))
           H(l, x) == Single(<<i, "hop", l>>, path.hops[l].var, x)
<1>2. \A b : b \in B <=> (\E j \in 1..h : b \in N(j, ns[j])) \/ (\E j \in 1..k : b \in H(j, hs[j]))
  BY PathBindingsAre
<1>3. \A b : b \in C <=> (\E j \in 1..(h + 1) : b \in N(j, ms[j])) \/ (\E j \in 1..h : b \in H(j, gs[j]))
  <2>1. \A b : b \in PathBindings(i, path, ms, gs, h) <=>
                 (\E j \in 1..(h + 1) : b \in N(j, ms[j])) \/ (\E j \in 1..h : b \in H(j, gs[j]))
    BY ONLY PathBindingsAre
  <2> QED
    BY <2>1
<1>4. \A b : b \in D <=> b \in H(h, v) \/ b \in N(h + 1, n)
  BY DEF HopBindings
<1>5. /\ h \in Nat /\ \A j \in 1..(h + 1) : j \in 1..h \/ j = h + 1
      /\ \A j \in 1..h : j \in 1..(h + 1) /\ j # h + 1 /\ (j \in 1..k \/ j = h)
      /\ \A j \in 1..k : j \in 1..h /\ j # h
      /\ h \in 1..h /\ h + 1 \in 1..(h + 1)
  OBVIOUS
<1>6. /\ \A j \in 1..h : ms[j] = ns[j]
      /\ ms[h + 1] = n /\ gs[h] = v
      /\ \A j \in 1..k : gs[j] = hs[j]
  BY <1>5 DEF MoreNodes, MoreRels
<1>7. \A l, x : \A b \in N(l, x) : b.at = <<i, "node", l>>
  BY SingleBinding
<1>8. \A l, x : \A b \in H(l, x) : b.at = <<i, "hop", l>>
  BY SingleBinding
<1> HIDE DEF N, H
<1>9. ASSUME NEW b PROVE b \in C <=> b \in B \/ b \in D
  <2>1. ASSUME NEW j \in 1..(h + 1), b \in N(j, ms[j]) PROVE b \in B \/ b \in D
    BY <1>2, <1>4, <1>5, <1>6, <2>1
  <2>2. ASSUME NEW j \in 1..h, b \in H(j, gs[j]) PROVE b \in B \/ b \in D
    BY <1>2, <1>4, <1>5, <1>6, <2>2
  <2>3. ASSUME NEW j \in 1..h, b \in N(j, ns[j]) PROVE b \in C
    BY <1>3, <1>5, <1>6, <2>3
  <2>4. ASSUME NEW j \in 1..k, b \in H(j, hs[j]) PROVE b \in C
    BY <1>3, <1>5, <1>6, <2>4
  <2>5. b \in H(h, v) \/ b \in N(h + 1, n) => b \in C
    BY <1>3, <1>5, <1>6
  <2> QED
    BY <1>2, <1>3, <1>4, <2>1, <2>2, <2>3, <2>4, <2>5
<1>10. C = B \union D
  BY <1>9
<1>11. ASSUME NEW b, b \in B, b \in D PROVE FALSE
  <2>1. b.at = <<i, "hop", h>> \/ b.at = <<i, "node", h + 1>>
    BY <1>4, <1>7, <1>8, <1>11
  <2>2. ASSUME NEW j \in 1..h, b \in N(j, ns[j]) PROVE FALSE
    <3>1. b.at = <<i, "node", j>>
      BY <1>7, <2>2
    <3>2. <<i, "node", j>> # <<i, "hop", h>> /\ <<i, "node", j>> # <<i, "node", h + 1>>
      BY <1>5
    <3> QED
      BY <2>1, <3>1, <3>2
  <2>3. ASSUME NEW j \in 1..k, b \in H(j, hs[j]) PROVE FALSE
    <3>1. b.at = <<i, "hop", j>>
      BY <1>8, <2>3
    <3>2. <<i, "hop", j>> # <<i, "hop", h>> /\ <<i, "hop", j>> # <<i, "node", h + 1>>
      BY <1>5
    <3> QED
      BY <2>1, <3>1, <3>2
  <2> QED
    BY <1>2, <1>11, <2>2, <2>3
<1>12. B \intersect D = {}
  BY <1>11
<1> QED
  BY <1>10, <1>12

FitsFurther(path, ns, hs, k, v, n, ms, gs, h) ==
  /\ Fits(path, ms, gs, h) <=>
       /\ Fits(path, ns, hs, k)
       /\ v \in Connections(path.hops[h], ns[h], n) /\ NodeFits(path.nodes[h + 1], n)
  /\ Shaped(ms, gs, h) /\ ms[1] = ns[1] /\ ms[h + 1] = n

\* Fitting one hop more.
LEMMA FitGrows ==
  ASSUME NEW path, NEW k, NEW ns, NEW hs, Shaped(ns, hs, k),
         NEW v, NEW n \in Objects, NEW ms, NEW gs, NEW h, Succ(k, h),
         ms = MoreNodes(ns, n, h), gs = MoreRels(hs, v, h)
  PROVE  FitsFurther(path, ns, hs, k, v, n, ms, gs, h)
<1>1. k \in Nat /\ h = k + 1
  BY DEF Succ
<1> USE <1>1
<1>2. /\ h \in Nat /\ 1 \in 1..(h + 1) /\ 1 # h + 1
      /\ \A j \in 1..(h + 1) : j \in 1..h \/ j = h + 1
      /\ \A j \in 1..h : j \in 1..(h + 1) /\ j # h + 1 /\ (j \in 1..k \/ j = h) /\ j + 1 \in 1..(h + 1)
      /\ \A j \in 1..k : j \in 1..h /\ j # h /\ j + 1 \in 1..h
      /\ h \in 1..h /\ h + 1 \in 1..(h + 1)
  OBVIOUS
<1>3. /\ \A j \in 1..h : ms[j] = ns[j]
      /\ ms[h + 1] = n /\ gs[h] = v
      /\ \A j \in 1..k : gs[j] = hs[j]
  BY <1>2 DEF MoreNodes, MoreRels
<1>4. Shaped(ms, gs, h) /\ ms[1] = ns[1]
  BY <1>2 DEF MoreNodes, MoreRels, Shaped
<1>5. ASSUME NEW j \in 1..k PROVE ms[j] = ns[j] /\ ms[j + 1] = ns[j + 1] /\ gs[j] = hs[j]
  BY <1>2, <1>3
<1>6. (\A j \in 1..(h + 1) : NodeFits(path.nodes[j], ms[j])) <=>
        (\A j \in 1..h : NodeFits(path.nodes[j], ns[j])) /\ NodeFits(path.nodes[h + 1], n)
  BY <1>2, <1>3
<1>7. (\A j \in 1..h : gs[j] \in Connections(path.hops[j], ms[j], ms[j + 1])) <=>
        /\ \A j \in 1..k : hs[j] \in Connections(path.hops[j], ns[j], ns[j + 1])
        /\ v \in Connections(path.hops[h], ns[h], n)
  <2> DEFINE P(j) == gs[j] \in Connections(path.hops[j], ms[j], ms[j + 1])
  <2>1. (\A j \in 1..h : P(j)) <=> (\A j \in 1..k : P(j)) /\ P(h)
    <3> HIDE DEF P
    <3> QED
      BY <1>2
  <2>2. P(h) <=> v \in Connections(path.hops[h], ns[h], n)
    BY <1>2, <1>3
  <2>3. \A j \in 1..k : P(j) <=> hs[j] \in Connections(path.hops[j], ns[j], ns[j + 1])
    BY <1>5
  <2> QED
    BY <2>1, <2>2, <2>3
<1>8. Fits(path, ms, gs, h) <=>
        /\ \A j \in 1..(h + 1) : NodeFits(path.nodes[j], ms[j])
        /\ \A j \in 1..h : gs[j] \in Connections(path.hops[j], ms[j], ms[j + 1])
  BY <1>4 DEF Fits
<1>9. Fits(path, ns, hs, k) <=>
        /\ \A j \in 1..h : NodeFits(path.nodes[j], ns[j])
        /\ \A j \in 1..k : hs[j] \in Connections(path.hops[j], ns[j], ns[j + 1])
  BY DEF Fits
<1> QED
  BY <1>3, <1>4, <1>6, <1>7, <1>8, <1>9 DEF FitsFurther

\* The nodes that fit a node pattern, of a list.
LEMMA SelectedNodes ==
  ASSUME NEW s, Distinct(s), NEW pat
  PROVE  /\ Distinct(Select(s, LAMBDA n : NodeMatches(graph, pat, n)))
         /\ \A n : n \in Range(Select(s, LAMBDA x : NodeMatches(graph, pat, x))) <=>
                     n \in Range(s) /\ NodeFits(pat, n)
<1> DEFINE T == {n \in Range(s) : NodeMatches(graph, pat, n)}
           lists == [i \in DOMAIN s |-> IF s[i] \in T THEN <<s[i]>> ELSE <<>>]
<1>1. \A i \in DOMAIN s : s[i] \in T <=> NodeMatches(graph, pat, s[i])
  BY DEF Range
<1>2. lists = [i \in DOMAIN s |-> IF NodeMatches(graph, pat, s[i]) THEN <<s[i]>> ELSE <<>>]
  BY <1>1
<1>3. Select(s, LAMBDA n : NodeMatches(graph, pat, n)) = FlattenSeq(lists)
  BY <1>2 DEF Select, FlatMap
<1>4. \A n : n \in Range(s) \intersect T <=> n \in Range(s) /\ NodeFits(pat, n)
  BY DEF NodeMatches, NodeFits
<1>5. Distinct(FlattenSeq(lists)) /\ Range(FlattenSeq(lists)) = Range(s) \intersect T
  <2> HIDE DEF T
  <2> QED
    BY SelectedDistinct
<1> QED
  BY <1>3, <1>4, <1>5

\* Where a path may start.
LEMMA StartNodes ==
  ASSUME IsGraph(graph), NEW pat, NEW row
  PROVE  /\ Distinct(CandidateNodes(graph, pat, row))
         /\ \A n : n \in Range(CandidateNodes(graph, pat, row)) <=>
              /\ NodeFits(pat, n)
              /\ pat.var \in DOMAIN row => IsNode(row[pat.var]) /\ row[pat.var].node = n
              /\ pat.var \notin DOMAIN row => n \in graph.nodes
<1> DEFINE bound == pat.var \in DOMAIN row
<1>1. \A x : Distinct(<<x>>) /\ Range(<<x>>) = {x}
  BY SmallDistinct, SmallLists
<1>2. Distinct(<<>>) /\ Range(<<>>) = {}
  BY SmallDistinct, SmallLists
<1>3. CASE bound /\ IsNode(row[pat.var])
  <2> DEFINE s == <<row[pat.var].node>>
  <2>1. CandidateNodes(graph, pat, row) = Select(s, LAMBDA n : NodeMatches(graph, pat, n))
    BY <1>3 DEF CandidateNodes, Bound
  <2>2. Distinct(s) /\ Range(s) = {row[pat.var].node}
    BY <1>1
  <2> HIDE DEF s
  <2>3. /\ Distinct(Select(s, LAMBDA n : NodeMatches(graph, pat, n)))
        /\ \A n : n \in Range(Select(s, LAMBDA x : NodeMatches(graph, pat, x))) <=>
                    n \in Range(s) /\ NodeFits(pat, n)
    <3>1. Distinct(s)
      BY <2>2
    <3> QED
      BY ONLY <3>1, SelectedNodes
  <2> QED
    BY <1>3, <2>1, <2>2, <2>3
<1>4. CASE bound /\ ~IsNode(row[pat.var])
  <2>1. CandidateNodes(graph, pat, row) = <<>>
    BY <1>4 DEF CandidateNodes, Bound
  <2> QED
    BY <1>2, <1>4, <2>1
<1>5. CASE ~bound
  <2> DEFINE s == InOrder(graph.nodes)
  <2>1. CandidateNodes(graph, pat, row) = Select(s, LAMBDA n : NodeMatches(graph, pat, n))
    BY <1>5 DEF CandidateNodes, Bound
  <2>2. Distinct(s) /\ Range(s) = graph.nodes
    BY InOrderDistinct, GraphIsNumbered DEF Numbered
  <2> HIDE DEF s
  <2>3. /\ Distinct(Select(s, LAMBDA n : NodeMatches(graph, pat, n)))
        /\ \A n : n \in Range(Select(s, LAMBDA x : NodeMatches(graph, pat, x))) <=>
                    n \in Range(s) /\ NodeFits(pat, n)
    <3>1. Distinct(s)
      BY <2>2
    <3> QED
      BY ONLY <3>1, SelectedNodes
  <2> QED
    BY <1>5, <2>1, <2>2, <2>3
<1> QED
  BY <1>3, <1>4, <1>5

\* The nodes that a row holds are node objects of the graph.
HoldsObjects(row) == \A x \in DOMAIN row : IsNode(row[x]) => row[x].node \in Objects

StartsIn(pat, n, row) == n \in graph.nodes \/ pat.var \in DOMAIN row

\* y is the partial match of no hop that starts at n.
StartsAt(y, n, pat, row, at) ==
  /\ NodeFits(pat, n) /\ StartsIn(pat, n, row)
  /\ Consistent(row, Single(at, pat.var, NodeRef(n)))
  /\ Adds(y.row, row, Single(at, pat.var, NodeRef(n)))
  /\ y = [row |-> y.row, at |-> n, acc |-> <<NodeRef(n)>>]

\* A path starts at every node where it may, once.
LEMMA StartsListed ==
  ASSUME GraphIsFine, NEW pat, NEW row, IsRow(row), NoVar \notin DOMAIN row, HoldsObjects(row), NEW at
  PROVE  /\ Distinct(StartsOf(graph, pat, row))
         /\ \A y : y \in Range(StartsOf(graph, pat, row)) <=> \E n \in Objects : StartsAt(y, n, pat, row, at)
<1> DEFINE s == CandidateNodes(graph, pat, row)
           lists == [i \in DOMAIN s |-> AtNode(Bind(row, pat.var, NodeRef(s[i])), s[i], <<NodeRef(s[i])>>)]
           Is(y, n) == /\ Consistent(row, Single(at, pat.var, NodeRef(n)))
                       /\ Adds(y.row, row, Single(at, pat.var, NodeRef(n)))
                       /\ y = [row |-> y.row, at |-> n, acc |-> <<NodeRef(n)>>]
<1>1. /\ Distinct(s)
      /\ \A n : n \in Range(s) <=>
           /\ NodeFits(pat, n)
           /\ pat.var \in DOMAIN row => IsNode(row[pat.var]) /\ row[pat.var].node = n
           /\ pat.var \notin DOMAIN row => n \in graph.nodes
  BY StartNodes DEF GraphIsFine
<1>2. StartsOf(graph, pat, row) = FlattenSeq(lists)
  BY DEF StartsOf, FlatMap
<1> HIDE DEF s
<1>3. ASSUME NEW i \in DOMAIN s
      PROVE  Distinct(lists[i]) /\ \A y : y \in Range(lists[i]) <=> Is(y, s[i])
  <2> DEFINE rows == Bind(row, pat.var, NodeRef(s[i]))
             D == Single(at, pat.var, NodeRef(s[i]))
             acc == <<NodeRef(s[i])>>
             n == s[i]
  <2>1. lists[i] = AtNode(rows, n, acc)
    OBVIOUS
  <2>2. Distinct(rows) /\ \A r : r \in Range(rows) <=> Consistent(row, D) /\ Adds(r, row, D)
    BY BindOne
  <2> HIDE DEF rows, D, acc, lists, n
  <2>3. /\ Distinct(AtNode(rows, n, acc))
        /\ \A y : y \in Range(AtNode(rows, n, acc)) <=>
                    y.row \in Range(rows) /\ y = [row |-> y.row, at |-> n, acc |-> acc]
    BY <2>2, AtNodeRows
  <2> QED
    BY <2>1, <2>2, <2>3 DEF D, acc, n
<1>4. lists = [i \in DOMAIN s |-> lists[i]]
  OBVIOUS
<1> HIDE DEF lists
<1>5. ASSUME NEW i \in DOMAIN s, NEW j \in DOMAIN s, NEW y, y \in Range(lists[i]), y \in Range(lists[j])
      PROVE  i = j
  <2>1. \A k \in DOMAIN s : y \in Range(lists[k]) => y.at = s[k]
    <3> SUFFICES ASSUME NEW k \in DOMAIN s, y \in Range(lists[k]) PROVE y.at = s[k]
      OBVIOUS
    <3>1. \E r : y = [row |-> r, at |-> s[k], acc |-> <<NodeRef(s[k])>>]
      BY <1>3
    <3> QED
      BY <3>1
  <2>2. s[i] = s[j]
    BY <1>5, <2>1
  <2> QED
    BY <1>1, <2>2 DEF Distinct
<1>6. /\ Distinct(FlattenSeq(lists))
      /\ \A y : y \in Range(FlattenSeq(lists)) <=> \E i \in DOMAIN s : y \in Range(lists[i])
  <2>1. \A i, j \in DOMAIN s : i # j => Range(lists[i]) \intersect Range(lists[j]) = {}
    BY <1>5
  <2>2. IsList(s) /\ \A i \in DOMAIN s : Distinct(lists[i])
    BY <1>1, <1>3 DEF Distinct
  <2> QED
    BY <1>4, <2>1, <2>2, MappedDistinct
<1>7. \A y : y \in Range(FlattenSeq(lists)) <=> \E n \in Range(s) : Is(y, n)
  <2>1. \A n : n \in Range(s) <=> \E i \in DOMAIN s : s[i] = n
    BY DEF Range
  <2> HIDE DEF Is
  <2> QED
    BY <1>3, <1>6, <2>1
<1>8. ASSUME NEW n, NEW y, Is(y, n)
      PROVE  n \in Range(s) <=> n \in Objects /\ NodeFits(pat, n) /\ StartsIn(pat, n, row)
  <2>1. CASE pat.var \in DOMAIN row
    <3>1. row[pat.var] = NodeRef(n)
      <4>1. pat.var # NoVar
        BY <2>1
      <4>2. Single(at, pat.var, NodeRef(n)) = {[at |-> at, var |-> pat.var, value |-> NodeRef(n)]}
        BY <4>1, SingleBinding
      <4> QED
        BY <1>8, <2>1, <4>2 DEF Consistent
    <3>2. IsNode(NodeRef(n)) /\ NodeRef(n).node = n
      BY DEF IsNode, NodeRef
    <3>3. n \in Objects
      BY <2>1, <3>1, <3>2 DEF HoldsObjects
    <3> QED
      BY <1>1, <2>1, <3>1, <3>2, <3>3 DEF StartsIn
  <2>2. CASE pat.var \notin DOMAIN row
    BY <1>1, <2>2 DEF StartsIn, GraphIsFine, HasNodeObjects, Objects
  <2> QED
    BY <2>1, <2>2
<1>9. \A y : y \in Range(FlattenSeq(lists)) <=>
         \E n \in Objects : NodeFits(pat, n) /\ StartsIn(pat, n, row) /\ Is(y, n)
  <2> HIDE DEF Is
  <2> QED
    BY <1>7, <1>8
<1>10. \A y, n : StartsAt(y, n, pat, row, at) <=> NodeFits(pat, n) /\ StartsIn(pat, n, row) /\ Is(y, n)
  BY DEF StartsAt
<1> QED
  BY <1>2, <1>6, <1>9, <1>10

\* The row agrees with going along ns and hs.
MayGo(i, path, k, row, ns, hs) ==
  /\ Fits(path, ns, hs, k)
  /\ StartsIn(path.nodes[1], ns[1], row)
  /\ Consistent(row, PathBindings(i, path, ns, hs, k))

\* y is the partial match of the first k hops that goes along ns and hs.
GoesAlong(y, i, path, k, row, ns, hs) ==
  /\ MayGo(i, path, k, row, ns, hs)
  /\ Adds(y.row, row, PathBindings(i, path, ns, hs, k))
  /\ y = [row |-> y.row, at |-> ns[k + 1], acc |-> Line(ns, hs, k)]

PartialListed(s, i, path, k, row) ==
  /\ Distinct(s)
  /\ \A y : y \in Range(s) <=> \E ns, hs : GoesAlong(y, i, path, k, row, ns, hs)

\* A partial match determines how it goes along the path.
LEMMA PartialOnce ==
  ASSUME NEW i, NEW path, NEW k \in Nat, NEW row, NEW y, NEW z, NEW ns, NEW hs, NEW ms, NEW gs,
         GoesAlong(y, i, path, k, row, ns, hs), GoesAlong(z, i, path, k, row, ms, gs), y.acc = z.acc
  PROVE  y = z /\ ns = ms /\ hs = gs
<1>1. /\ ns = [j \in 1..(k + 1) |-> ns[j]] /\ hs = [j \in 1..k |-> hs[j]]
      /\ ms = [j \in 1..(k + 1) |-> ms[j]] /\ gs = [j \in 1..k |-> gs[j]]
  BY DEF GoesAlong, MayGo, Fits, Shaped
<1>2. Line(ns, hs, k) = Line(ms, gs, k)
  <2>1. \E r, n : y = [row |-> r, at |-> n, acc |-> Line(ns, hs, k)]
    BY DEF GoesAlong
  <2>2. \E r, n : z = [row |-> r, at |-> n, acc |-> Line(ms, gs, k)]
    BY DEF GoesAlong
  <2>3. y.acc = Line(ns, hs, k) /\ z.acc = Line(ms, gs, k)
    BY <2>1, <2>2
  <2> QED
    BY <2>3
<1>3. ns = ms /\ hs = gs
  BY <1>1, <1>2, LineOnce
<1>4. y.row = z.row
  BY <1>3, AddsOneRow DEF GoesAlong
<1>5. \E r : y = [row |-> r, at |-> ns[k + 1], acc |-> Line(ns, hs, k)] /\ r = y.row
  BY DEF GoesAlong
<1>6. \E r : z = [row |-> r, at |-> ns[k + 1], acc |-> Line(ns, hs, k)] /\ r = z.row
  BY <1>3 DEF GoesAlong
<1> QED
  BY <1>3, <1>4, <1>5, <1>6

\* Part of consistent bindings is consistent.
LEMMA ConsistentPart ==
  ASSUME NEW row, NEW B, NEW D, NEW C, C = B \union D, Consistent(row, C)
  PROVE  Consistent(row, B) /\ \A b \in B, d \in D : b.var = d.var => b.value = d.value
<1>1. Consistent(row, B)
  BY DEF Consistent
<1> QED
  BY <1>1, ConsistentValues

\* A partial match that takes one hop more goes along one hop more.
LEMMA GoesOneFurther ==
  ASSUME NEW i, NEW path, NEW k, NEW row, NEW h, Succ(k, h),
         NEW m, NEW ns, NEW hs, GoesAlong(m, i, path, k, row, ns, hs),
         NEW v, NEW n \in Objects, NEW y, HopTaken(y, m, i, path, h, v, n)
  PROVE  \E ms, gs : GoesAlong(y, i, path, h, row, ms, gs)
<1> DEFINE ms == MoreNodes(ns, n, h)
           gs == MoreRels(hs, v, h)
           B == PathBindings(i, path, ns, hs, k)
           C == PathBindings(i, path, ms, gs, h)
           D == HopBindings(i, path, h, v, n)
<1>1. k \in Nat /\ h = k + 1
  BY DEF Succ
<1>2. /\ Shaped(ns, hs, k)
      /\ Fits(path, ns, hs, k) /\ StartsIn(path.nodes[1], ns[1], row)
      /\ Consistent(row, B) /\ Adds(m.row, row, B)
  BY <1>1 DEF GoesAlong, MayGo, Fits, Shaped
<1>3. m.at = ns[h] /\ m.acc = Line(ns, hs, k)
  <2>1. \E r : m = [row |-> r, at |-> ns[k + 1], acc |-> Line(ns, hs, k)]
    BY DEF GoesAlong
  <2> QED
    BY <1>1, <2>1
<1>4. ms = MoreNodes(ns, n, h) /\ gs = MoreRels(hs, v, h)
  OBVIOUS
<1>5. D = HopBindings(i, path, h, v, n)
  OBVIOUS
<1> HIDE DEF ms, gs, D
<1>6. B = PathBindings(i, path, ns, hs, k)
  OBVIOUS
<1>7. C = PathBindings(i, path, ms, gs, h)
  OBVIOUS
<1> HIDE DEF B, C
<1>8. C = B \union D /\ B \intersect D = {}
  BY ONLY Succ(k, h), <1>4, <1>5, <1>6, <1>7, BindingsGrow
<1>9. /\ Fits(path, ms, gs, h) <=>
              /\ Fits(path, ns, hs, k)
              /\ v \in Connections(path.hops[h], ns[h], n) /\ NodeFits(path.nodes[h + 1], n)
      /\ Shaped(ms, gs, h) /\ ms[1] = ns[1] /\ ms[h + 1] = n
  <2>1. FitsFurther(path, ns, hs, k, v, n, ms, gs, h)
    BY ONLY Succ(k, h), n \in Objects, <1>2, <1>4, FitGrows
  <2> QED
    BY ONLY <2>1 DEF FitsFurther
<1>10. Line(ms, gs, h) = Line(ns, hs, k) \o <<v, NodeRef(n)>>
  BY ONLY Succ(k, h), <1>4, LineGrows
<1>11. /\ v \in Connections(path.hops[h], m.at, n) /\ NodeFits(path.nodes[h + 1], n)
      /\ Consistent(m.row, D) /\ Adds(y.row, m.row, D)
      /\ y = [row |-> y.row, at |-> n, acc |-> m.acc \o <<v, NodeRef(n)>>]
  BY <1>5 DEF HopTaken
<1>12. Consistent(row, C)
  <2>1. Consistent(row, C) <=> Consistent(m.row, D)
    BY <1>2, <1>8, ConsistentNext
  <2> QED
    BY <1>11, <2>1
<1>13. Adds(y.row, row, C)
  <2>1. Consistent(row, B) /\ \A b \in B, d \in D : b.var = d.var => b.value = d.value
    BY <1>8, <1>12, ConsistentPart
  <2>2. Adds(y.row, m.row, D) <=> Adds(y.row, row, C)
    BY <1>2, <1>8, <2>1, AddsInTurn
  <2> QED
    BY <1>11, <2>2
<1>14. MayGo(i, path, h, row, ms, gs)
  BY <1>11, <1>2, <1>3, <1>9, <1>12 DEF MayGo, C
<1>15. y = [row |-> y.row, at |-> ms[h + 1], acc |-> Line(ms, gs, h)]
  BY <1>11, <1>3, <1>9, <1>10
<1>16. GoesAlong(y, i, path, h, row, ms, gs)
  BY <1>13, <1>14, <1>15 DEF GoesAlong, C
<1> QED
  BY <1>16

\* A partial match of one hop more takes that hop after a partial match.
LEMMA GoesOneLess ==
  ASSUME NEW i, NEW path, NEW k, NEW row, NEW h, Succ(k, h),
         NEW y, NEW ms, NEW gs, GoesAlong(y, i, path, h, row, ms, gs)
  PROVE  \E m, ns, hs, v : \E n \in Objects :
           GoesAlong(m, i, path, k, row, ns, hs) /\ HopTaken(y, m, i, path, h, v, n)
<1> DEFINE ns == [j \in 1..(k + 1) |-> ms[j]]
           hs == [j \in 1..k |-> gs[j]]
           n == ms[h + 1]
           v == gs[h]
           B == PathBindings(i, path, ns, hs, k)
           C == PathBindings(i, path, ms, gs, h)
           D == HopBindings(i, path, h, v, n)
<1>1. k \in Nat /\ h = k + 1
  BY DEF Succ
<1>2. /\ ms \in [1..(h + 1) -> Objects] /\ gs = [j \in 1..h |-> gs[j]]
      /\ Fits(path, ms, gs, h) /\ StartsIn(path.nodes[1], ms[1], row)
      /\ Consistent(row, C) /\ Adds(y.row, row, C)
      /\ y = [row |-> y.row, at |-> ms[h + 1], acc |-> Line(ms, gs, h)]
  BY DEF GoesAlong, MayGo, Fits, Shaped
<1>3. /\ Shaped(ns, hs, k) /\ n \in Objects
      /\ ms = MoreNodes(ns, n, h) /\ gs = MoreRels(hs, v, h)
  <2>1. ms \in [1..(h + 1) -> Objects] /\ gs = [j \in 1..h |-> gs[j]]
    BY <1>2
  <2>2. /\ \A j \in 1..(h + 1) : j # h + 1 => j \in 1..(k + 1)
        /\ \A j \in 1..h : j # h => j \in 1..k
        /\ \A j \in 1..(k + 1) : j \in 1..(h + 1)
        /\ h + 1 \in 1..(h + 1)
    BY <1>1
  <2>3. ms = MoreNodes(ns, n, h)
    BY <1>1, <2>1, <2>2 DEF MoreNodes, MoreRels
  <2>4. gs = MoreRels(hs, v, h)
    BY <1>1, <2>1, <2>2 DEF MoreNodes, MoreRels
  <2> QED
    BY <1>1, <2>1, <2>2, <2>3, <2>4 DEF Shaped
<1> HIDE DEF ns, hs, n, v
<1>4. D = HopBindings(i, path, h, v, n)
  OBVIOUS
<1>5. B = PathBindings(i, path, ns, hs, k)
  OBVIOUS
<1>6. C = PathBindings(i, path, ms, gs, h)
  OBVIOUS
<1> HIDE DEF B, C, D
<1>7. C = B \union D /\ B \intersect D = {}
  BY ONLY Succ(k, h), <1>3, <1>4, <1>5, <1>6, BindingsGrow
<1>8. /\ Fits(path, ms, gs, h) <=>
              /\ Fits(path, ns, hs, k)
              /\ v \in Connections(path.hops[h], ns[h], n) /\ NodeFits(path.nodes[h + 1], n)
      /\ Shaped(ms, gs, h) /\ ms[1] = ns[1] /\ ms[h + 1] = n
  <2>1. Succ(k, h) /\ Shaped(ns, hs, k) /\ n \in Objects /\ ms = MoreNodes(ns, n, h) /\ gs = MoreRels(hs, v, h)
    BY <1>3
  <2>2. FitsFurther(path, ns, hs, k, v, n, ms, gs, h)
    BY ONLY <2>1, FitGrows
  <2> QED
    BY ONLY <2>2 DEF FitsFurther
<1>9. Line(ms, gs, h) = Line(ns, hs, k) \o <<v, NodeRef(n)>>
  BY ONLY Succ(k, h), <1>3, LineGrows
<1>10. Consistent(row, B) /\ \A b \in B, d \in D : b.var = d.var => b.value = d.value
  <2>1. C = B \union D
    BY <1>7
  <2>2. Consistent(row, C)
    BY <1>2
  <2> QED
    BY ONLY <2>1, <2>2, ConsistentPart
<1>11. PICK r : Adds(r, row, B)
  BY <1>10, ConsistentValues, SomethingAdds
<1> DEFINE m == [row |-> r, at |-> ns[k + 1], acc |-> Line(ns, hs, k)]
<1>12. m.row = r /\ m.at = ns[h] /\ m.acc = Line(ns, hs, k) /\ m = [row |-> m.row, at |-> ns[k + 1], acc |-> Line(ns, hs, k)]
  BY <1>1
<1> HIDE DEF m
<1>13. GoesAlong(m, i, path, k, row, ns, hs)
  <2>1. MayGo(i, path, k, row, ns, hs)
    BY <1>2, <1>8, <1>10 DEF MayGo, B
  <2> QED
    BY <1>11, <1>12, <2>1 DEF GoesAlong, B
<1>14. Consistent(m.row, D)
  <2>1. Consistent(row, C) <=> Consistent(m.row, D)
    BY <1>7, <1>10, <1>11, <1>12, ConsistentNext
  <2> QED
    BY <1>2, <2>1
<1>15. Adds(y.row, m.row, D)
  <2>1. Adds(y.row, m.row, D) <=> Adds(y.row, row, C)
    BY <1>7, <1>10, <1>11, <1>12, AddsInTurn
  <2> QED
    BY <1>2, <1>7, <2>1
<1>16. y = [row |-> y.row, at |-> n, acc |-> m.acc \o <<v, NodeRef(n)>>]
  BY <1>2, <1>8, <1>9, <1>12
<1>17. v \in Connections(path.hops[h], m.at, n) /\ NodeFits(path.nodes[h + 1], n) /\ n \in Objects
  BY <1>2, <1>3, <1>8, <1>12
<1>18. HopTaken(y, m, i, path, h, v, n)
  BY <1>14, <1>15, <1>16, <1>17 DEF HopTaken, D
<1> QED
  BY <1>13, <1>17, <1>18

\* Before the first hop.
LEMMA NoHopYet ==
  ASSUME NEW i, NEW path, NEW ns, NEW hs
  PROVE  /\ PathBindings(i, path, ns, hs, 0) = Single(<<i, "node", 1>>, path.nodes[1].var, NodeRef(ns[1]))
         /\ Line(ns, hs, 0) = <<NodeRef(ns[1])>>
<1> DEFINE D == Single(<<i, "node", 1>>, path.nodes[1].var, NodeRef(ns[1]))
<1>1. 1..(0 + 1) = {1} /\ 1..0 = {} /\ 1..(2 * 0 + 1) = {1} /\ 1 % 2 = 1 /\ (1 + 1) \div 2 = 1
  OBVIOUS
<1>2. NodeBindings(i, path, ns, 1..(0 + 1)) = D
  <2>1. \A b : b \in NodeBindings(i, path, ns, {1}) <=> b \in D
    BY DEF NodeBindings
  <2> QED
    BY <1>1, <2>1
<1>3. RelBindings(i, path, hs, 1..0) = {}
  BY <1>1 DEF RelBindings
<1>4. Line(ns, hs, 0) = [q \in {1} |-> NodeRef(ns[1])]
  BY <1>1 DEF Line
<1>5. <<NodeRef(ns[1])>> = [q \in {1} |-> NodeRef(ns[1])]
  OBVIOUS
<1> QED
  BY <1>2, <1>3, <1>4, <1>5 DEF PathBindings

\* A start is a partial match of no hops.
LEMMA StartsGoAlong ==
  ASSUME GraphIsFine, NEW i, NEW path, NEW row, IsRow(row), NoVar \notin DOMAIN row, HoldsObjects(row)
  PROVE  PartialListed(StartsOf(graph, path.nodes[1], row), i, path, 0, row)
<1> DEFINE pat == path.nodes[1]
           at == <<i, "node", 1>>
           s == StartsOf(graph, pat, row)
           Is(y, n) == StartsAt(y, n, pat, row, at)
<1>1. Distinct(s) /\ \A y : y \in Range(s) <=> \E n \in Objects : Is(y, n)
  BY StartsListed
<1>2. 1..(0 + 1) = {1} /\ 1..0 = {} /\ 0 + 1 = 1
  OBVIOUS
<1>3. \A ns, hs : Fits(path, ns, hs, 0) <=>
        ns \in [{1} -> Objects] /\ hs = [j \in {} |-> hs[j]] /\ NodeFits(pat, ns[1])
  BY <1>2 DEF Fits, Shaped
<1>4. ASSUME NEW y, NEW ns, NEW hs
      PROVE  GoesAlong(y, i, path, 0, row, ns, hs) <=>
               ns \in [{1} -> Objects] /\ hs = [j \in {} |-> hs[j]] /\ Is(y, ns[1])
  <2>1. /\ PathBindings(i, path, ns, hs, 0) = Single(at, pat.var, NodeRef(ns[1]))
        /\ Line(ns, hs, 0) = <<NodeRef(ns[1])>>
    BY NoHopYet
  <2> QED
    BY <1>2, <1>3, <2>1 DEF GoesAlong, MayGo, StartsAt
<1> HIDE DEF Is, s
<1>5. ASSUME NEW y
      PROVE  (\E n \in Objects : Is(y, n)) <=> \E ns, hs : GoesAlong(y, i, path, 0, row, ns, hs)
  <2>1. ASSUME NEW n \in Objects, Is(y, n) PROVE \E ns, hs : GoesAlong(y, i, path, 0, row, ns, hs)
    <3> DEFINE ns == [j \in {1} |-> n]
               hs == [j \in {} |-> n]
    <3>1. ns \in [{1} -> Objects] /\ ns[1] = n /\ hs = [j \in {} |-> hs[j]]
      OBVIOUS
    <3> HIDE DEF ns, hs
    <3>2. GoesAlong(y, i, path, 0, row, ns, hs)
      BY <1>4, <2>1, <3>1
    <3> QED
      BY <3>2
  <2>2. ASSUME NEW ns, NEW hs, GoesAlong(y, i, path, 0, row, ns, hs) PROVE \E n \in Objects : Is(y, n)
    <3>1. ns[1] \in Objects /\ Is(y, ns[1])
      BY <1>4, <2>2
    <3> QED
      BY <3>1
  <2> QED
    BY <2>1, <2>2
<1>6. \A y : y \in Range(s) <=> \E ns, hs : GoesAlong(y, i, path, 0, row, ns, hs)
  BY <1>1, <1>5
<1> QED
  BY <1>1, <1>6 DEF PartialListed, s

\* What a partial match has reached.
LEMMA PartialShape ==
  ASSUME NEW m, NEW i, NEW path, NEW k \in Nat, NEW row, NEW ns, NEW hs, GoesAlong(m, i, path, k, row, ns, hs)
  PROVE  m.at \in Objects /\ IsRow(m.row) /\ IsList(m.acc)
<1>1. \E r : m = [row |-> r, at |-> ns[k + 1], acc |-> Line(ns, hs, k)]
  BY DEF GoesAlong
<1>2. m.at = ns[k + 1] /\ m.acc = Line(ns, hs, k)
  BY <1>1
<1>3. ns[k + 1] \in Objects /\ IsRow(m.row)
  <2>1. k + 1 \in 1..(k + 1)
    OBVIOUS
  <2> QED
    BY <2>1 DEF GoesAlong, MayGo, Fits, Shaped, Adds
<1>4. IsList(Line(ns, hs, k))
  BY LineValues
<1> QED
  BY <1>2, <1>3, <1>4

\* Two partial matches do not grow into one.
LEMMA GrownApart ==
  ASSUME NEW m, NEW z, NEW i, NEW path, NEW k \in Nat, NEW row, NEW ns, NEW hs, NEW ms, NEW gs,
         GoesAlong(m, i, path, k, row, ns, hs), GoesAlong(z, i, path, k, row, ms, gs),
         NEW h, NEW y, NEW v, NEW n, NEW w, NEW x,
         HopTaken(y, m, i, path, h, v, n), HopTaken(y, z, i, path, h, w, x)
  PROVE  m = z
<1>1. y.acc = m.acc \o <<v, NodeRef(n)>>
  <2>1. \E r : y = [row |-> r, at |-> n, acc |-> m.acc \o <<v, NodeRef(n)>>]
    BY DEF HopTaken
  <2> QED
    BY <2>1
<1>2. y.acc = z.acc \o <<w, NodeRef(x)>>
  <2>1. \E r : y = [row |-> r, at |-> x, acc |-> z.acc \o <<w, NodeRef(x)>>]
    BY DEF HopTaken
  <2> QED
    BY <2>1
<1>3. IsList(m.acc) /\ IsList(z.acc)
  BY PartialShape
<1>4. TwoAfter(y.acc, m.acc, v, NodeRef(n)) /\ TwoAfter(y.acc, z.acc, w, NodeRef(x))
  BY <1>1, <1>2 DEF TwoAfter
<1>5. m.acc = z.acc
  BY <1>3, <1>4, TwoMore
<1> QED
  BY <1>5, PartialOnce

\* One hop more, for all partial matches.
LEMMA PartialGrows ==
  ASSUME GraphIsFine, NEW i, NEW path, NEW k, NEW h, Succ(k, h), NEW row, NEW s, PartialListed(s, i, path, k, row),
         IsHop(path.hops[h]),
         NEW lists, lists = [a \in DOMAIN s |-> ExtendByHop(graph, path.hops[h], path.nodes[h + 1], s[a])]
  PROVE  PartialListed(FlattenSeq(lists), i, path, h, row)
<1> DEFINE Taken(y, m) == \E v : \E n \in Objects : HopTaken(y, m, i, path, h, v, n)
           Went(m) == \E ns, hs : GoesAlong(m, i, path, k, row, ns, hs)
<1>1. k \in Nat
  BY DEF Succ
<1>2. Distinct(s) /\ \A m : m \in Range(s) <=> Went(m)
  BY DEF PartialListed
<1>3. ASSUME NEW m, Went(m)
      PROVE  /\ Distinct(ExtendByHop(graph, path.hops[h], path.nodes[h + 1], m))
             /\ \A y : y \in Range(ExtendByHop(graph, path.hops[h], path.nodes[h + 1], m)) <=> Taken(y, m)
  <2>1. m.at \in Objects /\ IsRow(m.row) /\ IsList(m.acc)
    BY <1>1, <1>3, PartialShape
  <2> QED
    BY <2>1, ExtendedByHop
<1>4. ASSUME NEW a \in DOMAIN s PROVE Went(s[a])
  <2>1. s[a] \in Range(s)
    BY DEF Range
  <2> QED
    BY <1>2, <2>1
<1>5. ASSUME NEW a \in DOMAIN s
      PROVE  Distinct(lists[a]) /\ \A y : y \in Range(lists[a]) <=> Taken(y, s[a])
  <2>1. lists[a] = ExtendByHop(graph, path.hops[h], path.nodes[h + 1], s[a])
    OBVIOUS
  <2>2. Went(s[a])
    BY <1>4
  <2> HIDE DEF Taken, Went
  <2> QED
    BY <1>3, <2>1, <2>2
<1>6. ASSUME NEW a \in DOMAIN s, NEW b \in DOMAIN s, NEW y, y \in Range(lists[a]), y \in Range(lists[b])
      PROVE  a = b
  <2>1. Taken(y, s[a]) /\ Taken(y, s[b])
    BY <1>5, <1>6
  <2>2. Went(s[a]) /\ Went(s[b])
    BY <1>4
  <2>3. s[a] = s[b]
    BY <1>1, <2>1, <2>2, GrownApart
  <2> QED
    BY <1>2, <2>3 DEF Distinct
<1>7. /\ Distinct(FlattenSeq(lists))
      /\ \A y : y \in Range(FlattenSeq(lists)) <=> \E a \in DOMAIN s : y \in Range(lists[a])
  <2>1. \A a, b \in DOMAIN s : a # b => Range(lists[a]) \intersect Range(lists[b]) = {}
    BY <1>6
  <2>2. IsList(s) /\ \A a \in DOMAIN s : Distinct(lists[a])
    BY <1>2, <1>5 DEF Distinct
  <2>3. lists = [a \in DOMAIN s |-> lists[a]]
    OBVIOUS
  <2> QED
    BY <2>1, <2>2, <2>3, MappedDistinct
<1>8. ASSUME NEW y
      PROVE  (\E a \in DOMAIN s : y \in Range(lists[a])) <=> \E m : Went(m) /\ Taken(y, m)
  <2>1. \A m : m \in Range(s) <=> \E a \in DOMAIN s : s[a] = m
    BY DEF Range
  <2> HIDE DEF Went, Taken
  <2> QED
    BY <1>2, <1>5, <2>1
<1>9. ASSUME NEW y
      PROVE  (\E m : Went(m) /\ Taken(y, m)) <=> \E ms, gs : GoesAlong(y, i, path, h, row, ms, gs)
  <2>1. ASSUME NEW m, Went(m), Taken(y, m) PROVE \E ms, gs : GoesAlong(y, i, path, h, row, ms, gs)
    <3>1. PICK ns, hs : GoesAlong(m, i, path, k, row, ns, hs)
      BY <2>1
    <3>2. PICK v : \E n \in Objects : HopTaken(y, m, i, path, h, v, n)
      BY <2>1
    <3>3. PICK n \in Objects : HopTaken(y, m, i, path, h, v, n)
      BY <3>2
    <3> QED
      BY <3>1, <3>3, GoesOneFurther
  <2>2. ASSUME NEW ms, NEW gs, GoesAlong(y, i, path, h, row, ms, gs) PROVE \E m : Went(m) /\ Taken(y, m)
    <3>1. \E m, ns, hs, v : \E n \in Objects :
            GoesAlong(m, i, path, k, row, ns, hs) /\ HopTaken(y, m, i, path, h, v, n)
      BY <2>2, GoesOneLess
    <3> QED
      BY <3>1
  <2> QED
    BY <2>1, <2>2
<1> HIDE DEF Went, Taken
<1>10. \A y : y \in Range(FlattenSeq(lists)) <=> \E ms, gs : GoesAlong(y, i, path, h, row, ms, gs)
  BY <1>7, <1>8, <1>9
<1> QED
  BY <1>7, <1>10 DEF PartialListed

\* All hops.
LEMMA PartialMatches ==
  ASSUME GraphIsFine, NEW i, NEW path, IsPathPattern(path),
         NEW row, IsRow(row), NoVar \notin DOMAIN row, HoldsObjects(row),
         NEW partial, PartialUpTo(partial, Len(path.hops), graph, path, row)
  PROVE  PartialListed(partial[Len(path.hops)], i, path, Len(path.hops), row)
<1> DEFINE n == Len(path.hops)
           S == {k \in Nat : k \in 0..n => PartialListed(partial[k], i, path, k, row)}
<1>1. n \in Nat /\ \A k \in 1..n : IsHop(path.hops[k])
  BY DEF IsPathPattern, Range
<1>2. 0 \in S
  <2>1. partial[0] = StartsOf(graph, path.nodes[1], row)
    <3>1. 0 \in 0..n
      BY <1>1
    <3> QED
      BY <3>1 DEF PartialUpTo
  <2> QED
    BY <2>1, StartsGoAlong
<1>3. ASSUME NEW k \in Nat, k \in S PROVE k + 1 \in S
  <2> SUFFICES ASSUME k + 1 \in 0..n PROVE PartialListed(partial[k + 1], i, path, k + 1, row)
    BY <1>3
  <2> DEFINE h == k + 1
             s == partial[k]
             lists == [a \in DOMAIN s |-> ExtendByHop(graph, path.hops[h], path.nodes[h + 1], s[a])]
  <2>1. PartialListed(s, i, path, k, row) /\ h \in 1..n
    BY <1>1, <1>3
  <2>2. partial[h] = FlattenSeq(lists)
    <3>1. h # 0 /\ h - 1 = k /\ h \in 0..n
      BY <2>1
    <3>2. partial[h] = FlatMap(LAMBDA m : ExtendByHop(graph, path.hops[h], path.nodes[h + 1], m), partial[k])
      BY <1>1, <3>1 DEF PartialUpTo
    <3> QED
      BY <3>2 DEF FlatMap
  <2>3. Succ(k, h) /\ IsHop(path.hops[h])
    BY <1>1, <2>1 DEF Succ
  <2>4. lists = [a \in DOMAIN s |-> ExtendByHop(graph, path.hops[h], path.nodes[h + 1], s[a])]
    OBVIOUS
  <2> HIDE DEF lists, s, h, n
  <2>5. PartialListed(FlattenSeq(lists), i, path, h, row)
    BY <2>1, <2>3, <2>4, PartialGrows
  <2> QED
    BY <2>2, <2>5 DEF h
<1>4. n \in S
  <2> HIDE DEF S, n
  <2> QED
    BY <1>1, <1>2, <1>3, Induction
<1> QED
  BY <1>1, <1>4

\* A list of different elements lists what an injective function makes of them.
LEMMA ListedImage ==
  ASSUME NEW s, IsList(s), NEW g, \A i, j \in DOMAIN s : g[i] = g[j] => i = j,
         NEW lists, lists = [i \in DOMAIN s |-> <<g[i].row>>]
  PROVE  Listed(FlattenSeq(lists), {g[i] : i \in DOMAIN s})
<1> DEFINE more == [i \in DOMAIN s |-> <<g[i]>>]
<1>1. Distinct(FlattenSeq(more)) /\ Range(FlattenSeq(more)) = {g[i] : i \in DOMAIN s}
  BY ImagedDistinct
<1>2. DOMAIN s = 1..Len(s) /\ Len(s) \in Nat
  BY ListShape
<1>3. IsList(more) /\ DOMAIN more = DOMAIN s
  <2>1. more = [i \in 1..Len(s) |-> more[i]]
    BY <1>2
  <2> HIDE DEF more
  <2> QED
    BY <1>2, <2>1, FunctionIsList
<1>4. ASSUME NEW i \in DOMAIN s PROVE IsList(more[i]) /\ RowsOf(more[i]) = <<g[i].row>>
  <2>1. more[i] = <<g[i]>> /\ IsList(<<g[i]>>)
    BY SmallDistinct DEF Distinct
  <2>2. DOMAIN <<g[i]>> = {1} /\ <<g[i].row>> = [k \in {1} |-> g[i].row]
    OBVIOUS
  <2>3. RowsOf(<<g[i]>>) = [k \in {1} |-> g[i].row]
    BY <2>2 DEF RowsOf
  <2> QED
    BY <2>1, <2>2, <2>3
<1> HIDE DEF more
<1>5. lists = [i \in DOMAIN more |-> RowsOf(more[i])]
  BY <1>3, <1>4
<1>6. RowsOf(FlattenSeq(more)) = FlattenSeq(lists)
  BY <1>3, <1>4, <1>5, RowsOfFlattened
<1> QED
  BY <1>1, <1>6 DEF Listed

\* What a path gives its name.
NameBinding(i, path, ns, hs) ==
  Single(<<i, "path", 0>>, path.var, PathRef(Line(ns, hs, Len(path.hops))))

AllBindings(i, path, ns, hs) == PathBindings(i, path, ns, hs, Len(path.hops))

\* w stands for going along by.ns and by.hs, from the row to w.row.
Way(w, i, path, row, ns, hs) ==
  /\ MayGo(i, path, Len(path.hops), row, ns, hs)
  /\ Adds(w.row, row, AllBindings(i, path, ns, hs) \union NameBinding(i, path, ns, hs))
  /\ w = [by |-> [ns |-> ns, hs |-> hs], row |-> w.row]

WaysListed(s, i, path, row) ==
  \E W : Listed(s, W) /\ \A w : w \in W <=> \E ns, hs : Way(w, i, path, row, ns, hs)

\* The path is not named like something else in it.
NamedApart(path) ==
  path.var # NoVar => /\ \A j \in 1..(Len(path.hops) + 1) : path.nodes[j].var # path.var
                      /\ \A j \in 1..Len(path.hops) : path.hops[j].var # path.var

\* Naming a path adds one binding, of a name that has no other.
LEMMA AssignAdds ==
  ASSUME NEW row, NEW B, NEW r, Adds(r, row, B), NEW var, var = NoVar \/ var \notin Vars(B),
         NEW at, NEW value, NEW q
  PROVE  q = (IF var = NoVar THEN r ELSE Assign(r, var, value)) <=>
           Adds(q, row, B \union Single(at, var, value))
<1> DEFINE P == Single(at, var, value)
           C == B \union P
           z == IF var = NoVar THEN r ELSE Assign(r, var, value)
<1>1. CASE var = NoVar
  <2>1. C = B
    BY <1>1, SingleBinding
  <2> QED
    BY <1>1, <2>1, AddsOneRow
<1>2. CASE var # NoVar
  <2>1. P = {[at |-> at, var |-> var, value |-> value]} /\ Vars(P) = {var}
    BY <1>2, SingleBinding
  <2>2. Vars(C) = Vars(B) \union {var}
    BY <2>1 DEF Vars
  <2>3. IsRow(z) /\ DOMAIN z = DOMAIN r \union {var} /\ z[var] = value
        /\ \A x \in DOMAIN r : x # var => z[x] = r[x]
    BY <1>2 DEF Assign, IsRow
  <2> HIDE DEF z
  <2>4. \A b \in C : z[b.var] = b.value
    <3>1. ASSUME NEW b \in B PROVE z[b.var] = b.value
      <4>1. b.var \in Vars(B) /\ b.var \in DOMAIN r /\ r[b.var] = b.value
        BY DEF Vars, Adds
      <4> QED
        BY <1>2, <2>3, <4>1
    <3>2. ASSUME NEW b \in P PROVE z[b.var] = b.value
      BY <2>1, <2>3, <3>2
    <3> QED
      BY <3>1, <3>2
  <2>5. Adds(z, row, C)
    BY <2>2, <2>3, <2>4 DEF Adds
  <2>6. q = z <=> Adds(q, row, C)
    BY <2>5, AddsOneRow
  <2> QED
    BY <2>6 DEF z
<1> QED
  BY <1>1, <1>2

\* A path binds its name nowhere but at its end.
LEMMA NotNamed ==
  ASSUME NEW i, NEW path, NEW ns, NEW hs, NamedApart(path)
  PROVE  path.var = NoVar \/ path.var \notin Vars(AllBindings(i, path, ns, hs))
<1> SUFFICES ASSUME path.var # NoVar, path.var \in Vars(AllBindings(i, path, ns, hs)) PROVE FALSE
  OBVIOUS
<1>1. PICK b \in AllBindings(i, path, ns, hs) : b.var = path.var
  BY DEF Vars
<1>2. \/ \E j \in 1..(Len(path.hops) + 1) : b \in Single(<<i, "node", j>>, path.nodes[j].var, NodeRef(ns[j]))
      \/ \E j \in 1..Len(path.hops) : b \in Single(<<i, "hop", j>>, path.hops[j].var, hs[j])
  BY PathBindingsAre DEF AllBindings
<1>3. \/ \E j \in 1..(Len(path.hops) + 1) : b.var = path.nodes[j].var
      \/ \E j \in 1..Len(path.hops) : b.var = path.hops[j].var
  <2>1. ASSUME NEW at, NEW var, NEW value, b \in Single(at, var, value) PROVE b.var = var
    BY <2>1, SingleBinding
  <2> QED
    BY <1>2, <2>1
<1> QED
  BY <1>1, <1>3 DEF NamedApart

\* A path is matched in every way it may go along the graph, once.
LEMMA MatchPathListed ==
  ASSUME GraphIsFine, NEW i, NEW path, IsPathPattern(path), NamedApart(path),
         NEW row, IsRow(row), NoVar \notin DOMAIN row, HoldsObjects(row)
  PROVE  WaysListed(MatchPath(graph, path, row), i, path, row)
<1> DEFINE n == Len(path.hops)
           partial == CHOOSE g : PartialUpTo(g, Len(path.hops), graph, path, row)
           last == partial[Len(path.hops)]
           named(m) == IF path.var = NoVar THEN m.row ELSE Assign(m.row, path.var, PathRef(m.acc))
           lists == [a \in DOMAIN last |-> <<named(last[a])>>]
           Goes(m, by) == by = [ns |-> by.ns, hs |-> by.hs] /\ GoesAlong(m, i, path, n, row, by.ns, by.hs)
           by(m) == CHOOSE c : Goes(m, c)
           g == [a \in DOMAIN last |-> [by |-> by(last[a]), row |-> named(last[a])]]
<1>1. MatchPath(graph, path, row) = FlattenSeq(lists)
  BY DEF MatchPath, Image, FlatMap, PartialUpTo
<1>2. n \in Nat
  BY DEF IsPathPattern
<1>3. PartialUpTo(partial, Len(path.hops), graph, path, row)
  BY <1>2, PartialExists
<1> HIDE DEF partial
<1>4. PartialListed(last, i, path, n, row)
  BY <1>3, PartialMatches
<1> HIDE DEF last
<1>5. Distinct(last) /\ \A m : m \in Range(last) <=> \E ns, hs : GoesAlong(m, i, path, n, row, ns, hs)
  BY <1>4 DEF PartialListed
<1>6. ASSUME NEW m, NEW ns, NEW hs, GoesAlong(m, i, path, n, row, ns, hs) PROVE Goes(m, by(m))
  <2> DEFINE c == [ns |-> ns, hs |-> hs]
  <2>1. c.ns = ns /\ c.hs = hs /\ c = [ns |-> c.ns, hs |-> c.hs]
    OBVIOUS
  <2> HIDE DEF c
  <2>2. Goes(m, c)
    BY <1>6, <2>1
  <2> HIDE DEF Goes
  <2> QED
    BY <2>2
<1>7. ASSUME NEW a \in DOMAIN last PROVE Goes(last[a], by(last[a]))
  <2>1. last[a] \in Range(last)
    BY DEF Range
  <2> HIDE DEF by, Goes
  <2> QED
    BY <1>5, <1>6, <2>1
<1> HIDE DEF by
<1>8. \A a, b \in DOMAIN last : g[a] = g[b] => a = b
  <2> SUFFICES ASSUME NEW a \in DOMAIN last, NEW b \in DOMAIN last, g[a] = g[b] PROVE a = b
    OBVIOUS
  <2>1. by(last[a]) = by(last[b])
    <3>1. g[a].by = by(last[a]) /\ g[b].by = by(last[b])
      OBVIOUS
    <3> QED
      BY <3>1
  <2>2. GoesAlong(last[a], i, path, n, row, by(last[a]).ns, by(last[a]).hs)
        /\ GoesAlong(last[b], i, path, n, row, by(last[a]).ns, by(last[a]).hs)
    BY <1>7, <2>1
  <2>3. last[a] = last[b]
    <3>1. \A m : GoesAlong(m, i, path, n, row, by(last[a]).ns, by(last[a]).hs) =>
            Adds(m.row, row, AllBindings(i, path, by(last[a]).ns, by(last[a]).hs))
            /\ m = [row |-> m.row, at |-> by(last[a]).ns[n + 1], acc |-> Line(by(last[a]).ns, by(last[a]).hs, n)]
      BY DEF GoesAlong, AllBindings
    <3>2. last[a].row = last[b].row
      BY <2>2, <3>1, AddsOneRow
    <3> QED
      BY <2>2, <3>1, <3>2
  <2> QED
    BY <1>5, <2>3 DEF Distinct
<1>9. Listed(FlattenSeq(lists), {g[a] : a \in DOMAIN last})
  <2>1. lists = [a \in DOMAIN last |-> <<g[a].row>>]
    OBVIOUS
  <2>2. IsList(last)
    BY <1>5 DEF Distinct
  <2> HIDE DEF lists, g
  <2> QED
    BY <1>8, <2>1, <2>2, ListedImage
<1>10. ASSUME NEW m, NEW ns, NEW hs, GoesAlong(m, i, path, n, row, ns, hs), NEW w
       PROVE  w = [by |-> [ns |-> ns, hs |-> hs], row |-> named(m)] <=> Way(w, i, path, row, ns, hs)
  <2>1. /\ MayGo(i, path, n, row, ns, hs) /\ Adds(m.row, row, AllBindings(i, path, ns, hs))
        /\ m = [row |-> m.row, at |-> ns[n + 1], acc |-> Line(ns, hs, n)]
    BY <1>10 DEF GoesAlong, AllBindings
  <2>2. m.acc = Line(ns, hs, n)
    <3>1. \E r : m = [row |-> r, at |-> ns[n + 1], acc |-> Line(ns, hs, n)]
      BY <2>1
    <3> QED
      BY <3>1
  <2>3. path.var = NoVar \/ path.var \notin Vars(AllBindings(i, path, ns, hs))
    BY NotNamed
  <2>4. w.row = named(m) <=> Adds(w.row, row, AllBindings(i, path, ns, hs) \union NameBinding(i, path, ns, hs))
    <3>1. \A q : q = (IF path.var = NoVar THEN m.row ELSE Assign(m.row, path.var, PathRef(Line(ns, hs, n)))) <=>
                   Adds(q, row, AllBindings(i, path, ns, hs) \union
                                  Single(<<i, "path", 0>>, path.var, PathRef(Line(ns, hs, n))))
      BY <2>1, <2>3, AssignAdds
    <3> QED
      BY <2>2, <3>1 DEF NameBinding
  <2>5. w = [by |-> [ns |-> ns, hs |-> hs], row |-> named(m)] <=>
          w = [by |-> [ns |-> ns, hs |-> hs], row |-> w.row] /\ w.row = named(m)
    <3> DEFINE c == [ns |-> ns, hs |-> hs]
               r == named(m)
    <3> HIDE DEF c, r
    <3>1. w = [by |-> c, row |-> r] <=> w = [by |-> c, row |-> w.row] /\ w.row = r
      OBVIOUS
    <3> QED
      BY <3>1 DEF c, r
  <2> QED
    BY <2>1, <2>4, <2>5 DEF Way
<1>11. ASSUME NEW w PROVE w \in {g[a] : a \in DOMAIN last} <=> \E ns, hs : Way(w, i, path, row, ns, hs)
  <2>1. ASSUME NEW a \in DOMAIN last, w = g[a] PROVE \E ns, hs : Way(w, i, path, row, ns, hs)
    <3> DEFINE m == last[a]
               c == by(m)
    <3>1. c = [ns |-> c.ns, hs |-> c.hs] /\ GoesAlong(m, i, path, n, row, c.ns, c.hs)
      BY <1>7
    <3>2. w = [by |-> c, row |-> named(m)]
      BY <2>1
    <3> HIDE DEF m, c, named
    <3>3. w = [by |-> [ns |-> c.ns, hs |-> c.hs], row |-> named(m)]
      BY <3>1, <3>2
    <3>4. Way(w, i, path, row, c.ns, c.hs)
      BY <1>10, <3>1, <3>3
    <3> QED
      BY <3>4
  <2>2. ASSUME NEW ns, NEW hs, Way(w, i, path, row, ns, hs) PROVE \E a \in DOMAIN last : w = g[a]
    <3>1. MayGo(i, path, n, row, ns, hs) /\ Consistent(row, AllBindings(i, path, ns, hs))
      BY <2>2 DEF Way, MayGo, AllBindings
    <3>2. PICK r : Adds(r, row, AllBindings(i, path, ns, hs))
      BY <3>1, ConsistentValues, SomethingAdds
    <3> DEFINE m == [row |-> r, at |-> ns[n + 1], acc |-> Line(ns, hs, n)]
    <3>3. m.row = r /\ m = [row |-> m.row, at |-> ns[n + 1], acc |-> Line(ns, hs, n)]
      OBVIOUS
    <3> HIDE DEF m
    <3>4. GoesAlong(m, i, path, n, row, ns, hs)
      BY <3>1, <3>2, <3>3 DEF GoesAlong, AllBindings
    <3>5. PICK a \in DOMAIN last : last[a] = m
      BY <1>5, <3>4 DEF Range
    <3>6. w = [by |-> [ns |-> ns, hs |-> hs], row |-> named(m)]
      BY <1>10, <2>2, <3>4
    <3>7. by(m) = [ns |-> ns, hs |-> hs]
      <4> DEFINE c == by(m)
      <4>1. c = [ns |-> c.ns, hs |-> c.hs] /\ GoesAlong(m, i, path, n, row, c.ns, c.hs)
        BY <1>7, <3>5
      <4> HIDE DEF c
      <4>2. c.ns = ns /\ c.hs = hs
        BY <1>2, <3>4, <4>1, PartialOnce
      <4> QED
        BY <4>1, <4>2 DEF c
    <3>8. g[a] = [by |-> by(m), row |-> named(m)]
      BY <3>5
    <3> QED
      BY <3>6, <3>7, <3>8
  <2> QED
    BY <2>1, <2>2
<1> DEFINE W == {g[a] : a \in DOMAIN last}
<1>12. Listed(MatchPath(graph, path, row), W)
  BY <1>1, <1>9
<1>13. \A w : w \in W <=> \E ns, hs : Way(w, i, path, row, ns, hs)
  BY <1>11
<1> HIDE DEF W
<1> QED
  BY <1>12, <1>13 DEF WaysListed

------------------------------------------------------------------------------
\* Patterns: one choice of nodes and connections per path.
\* What the first k paths give values to, the names of paths apart, when the
\* i-th of them goes along C[i].
BindingsOf(C, i) == AllBindings(i, clause.pattern[i], C[i].ns, C[i].hs)

NameOf(C, i) == NameBinding(i, clause.pattern[i], C[i].ns, C[i].hs)

ChoiceBindings(C, k) == UNION {BindingsOf(C, i) : i \in 1..k}

ChoiceNames(C, k) == UNION {NameOf(C, i) : i \in 1..k}

\* One path more.
MoreChoice(C, h, c) == [i \in 1..h |-> IF i = h THEN c ELSE C[i]]

ChoiceGrown(X, C, c, k, h) ==
  /\ ChoiceBindings(X, h) = ChoiceBindings(C, k) \union AllBindings(h, clause.pattern[h], c.ns, c.hs)
  /\ ChoiceNames(X, h) = ChoiceNames(C, k) \union NameBinding(h, clause.pattern[h], c.ns, c.hs)

\* The bindings of one path more.
LEMMA ChoiceGrows ==
  ASSUME NEW k, NEW h, Succ(k, h), NEW C, NEW c, NEW X, X = MoreChoice(C, h, c)
  PROVE  ChoiceGrown(X, C, c, k, h)
<1>1. k \in Nat /\ h = k + 1
  BY DEF Succ
<1>2. /\ \A i \in 1..h : i \in 1..k \/ i = h
      /\ h \in 1..h /\ \A i \in 1..k : i \in 1..h /\ i # h
  BY <1>1
<1>3. X[h] = c /\ \A i \in 1..k : X[i] = C[i]
  BY <1>2 DEF MoreChoice
<1>4. /\ BindingsOf(X, h) = AllBindings(h, clause.pattern[h], c.ns, c.hs)
      /\ NameOf(X, h) = NameBinding(h, clause.pattern[h], c.ns, c.hs)
  BY <1>3 DEF BindingsOf, NameOf
<1>5. \A i \in 1..k : BindingsOf(X, i) = BindingsOf(C, i) /\ NameOf(X, i) = NameOf(C, i)
  BY <1>3 DEF BindingsOf, NameOf
<1>6. ChoiceBindings(X, h) = ChoiceBindings(C, k) \union BindingsOf(X, h)
  <2> SUFFICES ASSUME NEW b
               PROVE  b \in ChoiceBindings(X, h) <=> b \in ChoiceBindings(C, k) \/ b \in BindingsOf(X, h)
    OBVIOUS
  <2>1. b \in ChoiceBindings(X, h) <=> \E i \in 1..h : b \in BindingsOf(X, i)
    BY DEF ChoiceBindings
  <2>2. b \in ChoiceBindings(C, k) <=> \E i \in 1..k : b \in BindingsOf(C, i)
    BY DEF ChoiceBindings
  <2> QED
    BY <1>2, <1>5, <2>1, <2>2
<1>7. ChoiceNames(X, h) = ChoiceNames(C, k) \union NameOf(X, h)
  <2> SUFFICES ASSUME NEW b
               PROVE  b \in ChoiceNames(X, h) <=> b \in ChoiceNames(C, k) \/ b \in NameOf(X, h)
    OBVIOUS
  <2>1. b \in ChoiceNames(X, h) <=> \E i \in 1..h : b \in NameOf(X, i)
    BY DEF ChoiceNames
  <2>2. b \in ChoiceNames(C, k) <=> \E i \in 1..k : b \in NameOf(C, i)
    BY DEF ChoiceNames
  <2> QED
    BY <1>2, <1>5, <2>1, <2>2
<1> QED
  BY <1>4, <1>6, <1>7 DEF ChoiceGrown

\* Where a path gives values.
LEMMA PathPlaces ==
  ASSUME NEW i, NEW path, NEW ns, NEW hs, NEW b
  PROVE  /\ b \in AllBindings(i, path, ns, hs) => \E kind, j : b.at = <<i, kind, j>>
         /\ b \in AllBindings(i, path, ns, hs) =>
              \/ \E j \in 1..(Len(path.hops) + 1) :
                   b.var = path.nodes[j].var /\ b.value = NodeRef(ns[j]) /\ b.var # NoVar
              \/ \E j \in 1..Len(path.hops) :
                   b.var = path.hops[j].var /\ b.value = hs[j] /\ b.var # NoVar
         /\ b \in NameBinding(i, path, ns, hs) =>
              b.var = path.var /\ b.value = PathRef(Line(ns, hs, Len(path.hops))) /\ b.var # NoVar
<1>1. ASSUME NEW at, NEW var, NEW value, b \in Single(at, var, value)
      PROVE  b.at = at /\ b.var = var /\ b.value = value /\ b.var # NoVar
  BY <1>1, SingleBinding
<1>2. b \in AllBindings(i, path, ns, hs) <=>
        \/ \E j \in 1..(Len(path.hops) + 1) : b \in Single(<<i, "node", j>>, path.nodes[j].var, NodeRef(ns[j]))
        \/ \E j \in 1..Len(path.hops) : b \in Single(<<i, "hop", j>>, path.hops[j].var, hs[j])
  BY PathBindingsAre DEF AllBindings
<1>3. b \in NameBinding(i, path, ns, hs) =>
        b.var = path.var /\ b.value = PathRef(Line(ns, hs, Len(path.hops))) /\ b.var # NoVar
  BY <1>1 DEF NameBinding
<1>4. ASSUME NEW j \in 1..(Len(path.hops) + 1), b \in Single(<<i, "node", j>>, path.nodes[j].var, NodeRef(ns[j]))
      PROVE  b.at = <<i, "node", j>> /\ b.var = path.nodes[j].var /\ b.value = NodeRef(ns[j]) /\ b.var # NoVar
  BY <1>1, <1>4
<1>5. ASSUME NEW j \in 1..Len(path.hops), b \in Single(<<i, "hop", j>>, path.hops[j].var, hs[j])
      PROVE  b.at = <<i, "hop", j>> /\ b.var = path.hops[j].var /\ b.value = hs[j] /\ b.var # NoVar
  BY <1>1, <1>5
<1> QED
  BY <1>2, <1>3, <1>4, <1>5

\* The variables of a path.
VarsOf(path) ==
  ({path.var} \union {path.nodes[j].var : j \in DOMAIN path.nodes}
              \union {path.hops[j].var : j \in DOMAIN path.hops}) \ {NoVar}

\* The places of a path pattern.
LEMMA PathIndices ==
  ASSUME NEW path, IsPathPattern(path)
  PROVE  /\ DOMAIN path.hops = 1..Len(path.hops) /\ Len(path.hops) \in Nat
         /\ DOMAIN path.nodes = 1..(Len(path.hops) + 1)
BY DEF IsPathPattern

\* The variable of one place.
LEMMA SingleVars ==
  ASSUME NEW at, NEW var, NEW value
  PROVE  Vars(Single(at, var, value)) = {var} \ {NoVar}
<1>1. CASE var = NoVar
  <2>1. Single(at, var, value) = {}
    BY <1>1, SingleBinding
  <2> QED
    BY <1>1, <2>1 DEF Vars
<1>2. CASE var # NoVar
  BY <1>2, SingleBinding
<1> QED
  BY <1>1, <1>2

\* The variables that a path binds are the names in its pattern.
LEMMA PathVars ==
  ASSUME NEW i, NEW path, IsPathPattern(path), NEW ns, NEW hs
  PROVE  Vars(AllBindings(i, path, ns, hs) \union NameBinding(i, path, ns, hs)) = VarsOf(path)
<1> DEFINE B == AllBindings(i, path, ns, hs)
           P == NameBinding(i, path, ns, hs)
<1>1. \A x : x \in Vars(B \union P) <=> (\E b \in B : b.var = x) \/ (\E b \in P : b.var = x)
  BY DEF Vars
<1>2. \A D, x : x \in Vars(D) <=> \E b \in D : b.var = x
  BY DEF Vars
<1>3. \A x : (\E b \in P : b.var = x) <=> x = path.var /\ x # NoVar
  <2>1. Vars(P) = {path.var} \ {NoVar}
    BY SingleVars DEF NameBinding
  <2> HIDE DEF P
  <2> QED
    BY <1>2, <2>1
<1>4. \A x : (\E b \in B : b.var = x) <=>
         /\ x # NoVar
         /\ \/ \E j \in DOMAIN path.nodes : x = path.nodes[j].var
            \/ \E j \in DOMAIN path.hops : x = path.hops[j].var
  <2> SUFFICES ASSUME NEW x
               PROVE  (\E b \in B : b.var = x) <=>
                        /\ x # NoVar
                        /\ \/ \E j \in DOMAIN path.nodes : x = path.nodes[j].var
                           \/ \E j \in DOMAIN path.hops : x = path.hops[j].var
    OBVIOUS
  <2> DEFINE N(j) == Single(<<i, "node", j>>, path.nodes[j].var, NodeRef(ns[j]))
             H(j) == Single(<<i, "hop", j>>, path.hops[j].var, hs[j])
  <2>1. \A b : b \in B <=> (\E j \in DOMAIN path.nodes : b \in N(j)) \/ (\E j \in DOMAIN path.hops : b \in H(j))
    <3>1. DOMAIN path.nodes = 1..(Len(path.hops) + 1) /\ DOMAIN path.hops = 1..Len(path.hops)
      BY PathIndices
    <3>2. \A b : b \in PathBindings(i, path, ns, hs, Len(path.hops)) <=>
             \/ \E j \in 1..(Len(path.hops) + 1) : b \in N(j)
             \/ \E j \in 1..Len(path.hops) : b \in H(j)
      BY PathBindingsAre
    <3> HIDE DEF N, H
    <3> QED
      BY <3>1, <3>2 DEF AllBindings
  <2>2. \A j : Vars(N(j)) = {path.nodes[j].var} \ {NoVar}
    BY SingleVars
  <2>3. \A j : Vars(H(j)) = {path.hops[j].var} \ {NoVar}
    BY SingleVars
  <2> HIDE DEF N, H, B
  <2>4. (\E b \in B : b.var = x) <=> (\E j \in DOMAIN path.nodes : \E b \in N(j) : b.var = x)
                                      \/ (\E j \in DOMAIN path.hops : \E b \in H(j) : b.var = x)
    BY <2>1
  <2>5. \A j : (\E b \in N(j) : b.var = x) <=> x # NoVar /\ x = path.nodes[j].var
    BY <1>2, <2>2
  <2>6. \A j : (\E b \in H(j) : b.var = x) <=> x # NoVar /\ x = path.hops[j].var
    <3> TAKE j
    <3>1. x \in Vars(H(j)) <=> \E b \in H(j) : b.var = x
      BY <1>2
    <3>2. Vars(H(j)) = {path.hops[j].var} \ {NoVar}
      BY <2>3
    <3> QED
      BY <3>1, <3>2
  <2> QED
    BY <2>4, <2>5, <2>6
<1> HIDE DEF B, P
<1>5. \A x : x \in Vars(B \union P) <=> x \in VarsOf(path)
  BY <1>1, <1>3, <1>4 DEF VarsOf
<1> QED
  BY <1>5 DEF B, P

\* The names before a path are those of the paths before it.
LEMMA NamedBeforeIs ==
  ASSUME IsPattern(clause.pattern), NEW m \in 0..Len(clause.pattern)
  PROVE  NamedBefore(m + 1) = UNION {VarsOf(clause.pattern[i]) : i \in 1..m}
<1> DEFINE p == clause.pattern
<1>1. Len(p) \in Nat /\ p \in Seq(Range(p))
  BY DEF IsPattern
<1> DEFINE q == SubSeq(p, 1, m)
<1>2. NamedBefore(m + 1) = PatternVars(q)
  <2>1. m + 1 - 1 = m
    OBVIOUS
  <2> QED
    BY <2>1 DEF NamedBefore
<1>3. DOMAIN q = 1..m /\ \A i \in 1..m : q[i] = p[i]
  BY <1>1
<1> HIDE DEF q
<1>4. \A x : x \in PatternVars(q) <=> \E i \in DOMAIN q : x \in VarsOf(q[i])
  <2> SUFFICES ASSUME NEW x PROVE x \in PatternVars(q) <=> \E i \in DOMAIN q : x \in VarsOf(q[i])
    OBVIOUS
  <2> DEFINE T(i) == {q[i].var} \union {q[i].nodes[j].var : j \in DOMAIN q[i].nodes}
                                \union {q[i].hops[j].var : j \in DOMAIN q[i].hops}
  <2>1. PatternVars(q) = (UNION {T(i) : i \in DOMAIN q}) \ {NoVar}
    BY DEF PatternVars
  <2>2. \A i : x \in VarsOf(q[i]) <=> x \in T(i) /\ x # NoVar
    BY DEF VarsOf
  <2> HIDE DEF T
  <2> QED
    BY <2>1, <2>2
<1>5. \A i \in 1..m : VarsOf(q[i]) = VarsOf(p[i])
  BY <1>3
<1>6. \A x : x \in PatternVars(q) <=> \E i \in 1..m : x \in VarsOf(p[i])
  BY <1>3, <1>4, <1>5
<1> QED
  BY <1>2, <1>6

\* No name stands before the first path.
LEMMA NothingNamedBefore ==
  ASSUME IsPattern(clause.pattern)
  PROVE  NamedBefore(1) = {}
<1>1. 0 \in 0..Len(clause.pattern) /\ 0 + 1 = 1 /\ 1..0 = {}
  BY DEF IsPattern
<1>2. NamedBefore(0 + 1) = UNION {VarsOf(clause.pattern[i]) : i \in 1..0}
  BY <1>1, NamedBeforeIs
<1> QED
  BY <1>1, <1>2

\* The name of a path differs from every other name in the pattern.
PathNamesApart(pattern) ==
  \A i, k \in DOMAIN pattern : pattern[i].var # NoVar =>
    /\ pattern[i].var = pattern[k].var => i = k
    /\ \A j \in DOMAIN pattern[k].nodes : pattern[k].nodes[j].var # pattern[i].var
    /\ \A j \in DOMAIN pattern[k].hops : pattern[k].hops[j].var # pattern[i].var

\* The bindings D and the names Q of one path more say nothing of what B and P do,
\* and names are apart.
Apart(B, P, D, Q) ==
  /\ B \intersect D = {}
  /\ Vars(P) \intersect Vars(D) = {}
  /\ Vars(P) \intersect Vars(Q) = {}
  /\ Vars(B) \intersect Vars(Q) = {}

\* Taking B and P and then D and Q is taking all of them.
TakenTogether(row, r, q, B, P, D, Q) ==
  /\ Consistent(row, B \union D) <=> Consistent(r, D)
  /\ Consistent(r, D) =>
       (Adds(q, r, D \union Q) <=> Adds(q, row, (B \union D) \union (P \union Q)))

\* When nothing is said twice, taking B and P and then D and Q takes all of them.
LEMMA TogetherInTurn ==
  ASSUME NEW row, NEW r, NEW q, NEW B, NEW P, NEW D, NEW Q, Apart(B, P, D, Q),
         Consistent(row, B), Adds(r, row, B \union P)
  PROVE  TakenTogether(row, r, q, B, P, D, Q)
<1> DEFINE C == B \union D
           E == B \union P
           F == D \union Q
           A == C \union (P \union Q)
<1>1. C = B \union D /\ E = B \union P /\ Adds(r, row, E) /\ A = E \union F
      /\ B \intersect D = {} /\ Vars(P) \intersect Vars(D) = {}
  BY DEF Apart
<1>2. F = D \union Q /\ A = C \union (P \union Q)
  OBVIOUS
<1> HIDE DEF C, E, F, A
<1>3. Consistent(row, C) <=> Consistent(r, D)
  BY ONLY Consistent(row, B), <1>1, ConsistentInTurn
<1>4. ASSUME Consistent(row, C) PROVE Adds(q, r, F) <=> Adds(q, row, A)
  <2>1. ASSUME NEW b \in E, NEW d \in F, b.var = d.var PROVE b.value = d.value
    <3>1. b.var \in Vars(B) \/ b.var \in Vars(P)
      BY <1>1 DEF Vars
    <3>2. CASE d \in Q
      <4>1. d.var \in Vars(Q)
        BY <3>2 DEF Vars
      <4> QED
        BY <2>1, <3>1, <4>1 DEF Apart
    <3>3. CASE d \in D
      <4>1. d.var \in Vars(D)
        BY <3>3 DEF Vars
      <4>2. b \notin P
        BY <1>1, <2>1, <4>1 DEF Vars
      <4>3. b \in C /\ d \in C
        BY <1>1, <3>3, <4>2
      <4> QED
        BY <1>4, <2>1, <4>3, ConsistentValues
    <3> QED
      BY <1>2, <3>2, <3>3
  <2> QED
    BY ONLY <1>1, <2>1, AddsInTurn
<1> QED
  BY <1>2, <1>3, <1>4 DEF TakenTogether, C, F

\* The next path binds other places than those before it, and names are apart.
LEMMA ChoiceApart ==
  ASSUME IsPattern(clause.pattern), PathNamesApart(clause.pattern),
         NEW k, NEW h, Succ(k, h), h <= Len(clause.pattern), NEW C, NEW ns, NEW hs
  PROVE  Apart(ChoiceBindings(C, k), ChoiceNames(C, k),
               AllBindings(h, clause.pattern[h], ns, hs), NameBinding(h, clause.pattern[h], ns, hs))
<1> DEFINE p == clause.pattern
           B == ChoiceBindings(C, k)
           P == ChoiceNames(C, k)
           D == AllBindings(h, p[h], ns, hs)
           Q == NameBinding(h, p[h], ns, hs)
           PathVar(i, x) == x = p[i].var /\ x # NoVar
           PartVar(i, x) == /\ x # NoVar
                            /\ \/ \E j \in DOMAIN p[i].nodes : x = p[i].nodes[j].var
                               \/ \E j \in DOMAIN p[i].hops : x = p[i].hops[j].var
           In(i, b) == \E kind, j : b.at = <<i, kind, j>>
<1>1. /\ k \in Nat /\ h = k + 1 /\ Len(p) \in Nat /\ DOMAIN p = 1..Len(p)
      /\ \A i \in DOMAIN p : IsPathPattern(p[i])
  BY DEF Succ, IsPattern, Range
<1>2. h \in DOMAIN p /\ \A i \in 1..k : i \in DOMAIN p /\ i # h
  BY <1>1
<1>3. ASSUME NEW i \in DOMAIN p, NEW ms, NEW gs, NEW b, b \in AllBindings(i, p[i], ms, gs)
      PROVE  PartVar(i, b.var) /\ In(i, b)
  <2>1. /\ DOMAIN p[i].nodes = 1..(Len(p[i].hops) + 1)
        /\ DOMAIN p[i].hops = 1..Len(p[i].hops)
    BY <1>1, PathIndices
  <2>2. \E kind, j : b.at = <<i, kind, j>>
    BY <1>3, PathPlaces
  <2>3. \/ \E j \in 1..(Len(p[i].hops) + 1) : b.var = p[i].nodes[j].var /\ b.var # NoVar
        \/ \E j \in 1..Len(p[i].hops) : b.var = p[i].hops[j].var /\ b.var # NoVar
    BY <1>3, PathPlaces
  <2>4. PartVar(i, b.var)
    BY <2>1, <2>3
  <2> QED
    BY <2>2, <2>4
<1>4. ASSUME NEW i \in DOMAIN p, NEW ms, NEW gs, NEW b, b \in NameBinding(i, p[i], ms, gs)
      PROVE  PathVar(i, b.var)
  BY <1>4, PathPlaces
<1>5. /\ \A i, j \in DOMAIN p : \A x : PathVar(i, x) /\ PathVar(j, x) => i = j
      /\ \A i, j \in DOMAIN p : \A x : ~(PathVar(i, x) /\ PartVar(j, x))
  BY DEF PathNamesApart
<1> HIDE DEF PathVar, PartVar, In
<1>6. ASSUME NEW b \in B PROVE \E i \in 1..k : PartVar(i, b.var) /\ In(i, b)
  <2>1. PICK i \in 1..k : b \in BindingsOf(C, i)
    BY DEF ChoiceBindings
  <2>2. i \in DOMAIN p /\ b \in AllBindings(i, p[i], C[i].ns, C[i].hs)
    BY <1>2, <2>1 DEF BindingsOf
  <2>3. PartVar(i, b.var) /\ In(i, b)
    BY <1>3, <2>2
  <2> QED
    BY <2>3
<1>7. ASSUME NEW b \in P PROVE \E i \in 1..k : PathVar(i, b.var)
  <2>1. PICK i \in 1..k : b \in NameOf(C, i)
    BY DEF ChoiceNames
  <2> QED
    BY <1>2, <1>4, <2>1 DEF NameOf
<1>8. ASSUME NEW b \in D PROVE PartVar(h, b.var) /\ In(h, b)
  <2>1. h \in DOMAIN p /\ b \in AllBindings(h, p[h], ns, hs)
    BY <1>2
  <2> QED
    BY <1>3, <2>1
<1>9. ASSUME NEW b \in Q PROVE PathVar(h, b.var)
  BY <1>2, <1>4
<1> HIDE DEF B, P, D, Q, p
<1>10. B \intersect D = {}
  <2> SUFFICES ASSUME NEW b \in B, b \in D PROVE FALSE
    OBVIOUS
  <2>1. PICK i \in 1..k : In(i, b)
    BY <1>6
  <2>2. In(h, b)
    BY <1>8
  <2>3. i = h
    BY <2>1, <2>2 DEF In
  <2> QED
    BY <1>2, <2>3
<1>11. \A x : /\ x \in Vars(B) => \E i \in 1..k : PartVar(i, x)
              /\ x \in Vars(P) => \E i \in 1..k : PathVar(i, x)
              /\ x \in Vars(D) => PartVar(h, x)
              /\ x \in Vars(Q) => PathVar(h, x)
  BY <1>6, <1>7, <1>8, <1>9 DEF Vars
<1>12. /\ Vars(P) \intersect Vars(D) = {} /\ Vars(B) \intersect Vars(Q) = {}
       /\ Vars(P) \intersect Vars(Q) = {}
  BY <1>2, <1>5, <1>11
<1> QED
  BY <1>10, <1>12 DEF Apart, B, P, D, Q, p

\* The variables that the first k paths bind.
LEMMA ChoiceVars ==
  ASSUME IsPattern(clause.pattern), NEW k \in 0..Len(clause.pattern), NEW C
  PROVE  Vars(ChoiceBindings(C, k) \union ChoiceNames(C, k)) = NamedBefore(k + 1)
<1> DEFINE p == clause.pattern
           Both(i) == BindingsOf(C, i) \union NameOf(C, i)
<1>1. \A D, x : x \in Vars(D) <=> \E b \in D : b.var = x
  BY DEF Vars
<1>2. \A b : b \in ChoiceBindings(C, k) \union ChoiceNames(C, k) <=> \E i \in 1..k : b \in Both(i)
  BY DEF ChoiceBindings, ChoiceNames
<1>3. ASSUME NEW i \in 1..k PROVE Vars(Both(i)) = VarsOf(p[i])
  <2>1. IsPathPattern(p[i])
    BY DEF IsPattern, Range
  <2> QED
    BY <2>1, PathVars DEF BindingsOf, NameOf
<1> HIDE DEF Both
<1>4. NamedBefore(k + 1) = UNION {VarsOf(p[i]) : i \in 1..k}
  BY NamedBeforeIs
<1>5. \A x : x \in Vars(ChoiceBindings(C, k) \union ChoiceNames(C, k)) <=> \E i \in 1..k : x \in Vars(Both(i))
  BY <1>1, <1>2
<1>6. \A x : x \in NamedBefore(k + 1) <=> \E i \in 1..k : x \in VarsOf(p[i])
  BY <1>4
<1> QED
  BY <1>3, <1>5, <1>6

StartsWell(i, n, row) == n \in graph.nodes \/ clause.pattern[i].nodes[1].var \in DOMAIN row \union NamedBefore(i)

\* The first k paths may go along C.
Solves(C, k, row) ==
  /\ C = [i \in 1..k |-> [ns |-> C[i].ns, hs |-> C[i].hs]]
  /\ \A i \in 1..k : /\ Fits(clause.pattern[i], C[i].ns, C[i].hs, Len(clause.pattern[i].hops))
                     /\ StartsWell(i, C[i].ns[1], row)
  /\ Consistent(row, ChoiceBindings(C, k))

\* w stands for going along C.
Solution(w, C, k, row) ==
  /\ Solves(C, k, row)
  /\ Adds(w.row, row, ChoiceBindings(C, k) \union ChoiceNames(C, k))
  /\ w = [by |-> C, row |-> w.row]

SolutionsListed(s, k, row) ==
  \E W : Listed(s, W) /\ \A w : w \in W <=> \E C : Solution(w, C, k, row)

FineRow(row) == IsRow(row) /\ NoVar \notin DOMAIN row /\ HoldsObjects(row)

\* Before the first path there is the row, and nothing is chosen.
LEMMA NoPathYet ==
  ASSUME NEW row, FineRow(row), IsPattern(clause.pattern)
  PROVE  SolutionsListed(<<row>>, 0, row)
<1> DEFINE none == [i \in 1..0 |-> 0]
           w == [by |-> none, row |-> row]
<1>1. 1..0 = {}
  OBVIOUS
<1>2. \A C : ChoiceBindings(C, 0) = {} /\ ChoiceNames(C, 0) = {}
  BY <1>1 DEF ChoiceBindings, ChoiceNames
<1>3. \A C : Solves(C, 0, row) <=> C = none
  BY <1>1, <1>2 DEF Solves, Consistent
<1>4. \A r : Adds(r, row, {}) <=> r = row
  BY AddsNothing DEF FineRow
<1>5. \A v : (\E C : Solution(v, C, 0, row)) <=> v = [by |-> none, row |-> v.row] /\ v.row = row
  BY <1>2, <1>3, <1>4 DEF Solution
<1>6. Listed(<<w.row>>, {w}) /\ w.row = row
  BY ListedNone
<1>7. \A v : v = w <=> v = [by |-> none, row |-> v.row] /\ v.row = row
  OBVIOUS
<1> HIDE DEF w, none
<1>8. \A v : v \in {w} <=> \E C : Solution(v, C, 0, row)
  BY <1>5, <1>7
<1> QED
  BY <1>6, <1>8 DEF SolutionsListed

\* The values that paths give are nodes of the graph or no nodes.
LEMMA ChoiceValues ==
  ASSUME IsPattern(clause.pattern), NEW k \in 0..Len(clause.pattern), NEW C, NEW row, Solves(C, k, row),
         NEW b, b \in ChoiceBindings(C, k) \union ChoiceNames(C, k)
  PROVE  b.var # NoVar /\ (IsNode(b.value) => b.value.node \in Objects)
<1> DEFINE p == clause.pattern
<1>1. \A x : ~IsNode(RelRef(x)) /\ ~IsNode(TrailRef(x)) /\ ~IsNode(PathRef(x)) /\ NodeRef(x).node = x
  BY DEF IsNode, RelRef, TrailRef, PathRef, NodeRef
<1>2. PICK i \in 1..k : b \in BindingsOf(C, i) \/ b \in NameOf(C, i)
  BY DEF ChoiceBindings, ChoiceNames
<1>3. CASE b \in NameOf(C, i)
  <2>1. b.var # NoVar /\ \E l : b.value = PathRef(l)
    BY <1>3, PathPlaces DEF NameOf
  <2> QED
    BY <1>1, <2>1
<1>4. CASE b \in BindingsOf(C, i)
  <2> DEFINE ns == C[i].ns
             hs == C[i].hs
             n == Len(p[i].hops)
  <2>1. /\ Shaped(ns, hs, n)
        /\ \A j \in 1..n : hs[j] \in Connections(p[i].hops[j], ns[j], ns[j + 1])
    BY DEF Solves, Fits
  <2>2. \/ \E j \in 1..(n + 1) : b.value = NodeRef(ns[j])
        \/ \E j \in 1..n : b.value = hs[j]
    BY <1>4, PathPlaces DEF BindingsOf
  <2>3. b.var # NoVar
    BY <1>4, PathPlaces DEF BindingsOf
  <2>4. ASSUME NEW j \in 1..(n + 1), b.value = NodeRef(ns[j]) PROVE b.value.node \in Objects
    BY <1>1, <2>1, <2>4 DEF Shaped
  <2>5. ASSUME NEW j \in 1..n, b.value = hs[j] PROVE ~IsNode(b.value)
    <3>1. hs[j] \in Connections(p[i].hops[j], ns[j], ns[j + 1])
      BY <2>1
    <3>2. (\E x : hs[j] = RelRef(x)) \/ (\E x : hs[j] = TrailRef(x))
      BY <3>1 DEF Connections
    <3> QED
      BY <1>1, <2>5, <3>2
  <2> QED
    BY <2>2, <2>3, <2>4, <2>5
<1> QED
  BY <1>2, <1>3, <1>4

\* The row of a solution is as fine as the row that came in.
LEMMA SolutionFine ==
  ASSUME IsPattern(clause.pattern), NEW k \in 0..Len(clause.pattern), NEW row, FineRow(row),
         NEW w, NEW C, Solution(w, C, k, row)
  PROVE  FineRow(w.row) /\ DOMAIN w.row = DOMAIN row \union NamedBefore(k + 1)
<1> DEFINE A == ChoiceBindings(C, k) \union ChoiceNames(C, k)
           r == w.row
<1>1. Solves(C, k, row) /\ Adds(r, row, A)
  BY DEF Solution
<1>2. DOMAIN r = DOMAIN row \union NamedBefore(k + 1)
  BY <1>1, ChoiceVars DEF Adds
<1>3. ASSUME NEW b \in A PROVE b.var # NoVar /\ (IsNode(b.value) => b.value.node \in Objects)
  BY <1>1, ChoiceValues
<1> HIDE DEF A, r
<1>4. NoVar \notin Vars(A)
  BY <1>3 DEF Vars
<1>5. ASSUME NEW x \in DOMAIN r, IsNode(r[x]) PROVE r[x].node \in Objects
  <2>1. CASE x \in Vars(A)
    <3>1. PICK b \in A : b.var = x
      BY <2>1 DEF Vars
    <3>2. r[x] = b.value
      BY <1>1, <3>1 DEF Adds
    <3> QED
      BY <1>3, <1>5, <3>2
  <2>2. CASE x \notin Vars(A)
    BY <1>1, <1>5, <2>2 DEF Adds, FineRow, HoldsObjects
  <2> QED
    BY <2>1, <2>2
<1> QED
  BY <1>1, <1>2, <1>4, <1>5 DEF FineRow, HoldsObjects, Adds, r

\* The starting condition of the next path, for the row that has come so far.
LEMMA StartsWellNext ==
  ASSUME IsPattern(clause.pattern), NEW k, NEW h, Succ(k, h), h <= Len(clause.pattern),
         NEW row, FineRow(row), NEW w, NEW C, Solution(w, C, k, row), NEW n
  PROVE  StartsIn(clause.pattern[h].nodes[1], n, w.row) <=> StartsWell(h, n, row)
<1>1. h = k + 1 /\ k \in 0..Len(clause.pattern)
  BY DEF Succ, IsPattern
<1>2. DOMAIN w.row = DOMAIN row \union NamedBefore(h)
  BY <1>1, SolutionFine
<1> QED
  BY <1>2 DEF StartsIn, StartsWell

SolvesMore(X, C, c, k, h, path, B, D, row) ==
  Solves(X, h, row) <=>
    /\ Solves(C, k, row)
    /\ Fits(path, c.ns, c.hs, Len(path.hops)) /\ StartsWell(h, c.ns[1], row)
    /\ Consistent(row, B \union D)

\* A solution of one path more.
LEMMA MoreChoiceSolves ==
  ASSUME IsPattern(clause.pattern), NEW k, NEW h, Succ(k, h), h <= Len(clause.pattern),
         NEW row, NEW C, NEW c, c = [ns |-> c.ns, hs |-> c.hs], NEW X, X = MoreChoice(C, h, c),
         C = [i \in 1..k |-> C[i]],
         NEW path, path = clause.pattern[h], NEW D, D = AllBindings(h, path, c.ns, c.hs),
         NEW B, B = ChoiceBindings(C, k), Consistent(row, B)
  PROVE  SolvesMore(X, C, c, k, h, path, B, D, row)
<1> DEFINE Good(A, i) == /\ Fits(clause.pattern[i], A[i].ns, A[i].hs, Len(clause.pattern[i].hops))
                         /\ StartsWell(i, A[i].ns[1], row)
<1>1. k \in Nat /\ h = k + 1
  BY DEF Succ
<1>2. /\ \A i \in 1..h : i \in 1..k \/ i = h
      /\ h \in 1..h /\ \A i \in 1..k : i \in 1..h /\ i # h
  BY <1>1
<1>3. X[h] = c /\ (\A i \in 1..k : X[i] = C[i]) /\ X = [i \in 1..h |-> X[i]]
  BY <1>2 DEF MoreChoice
<1>4. ChoiceBindings(X, h) = B \union D
  BY ChoiceGrows DEF ChoiceGrown
<1>5. X = [i \in 1..h |-> [ns |-> X[i].ns, hs |-> X[i].hs]] <=>
        C = [i \in 1..k |-> [ns |-> C[i].ns, hs |-> C[i].hs]]
  <2>1. ASSUME C = [i \in 1..k |-> [ns |-> C[i].ns, hs |-> C[i].hs]]
        PROVE  X = [i \in 1..h |-> [ns |-> X[i].ns, hs |-> X[i].hs]]
    <3>1. \A i \in 1..h : X[i] = [ns |-> X[i].ns, hs |-> X[i].hs]
      BY <1>2, <1>3, <2>1
    <3> QED
      BY <1>3, <3>1
  <2>2. ASSUME X = [i \in 1..h |-> [ns |-> X[i].ns, hs |-> X[i].hs]]
        PROVE  C = [i \in 1..k |-> [ns |-> C[i].ns, hs |-> C[i].hs]]
    <3>1. \A i \in 1..k : C[i] = [ns |-> C[i].ns, hs |-> C[i].hs]
      BY <1>2, <1>3, <2>2
    <3> QED
      BY <3>1
  <2> QED
    BY <2>1, <2>2
<1>6. \A i \in 1..k : Good(X, i) <=> Good(C, i)
  BY <1>3
<1>7. Good(X, h) <=> Fits(path, c.ns, c.hs, Len(path.hops)) /\ StartsWell(h, c.ns[1], row)
  BY <1>3
<1>8. Solves(X, h, row) <=> /\ X = [i \in 1..h |-> [ns |-> X[i].ns, hs |-> X[i].hs]]
                            /\ \A i \in 1..h : Good(X, i)
                            /\ Consistent(row, B \union D)
  BY <1>4 DEF Solves
<1>9. Solves(C, k, row) <=> /\ C = [i \in 1..k |-> [ns |-> C[i].ns, hs |-> C[i].hs]]
                            /\ \A i \in 1..k : Good(C, i)
  BY DEF Solves
<1> HIDE DEF Good
<1>10. (\A i \in 1..h : Good(X, i)) <=> (\A i \in 1..k : Good(C, i)) /\ Good(X, h)
  BY <1>2, <1>6
<1> QED
  BY <1>5, <1>7, <1>8, <1>9, <1>10 DEF SolvesMore

\* w and, after it, v are the solution x.
Continues(x, w, C, v, ns, hs, k, h, row) ==
  /\ Solution(w, C, k, row)
  /\ Way(v, h, clause.pattern[h], w.row, ns, hs)
  /\ x = [by |-> MoreChoice(C, h, v.by), row |-> v.row]

\* A way determines its nodes and what connects them.
LEMMA WayBy ==
  ASSUME NEW v, NEW h, NEW path, NEW row, NEW ns, NEW hs, Way(v, h, path, row, ns, hs)
  PROVE  v.by = [ns |-> ns, hs |-> hs] /\ v.by.ns = ns /\ v.by.hs = hs /\ v = [by |-> v.by, row |-> v.row]
<1>1. \E r : v = [by |-> [ns |-> ns, hs |-> hs], row |-> r]
  BY DEF Way
<1>2. v.by = [ns |-> ns, hs |-> hs]
  BY <1>1
<1> QED
  BY <1>2 DEF Way

\* A solution and a way along the next path make a solution of one path more.
LEMMA SolutionGrows ==
  ASSUME IsPattern(clause.pattern), PathNamesApart(clause.pattern),
         NEW k, NEW h, Succ(k, h), h <= Len(clause.pattern), NEW row, FineRow(row),
         NEW x, NEW w, NEW C, NEW v, NEW ns, NEW hs, Continues(x, w, C, v, ns, hs, k, h, row)
  PROVE  Solution(x, MoreChoice(C, h, v.by), h, row)
<1> DEFINE path == clause.pattern[h]
           c == v.by
           X == MoreChoice(C, h, c)
           B == ChoiceBindings(C, k)
           P == ChoiceNames(C, k)
           D == AllBindings(h, path, ns, hs)
           Q == NameBinding(h, path, ns, hs)
<1>1. h \in Nat
  BY DEF Succ
<1>2. /\ Solution(w, C, k, row) /\ Way(v, h, path, w.row, ns, hs)
      /\ x = [by |-> X, row |-> v.row]
  BY DEF Continues
<1>3. /\ Solves(C, k, row) /\ Consistent(row, B) /\ Adds(w.row, row, B \union P)
      /\ C = [i \in 1..k |-> C[i]]
  BY <1>2 DEF Solution, Solves
<1>4. /\ Fits(path, ns, hs, Len(path.hops)) /\ StartsIn(path.nodes[1], ns[1], w.row)
      /\ Consistent(w.row, D) /\ Adds(v.row, w.row, D \union Q)
  BY <1>2 DEF Way, MayGo, AllBindings
<1>5. c = [ns |-> c.ns, hs |-> c.hs] /\ c.ns = ns /\ c.hs = hs
  <2>1. v.by = [ns |-> ns, hs |-> hs] /\ v.by.ns = ns /\ v.by.hs = hs /\ v = [by |-> v.by, row |-> v.row]
    <3> HIDE DEF path
    <3> QED
      BY <1>2, WayBy
  <2> QED
    BY <2>1
<1>6. Apart(B, P, D, Q)
  BY ChoiceApart
<1>7. ChoiceBindings(X, h) = B \union D /\ ChoiceNames(X, h) = P \union Q
  <2>1. ChoiceGrown(X, C, c, k, h)
    BY ChoiceGrows
  <2> QED
    BY <1>5, <2>1 DEF ChoiceGrown
<1>8. D = AllBindings(h, path, c.ns, c.hs) /\ B = ChoiceBindings(C, k) /\ X = MoreChoice(C, h, c)
      /\ path = clause.pattern[h]
  BY <1>5
<1>9. StartsWell(h, ns[1], row)
  BY <1>2, <1>4, StartsWellNext
<1> HIDE DEF path, c, X, B, P, D, Q
<1>10. TakenTogether(row, w.row, v.row, B, P, D, Q)
  BY <1>3, <1>6, TogetherInTurn
<1>11. Consistent(row, B \union D) /\ Adds(v.row, row, (B \union D) \union (P \union Q))
  BY <1>4, <1>10 DEF TakenTogether
<1>12. Solves(X, h, row)
  <2>1. SolvesMore(X, C, c, k, h, path, B, D, row)
    BY <1>3, <1>5, <1>8, MoreChoiceSolves
  <2> QED
    BY <1>3, <1>4, <1>5, <1>9, <1>11, <2>1 DEF SolvesMore
<1>13. x.row = v.row /\ x = [by |-> X, row |-> x.row]
  BY <1>2
<1>14. Adds(x.row, row, ChoiceBindings(X, h) \union ChoiceNames(X, h))
  BY <1>7, <1>11, <1>13
<1> QED
  BY <1>12, <1>13, <1>14 DEF Solution, X, c

\* A solution of one path more is made of a solution and a way along the last path.
LEMMA SolutionLess ==
  ASSUME IsPattern(clause.pattern), PathNamesApart(clause.pattern),
         NEW k, NEW h, Succ(k, h), h <= Len(clause.pattern), NEW row, FineRow(row),
         NEW x, NEW X, Solution(x, X, h, row)
  PROVE  \E w, C, v, ns, hs : Continues(x, w, C, v, ns, hs, k, h, row)
<1> DEFINE path == clause.pattern[h]
           c == X[h]
           C == [i \in 1..k |-> X[i]]
           ns == c.ns
           hs == c.hs
           B == ChoiceBindings(C, k)
           P == ChoiceNames(C, k)
           D == AllBindings(h, path, ns, hs)
           Q == NameBinding(h, path, ns, hs)
<1>1. /\ k \in Nat /\ h = k + 1 /\ h \in 1..h
      /\ \A i \in 1..h : i # h => i \in 1..k
  BY DEF Succ
<1>2. Solves(X, h, row) /\ Adds(x.row, row, ChoiceBindings(X, h) \union ChoiceNames(X, h))
      /\ x = [by |-> X, row |-> x.row]
  BY DEF Solution
<1>3. X = [i \in 1..h |-> [ns |-> X[i].ns, hs |-> X[i].hs]] /\ Consistent(row, ChoiceBindings(X, h))
  BY <1>2 DEF Solves
<1>4. c = [ns |-> c.ns, hs |-> c.hs] /\ X = MoreChoice(C, h, c) /\ C = [i \in 1..k |-> C[i]]
  <2>1. c = [ns |-> c.ns, hs |-> c.hs]
    BY <1>1, <1>3
  <2>2. X = [i \in 1..h |-> X[i]]
    BY <1>3
  <2>3. X = MoreChoice(C, h, c)
    BY <1>1, <2>2 DEF MoreChoice
  <2> QED
    BY <2>1, <2>3
<1>5. ChoiceBindings(X, h) = B \union D /\ ChoiceNames(X, h) = P \union Q
  <2> HIDE DEF C, c
  <2>1. ChoiceGrown(X, C, c, k, h)
    BY <1>4, ChoiceGrows
  <2> QED
    BY <2>1 DEF ChoiceGrown
<1>6. Apart(B, P, D, Q)
  BY ChoiceApart
<1>7. B = ChoiceBindings(C, k) /\ D = AllBindings(h, path, c.ns, c.hs) /\ path = clause.pattern[h]
      /\ ns = c.ns /\ hs = c.hs
  OBVIOUS
<1>8. P = ChoiceNames(C, k) /\ Q = NameBinding(h, path, ns, hs) /\ D = AllBindings(h, path, ns, hs)
  OBVIOUS
<1> HIDE DEF path, c, C, ns, hs, B, P, D, Q
<1>9. Consistent(row, B)
  <2>1. Consistent(row, B \union D)
    BY <1>3, <1>5
  <2> QED
    BY <2>1, ConsistentPart
<1>10. /\ Solves(C, k, row) /\ Fits(path, ns, hs, Len(path.hops)) /\ StartsWell(h, ns[1], row)
      /\ Consistent(row, B \union D)
  <2>1. SolvesMore(X, C, c, k, h, path, B, D, row)
    BY <1>4, <1>7, <1>9, MoreChoiceSolves
  <2> QED
    BY <1>2, <1>7, <2>1 DEF SolvesMore
<1>11. PICK r : Adds(r, row, B \union P)
  <2>1. \A b, e \in B \union P : b.var = e.var => b.value = e.value
    <3>1. Consistent(row, B \union D) /\ Adds(x.row, row, (B \union D) \union (P \union Q))
      BY <1>2, <1>5, <1>10
    <3>2. \A b \in (B \union D) \union (P \union Q) : x.row[b.var] = b.value
      BY <3>1 DEF Adds
    <3> QED
      BY <3>2
  <2> QED
    BY <2>1, SomethingAdds
<1> DEFINE w == [by |-> C, row |-> r]
           v == [by |-> c, row |-> x.row]
<1>12. w.row = r /\ w = [by |-> C, row |-> w.row] /\ v.row = x.row /\ v.by = c /\ v = [by |-> [ns |-> ns, hs |-> hs], row |-> v.row]
  BY <1>4, <1>7
<1> HIDE DEF w, v
<1>13. Solution(w, C, k, row)
  BY <1>8, <1>7, <1>10, <1>11, <1>12 DEF Solution
<1>14. TakenTogether(row, w.row, v.row, B, P, D, Q)
  BY <1>6, <1>9, <1>11, <1>12, TogetherInTurn
<1>15. Consistent(w.row, D) /\ Adds(v.row, w.row, D \union Q)
  <2>1. Adds(v.row, row, (B \union D) \union (P \union Q))
    BY <1>2, <1>5, <1>12
  <2> QED
    BY <1>10, <1>14, <2>1 DEF TakenTogether
<1>16. StartsIn(path.nodes[1], ns[1], w.row)
  BY <1>7, <1>10, <1>13, StartsWellNext
<1>17. Way(v, h, path, w.row, ns, hs)
  BY <1>8, <1>10, <1>12, <1>15, <1>16 DEF Way, MayGo, AllBindings
<1>18. x = [by |-> MoreChoice(C, h, v.by), row |-> v.row]
  BY <1>2, <1>4, <1>12
<1>19. Continues(x, w, C, v, ns, hs, k, h, row)
  BY <1>7, <1>13, <1>17, <1>18 DEF Continues
<1> QED
  BY <1>19

\* There is one row for a way.
LEMMA WayOnce ==
  ASSUME NEW h, NEW path, NEW row, NEW v, NEW ns, NEW hs, Way(v, h, path, row, ns, hs),
         NEW u, NEW ms, NEW gs, Way(u, h, path, row, ms, gs), v.by = u.by
  PROVE  v = u
<1>1. v.by = [ns |-> ns, hs |-> hs] /\ v.by.ns = ns /\ v.by.hs = hs /\ v = [by |-> v.by, row |-> v.row]
  BY WayBy
<1>2. u.by = [ns |-> ms, hs |-> gs] /\ u.by.ns = ms /\ u.by.hs = gs /\ u = [by |-> u.by, row |-> u.row]
  BY WayBy
<1>3. ns = ms /\ hs = gs
  BY <1>1, <1>2
<1>4. v.row = u.row
  BY <1>3, AddsOneRow DEF Way
<1> QED
  BY <1>1, <1>2, <1>4

\* A solution determines its choice.
LEMMA SolutionBy ==
  ASSUME NEW w, NEW C, NEW k, NEW row, Solution(w, C, k, row)
  PROVE  w.by = C /\ w = [by |-> w.by, row |-> w.row] /\ C = [i \in 1..k |-> C[i]]
<1>1. \E r : w = [by |-> C, row |-> r]
  BY DEF Solution
<1>2. w.by = C
  BY <1>1
<1> QED
  BY <1>2 DEF Solution, Solves

\* There is one row for a choice.
LEMMA SolutionOnce ==
  ASSUME NEW k, NEW row, NEW w, NEW C, Solution(w, C, k, row), NEW z, NEW E, Solution(z, E, k, row), w.by = z.by
  PROVE  w = z
<1>1. w.by = C /\ w = [by |-> w.by, row |-> w.row]
  BY SolutionBy
<1>2. z.by = E /\ z = [by |-> z.by, row |-> z.row]
  BY SolutionBy
<1>3. w.row = z.row
  BY <1>1, <1>2, AddsOneRow DEF Solution
<1> QED
  BY <1>1, <1>2, <1>3

\* A choice of one path more determines the choice and what is added.
LEMMA MoreChoiceOnce ==
  ASSUME NEW k, NEW h, Succ(k, h), NEW C, NEW E, NEW c, NEW e,
         C = [i \in 1..k |-> C[i]], E = [i \in 1..k |-> E[i]],
         MoreChoice(C, h, c) = MoreChoice(E, h, e)
  PROVE  C = E /\ c = e
<1>1. h \in 1..h /\ \A i \in 1..k : i \in 1..h /\ i # h
  BY DEF Succ
<1>2. MoreChoice(C, h, c)[h] = c /\ MoreChoice(E, h, e)[h] = e
  BY <1>1 DEF MoreChoice
<1>3. \A i \in 1..k : MoreChoice(C, h, c)[i] = C[i] /\ MoreChoice(E, h, e)[i] = E[i]
  BY <1>1 DEF MoreChoice
<1>4. \A i \in 1..k : C[i] = E[i]
  BY <1>3
<1> QED
  BY <1>2, <1>4

\* One path more, for all solutions.
LEMMA SolutionsGrow ==
  ASSUME GraphIsFine, IsPattern(clause.pattern), PathNamesApart(clause.pattern),
         NEW k, NEW h, Succ(k, h), h <= Len(clause.pattern), NEW row, FineRow(row),
         NEW s, SolutionsListed(s, k, row),
         NEW lists, lists = [i \in DOMAIN s |-> MatchPath(graph, clause.pattern[h], s[i])]
  PROVE  SolutionsListed(FlattenSeq(lists), h, row)
<1> DEFINE path == clause.pattern[h]
           Goes(v, r) == \E ns, hs : Way(v, h, path, r, ns, hs)
           Are(V, r) == \A v : v \in V <=> Goes(v, r)
           Found(w) == \E C : Solution(w, C, k, row)
<1>1. /\ k \in Nat /\ h = k + 1 /\ k \in 0..Len(clause.pattern) /\ h \in 1..Len(clause.pattern)
      /\ Len(clause.pattern) \in Nat
  BY DEF Succ, IsPattern
<1>2. PICK W : Listed(s, W) /\ \A w : w \in W <=> Found(w)
  BY DEF SolutionsListed
<1> DEFINE X == [w \in W |-> CHOOSE V : Are(V, w.row)]
<1>3. IsPathPattern(path) /\ NamedApart(path)
  <2>1. h \in DOMAIN clause.pattern
    BY <1>1 DEF IsPattern
  <2>2. IsPathPattern(path)
    BY <2>1 DEF IsPattern, Range
  <2>3. DOMAIN path.nodes = 1..(Len(path.hops) + 1) /\ DOMAIN path.hops = 1..Len(path.hops)
    BY <2>2, PathIndices
  <2>4. NamedApart(path)
    BY <2>1, <2>3 DEF PathNamesApart, NamedApart
  <2> QED
    BY <2>2, <2>4
<1>4. ASSUME NEW w \in W PROVE FineRow(w.row)
  <2>1. PICK C : Solution(w, C, k, row)
    BY <1>2
  <2> QED
    BY <1>1, <2>1, SolutionFine
<1>5. ASSUME NEW w \in W, NEW i \in DOMAIN s, s[i] = w.row
      PROVE  Listed(lists[i], X[w]) /\ Are(X[w], w.row)
  <2>1. lists[i] = MatchPath(graph, path, w.row)
    BY <1>5
  <2>2. WaysListed(MatchPath(graph, path, w.row), h, path, w.row)
    BY <1>3, <1>4, MatchPathListed DEF FineRow
  <2>3. PICK V : Listed(lists[i], V) /\ Are(V, w.row)
    BY <2>1, <2>2 DEF WaysListed
  <2>4. Are(X[w], w.row)
    <3> HIDE DEF Are
    <3> QED
      BY <2>3
  <2>5. X[w] = V
    <3> HIDE DEF X
    <3> QED
      BY <2>3, <2>4
  <2> QED
    BY <2>3, <2>4, <2>5
<1>6. ASSUME NEW w \in W PROVE Are(X[w], w.row)
  <2>1. \E i \in DOMAIN s : s[i] = w.row
    <3>1. Range(s) = {z.row : z \in W}
      BY <1>2, ListedList
    <3> QED
      BY <3>1 DEF Range
  <2> HIDE DEF X, Are
  <2> QED
    BY <1>5, <2>1
<1> HIDE DEF X
<1> DEFINE N(w, v) == [by |-> MoreChoice(w.by, h, v.by), row |-> v.row]
           pairs == Pairs(W, X)
           B == [p \in pairs |-> N(p.by[1], p.by[2])]
           Pair(p, w, v) == p = [by |-> <<w, v>>, row |-> v.row]
<1>7. \A p : p \in pairs <=> \E w \in W : \E v \in X[w] : Pair(p, w, v)
  BY DEF Pairs
<1>8. ASSUME NEW p \in pairs, NEW w \in W, NEW v \in X[w], Pair(p, w, v)
      PROVE  B[p] = N(w, v) /\ p.row = v.row /\ B[p].row = p.row
  <2>1. p.by[1] = w /\ p.by[2] = v /\ p.row = v.row
    BY <1>8
  <2> QED
    BY <2>1
<1>9. Listed(FlattenSeq(lists), pairs)
  <2>1. \A w \in W, i \in DOMAIN s : s[i] = w.row => Listed(lists[i], X[w])
    BY <1>5
  <2>2. lists = [i \in DOMAIN s |-> lists[i]]
    OBVIOUS
  <2> QED
    BY <1>2, <2>1, <2>2, ListedFlattened
<1>10. ASSUME NEW w \in W, NEW z \in W, NEW v \in X[w], NEW u \in X[z], N(w, v) = N(z, u)
      PROVE  w = z /\ v = u
  <2>1. PICK C : Solution(w, C, k, row)
    BY <1>2
  <2>2. PICK E : Solution(z, E, k, row)
    BY <1>2
  <2>3. w.by = [i \in 1..k |-> w.by[i]] /\ z.by = [i \in 1..k |-> z.by[i]]
    <3>1. w.by = C /\ w = [by |-> w.by, row |-> w.row] /\ C = [i \in 1..k |-> C[i]]
      BY <2>1, SolutionBy
    <3>2. z.by = E /\ z = [by |-> z.by, row |-> z.row] /\ E = [i \in 1..k |-> E[i]]
      BY <2>2, SolutionBy
    <3> QED
      BY <3>1, <3>2
  <2>4. MoreChoice(w.by, h, v.by) = MoreChoice(z.by, h, u.by)
    <3>1. N(w, v).by = MoreChoice(w.by, h, v.by) /\ N(z, u).by = MoreChoice(z.by, h, u.by)
      OBVIOUS
    <3> HIDE DEF N
    <3> QED
      BY <1>10, <3>1
  <2>5. w.by = z.by /\ v.by = u.by
    BY <2>3, <2>4, MoreChoiceOnce
  <2>6. w = z
    BY <2>1, <2>2, <2>5, SolutionOnce
  <2>7. Goes(v, w.row) /\ Goes(u, w.row)
    BY <1>6, <2>6
  <2>8. v = u
    <3> HIDE DEF path
    <3> QED
      BY <2>5, <2>7, WayOnce
  <2> QED
    BY <2>6, <2>8
<1> HIDE DEF pairs, N
<1>11. Listed(FlattenSeq(lists), {B[p] : p \in pairs})
  <2>1. \A p, q \in pairs : B[p] = B[q] => p = q
    <3> SUFFICES ASSUME NEW p \in pairs, NEW q \in pairs, B[p] = B[q] PROVE p = q
      OBVIOUS
    <3>1. PICK w \in W : \E v \in X[w] : Pair(p, w, v)
      BY <1>7
    <3>2. PICK v \in X[w] : Pair(p, w, v)
      BY <3>1
    <3>3. PICK z \in W : \E u \in X[z] : Pair(q, z, u)
      BY <1>7
    <3>4. PICK u \in X[z] : Pair(q, z, u)
      BY <3>3
    <3>5. N(w, v) = N(z, u)
      <4> HIDE DEF B, Pair
      <4> QED
        BY <1>8, <3>2, <3>4
    <3>6. w = z /\ v = u
      BY <1>10, <3>5
    <3> QED
      BY <3>2, <3>4, <3>6
  <2>2. \A p \in pairs : B[p].row = p.row
    <3> HIDE DEF B, Pair
    <3> QED
      BY <1>7, <1>8
  <2> HIDE DEF B
  <2> QED
    BY <1>9, <2>1, <2>2, ListedRenamed
<1>12. \A x : x \in {B[p] : p \in pairs} <=> \E w \in W : \E v \in X[w] : x = N(w, v)
  <2>1. ASSUME NEW w \in W, NEW v \in X[w] PROVE \E p \in pairs : B[p] = N(w, v)
    <3> DEFINE p == [by |-> <<w, v>>, row |-> v.row]
    <3>1. Pair(p, w, v)
      OBVIOUS
    <3> HIDE DEF p, B, Pair
    <3>2. p \in pairs
      BY <1>7, <3>1
    <3> QED
      BY <1>8, <3>1, <3>2
  <2>2. ASSUME NEW p \in pairs PROVE \E w \in W : \E v \in X[w] : B[p] = N(w, v)
    <3> HIDE DEF B, Pair
    <3> QED
      BY <1>7, <1>8
  <2> HIDE DEF B
  <2> QED
    BY <2>1, <2>2
<1>13. ASSUME NEW x, NEW w \in W, NEW v \in X[w], x = N(w, v) PROVE \E E : Solution(x, E, h, row)
  <2>1. PICK C : Solution(w, C, k, row)
    BY <1>2
  <2>2. PICK ns, hs : Way(v, h, path, w.row, ns, hs)
    BY <1>6
  <2>3. w.by = C
    BY <2>1, SolutionBy
  <2>4. Continues(x, w, C, v, ns, hs, k, h, row)
    BY <1>13, <2>1, <2>2, <2>3 DEF Continues, N
  <2>5. Solution(x, MoreChoice(C, h, v.by), h, row)
    BY <2>4, SolutionGrows
  <2> QED
    BY <2>5
<1>14. ASSUME NEW x, NEW E, Solution(x, E, h, row) PROVE \E w \in W : \E v \in X[w] : x = N(w, v)
  <2>1. PICK w, C, v, ns, hs : Continues(x, w, C, v, ns, hs, k, h, row)
    BY <1>14, SolutionLess
  <2>2. Solution(w, C, k, row) /\ Way(v, h, path, w.row, ns, hs)
        /\ x = [by |-> MoreChoice(C, h, v.by), row |-> v.row]
    BY <2>1 DEF Continues
  <2>3. w.by = C
    BY <2>2, SolutionBy
  <2>4. w \in W
    BY <1>2, <2>2
  <2>5. v \in X[w]
    BY <1>6, <2>2, <2>4
  <2> QED
    BY <2>2, <2>3, <2>4, <2>5 DEF N
<1> DEFINE Y == {B[p] : p \in pairs}
<1> HIDE DEF Y
<1>15. \A x : x \in Y <=> \E E : Solution(x, E, h, row)
  BY <1>12, <1>13, <1>14 DEF Y
<1>16. Listed(FlattenSeq(lists), Y)
  BY <1>11 DEF Y
<1> QED
  BY <1>15, <1>16 DEF SolutionsListed

\* A pattern finds every solution once.
LEMMA MatchPatternListed ==
  ASSUME GraphIsFine, IsPattern(clause.pattern), PathNamesApart(clause.pattern), NEW row, FineRow(row)
  PROVE  SolutionsListed(MatchPattern(graph, clause.pattern, row), Len(clause.pattern), row)
<1> DEFINE n == Len(clause.pattern)
           after == CHOOSE g : RowsUpTo(g, Len(clause.pattern), graph, clause.pattern, row)
           S == {k \in Nat : k \in 0..n => SolutionsListed(after[k], k, row)}
<1>1. MatchPattern(graph, clause.pattern, row) = after[n]
  BY DEF MatchPattern, RowsUpTo
<1>2. n \in Nat
  BY DEF IsPattern
<1>3. RowsUpTo(after, n, graph, clause.pattern, row)
  BY <1>2, RowsExist
<1> HIDE DEF after
<1>4. 0 \in S
  <2>1. after[0] = <<row>>
    <3>1. 0 \in 0..n
      BY <1>2
    <3> QED
      BY <1>3, <3>1 DEF RowsUpTo
  <2> QED
    BY <2>1, NoPathYet
<1>5. ASSUME NEW k \in Nat, k \in S PROVE k + 1 \in S
  <2> SUFFICES ASSUME k + 1 \in 0..n PROVE SolutionsListed(after[k + 1], k + 1, row)
    BY <1>5
  <2> DEFINE h == k + 1
             s == after[k]
             lists == [i \in DOMAIN s |-> MatchPath(graph, clause.pattern[h], s[i])]
  <2>1. SolutionsListed(s, k, row) /\ h <= n
    BY <1>2, <1>5
  <2>2. after[h] = FlattenSeq(lists)
    <3>1. h # 0 /\ h - 1 = k /\ h \in 0..n
      OBVIOUS
    <3>2. after[h] = FlatMap(LAMBDA r : MatchPath(graph, clause.pattern[h], r), after[k])
      BY <1>2, <1>3, <3>1 DEF RowsUpTo
    <3> QED
      BY <3>2 DEF FlatMap
  <2>3. Succ(k, h)
    BY DEF Succ
  <2>4. lists = [i \in DOMAIN s |-> MatchPath(graph, clause.pattern[h], s[i])]
    OBVIOUS
  <2> HIDE DEF lists, s, h
  <2>5. SolutionsListed(FlattenSeq(lists), h, row)
    BY <2>1, <2>3, <2>4, SolutionsGrow
  <2> QED
    BY <2>2, <2>5 DEF h
<1>6. n \in S
  <2> HIDE DEF S, n
  <2> QED
    BY <1>2, <1>4, <1>5, Induction
<1> QED
  BY <1>1, <1>2, <1>6

------------------------------------------------------------------------------
\* The choices of a pattern are its matches.
NodeRecord(C, i, j) ==
  [at |-> <<i, "node", j>>, var |-> clause.pattern[i].nodes[j].var, value |-> NodeRef(C[i].ns[j])]

HopRecord(C, i, j) ==
  [at |-> <<i, "hop", j>>, var |-> clause.pattern[i].hops[j].var, value |-> C[i].hs[j]]

NameRecord(C, i) ==
  [at |-> <<i, "path", 0>>, var |-> clause.pattern[i].var,
   value |-> PathRef(Line(C[i].ns, C[i].hs, Len(clause.pattern[i].hops)))]

\* The binding of one place, as a record.
LEMMA InSingle ==
  ASSUME NEW at, NEW var, NEW value, NEW b
  PROVE  b \in Single(at, var, value) <=> b.var # NoVar /\ b = [at |-> at, var |-> var, value |-> value]
<1> DEFINE r == [at |-> at, var |-> var, value |-> value]
<1>1. r.var = var
  OBVIOUS
<1> HIDE DEF r
<1>2. CASE var = NoVar
  <2>1. Single(at, var, value) = {}
    BY <1>2, SingleBinding
  <2> QED
    BY <1>1, <1>2, <2>1 DEF r
<1>3. CASE var # NoVar
  <2>1. Single(at, var, value) = {r}
    BY <1>3, SingleBinding DEF r
  <2> QED
    BY <1>1, <1>3, <2>1 DEF r
<1> QED
  BY <1>2, <1>3

\* The bindings of a choice, as records.
LEMMA ChoiceRecords ==
  ASSUME NEW C, NEW k, NEW b
  PROVE  /\ b \in ChoiceBindings(C, k) <=>
              /\ b.var # NoVar
              /\ \E i \in 1..k : \/ \E j \in 1..(Len(clause.pattern[i].hops) + 1) : b = NodeRecord(C, i, j)
                                 \/ \E j \in 1..Len(clause.pattern[i].hops) : b = HopRecord(C, i, j)
         /\ b \in ChoiceNames(C, k) <=> b.var # NoVar /\ \E i \in 1..k : b = NameRecord(C, i)
<1> DEFINE p == clause.pattern
           Part(i) == \/ \E j \in 1..(Len(p[i].hops) + 1) : b = NodeRecord(C, i, j)
                      \/ \E j \in 1..Len(p[i].hops) : b = HopRecord(C, i, j)
<1>1. ASSUME NEW i PROVE b \in BindingsOf(C, i) <=> b.var # NoVar /\ Part(i)
  <2>1. b \in BindingsOf(C, i) <=>
          \/ \E j \in 1..(Len(p[i].hops) + 1) : b \in Single(<<i, "node", j>>, p[i].nodes[j].var, NodeRef(C[i].ns[j]))
          \/ \E j \in 1..Len(p[i].hops) : b \in Single(<<i, "hop", j>>, p[i].hops[j].var, C[i].hs[j])
    BY PathBindingsAre DEF BindingsOf, AllBindings
  <2>2. \A j : b \in Single(<<i, "node", j>>, p[i].nodes[j].var, NodeRef(C[i].ns[j])) <=>
                 b.var # NoVar /\ b = NodeRecord(C, i, j)
    BY InSingle DEF NodeRecord
  <2>3. \A j : b \in Single(<<i, "hop", j>>, p[i].hops[j].var, C[i].hs[j]) <=>
                 b.var # NoVar /\ b = HopRecord(C, i, j)
    BY InSingle DEF HopRecord
  <2> QED
    BY <2>1, <2>2, <2>3
<1>2. ASSUME NEW i PROVE b \in NameOf(C, i) <=> b.var # NoVar /\ b = NameRecord(C, i)
  BY InSingle DEF NameOf, NameBinding, NameRecord
<1>3. b \in ChoiceBindings(C, k) <=> \E i \in 1..k : b \in BindingsOf(C, i)
  BY DEF ChoiceBindings
<1>4. b \in ChoiceNames(C, k) <=> \E i \in 1..k : b \in NameOf(C, i)
  BY DEF ChoiceNames
<1> HIDE DEF Part
<1>5. b \in ChoiceBindings(C, k) <=> b.var # NoVar /\ \E i \in 1..k : Part(i)
  BY <1>1, <1>3
<1>6. b \in ChoiceNames(C, k) <=> b.var # NoVar /\ \E i \in 1..k : b = NameRecord(C, i)
  BY <1>2, <1>4
<1> QED
  BY <1>5, <1>6 DEF Part

\* What fits a path.
LEMMA PathsThatFitAre ==
  ASSUME NEW path, IsPathPattern(path), NEW c
  PROVE  c \in PathsThatFit(path) <=>
           c = [ns |-> c.ns, hs |-> c.hs] /\ Fits(path, c.ns, c.hs, Len(path.hops))
<1> DEFINE k == Len(path.hops)
           nodeLists == {ns \in [1..(k + 1) -> DOMAIN graph.labels] :
                           \A i \in 1..(k + 1) : NodeFits(path.nodes[i], ns[i])}
           links(ns) == UNION {Connections(path.hops[i], ns[i], ns[i + 1]) : i \in 1..k}
           hopLists(ns) == {h \in [1..k -> links(ns)] :
                              \A i \in 1..k : h[i] \in Connections(path.hops[i], ns[i], ns[i + 1])}
<1>1. PathsThatFit(path) = UNION {{[ns |-> ns, hs |-> hs] : hs \in hopLists(ns)} : ns \in nodeLists}
  BY DEF PathsThatFit
<1>2. \A ns, hs : hs \in hopLists(ns) <=>
        /\ hs = [j \in 1..k |-> hs[j]]
        /\ \A i \in 1..k : hs[i] \in Connections(path.hops[i], ns[i], ns[i + 1])
  <2> SUFFICES ASSUME NEW ns, NEW hs
               PROVE  hs \in hopLists(ns) <=>
                        /\ hs = [j \in 1..k |-> hs[j]]
                        /\ \A i \in 1..k : hs[i] \in Connections(path.hops[i], ns[i], ns[i + 1])
    OBVIOUS
  <2>1. ASSUME hs = [j \in 1..k |-> hs[j]],
               \A i \in 1..k : hs[i] \in Connections(path.hops[i], ns[i], ns[i + 1])
        PROVE  hs \in [1..k -> links(ns)]
    <3>1. \A j \in 1..k : hs[j] \in links(ns)
      BY <2>1
    <3> HIDE DEF links
    <3> QED
      BY <2>1, <3>1
  <2> QED
    BY <2>1
<1>3. \A ns, hs : ns \in nodeLists /\ hs \in hopLists(ns) <=> Fits(path, ns, hs, k)
  BY <1>2 DEF Fits, Shaped, Objects
<1> HIDE DEF nodeLists, hopLists, k
<1>4. c \in PathsThatFit(path) <=> \E ns, hs : Fits(path, ns, hs, k) /\ c = [ns |-> ns, hs |-> hs]
  BY <1>1, <1>3
<1>5. (\E ns, hs : Fits(path, ns, hs, k) /\ c = [ns |-> ns, hs |-> hs]) <=>
        c = [ns |-> c.ns, hs |-> c.hs] /\ Fits(path, c.ns, c.hs, k)
  OBVIOUS
<1> QED
  BY <1>4, <1>5 DEF k

\* The bindings of a choice, without their places.
LEMMA PlainBindings ==
  ASSUME IsPattern(clause.pattern), NEW C, NEW n, n = Len(clause.pattern),
         \A i \in 1..n : Shaped(C[i].ns, C[i].hs, Len(clause.pattern[i].hops)),
         NEW A, A = ChoiceBindings(C, n) \union ChoiceNames(C, n)
  PROVE  Bindings(C) = {<<b.var, b.value>> : b \in A}
<1> DEFINE p == clause.pattern
           N(i, j) == <<p[i].nodes[j].var, NodeRef(C[i].ns[j])>>
           H(i, j) == <<p[i].hops[j].var, C[i].hs[j]>>
           P(i) == <<p[i].var, PathOf(C[i])>>
           Put(i, q) ==
             \/ q = P(i)
             \/ \E j \in 1..(Len(p[i].hops) + 1) : q = N(i, j)
             \/ \E j \in 1..Len(p[i].hops) : q = H(i, j)
           All(i) == {P(i)} \union {N(i, j) : j \in DOMAIN C[i].ns} \union {H(i, j) : j \in DOMAIN C[i].hs}
<1>1. Bindings(C) = {b \in UNION {All(i) : i \in DOMAIN p} : b[1] # NoVar}
  BY DEF Bindings
<1>2. DOMAIN p = 1..n /\ n \in Nat /\ \A i \in 1..n : Len(p[i].hops) \in Nat
  BY DEF IsPattern, IsPathPattern, Range
<1>3. ASSUME NEW i \in 1..n
      PROVE  /\ DOMAIN C[i].ns = 1..(Len(p[i].hops) + 1) /\ DOMAIN C[i].hs = 1..Len(p[i].hops)
             /\ Len(C[i].hs) = Len(p[i].hops)
  <2> DEFINE k == Len(p[i].hops)
             hs == C[i].hs
  <2>1. k \in Nat /\ hs = [j \in 1..k |-> hs[j]] /\ C[i].ns \in [1..(k + 1) -> Objects]
    BY <1>2 DEF Shaped
  <2> HIDE DEF k, hs
  <2>2. DOMAIN hs = 1..k /\ Len(hs) = k
    BY <2>1, FunctionIsList
  <2> QED
    BY <2>1, <2>2 DEF k, hs
<1>4. ASSUME NEW i \in 1..n PROVE P(i) = <<p[i].var, PathRef(Line(C[i].ns, C[i].hs, Len(p[i].hops)))>>
  <2>1. PathOf(C[i]) = PathRef(Line(C[i].ns, C[i].hs, Len(p[i].hops)))
    BY <1>3 DEF PathOf, Line
  <2> QED
    BY <2>1
<1>5. ASSUME NEW i, NEW j
      PROVE  /\ NodeRecord(C, i, j).var = N(i, j)[1] /\ NodeRecord(C, i, j).value = N(i, j)[2]
             /\ HopRecord(C, i, j).var = H(i, j)[1] /\ HopRecord(C, i, j).value = H(i, j)[2]
             /\ <<NodeRecord(C, i, j).var, NodeRecord(C, i, j).value>> = N(i, j)
             /\ <<HopRecord(C, i, j).var, HopRecord(C, i, j).value>> = H(i, j)
  BY DEF NodeRecord, HopRecord
<1>6. ASSUME NEW i \in 1..n
      PROVE  /\ NameRecord(C, i).var = P(i)[1]
             /\ <<NameRecord(C, i).var, NameRecord(C, i).value>> = P(i)
  BY <1>4 DEF NameRecord
<1> HIDE DEF N, H, P
<1>7. \A q : q \in Bindings(C) <=>
        /\ q[1] # NoVar
        /\ \E i \in 1..n : Put(i, q)
  <2>1. \A i \in 1..n : \A q : q \in All(i) <=> Put(i, q)
    BY <1>3
  <2> HIDE DEF All, Put
  <2>2. \A q : q \in Bindings(C) <=> q[1] # NoVar /\ \E i \in 1..n : q \in All(i)
    BY <1>1, <1>2
  <2> QED
    BY <2>1, <2>2
<1>8. ASSUME NEW q \in Bindings(C) PROVE \E b \in A : q = <<b.var, b.value>>
  <2>1. PICK i \in 1..n : Put(i, q)
    BY <1>7
  <2>2. CASE q = P(i)
    <3>1. NameRecord(C, i) \in ChoiceNames(C, n)
      BY <1>6, <1>7, <2>2, ChoiceRecords
    <3> QED
      BY <1>6, <2>2, <3>1
  <2>3. ASSUME NEW j \in 1..(Len(p[i].hops) + 1), q = N(i, j) PROVE \E b \in A : q = <<b.var, b.value>>
    <3>1. NodeRecord(C, i, j) \in ChoiceBindings(C, n)
      BY <1>5, <1>7, <2>3, ChoiceRecords
    <3> QED
      BY <1>5, <2>3, <3>1
  <2>4. ASSUME NEW j \in 1..Len(p[i].hops), q = H(i, j) PROVE \E b \in A : q = <<b.var, b.value>>
    <3>1. HopRecord(C, i, j) \in ChoiceBindings(C, n)
      BY <1>5, <1>7, <2>4, ChoiceRecords
    <3> QED
      BY <1>5, <2>4, <3>1
  <2> QED
    BY <2>1, <2>2, <2>3, <2>4
<1>9. ASSUME NEW b \in A PROVE <<b.var, b.value>> \in Bindings(C)
  <2>1. b.var # NoVar
    BY ChoiceRecords
  <2>2. \E i \in 1..n : \/ b = NameRecord(C, i)
                        \/ \E j \in 1..(Len(p[i].hops) + 1) : b = NodeRecord(C, i, j)
                        \/ \E j \in 1..Len(p[i].hops) : b = HopRecord(C, i, j)
    BY ChoiceRecords
  <2>3. PICK i \in 1..n : \/ b = NameRecord(C, i)
                          \/ \E j \in 1..(Len(p[i].hops) + 1) : b = NodeRecord(C, i, j)
                          \/ \E j \in 1..Len(p[i].hops) : b = HopRecord(C, i, j)
    BY <2>2
  <2>4. CASE b = NameRecord(C, i)
    <3>1. P(i)[1] # NoVar
      BY <1>6, <2>1, <2>4
    <3>2. P(i) \in Bindings(C)
      BY <1>7, <3>1
    <3> QED
      BY <1>6, <2>4, <3>2
  <2>5. ASSUME NEW j \in 1..(Len(p[i].hops) + 1), b = NodeRecord(C, i, j) PROVE <<b.var, b.value>> \in Bindings(C)
    <3>1. N(i, j)[1] # NoVar
      BY <1>5, <2>1, <2>5
    <3>2. N(i, j) \in Bindings(C)
      BY <1>7, <3>1
    <3> QED
      BY <1>5, <2>5, <3>2
  <2>6. ASSUME NEW j \in 1..Len(p[i].hops), b = HopRecord(C, i, j) PROVE <<b.var, b.value>> \in Bindings(C)
    <3>1. H(i, j)[1] # NoVar
      BY <1>5, <2>1, <2>6
    <3>2. H(i, j) \in Bindings(C)
      BY <1>7, <3>1
    <3> QED
      BY <1>5, <2>6, <3>2
  <2> QED
    BY <2>3, <2>4, <2>5, <2>6
<1> QED
  BY <1>8, <1>9

\* The relationship, or the list of them, at a place of the pattern.
HopAt(C, q) == HopRecord(C, q[1], q[2])

\* The relationship patterns of a name, place by place.
LEMMA HopPlaces ==
  ASSUME IsPattern(clause.pattern), NEW x, NEW q
  PROVE  q \in HopsNamed(x) <=> /\ q = <<q[1], q[2]>>
                                /\ q[1] \in 1..Len(clause.pattern)
                                /\ q[2] \in 1..Len(clause.pattern[q[1]].hops)
                                /\ clause.pattern[q[1]].hops[q[2]].var = x
<1> DEFINE p == clause.pattern
<1>1. q \in HopsNamed(x) <=> \E i \in DOMAIN p : \E j \in DOMAIN p[i].hops : p[i].hops[j].var = x /\ q = <<i, j>>
  BY DEF HopsNamed
<1>2. DOMAIN p = 1..Len(p) /\ \A i \in DOMAIN p : IsPathPattern(p[i])
  BY DEF IsPattern, Range
<1>3. \A i \in DOMAIN p : DOMAIN p[i].hops = 1..Len(p[i].hops)
  BY <1>2 DEF IsPathPattern
<1>4. q \in HopsNamed(x) <=>
        \E i \in 1..Len(p) : \E j \in 1..Len(p[i].hops) : p[i].hops[j].var = x /\ q = <<i, j>>
  BY <1>1, <1>2, <1>3
<1>5. ASSUME q \in HopsNamed(x)
      PROVE  /\ q = <<q[1], q[2]>> /\ q[1] \in 1..Len(p)
             /\ q[2] \in 1..Len(p[q[1]].hops) /\ p[q[1]].hops[q[2]].var = x
  <2>1. PICK i \in 1..Len(p) : \E j \in 1..Len(p[i].hops) : p[i].hops[j].var = x /\ q = <<i, j>>
    BY <1>4, <1>5
  <2>2. PICK j \in 1..Len(p[i].hops) : p[i].hops[j].var = x /\ q = <<i, j>>
    BY <2>1
  <2>3. q[1] = i /\ q[2] = j
    BY <2>2
  <2> QED
    BY <2>2, <2>3
<1> QED
  BY <1>4, <1>5

\* A relationship pattern with a name binds it.
LEMMA HopsBound ==
  ASSUME IsPattern(clause.pattern), NEW C, NEW x, x # NoVar, NEW q \in HopsNamed(x)
  PROVE  HopAt(C, q) \in ChoiceBindings(C, Len(clause.pattern)) /\ HopAt(C, q).var = x
<1>1. /\ q[1] \in 1..Len(clause.pattern)
      /\ q[2] \in 1..Len(clause.pattern[q[1]].hops)
      /\ clause.pattern[q[1]].hops[q[2]].var = x
  BY HopPlaces
<1>2. HopAt(C, q).var = x
  BY <1>1 DEF HopAt, HopRecord
<1> DEFINE b == HopAt(C, q)
<1>3. \E i \in 1..Len(clause.pattern) : \E j \in 1..Len(clause.pattern[i].hops) : b = HopRecord(C, i, j)
  BY <1>1 DEF HopAt
<1> HIDE DEF b
<1>4. b \in ChoiceBindings(C, Len(clause.pattern))
  BY <1>2, <1>3, ChoiceRecords DEF b
<1> QED
  BY <1>2, <1>4 DEF b

\* Different places make different bindings.
LEMMA HopAtOnce ==
  ASSUME IsPattern(clause.pattern), NEW C, NEW x, NEW q \in HopsNamed(x), NEW o \in HopsNamed(x),
         HopAt(C, q) = HopAt(C, o)
  PROVE  q = o
<1>1. q = <<q[1], q[2]>> /\ o = <<o[1], o[2]>>
  BY HopPlaces
<1>2. HopAt(C, q).at = <<q[1], "hop", q[2]>> /\ HopAt(C, o).at = <<o[1], "hop", o[2]>>
  BY DEF HopAt, HopRecord
<1>3. <<q[1], "hop", q[2]>> = <<o[1], "hop", o[2]>>
  BY <1>2
<1>4. q[1] = o[1] /\ q[2] = o[2]
  BY <1>3
<1> QED
  BY <1>1, <1>4

\* Only a relationship pattern gives a list of relationships.
LEMMA TrailsAreHops ==
  ASSUME IsPattern(clause.pattern), NEW C, NEW b \in ChoiceBindings(C, Len(clause.pattern)), IsTrail(b.value)
  PROVE  \E q \in HopsNamed(b.var) : b = HopAt(C, q)
<1> DEFINE p == clause.pattern
<1>1. PICK i \in 1..Len(p) : \/ \E j \in 1..(Len(p[i].hops) + 1) : b = NodeRecord(C, i, j)
                             \/ \E j \in 1..Len(p[i].hops) : b = HopRecord(C, i, j)
  BY ChoiceRecords
<1>2. \A j : b # NodeRecord(C, i, j)
  BY DEF NodeRecord, NodeRef, IsTrail
<1>3. PICK j \in 1..Len(p[i].hops) : b = HopRecord(C, i, j)
  BY <1>1, <1>2
<1> DEFINE q == <<i, j>>
<1>4. q = <<q[1], q[2]>> /\ q[1] = i /\ q[2] = j
  OBVIOUS
<1>5. p[i].hops[j].var = b.var
  BY <1>3 DEF HopRecord
<1> HIDE DEF q
<1>6. q \in HopsNamed(b.var)
  BY <1>3, <1>4, <1>5, HopPlaces
<1>7. b = HopAt(C, q)
  BY <1>3, <1>4 DEF HopAt
<1> QED
  BY <1>6, <1>7

\* Names of paths, and the other names.
LEMMA NamesOfPaths ==
  ASSUME IsPattern(clause.pattern), PathNamesApart(clause.pattern), NEW C, NEW n, n = Len(clause.pattern)
  PROVE  /\ \A b \in ChoiceNames(C, n) : b.var \in PathNames /\ ~IsTrail(b.value)
         /\ \A b, c \in ChoiceNames(C, n) : b.var = c.var => b = c
         /\ \A b \in ChoiceBindings(C, n) : b.var \notin PathNames
<1> DEFINE p == clause.pattern
<1>1. DOMAIN p = 1..n /\ \A i \in 1..n : IsPathPattern(p[i])
  BY DEF IsPattern, Range
<1>2. \A i \in 1..n : /\ DOMAIN p[i].hops = 1..Len(p[i].hops)
                      /\ DOMAIN p[i].nodes = 1..(Len(p[i].hops) + 1)
  BY <1>1, PathIndices
<1>3. \A b \in ChoiceNames(C, n) : b.var # NoVar /\ \E i \in 1..n : b = NameRecord(C, i)
  BY ChoiceRecords
<1>4. \A i : NameRecord(C, i).var = p[i].var /\ ~IsTrail(NameRecord(C, i).value)
  BY DEF NameRecord, PathRef, IsTrail
<1>5. \A b \in ChoiceNames(C, n) : b.var \in PathNames /\ ~IsTrail(b.value)
  BY <1>1, <1>3, <1>4 DEF PathNames
<1>6. ASSUME NEW b \in ChoiceNames(C, n), NEW c \in ChoiceNames(C, n), b.var = c.var PROVE b = c
  <2>1. PICK i \in 1..n : b = NameRecord(C, i)
    BY <1>3
  <2>2. PICK k \in 1..n : c = NameRecord(C, k)
    BY <1>3
  <2>3. p[i].var = p[k].var /\ p[i].var # NoVar
    BY <1>3, <1>4, <1>6, <2>1, <2>2
  <2>4. i = k
    BY <1>1, <2>3 DEF PathNamesApart
  <2> QED
    BY <2>1, <2>2, <2>4
<1>7. ASSUME NEW b \in ChoiceBindings(C, n), b.var \in PathNames PROVE FALSE
  <2>1. PICK i \in 1..n : b.var = p[i].var /\ p[i].var # NoVar
    BY <1>1, <1>7 DEF PathNames
  <2>2. PICK k \in 1..n : \/ \E j \in 1..(Len(p[k].hops) + 1) : b = NodeRecord(C, k, j)
                          \/ \E j \in 1..Len(p[k].hops) : b = HopRecord(C, k, j)
    BY ChoiceRecords
  <2>3. \A j : NodeRecord(C, k, j).var = p[k].nodes[j].var /\ HopRecord(C, k, j).var = p[k].hops[j].var
    BY DEF NodeRecord, HopRecord
  <2>4. /\ \A j \in DOMAIN p[k].nodes : p[k].nodes[j].var # p[i].var
        /\ \A j \in DOMAIN p[k].hops : p[k].hops[j].var # p[i].var
    BY <1>1, <2>1 DEF PathNamesApart
  <2>5. ASSUME NEW j \in 1..(Len(p[k].hops) + 1), b = NodeRecord(C, k, j) PROVE FALSE
    BY <1>2, <2>1, <2>3, <2>4, <2>5
  <2>6. ASSUME NEW j \in 1..Len(p[k].hops), b = HopRecord(C, k, j) PROVE FALSE
    BY <1>2, <2>1, <2>3, <2>4, <2>6
  <2> QED
    BY <2>2, <2>5, <2>6
<1> QED
  BY <1>5, <1>6, <1>7

\* The bindings agree, said of their names and values.
InAgreement(row, A) ==
  /\ \A a, b \in A : a.var = b.var => a.value = b.value
  /\ \A a \in A : a.var \in DOMAIN row \ PathNames => a.value = row[a.var]
  /\ \A a \in A : IsTrail(a.value) =>
       a.var \notin DOMAIN row /\ \A h, g \in HopsNamed(a.var) : h = g

\* A choice agrees, as MATCH is to have it, just when its bindings are consistent.
LEMMA AgreementIs ==
  ASSUME IsPattern(clause.pattern), PathNamesApart(clause.pattern), NEW C, NEW row, NEW n, n = Len(clause.pattern),
         NEW A, A = ChoiceBindings(C, n) \union ChoiceNames(C, n)
  PROVE  InAgreement(row, A) <=> Consistent(row, ChoiceBindings(C, n))
<1> DEFINE B == ChoiceBindings(C, n)
           P == ChoiceNames(C, n)
<1>1. /\ \A b \in P : b.var \in PathNames /\ ~IsTrail(b.value)
      /\ \A b, c \in P : b.var = c.var => b = c
      /\ \A b \in B : b.var \notin PathNames
  BY NamesOfPaths
<1>2. \A b \in B : b.var # NoVar
  BY ChoiceRecords
<1>3. \A x, q : x # NoVar /\ q \in HopsNamed(x) => HopAt(C, q) \in B /\ HopAt(C, q).var = x
  BY HopsBound
<1>4. \A x : \A q, o \in HopsNamed(x) : HopAt(C, q) = HopAt(C, o) => q = o
  BY HopAtOnce
<1>5. \A b \in B : IsTrail(b.value) => \E q \in HopsNamed(b.var) : b = HopAt(C, q)
  BY TrailsAreHops
<1> HIDE DEF B, P
<1>6. ASSUME InAgreement(row, A) PROVE Consistent(row, B)
  <2>1. ASSUME NEW b \in B, b.var \in DOMAIN row PROVE row[b.var] = b.value /\ ~IsTrail(b.value)
    BY <1>1, <1>6, <2>1 DEF InAgreement, B
  <2>2. ASSUME NEW b \in B, NEW c \in B, b.var = c.var, b # c PROVE b.value = c.value /\ ~IsTrail(b.value)
    <3>1. b.value = c.value
      BY <1>6, <2>2 DEF InAgreement, B
    <3>2. ASSUME IsTrail(b.value) PROVE FALSE
      <4>1. PICK q \in HopsNamed(b.var) : b = HopAt(C, q)
        BY <1>5, <3>2
      <4>2. PICK o \in HopsNamed(c.var) : c = HopAt(C, o)
        BY <1>5, <3>1, <3>2
      <4>3. \A h, g \in HopsNamed(b.var) : h = g
        BY <1>6, <3>2 DEF InAgreement, B
      <4> QED
        BY <2>2, <4>1, <4>2, <4>3
    <3> QED
      BY <3>1, <3>2
  <2> QED
    BY <2>1, <2>2 DEF Consistent
<1>7. ASSUME Consistent(row, B) PROVE InAgreement(row, A)
  <2>1. A = B \union P
    BY DEF B, P
  <2>2. \A a, b \in B : a.var = b.var => a.value = b.value
    BY <1>7, ConsistentValues
  <2>3. \A a, b \in A : a.var = b.var => a.value = b.value
    BY <1>1, <2>1, <2>2
  <2>4. \A a \in A : a.var \in DOMAIN row \ PathNames => a.value = row[a.var]
    BY <1>1, <1>7, <2>1 DEF Consistent
  <2>5. ASSUME NEW a \in A, IsTrail(a.value)
        PROVE  a.var \notin DOMAIN row /\ \A h, g \in HopsNamed(a.var) : h = g
    <3>1. a \in B
      BY <1>1, <2>1, <2>5
    <3>2. a.var \notin DOMAIN row
      BY <1>7, <2>5, <3>1 DEF Consistent
    <3>3. ASSUME NEW h \in HopsNamed(a.var) PROVE HopAt(C, h) = a
      <4>1. HopAt(C, h) \in B /\ HopAt(C, h).var = a.var
        BY <1>2, <1>3, <3>1
      <4> QED
        BY <1>7, <2>5, <3>1, <4>1 DEF Consistent
    <3>4. \A h, g \in HopsNamed(a.var) : h = g
      BY <1>4, <3>3
    <3> QED
      BY <3>2, <3>4
  <2> QED
    BY <2>3, <2>4, <2>5 DEF InAgreement
<1> QED
  BY <1>6, <1>7 DEF B

\* Agrees, said of the bindings.
LEMMA AgreesIs ==
  ASSUME IsPattern(clause.pattern), NEW C, NEW row, NEW n, n = Len(clause.pattern),
         NEW A, Bindings(C) = {<<b.var, b.value>> : b \in A}
  PROVE  Agrees(C, row) <=> InAgreement(row, A) /\ \A i \in 1..n : StartsWell(i, C[i].ns[1], row)
<1> DEFINE T == {<<x, row[x]>> : x \in DOMAIN row \ PathNames}
           all == Bindings(C) \union T
<1>1. DOMAIN clause.pattern = 1..n
  BY DEF IsPattern
<1>2. (\A a, b \in all : a[1] = b[1] => a[2] = b[2]) <=>
        /\ \A a, b \in A : a.var = b.var => a.value = b.value
        /\ \A a \in A : a.var \in DOMAIN row \ PathNames => a.value = row[a.var]
  <2>1. \A q : q \in all <=> \/ \E b \in A : q = <<b.var, b.value>>
                             \/ \E x \in DOMAIN row \ PathNames : q = <<x, row[x]>>
    OBVIOUS
  <2>2. \A x, v : <<x, v>>[1] = x /\ <<x, v>>[2] = v
    OBVIOUS
  <2> HIDE DEF all
  <2>3. ASSUME \A a, b \in all : a[1] = b[1] => a[2] = b[2]
        PROVE  /\ \A a, b \in A : a.var = b.var => a.value = b.value
               /\ \A a \in A : a.var \in DOMAIN row \ PathNames => a.value = row[a.var]
    <3>1. \A b \in A : <<b.var, b.value>> \in all
      BY <2>1
    <3>2. \A x \in DOMAIN row \ PathNames : <<x, row[x]>> \in all
      BY <2>1
    <3>3. ASSUME NEW a \in A, NEW b \in A, a.var = b.var PROVE a.value = b.value
      BY <2>2, <2>3, <3>1, <3>3
    <3>4. ASSUME NEW a \in A, a.var \in DOMAIN row \ PathNames PROVE a.value = row[a.var]
      BY <2>2, <2>3, <3>1, <3>2, <3>4
    <3> QED
      BY <3>3, <3>4
  <2>4. ASSUME \A a, b \in A : a.var = b.var => a.value = b.value,
               \A a \in A : a.var \in DOMAIN row \ PathNames => a.value = row[a.var],
               NEW q \in all, NEW o \in all, q[1] = o[1]
        PROVE  q[2] = o[2]
    <3>1. CASE \E b \in A : q = <<b.var, b.value>>
      <4>1. PICK b \in A : q = <<b.var, b.value>>
        BY <3>1
      <4>2. q[1] = b.var /\ q[2] = b.value
        BY <4>1
      <4>3. CASE \E c \in A : o = <<c.var, c.value>>
        <5>1. PICK c \in A : o = <<c.var, c.value>>
          BY <4>3
        <5>2. o[1] = c.var /\ o[2] = c.value
          BY <5>1
        <5> QED
          BY <2>4, <4>2, <5>2
      <4>4. CASE \E x \in DOMAIN row \ PathNames : o = <<x, row[x]>>
        <5>1. PICK x \in DOMAIN row \ PathNames : o = <<x, row[x]>>
          BY <4>4
        <5>2. o[1] = x /\ o[2] = row[x]
          BY <5>1
        <5> QED
          BY <2>4, <4>2, <5>2
      <4> QED
        BY <2>1, <4>3, <4>4
    <3>2. CASE \E x \in DOMAIN row \ PathNames : q = <<x, row[x]>>
      <4>1. PICK x \in DOMAIN row \ PathNames : q = <<x, row[x]>>
        BY <3>2
      <4>2. q[1] = x /\ q[2] = row[x]
        BY <4>1
      <4>3. CASE \E c \in A : o = <<c.var, c.value>>
        <5>1. PICK c \in A : o = <<c.var, c.value>>
          BY <4>3
        <5>2. o[1] = c.var /\ o[2] = c.value
          BY <5>1
        <5> QED
          BY <2>4, <4>2, <5>2
      <4>4. CASE \E y \in DOMAIN row \ PathNames : o = <<y, row[y]>>
        <5>1. PICK y \in DOMAIN row \ PathNames : o = <<y, row[y]>>
          BY <4>4
        <5>2. o[1] = y /\ o[2] = row[y]
          BY <5>1
        <5> QED
          BY <2>4, <4>2, <5>2
      <4> QED
        BY <2>1, <4>3, <4>4
    <3> QED
      BY <2>1, <3>1, <3>2
  <2> QED
    BY <2>3, <2>4
<1>3. (\A b \in Bindings(C) : IsTrail(b[2]) =>
         b[1] \notin DOMAIN row /\ \A h, g \in HopsNamed(b[1]) : h = g) <=>
      (\A a \in A : IsTrail(a.value) =>
         a.var \notin DOMAIN row /\ \A h, g \in HopsNamed(a.var) : h = g)
  <2> DEFINE Once(x, v) == IsTrail(v) => x \notin DOMAIN row /\ \A h, g \in HopsNamed(x) : h = g
  <2>1. (\A b \in {<<a.var, a.value>> : a \in A} : Once(b[1], b[2])) <=> \A a \in A : Once(a.var, a.value)
    <3>1. \A x, v : <<x, v>>[1] = x /\ <<x, v>>[2] = v
      OBVIOUS
    <3> DEFINE D == {<<a.var, a.value>> : a \in A}
    <3>2. \A a \in A : <<a.var, a.value>> \in D
      OBVIOUS
    <3>3. \A b \in D : \E a \in A : b[1] = a.var /\ b[2] = a.value
      <4> SUFFICES ASSUME NEW b \in D PROVE \E a \in A : b[1] = a.var /\ b[2] = a.value
        OBVIOUS
      <4>1. PICK a \in A : b = <<a.var, a.value>>
        OBVIOUS
      <4> QED
        BY <3>1, <4>1
    <3> HIDE DEF Once, D
    <3>4. (\A b \in D : Once(b[1], b[2])) <=> \A a \in A : Once(a.var, a.value)
      BY <3>1, <3>2, <3>3
    <3> QED
      BY <3>4 DEF D
  <2> QED
    BY <2>1
<1>4. Agrees(C, row) <=>
        /\ \A a, b \in all : a[1] = b[1] => a[2] = b[2]
        /\ \A b \in Bindings(C) : IsTrail(b[2]) =>
             b[1] \notin DOMAIN row /\ \A h, g \in HopsNamed(b[1]) : h = g
        /\ \A i \in DOMAIN clause.pattern : StartsWell(i, C[i].ns[1], row)
  BY DEF Agrees, StartsWell
<1> HIDE DEF all
<1> QED
  BY <1>1, <1>2, <1>3, <1>4 DEF InAgreement

\* The ways to map the pattern into the graph, WHERE apart.
AgreedChoices(row) ==
  {c \in [DOMAIN clause.pattern -> UNION {PathsThatFit(clause.pattern[i]) : i \in DOMAIN clause.pattern}] :
     /\ \A i \in DOMAIN clause.pattern : c[i] \in PathsThatFit(clause.pattern[i])
     /\ Agrees(c, row)}

\* The ways to map the pattern into the graph are what the paths may go along.
LEMMA AgreedChoicesSolve ==
  ASSUME IsPattern(clause.pattern), PathNamesApart(clause.pattern), NEW C, NEW row
  PROVE  C \in AgreedChoices(row) <=> Solves(C, Len(clause.pattern), row)
<1> DEFINE p == clause.pattern
           n == Len(p)
           A == ChoiceBindings(C, n) \union ChoiceNames(C, n)
           Whole(i) == C[i] = [ns |-> C[i].ns, hs |-> C[i].hs]
           Fit(i) == Fits(p[i], C[i].ns, C[i].hs, Len(p[i].hops))
<1>1. DOMAIN p = 1..n /\ \A i \in 1..n : IsPathPattern(p[i])
  BY DEF IsPattern, Range
<1>2. \A i \in 1..n : C[i] \in PathsThatFit(p[i]) <=> Whole(i) /\ Fit(i)
  BY <1>1, PathsThatFitAre
<1>3. (C = [i \in 1..n |-> C[i]] /\ \A i \in 1..n : Whole(i)) <=> C = [i \in 1..n |-> [ns |-> C[i].ns, hs |-> C[i].hs]]
  <2>1. ASSUME C = [i \in 1..n |-> C[i]], \A i \in 1..n : Whole(i)
        PROVE  C = [i \in 1..n |-> [ns |-> C[i].ns, hs |-> C[i].hs]]
    BY <2>1
  <2>2. ASSUME C = [i \in 1..n |-> [ns |-> C[i].ns, hs |-> C[i].hs]]
        PROVE  C = [i \in 1..n |-> C[i]] /\ \A i \in 1..n : Whole(i)
    <3> DEFINE E == [i \in 1..n |-> [ns |-> C[i].ns, hs |-> C[i].hs]]
    <3>1. DOMAIN E = 1..n /\ \A i \in 1..n : E[i] = [ns |-> C[i].ns, hs |-> C[i].hs]
      OBVIOUS
    <3>2. E = [i \in 1..n |-> E[i]]
      OBVIOUS
    <3>3. C = E
      BY <2>2
    <3> HIDE DEF E
    <3> QED
      BY <3>1, <3>2, <3>3
  <2> QED
    BY <2>1, <2>2
<1>4. C \in AgreedChoices(row) <=>
        C = [i \in 1..n |-> C[i]] /\ (\A i \in 1..n : C[i] \in PathsThatFit(p[i])) /\ Agrees(C, row)
  <2> DEFINE U == UNION {PathsThatFit(p[i]) : i \in DOMAIN p}
  <2>1. C \in AgreedChoices(row) <=>
          C \in [1..n -> U] /\ (\A i \in 1..n : C[i] \in PathsThatFit(p[i])) /\ Agrees(C, row)
    BY <1>1 DEF AgreedChoices
  <2>2. (\A i \in 1..n : C[i] \in PathsThatFit(p[i])) => \A i \in 1..n : C[i] \in U
    BY <1>1
  <2> HIDE DEF U
  <2>3. (\A i \in 1..n : C[i] \in U) => (C \in [1..n -> U] <=> C = [i \in 1..n |-> C[i]])
    OBVIOUS
  <2>4. C \in [1..n -> U] => C = [i \in 1..n |-> C[i]]
    OBVIOUS
  <2> QED
    BY <2>1, <2>2, <2>3, <2>4
<1>5. ASSUME \A i \in 1..n : Fit(i)
      PROVE  Agrees(C, row) <=>
               Consistent(row, ChoiceBindings(C, n)) /\ \A i \in 1..n : StartsWell(i, C[i].ns[1], row)
  <2>1. \A i \in 1..n : Shaped(C[i].ns, C[i].hs, Len(p[i].hops))
    BY <1>5 DEF Fits
  <2>2. Bindings(C) = {<<b.var, b.value>> : b \in A}
    <3> HIDE DEF n, A
    <3>1. n = Len(clause.pattern) /\ A = ChoiceBindings(C, n) \union ChoiceNames(C, n)
      BY DEF n, A
    <3> QED
      BY <2>1, <3>1, PlainBindings
  <2>3. InAgreement(row, A) <=> Consistent(row, ChoiceBindings(C, n))
    BY AgreementIs
  <2>4. Agrees(C, row) <=> InAgreement(row, A) /\ \A i \in 1..n : StartsWell(i, C[i].ns[1], row)
    <3> HIDE DEF n, A
    <3>1. n = Len(clause.pattern)
      BY DEF n
    <3> QED
      BY <2>2, <3>1, AgreesIs
  <2> QED
    BY <2>3, <2>4
<1>6. Solves(C, n, row) <=>
        /\ C = [i \in 1..n |-> C[i]] /\ \A i \in 1..n : Whole(i)
        /\ \A i \in 1..n : Fit(i)
        /\ \A i \in 1..n : StartsWell(i, C[i].ns[1], row)
        /\ Consistent(row, ChoiceBindings(C, n))
  BY <1>3 DEF Solves
<1> HIDE DEF Whole, Fit
<1> QED
  BY <1>2, <1>4, <1>5, <1>6

\* The row of a choice is the row with what the choice gives values to.
LEMMA RowOfAdds ==
  ASSUME IsPattern(clause.pattern), PathNamesApart(clause.pattern), NEW C, NEW row, NEW n, n = Len(clause.pattern),
         Solves(C, n, row), NEW A, A = ChoiceBindings(C, n) \union ChoiceNames(C, n)
  PROVE  Adds(RowOf(C, row), row, A)
<1> DEFINE p == clause.pattern
           D == Bindings(C)
           r == RowOf(C, row)
<1>1. D = {<<b.var, b.value>> : b \in A}
  <2>1. \A i \in 1..n : Shaped(C[i].ns, C[i].hs, Len(p[i].hops))
    BY DEF Solves, Fits
  <2> QED
    BY <2>1, PlainBindings
<1>2. InAgreement(row, A)
  BY AgreementIs DEF Solves
<1>3. PathNames \subseteq Vars(A)
  <2> SUFFICES ASSUME NEW x \in PathNames PROVE x \in Vars(A)
    OBVIOUS
  <2>1. PICK i \in 1..n : p[i].var = x /\ x # NoVar
    BY DEF PathNames, IsPattern
  <2>2. NameRecord(C, i).var = x
    BY <2>1 DEF NameRecord
  <2> DEFINE b == NameRecord(C, i)
  <2>3. \E k \in 1..n : b = NameRecord(C, k)
    OBVIOUS
  <2> HIDE DEF b
  <2>4. b \in ChoiceNames(C, n)
    BY <2>1, <2>2, <2>3, ChoiceRecords DEF b
  <2> QED
    BY <2>2, <2>4 DEF Vars, b
<1>4. r = [x \in DOMAIN row \union {q[1] : q \in D} |->
             IF x \in DOMAIN row \ PathNames THEN row[x] ELSE (CHOOSE q \in D : q[1] = x)[2]]
  BY DEF RowOf
<1> HIDE DEF r, D
<1>5. {q[1] : q \in D} = Vars(A)
  <2>1. \A a \in A : <<a.var, a.value>> \in D /\ <<a.var, a.value>>[1] = a.var
    BY <1>1
  <2>2. \A q \in D : \E a \in A : q[1] = a.var
    <3> SUFFICES ASSUME NEW q \in D PROVE \E a \in A : q[1] = a.var
      OBVIOUS
    <3>1. PICK a \in A : q = <<a.var, a.value>>
      BY <1>1
    <3> QED
      BY <3>1
  <2> SUFFICES ASSUME NEW x PROVE x \in {q[1] : q \in D} <=> x \in Vars(A)
    OBVIOUS
  <2>3. x \in {q[1] : q \in D} <=> \E q \in D : q[1] = x
    OBVIOUS
  <2>4. x \in Vars(A) <=> \E a \in A : a.var = x
    BY DEF Vars
  <2> QED
    BY <2>1, <2>2, <2>3, <2>4
<1>6. IsRow(r) /\ DOMAIN r = DOMAIN row \union Vars(A)
  <2> DEFINE val(x) == IF x \in DOMAIN row \ PathNames THEN row[x] ELSE (CHOOSE q \in D : q[1] = x)[2]
             dom == DOMAIN row \union {q[1] : q \in D}
  <2>1. r = [x \in dom |-> val(x)]
    BY <1>4
  <2>2. dom = DOMAIN row \union Vars(A)
    BY <1>5
  <2> HIDE DEF val, dom
  <2> QED
    BY <2>1, <2>2 DEF IsRow
<1>7. ASSUME NEW b \in A PROVE r[b.var] = b.value
  <2>1. b.var \in Vars(A)
    BY DEF Vars
  <2>2. CASE b.var \in DOMAIN row \ PathNames
    BY <1>2, <1>4, <2>2 DEF InAgreement
  <2>3. CASE b.var \notin DOMAIN row \ PathNames
    <3> DEFINE q == CHOOSE o \in D : o[1] = b.var
    <3>1. \E o \in D : o[1] = b.var
      <4>1. <<b.var, b.value>> \in D /\ <<b.var, b.value>>[1] = b.var
        BY <1>1
      <4> QED
        BY <4>1
    <3>2. q \in D /\ q[1] = b.var
      BY <3>1
    <3>3. r[b.var] = q[2]
      BY <1>4, <1>5, <2>1, <2>3
    <3> HIDE DEF q
    <3>4. PICK c \in A : q = <<c.var, c.value>>
      BY <1>1, <3>2
    <3>5. q[1] = c.var /\ q[2] = c.value
      BY <3>4
    <3>6. \A a, o \in A : a.var = o.var => a.value = o.value
      BY <1>2 DEF InAgreement
    <3>7. c.var = b.var
      BY <3>2, <3>5
    <3>8. c.value = b.value
      BY <3>6, <3>7
    <3> QED
      BY <3>3, <3>5, <3>8
  <2> QED
    BY <2>2, <2>3
<1>8. \A x \in DOMAIN row \ Vars(A) : r[x] = row[x]
  BY <1>3, <1>4, <1>5
<1> QED
  BY <1>6, <1>7, <1>8 DEF Adds, r

\* What is found for a row: a row for every match.
FoundIn(row) == {[by |-> c, row |-> RowOf(c, row)] : c \in Matches(row)}

\* A solution is a way to map the pattern into the graph, and its row.
LEMMA SolutionIsFound ==
  ASSUME IsPattern(clause.pattern), PathNamesApart(clause.pattern), NEW row, NEW w
  PROVE  (\E C : Solution(w, C, Len(clause.pattern), row)) <=>
           \E C \in AgreedChoices(row) : w = [by |-> C, row |-> RowOf(C, row)]
<1> DEFINE n == Len(clause.pattern)
           A(C) == ChoiceBindings(C, n) \union ChoiceNames(C, n)
<1>1. \A C : C \in AgreedChoices(row) <=> Solves(C, n, row)
  BY AgreedChoicesSolve
<1>2. ASSUME NEW C, Solves(C, n, row) PROVE Adds(RowOf(C, row), row, A(C))
  BY <1>2, RowOfAdds
<1> HIDE DEF n, A
<1>3. ASSUME NEW C, Solution(w, C, n, row) PROVE w = [by |-> C, row |-> RowOf(C, row)] /\ Solves(C, n, row)
  <2>1. Solves(C, n, row) /\ Adds(w.row, row, A(C)) /\ w = [by |-> C, row |-> w.row]
    BY <1>3 DEF Solution, A
  <2>2. w.row = RowOf(C, row)
    BY <1>2, <2>1, AddsOneRow
  <2> QED
    BY <2>1, <2>2
<1>4. ASSUME NEW C, Solves(C, n, row), w = [by |-> C, row |-> RowOf(C, row)] PROVE Solution(w, C, n, row)
  <2>1. w.row = RowOf(C, row)
    BY <1>4
  <2> QED
    BY <1>2, <1>4, <2>1 DEF Solution, A
<1> QED
  BY <1>1, <1>3, <1>4 DEF n

\* What MATCH selects of what the pattern finds.
LEMMA MatchesListed ==
  ASSUME GraphIsFine, IsPattern(clause.pattern), PathNamesApart(clause.pattern), NEW row, FineRow(row)
  PROVE  Listed(Select(MatchPattern(graph, clause.pattern, row), LAMBDA r : Holds(graph, clause.where, r)),
                FoundIn(row))
<1> DEFINE s == MatchPattern(graph, clause.pattern, row)
           n == Len(clause.pattern)
           T == {r \in Range(s) : Holds(graph, clause.where, r)}
           lists == [i \in DOMAIN s |-> IF s[i] \in T THEN <<s[i]>> ELSE <<>>]
           kept == Select(s, LAMBDA r : Holds(graph, clause.where, r))
<1>1. PICK W : Listed(s, W) /\ \A w : w \in W <=> \E C : Solution(w, C, n, row)
  BY MatchPatternListed DEF SolutionsListed
<1>2. \A w : w \in W <=> \E C \in AgreedChoices(row) : w = [by |-> C, row |-> RowOf(C, row)]
  BY <1>1, SolutionIsFound
<1> HIDE DEF s
<1>3. kept = FlattenSeq(lists)
  <2>1. \A i \in DOMAIN s : s[i] \in T <=> Holds(graph, clause.where, s[i])
    BY DEF Range
  <2>2. lists = [i \in DOMAIN s |-> IF Holds(graph, clause.where, s[i]) THEN <<s[i]>> ELSE <<>>]
    BY <2>1
  <2> QED
    BY <2>2 DEF Select, FlatMap
<1>4. Listed(FlattenSeq(lists), {w \in W : w.row \in T})
  <2>1. lists = [i \in DOMAIN s |-> IF s[i] \in T THEN <<s[i]>> ELSE <<>>]
    OBVIOUS
  <2>2. Listed(s, W)
    BY <1>1
  <2> HIDE DEF T, lists
  <2> QED
    BY ONLY <2>1, <2>2, ListedSelected
<1>5. {w \in W : w.row \in T} = FoundIn(row)
  <2> SUFFICES ASSUME NEW w PROVE w \in W /\ w.row \in T <=> w \in FoundIn(row)
    OBVIOUS
  <2>1. w \in W => w.row \in Range(s)
    BY <1>1, ListedList
  <2>2. w \in FoundIn(row) <=>
          \E C \in AgreedChoices(row) : Holds(graph, clause.where, RowOf(C, row)) /\ w = [by |-> C, row |-> RowOf(C, row)]
    <3>1. Matches(row) = {c \in AgreedChoices(row) : Holds(graph, clause.where, RowOf(c, row))}
      BY DEF Matches, AgreedChoices
    <3> QED
      BY <3>1 DEF FoundIn
  <2>3. \A C, r : [by |-> C, row |-> r].row = r
    OBVIOUS
  <2> QED
    BY <1>2, <2>1, <2>2, <2>3
<1> QED
  BY <1>3, <1>4, <1>5 DEF s

\* What comes out of the j-th row.
WantedOf(j) ==
  {[by |-> <<j, c>>, row |-> RowOf(c, input[j])] : c \in Matches(input[j])}
    \union {w \in {[by |-> <<j>>, row |-> Unmatched(input[j])]} : clause.optional /\ Matches(input[j]) = {}}

\* What comes out of one row is what is wanted of it, each once.
LEMMA RowMatched ==
  ASSUME GraphIsFine, IsPattern(clause.pattern), PathNamesApart(clause.pattern), NEW j, FineRow(input[j])
  PROVE  Listed(MatchRow(graph, clause, input[j]), WantedOf(j))
<1> DEFINE row == input[j]
           kept == Select(MatchPattern(graph, clause.pattern, row), LAMBDA r : Holds(graph, clause.where, r))
           new == PatternVars(clause.pattern) \ DOMAIN row
           nulls == [x \in DOMAIN row \union new |-> IF x \in new THEN NullRef ELSE row[x]]
           B == [w \in FoundIn(row) |-> [by |-> <<j, w.by>>, row |-> w.row]]
           renamed == {[by |-> <<j, c>>, row |-> RowOf(c, row)] : c \in Matches(row)}
<1>1. Listed(kept, FoundIn(row))
  BY MatchesListed
<1>2. MatchRow(graph, clause, row) = IF kept = <<>> /\ clause.optional THEN <<nulls>> ELSE kept
  BY DEF MatchRow
<1>3. nulls = Unmatched(row)
  BY DEF Unmatched
<1> HIDE DEF kept, nulls
<1>4. Listed(kept, renamed)
  <2>1. \A w \in FoundIn(row) : \E c \in Matches(row) : w.by = c /\ w = [by |-> c, row |-> w.row] /\ w.row = RowOf(c, row)
    BY DEF FoundIn
  <2>2. \A c \in Matches(row) : [by |-> c, row |-> RowOf(c, row)] \in FoundIn(row)
    BY DEF FoundIn
  <2>3. \A w \in FoundIn(row) : B[w] = [by |-> <<j, w.by>>, row |-> w.row]
    OBVIOUS
  <2> HIDE DEF B, row
  <2>4. \A w \in FoundIn(row) : B[w].row = w.row /\ B[w].by = <<j, w.by>>
    <3> SUFFICES ASSUME NEW w \in FoundIn(row) PROVE B[w].row = w.row /\ B[w].by = <<j, w.by>>
      OBVIOUS
    <3>1. B[w] = [by |-> <<j, w.by>>, row |-> w.row]
      BY <2>3
    <3> QED
      BY <3>1
  <2>5. ASSUME NEW w \in FoundIn(row), NEW v \in FoundIn(row), B[w] = B[v] PROVE w = v
    <3>1. <<j, w.by>> = <<j, v.by>> /\ w.row = v.row
      BY <2>4, <2>5
    <3>2. w.by = v.by
      BY <3>1
    <3> QED
      BY <2>1, <3>1, <3>2
  <2>6. {B[w] : w \in FoundIn(row)} = renamed
    <3>1. ASSUME NEW w \in FoundIn(row) PROVE B[w] \in renamed
      <4>1. PICK c \in Matches(row) : w.by = c /\ w.row = RowOf(c, row)
        BY <2>1
      <4> QED
        BY <2>3, <4>1
    <3>2. ASSUME NEW z \in renamed PROVE \E w \in FoundIn(row) : z = B[w]
      <4>1. PICK c \in Matches(row) : z = [by |-> <<j, c>>, row |-> RowOf(c, row)]
        OBVIOUS
      <4> DEFINE w == [by |-> c, row |-> RowOf(c, row)]
      <4>2. w \in FoundIn(row) /\ w.by = c /\ w.row = RowOf(c, row)
        BY <2>2
      <4> HIDE DEF w
      <4> QED
        BY <2>3, <4>1, <4>2
    <3> QED
      BY <3>1, <3>2
  <2> HIDE DEF renamed
  <2>7. Listed(kept, {B[w] : w \in FoundIn(row)})
    BY <1>1, <2>4, <2>5, ListedRenamed
  <2> QED
    BY <2>6, <2>7
<1>5. kept = <<>> <=> Matches(row) = {}
  <2>1. IsList(kept) /\ Range(kept) = {w.row : w \in renamed}
    BY <1>4, ListedList
  <2>2. renamed = {} <=> Matches(row) = {}
    OBVIOUS
  <2>3. kept = <<>> <=> Range(kept) = {}
    BY <2>1, SmallLists DEF IsList, Range
  <2> QED
    BY <2>1, <2>2, <2>3
<1>6. CASE clause.optional /\ Matches(row) = {}
  <2> DEFINE w == [by |-> <<j>>, row |-> Unmatched(row)]
  <2>1. MatchRow(graph, clause, row) = <<Unmatched(row)>>
    BY <1>2, <1>3, <1>5, <1>6
  <2>2. WantedOf(j) = {w}
    BY <1>6 DEF WantedOf
  <2>3. w.row = Unmatched(row)
    OBVIOUS
  <2> HIDE DEF w
  <2>4. Listed(<<w.row>>, {w})
    BY ListedNone
  <2> QED
    BY <2>1, <2>2, <2>3, <2>4
<1>7. CASE ~(clause.optional /\ Matches(row) = {})
  <2>1. MatchRow(graph, clause, row) = kept
    BY <1>2, <1>5, <1>7
  <2>2. WantedOf(j) = renamed
    BY <1>7 DEF WantedOf
  <2> QED
    BY <1>4, <2>1, <2>2
<1> QED
  BY <1>6, <1>7

------------------------------------------------------------------------------
\* The clause: row after row.
\* The rows that are still to be matched are the last ones of the input.
Progress ==
  /\ graph \in Graphs /\ clause \in Clauses /\ input \in Inputs
  /\ todo \in Seq(Range(input))
  /\ Len(todo) <= Len(input)
  /\ \A k \in 1..Len(todo) : todo[k] = input[Len(input) - Len(todo) + k]
  /\ IsList(out)

\* What OPTIONAL MATCH keeps of a row: all but the names of paths.
KeptOf(row) == [x \in DOMAIN row \ PathNames |-> row[x]]

KeptIn(j, i) == \A x \in DOMAIN input[j] \ PathNames : x \in DOMAIN out[i] /\ out[i][x] = input[j][x]

MInv == Progress /\ OptionalKeepsEveryRow

LEMMA DoneIsAll ==
  ASSUME Progress
  PROVE  /\ Len(input) \in Nat /\ Len(todo) \in 0..Len(input)
         /\ Done = 1..(Len(input) - Len(todo))
<1>1. input \in Seq(Range(input))
  BY InputsAssumption DEF Progress
<1>2. Len(input) \in Nat /\ DOMAIN input = 1..Len(input) /\ Len(todo) \in 0..Len(input)
  BY <1>1 DEF Progress
<1> QED
  BY <1>2 DEF Done

\* The next row, and what is done after it.
LEMMA NextRow ==
  ASSUME Progress, MatchNextRow, NEW n, n = Len(input) - Len(todo)
  PROVE  /\ n + 1 \in DOMAIN input /\ n + 1 \notin Done
         /\ Head(todo) = input[n + 1] /\ Done' = Done \union {n + 1}
<1>1. todo # <<>> /\ todo' = Tail(todo) /\ UNCHANGED <<graph, clause, input>>
  BY DEF MatchNextRow
<1>2. /\ Len(todo) \in Nat \ {0} /\ Len(todo') = Len(todo) - 1
      /\ Head(todo) = todo[1]
  BY <1>1 DEF Progress
<1>3. Len(input) \in Nat /\ Len(todo) \in 0..Len(input) /\ Done = 1..n
  BY DoneIsAll
<1>4. DOMAIN input = 1..Len(input)
  BY InputsAssumption DEF Progress
<1>5. Head(todo) = input[n + 1]
  BY <1>2, <1>3 DEF Progress
<1>6. Done' = {j \in DOMAIN input : j <= Len(input) - Len(todo')}
  BY <1>1 DEF Done
<1>7. Len(input) - Len(todo') = n + 1
  BY <1>2, <1>3
<1> QED
  BY <1>2, <1>3, <1>4, <1>5, <1>6, <1>7

LEMMA InitMInv == Init => MInv
<1> SUFFICES ASSUME Init PROVE MInv
  OBVIOUS
<1>1. input \in Seq(Range(input))
  BY InputsAssumption DEF Init
<1>2. Progress
  BY <1>1, SmallLists DEF Init, Progress
<1>3. Done = {}
  BY <1>2, DoneIsAll DEF Init
<1> QED
  BY <1>2, <1>3 DEF MInv, OptionalKeepsEveryRow

\* What is matched next, and what comes out of it.
LEMMA NextRowMatched ==
  ASSUME Progress, todo # <<>>
  PROVE  /\ IsList(MatchRow(graph, clause, Head(todo)))
         /\ clause.optional =>
              \E r \in Range(MatchRow(graph, clause, Head(todo))) : Keeps(r, KeptOf(Head(todo)))
<1> DEFINE row == Head(todo)
           old == KeptOf(row)
           E == graph.nodes \union DOMAIN graph.rels
                  \union UNION {EntitiesOf(row[x]) : x \in DOMAIN row}
           rows == MatchRow(graph, clause, row)
<1>1. IsGraph(graph) /\ IsPattern(clause.pattern)
  BY GraphsAssumption, ClausesAssumption DEF Progress
<1>2. Covers(E, graph) /\ Within(row, E)
  BY DEF Covers, Within
<1>3. Keeps(row, old)
  BY DEF Keeps, KeptOf
<1>4. PathsAreNew(clause.pattern, old)
  <2>1. \A k \in 1..Len(clause.pattern) : clause.pattern[k].var \in PathNames \union {NoVar}
    BY <1>1 DEF IsPattern, PathNames
  <2> QED
    BY <2>1 DEF PathsAreNew, KeptOf
<1> HIDE DEF row, old, E
<1>5. GoodRows(rows, E, old) /\ (clause.optional => Range(rows) # {})
  BY <1>1, <1>2, <1>3, <1>4, MatchRowGood
<1> QED
  BY <1>5 DEF GoodRows, row, old

LEMMA NextMInv == MInv /\ [Next]_vars => MInv'
<1> SUFFICES ASSUME MInv, [Next]_vars PROVE MInv'
  OBVIOUS
<1>1. CASE UNCHANGED vars
  BY <1>1 DEF MInv, Progress, OptionalKeepsEveryRow, Done, PathNames, vars
<1>2. CASE MatchNextRow
  <2> DEFINE row == Head(todo)
             rows == MatchRow(graph, clause, row)
             n == Len(input) - Len(todo)
  <2>1. /\ Progress /\ todo # <<>> /\ out' = out \o rows /\ todo' = Tail(todo)
        /\ UNCHANGED <<graph, clause, input>>
    BY <1>2 DEF MatchNextRow, MInv
  <2>2. /\ IsList(rows)
        /\ clause.optional => \E r \in Range(rows) : Keeps(r, KeptOf(row))
    BY <2>1, NextRowMatched
  <2> HIDE DEF rows
  <2>3. /\ IsList(out') /\ Range(out') = Range(out) \union Range(rows)
    BY <2>1, <2>2, ConcatList DEF Progress
  <2>4. /\ Len(todo) \in Nat \ {0} /\ Len(todo') = Len(todo) - 1
        /\ \A k \in 1..Len(todo') : todo'[k] = todo[k + 1]
        /\ todo' \in Seq(Range(input))
        /\ row = todo[1]
    BY <2>1 DEF Progress
  <2>5. Len(input) \in Nat /\ Len(todo) \in 0..Len(input) /\ Done = 1..n
    BY <2>1, DoneIsAll
  <2>6. row = input[n + 1] /\ Done' = Done \union {n + 1}
    BY <1>2, <2>1, NextRow
  <2>7. Progress'
    <3>1. \A k \in 1..Len(todo') : todo'[k] = input'[Len(input') - Len(todo') + k]
      <4> TAKE k \in 1..Len(todo')
      <4>1. k + 1 \in 1..Len(todo) /\ todo'[k] = todo[k + 1]
        BY <2>4
      <4>2. todo[k + 1] = input[Len(input) - Len(todo) + (k + 1)]
        BY <2>1, <4>1 DEF Progress
      <4>3. Len(input) - Len(todo) + (k + 1) = Len(input) - Len(todo') + k
        BY <2>4, <2>5
      <4> QED
        BY <2>1, <4>1, <4>2, <4>3
    <3> QED
      BY <2>1, <2>3, <2>4, <2>5, <3>1 DEF Progress
  <2>8. ASSUME clause.optional, NEW j \in Done'
        PROVE  \E i \in DOMAIN out' :
                 \A x \in DOMAIN input[j] \ PathNames : x \in DOMAIN out'[i] /\ out'[i][x] = input[j][x]
    <3>1. \E r \in Range(out') :
            \A x \in DOMAIN input[j] \ PathNames : x \in DOMAIN r /\ r[x] = input[j][x]
      <4>1. CASE j \in Done
        <5>1. PICK i \in DOMAIN out : KeptIn(j, i)
          BY <2>8, <4>1 DEF MInv, OptionalKeepsEveryRow, KeptIn
        <5>2. out[i] \in Range(out')
          BY <2>3 DEF Range
        <5> QED
          BY <5>1, <5>2 DEF KeptIn
      <4>2. CASE j = n + 1
        <5>1. PICK r \in Range(rows) : Keeps(r, KeptOf(row))
          BY <2>2, <2>8
        <5>2. \A x \in DOMAIN row \ PathNames : x \in DOMAIN r /\ r[x] = row[x]
          BY <5>1 DEF Keeps, KeptOf
        <5> QED
          BY <2>3, <2>6, <4>2, <5>2
      <4> QED
        BY <2>6, <2>8, <4>1, <4>2
    <3> QED
      BY <3>1 DEF Range
  <2>9. OptionalKeepsEveryRow'
    BY <2>1, <2>8 DEF OptionalKeepsEveryRow, PathNames
  <2> QED
    BY <2>7, <2>9 DEF MInv
<1> QED
  BY <1>1, <1>2 DEF Next

\* OPTIONAL MATCH loses no row, whatever the graph, the pattern, its condition and
\* the rows that come in: of each something comes out that has its values.
THEOREM OptionalLosesNoRow == Spec => []OptionalKeepsEveryRow
<1>1. MInv => OptionalKeepsEveryRow
  BY DEF MInv
<1> QED
  BY <1>1, InitMInv, NextMInv, PTL DEF Spec

\* What is wanted of a row depends on graph, clause and input only.
LEMMA WantedStays ==
  ASSUME UNCHANGED <<graph, clause, input>>
  PROVE  \A j : WantedOf(j)' = WantedOf(j)
<1>1. \A dir, r, a, b : Joins(dir, r, a, b)' <=> Joins(dir, r, a, b)
  BY DEF Joins
<1>2. \A hop, p, a, b : Leads(hop, p, a, b)' <=> Leads(hop, p, a, b)
  BY <1>1 DEF Leads
<1>3. \A hop, a, b : Connections(hop, a, b)' = Connections(hop, a, b)
  <2> SUFFICES ASSUME NEW hop, NEW a, NEW b PROVE Connections(hop, a, b)' = Connections(hop, a, b)
    OBVIOUS
  <2>1. CASE hop.varlen
    BY <1>2, <2>1 DEF Connections
  <2>2. CASE ~hop.varlen
    BY <1>2, <2>2 DEF Connections
  <2> QED
    BY <2>1, <2>2
<1>4. \A np, n : NodeFits(np, n)' <=> NodeFits(np, n)
  BY DEF NodeFits
<1>5. \A path : PathsThatFit(path)' = PathsThatFit(path)
  BY <1>3, <1>4 DEF PathsThatFit
<1>6. PathNames' = PathNames
  BY DEF PathNames
<1>7. \A c : Bindings(c)' = Bindings(c)
  BY DEF Bindings
<1>8. \A x : HopsNamed(x)' = HopsNamed(x)
  BY DEF HopsNamed
<1>9. \A i : NamedBefore(i)' = NamedBefore(i)
  BY DEF NamedBefore
<1>10. \A c, row : Agrees(c, row)' <=> Agrees(c, row)
  <2> SUFFICES ASSUME NEW c, NEW row PROVE Agrees(c, row)' <=> Agrees(c, row)
    OBVIOUS
  <2> DEFINE same(all) == \A a, b \in all : a[1] = b[1] => a[2] = b[2]
             new(names) == {<<x, row[x]>> : x \in DOMAIN row \ names}
  <2>1. Agrees(c, row) <=>
          /\ same(Bindings(c) \union new(PathNames))
          /\ \A b \in Bindings(c) : IsTrail(b[2]) =>
               b[1] \notin DOMAIN row /\ \A h, g \in HopsNamed(b[1]) : h = g
          /\ \A i \in DOMAIN clause.pattern :
               \/ c[i].ns[1] \in graph.nodes
               \/ clause.pattern[i].nodes[1].var \in DOMAIN row \union NamedBefore(i)
    BY DEF Agrees
  <2>2. Agrees(c, row)' <=>
          /\ same(Bindings(c)' \union new(PathNames'))
          /\ \A b \in Bindings(c)' : IsTrail(b[2]) =>
               b[1] \notin DOMAIN row /\ \A h, g \in HopsNamed(b[1])' : h = g
          /\ \A i \in DOMAIN clause'.pattern :
               \/ c[i].ns[1] \in graph'.nodes
               \/ clause'.pattern[i].nodes[1].var \in DOMAIN row \union NamedBefore(i)'
    BY DEF Agrees
  <2> HIDE DEF same, new
  <2> QED
    BY <1>6, <1>7, <1>8, <1>9, <2>1, <2>2
<1>11. \A c, row : RowOf(c, row)' = RowOf(c, row)
  <2> DEFINE with(row, b, names) ==
               [x \in DOMAIN row \union {p[1] : p \in b} |->
                  IF x \in DOMAIN row \ names THEN row[x] ELSE (CHOOSE p \in b : p[1] = x)[2]]
  <2>1. \A c, row : RowOf(c, row) = with(row, Bindings(c), PathNames)
    BY DEF RowOf
  <2>2. \A c, row : RowOf(c, row)' = with(row, Bindings(c)', PathNames')
    BY DEF RowOf
  <2> HIDE DEF with
  <2> QED
    BY <1>6, <1>7, <2>1, <2>2
<1>12. \A row : Matches(row)' = Matches(row)
  BY <1>5, <1>10, <1>11 DEF Matches
<1>13. \A row : Unmatched(row)' = Unmatched(row)
  BY DEF Unmatched
<1> QED
  BY <1>11, <1>12, <1>13 DEF WantedOf

RowsListed == PathNamesApart(clause.pattern) => Listed(out, UNION {WantedOf(j) : j \in Done})

\* The rows that come in are fine.
LEMMA InputIsFine ==
  ASSUME Progress
  PROVE  /\ GraphIsFine /\ IsPattern(clause.pattern)
         /\ \A j \in DOMAIN input : FineRow(input[j])
<1>1. GraphIsFine /\ IsPattern(clause.pattern)
  BY GraphsAssumption, ClausesAssumption DEF Progress, GraphIsFine
<1>2. ASSUME NEW j \in DOMAIN input PROVE FineRow(input[j])
  <2>1. IsRowOver(input[j])
    BY InputsAssumption DEF Progress, Range
  <2> QED
    BY <2>1 DEF IsRowOver, Progress, FineRow, IsRow, HoldsObjects, Objects
<1> QED
  BY <1>1, <1>2

\* What is wanted of two rows is told apart by its first mark.
LEMMA WantedApart ==
  ASSUME NEW i, NEW j, NEW w \in WantedOf(i), w \in WantedOf(j)
  PROVE  i = j
<1>1. \A k : \A v \in WantedOf(k) : v.by[1] = k
  <2> SUFFICES ASSUME NEW k, NEW v \in WantedOf(k) PROVE v.by[1] = k
    OBVIOUS
  <2>1. CASE v = [by |-> <<k>>, row |-> Unmatched(input[k])]
    <3>1. v.by = <<k>>
      BY <2>1
    <3> QED
      BY <3>1
  <2>2. CASE \E c : v = [by |-> <<k, c>>, row |-> RowOf(c, input[k])]
    <3>1. PICK c : v = [by |-> <<k, c>>, row |-> RowOf(c, input[k])]
      BY <2>2
    <3>2. v.by = <<k, c>>
      BY <3>1
    <3> QED
      BY <3>2
  <2> QED
    BY <2>1, <2>2 DEF WantedOf
<1> QED
  BY <1>1

\* MatchNextRow keeps the rows listed.
LEMMA RowsListedStep ==
  ASSUME Progress, RowsListed, MatchNextRow
  PROVE  RowsListed'
<1> SUFFICES ASSUME PathNamesApart(clause.pattern)
             PROVE  Listed(out', UNION {WantedOf(j)' : j \in Done'})
  BY DEF RowsListed, MatchNextRow
<1> DEFINE n == Len(input) - Len(todo)
           h == n + 1
           W == UNION {WantedOf(j) : j \in Done}
           rows == MatchRow(graph, clause, input[h])
<1>1. h \in DOMAIN input /\ h \notin Done /\ Head(todo) = input[h] /\ Done' = Done \union {h}
  BY NextRow
<1>2. out' = out \o rows /\ UNCHANGED <<graph, clause, input>>
  BY <1>1 DEF MatchNextRow
<1> HIDE DEF rows, h, n
<1>3. Listed(rows, WantedOf(h))
  BY <1>1, InputIsFine, RowMatched DEF rows
<1>4. Listed(out, W)
  BY DEF RowsListed
<1>5. W \intersect WantedOf(h) = {}
  BY <1>1, WantedApart
<1> HIDE DEF W
<1>6. Listed(out \o rows, W \union WantedOf(h))
  BY <1>3, <1>4, <1>5, ListedConcat
<1>7. \A j : WantedOf(j)' = WantedOf(j)
  BY <1>2, WantedStays
<1>8. UNION {WantedOf(j)' : j \in Done'} = W \union WantedOf(h)
  BY <1>1, <1>7 DEF W
<1> QED
  BY <1>2, <1>6, <1>8

\* So does every step.
LEMMA NextRowsListed == Progress /\ RowsListed /\ [Next]_vars => RowsListed'
<1> SUFFICES ASSUME Progress, RowsListed, [Next]_vars PROVE RowsListed'
  OBVIOUS
<1>1. CASE UNCHANGED vars
  <2>1. UNCHANGED <<graph, clause, input, out>> /\ Done' = Done
    BY <1>1 DEF vars, Done
  <2>2. \A j : WantedOf(j)' = WantedOf(j)
    BY <2>1, WantedStays
  <2>3. UNION {WantedOf(j)' : j \in Done'} = UNION {WantedOf(j) : j \in Done}
    BY <2>1, <2>2
  <2> QED
    BY <2>1, <2>3 DEF RowsListed
<1>2. CASE MatchNextRow
  BY <1>2, RowsListedStep
<1> QED
  BY <1>1, <1>2 DEF Next

\* Rows that list what is wanted are the matches.
LEMMA ListedRowsMatch ==
  ASSUME Listed(out, UNION {WantedOf(j) : j \in Done})
  PROVE  RowsAreTheMatches
<1> DEFINE matches == [j \in Done |-> Matches(input[j])]
           found   == UNION {{[by |-> <<j, c>>, row |-> RowOf(c, input[j])] : c \in matches[j]} : j \in Done}
           missed  == {[by |-> <<j>>, row |-> Unmatched(input[j])] :
                         j \in {i \in Done : clause.optional /\ matches[i] = {}}}
           wanted  == found \union missed
<1>1. wanted = UNION {WantedOf(j) : j \in Done}
  <2>1. \A w : w \in found <=>
          \E j \in Done : w \in {[by |-> <<j, c>>, row |-> RowOf(c, input[j])] : c \in Matches(input[j])}
    OBVIOUS
  <2>2. \A w : w \in missed <=>
          \E j \in Done : clause.optional /\ Matches(input[j]) = {} /\ w = [by |-> <<j>>, row |-> Unmatched(input[j])]
    OBVIOUS
  <2>3. \A w, j : w \in WantedOf(j) <=>
          \/ w \in {[by |-> <<j, c>>, row |-> RowOf(c, input[j])] : c \in Matches(input[j])}
          \/ clause.optional /\ Matches(input[j]) = {} /\ w = [by |-> <<j>>, row |-> Unmatched(input[j])]
    BY DEF WantedOf
  <2> HIDE DEF found, missed
  <2>4. \A w : w \in wanted <=> \E j \in Done : w \in WantedOf(j)
    <3> SUFFICES ASSUME NEW w PROVE w \in wanted <=> \E j \in Done : w \in WantedOf(j)
      OBVIOUS
    <3> DEFINE of(j) == {[by |-> <<j, c>>, row |-> RowOf(c, input[j])] : c \in Matches(input[j])}
               none(j) == clause.optional /\ Matches(input[j]) = {} /\ w = [by |-> <<j>>, row |-> Unmatched(input[j])]
    <3>1. w \in wanted <=> w \in found \/ w \in missed
      OBVIOUS
    <3>2. w \in found <=> \E j \in Done : w \in of(j)
      BY <2>1
    <3>3. w \in missed <=> \E j \in Done : none(j)
      BY <2>2
    <3>4. \A j : w \in WantedOf(j) <=> w \in of(j) \/ none(j)
      BY <2>3
    <3> HIDE DEF of, none, wanted
    <3> QED
      BY ONLY <3>1, <3>2, <3>3, <3>4
  <2> QED
    BY <2>4
<1>2. RowsAreTheMatches <=>
        /\ {w.row : w \in wanted} = Range(out)
        /\ \A row \in Range(out) : Occurrences(row) = Cardinality({w \in wanted : w.row = row})
  BY DEF RowsAreTheMatches
<1> HIDE DEF wanted
<1>3. {w.row : w \in wanted} = Range(out)
  BY <1>1, ListedList
<1>4. ASSUME NEW row \in Range(out)
      PROVE  Occurrences(row) = Cardinality({w \in wanted : w.row = row})
  <2>1. Listed(out, wanted)
    BY <1>1
  <2>2. Cardinality({i \in DOMAIN out : out[i] = row}) = Cardinality({w \in wanted : w.row = row})
    BY ONLY <2>1, ListedCount
  <2> QED
    BY <2>2 DEF Occurrences
<1> QED
  BY <1>2, <1>3, <1>4

\* MATCH and OPTIONAL MATCH, on every graph, give one row for every way to map the
\* pattern into the graph that agrees with the row that came in and satisfies
\* WHERE, and no other row, when no path is named like something else.
THEOREM RowsAreExactlyTheMatches ==
  Spec => [](PathNamesApart(clause.pattern) => RowsAreTheMatches)
<1>1. Init => MInv /\ RowsListed
  <2> SUFFICES ASSUME Init PROVE RowsListed
    BY InitMInv
  <2>1. Progress
    BY InitMInv DEF MInv
  <2>2. Done = {} /\ out = <<>>
    BY <2>1, DoneIsAll DEF Init
  <2>3. UNION {WantedOf(j) : j \in Done} = {}
    BY <2>2
  <2> QED
    BY <2>2, <2>3, ListedNone DEF RowsListed
<1>2. MInv /\ RowsListed /\ [Next]_vars => (MInv /\ RowsListed)'
  BY NextMInv, NextRowsListed DEF MInv
<1>3. MInv /\ RowsListed => (PathNamesApart(clause.pattern) => RowsAreTheMatches)
  BY ListedRowsMatch DEF RowsListed
<1> QED
  BY <1>1, <1>2, <1>3, PTL DEF Spec
==============================================================================
