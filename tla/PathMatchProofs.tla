----------------------------- MODULE PathMatchProofs -----------------------------
(****************************************************************************)
(* What pattern matching yields, for every graph, pattern and row: lemmas   *)
(* about the lists it is written with, and about what its rows bind.        *)
(*                                                                          *)
(* The library's induction theorems take an operator as a parameter, which  *)
(* no prover here can instantiate.  Induction is by least counterexample    *)
(* instead: a set of natural numbers that is not empty has a least element, *)
(* from the theorem that < is well-founded.                                 *)
(****************************************************************************)
EXTENDS PathMatch, WellFoundedInduction, FiniteSetTheorems, TLAPS

LEMMA LeastOfNat ==
  ASSUME NEW T \in SUBSET Nat, T # {}
  PROVE  \E n \in T : \A m \in T : n <= m
<1> DEFINE R == {ss \in Nat \X Nat : ss[1] < ss[2]}
<1>1. IsWellFoundedOn(R, Nat)
  BY NatLessThanWellFounded DEF OpToRel
<1>2. PICK n \in T : \A m \in T : ~ (<<m, n>> \in R)
  <2> HIDE DEF R
  <2> QED
    BY <1>1, WFMin
<1>3. ASSUME NEW m \in T PROVE n <= m
  <2>1. m \in Nat /\ n \in Nat
    OBVIOUS
  <2>2. <<m, n>> \notin R
    <3> HIDE DEF R
    <3> QED
      BY <1>2
  <2>3. ~ (m < n)
    BY <2>1, <2>2
  <2> QED
    BY <2>1, <2>3
<1> QED
  BY <1>3

\* Induction, with a set for the property.
LEMMA Induction ==
  ASSUME NEW S, 0 \in S, \A k \in Nat : k \in S => k + 1 \in S
  PROVE  \A k \in Nat : k \in S
<1> SUFFICES ASSUME Nat \ S # {} PROVE FALSE
  OBVIOUS
<1>1. PICK n \in Nat \ S : \A m \in Nat \ S : n <= m
  BY LeastOfNat
<1>2. n # 0 /\ n - 1 \in Nat /\ (n - 1) + 1 = n
  OBVIOUS
<1>3. n - 1 \notin Nat \ S
  BY <1>1, <1>2
<1> QED
  BY <1>1, <1>2, <1>3

------------------------------------------------------------------------------
\* A list: a sequence of whatever it holds.
IsList(s) == s \in Seq(Range(s))

LEMMA ListOf ==
  ASSUME NEW S, NEW s \in Seq(S)
  PROVE  IsList(s) /\ Range(s) \subseteq S
<1>1. DOMAIN s = 1..Len(s) /\ Len(s) \in Nat /\ s = [i \in 1..Len(s) |-> s[i]]
  OBVIOUS
<1>2. \A i \in 1..Len(s) : s[i] \in Range(s)
  BY <1>1 DEF Range
<1>3. s \in Seq(Range(s))
  BY <1>1, <1>2
<1>4. Range(s) \subseteq S
  BY <1>1 DEF Range
<1> QED
  BY <1>3, <1>4 DEF IsList

LEMMA ListShape ==
  ASSUME NEW s, IsList(s)
  PROVE  /\ Len(s) \in Nat /\ DOMAIN s = 1..Len(s)
         /\ \A i \in 1..Len(s) : s[i] \in Range(s)
         /\ \A x \in Range(s) : \E i \in 1..Len(s) : s[i] = x
<1>1. s \in Seq(Range(s))
  BY DEF IsList
<1>2. Len(s) \in Nat /\ DOMAIN s = 1..Len(s)
  BY <1>1
<1>3. Range(s) = {s[i] : i \in DOMAIN s}
  BY DEF Range
<1> QED
  BY <1>2, <1>3

LEMMA FunctionIsList ==
  ASSUME NEW n \in Nat, NEW f, f = [i \in 1..n |-> f[i]]
  PROVE  IsList(f) /\ Len(f) = n
<1> DEFINE S == {f[i] : i \in 1..n}
<1>1. f \in Seq(S) /\ Len(f) = n
  OBVIOUS
<1> QED
  BY <1>1, ListOf

LEMMA SmallLists ==
  /\ IsList(<<>>) /\ Range(<<>>) = {}
  /\ \A x : IsList(<<x>>) /\ Range(<<x>>) = {x}
<1>1. <<>> \in Seq({}) /\ DOMAIN <<>> = {}
  OBVIOUS
<1>2. IsList(<<>>) /\ Range(<<>>) = {}
  BY <1>1, ListOf DEF Range
<1>3. ASSUME NEW x PROVE IsList(<<x>>) /\ Range(<<x>>) = {x}
  <2>1. <<x>> \in Seq({x}) /\ DOMAIN <<x>> = 1..1 /\ <<x>>[1] = x
    OBVIOUS
  <2>2. IsList(<<x>>)
    BY <2>1, ListOf
  <2>3. Range(<<x>>) = {x}
    <3>1. \A i \in 1..1 : i = 1
      OBVIOUS
    <3> QED
      BY <2>1, <3>1 DEF Range
  <2> QED
    BY <2>2, <2>3
<1> QED
  BY <1>2, <1>3

LEMMA TailList ==
  ASSUME NEW s, IsList(s), s # <<>>
  PROVE  IsList(Tail(s)) /\ Range(Tail(s)) \subseteq Range(s) /\ Head(s) \in Range(s)
<1>1. s \in Seq(Range(s))
  BY DEF IsList
<1> DEFINE S == Range(s)
<1> HIDE DEF S
<1>2. ASSUME NEW t, t \in Seq(S), t # <<>> PROVE Tail(t) \in Seq(S) /\ Head(t) \in S
  BY <1>2
<1>3. Tail(s) \in Seq(Range(s)) /\ Head(s) \in Range(s)
  BY <1>1, <1>2 DEF S
<1> QED
  BY <1>3, ListOf

LEMMA ConcatList ==
  ASSUME NEW s, NEW t, IsList(s), IsList(t)
  PROVE  IsList(s \o t) /\ Range(s \o t) = Range(s) \union Range(t)
<1> DEFINE S == Range(s) \union Range(t)
<1>1. s \in Seq(S) /\ t \in Seq(S)
  BY DEF IsList
<1>2. /\ s \o t \in Seq(S)
      /\ Len(s) \in Nat /\ Len(t) \in Nat
      /\ DOMAIN s = 1..Len(s) /\ DOMAIN t = 1..Len(t)
      /\ DOMAIN (s \o t) = 1..(Len(s) + Len(t))
  BY <1>1
<1>3. \A i \in 1..(Len(s) + Len(t)) :
        (s \o t)[i] = IF i <= Len(s) THEN s[i] ELSE t[i - Len(s)]
  BY <1>1
<1>4. Range(s \o t) \subseteq S
  BY <1>2, ListOf
<1>5. ASSUME NEW x \in Range(s) PROVE x \in Range(s \o t)
  <2>1. PICK i \in 1..Len(s) : s[i] = x
    BY ListShape
  <2>2. i \in 1..(Len(s) + Len(t)) /\ (s \o t)[i] = x
    BY <1>2, <1>3, <2>1
  <2> QED
    BY <1>2, <2>2 DEF Range
<1>6. ASSUME NEW x \in Range(t) PROVE x \in Range(s \o t)
  <2>1. PICK i \in 1..Len(t) : t[i] = x
    BY ListShape
  <2>2. Len(s) + i \in 1..(Len(s) + Len(t)) /\ (s \o t)[Len(s) + i] = x
    BY <1>2, <1>3, <2>1
  <2> QED
    BY <1>2, <2>2 DEF Range
<1> QED
  BY <1>2, <1>4, <1>5, <1>6, ListOf

------------------------------------------------------------------------------
\* The function by which FlattenSeq is defined exists.
Flattens(g, k, lists) ==
  g = [i \in 1..k |-> IF i = 1 THEN lists[i] ELSE g[i - 1] \o lists[i]]

LEMMA FlattenExists ==
  ASSUME NEW lists, NEW n \in Nat
  PROVE  \E g : Flattens(g, n, lists)
<1> DEFINE S == {k \in Nat : \E g : Flattens(g, k, lists)}
<1>1. 0 \in S
  <2>1. Flattens([i \in 1..0 |-> 0], 0, lists)
    BY DEF Flattens
  <2> QED
    BY <2>1
<1>2. ASSUME NEW k \in Nat, k \in S PROVE k + 1 \in S
  <2>1. PICK g : Flattens(g, k, lists)
    BY <1>2
  <2> DEFINE h == [i \in 1..(k + 1) |-> IF i = 1 THEN lists[i] ELSE g[i - 1] \o lists[i]]
  <2>2. ASSUME NEW i \in 1..(k + 1), i # 1 PROVE h[i - 1] = g[i - 1]
    <3>1. i - 1 \in 1..k /\ i - 1 \in 1..(k + 1)
      BY <2>2
    <3> QED
      BY <2>1, <3>1 DEF Flattens
  <2>3. h = [i \in 1..(k + 1) |-> IF i = 1 THEN lists[i] ELSE h[i - 1] \o lists[i]]
    BY <2>2
  <2> HIDE DEF h
  <2>4. Flattens(h, k + 1, lists)
    BY <2>3 DEF Flattens
  <2> QED
    BY <2>4
<1> HIDE DEF S
<1>3. n \in S
  BY <1>1, <1>2, Induction
<1> QED
  BY <1>3 DEF S

\* Lists one after the other are a list of what they hold together.
LEMMA Flattened ==
  ASSUME NEW lists, IsList(lists), \A i \in DOMAIN lists : IsList(lists[i])
  PROVE  /\ IsList(FlattenSeq(lists))
         /\ Range(FlattenSeq(lists)) = UNION {Range(lists[i]) : i \in DOMAIN lists}
<1> DEFINE n == Len(lists)
<1>1. n \in Nat /\ DOMAIN lists = 1..n
  BY ListShape
<1>2. CASE n = 0
  <2>1. lists = <<>>
    BY <1>2 DEF IsList
  <2>2. FlattenSeq(lists) = <<>>
    BY <2>1, <1>2 DEF FlattenSeq
  <2> QED
    BY <1>1, <1>2, <2>2, SmallLists
<1>3. CASE n # 0
  <2> DEFINE flatten == CHOOSE g : Flattens(g, n, lists)
  <2>1. Flattens(flatten, n, lists)
    BY <1>1, FlattenExists
  <2>2. FlattenSeq(lists) = flatten[n]
    BY <1>3 DEF FlattenSeq, Flattens
  <2> HIDE DEF flatten
  <2>3. \A i \in 1..n : flatten[i] = IF i = 1 THEN lists[i] ELSE flatten[i - 1] \o lists[i]
    BY <2>1 DEF Flattens
  <2> DEFINE Fine(i) == /\ IsList(flatten[i])
                        /\ Range(flatten[i]) = UNION {Range(lists[j]) : j \in 1..i}
             S == {i \in Nat : i \in 1..n => Fine(i)}
  <2>4. 0 \in S
    OBVIOUS
  <2>5. ASSUME NEW k \in Nat, k \in S PROVE k + 1 \in S
    <3> SUFFICES ASSUME k + 1 \in 1..n PROVE Fine(k + 1)
      BY <2>5
    <3>1. CASE k = 0
      <4>1. flatten[1] = lists[1] /\ IsList(lists[1])
        BY <1>1, <1>3, <2>3
      <4>2. UNION {Range(lists[j]) : j \in 1..1} = Range(lists[1])
        <5>1. \A j \in 1..1 : j = 1
          OBVIOUS
        <5> QED
          BY <5>1
      <4> QED
        BY <3>1, <4>1, <4>2
    <3>2. CASE k # 0
      <4>1. k \in 1..n /\ Fine(k)
        BY <1>1, <2>5, <3>2
      <4>2. flatten[k + 1] = flatten[k] \o lists[k + 1] /\ IsList(lists[k + 1])
        <5>1. k + 1 # 1 /\ (k + 1) - 1 = k
          BY <4>1
        <5> QED
          BY <1>1, <2>3, <5>1
      <4>3. /\ IsList(flatten[k + 1])
            /\ Range(flatten[k + 1]) = Range(flatten[k]) \union Range(lists[k + 1])
        BY <4>1, <4>2, ConcatList
      <4>4. 1..(k + 1) = 1..k \union {k + 1}
        BY <4>1
      <4> QED
        BY <4>1, <4>3, <4>4
    <3> QED
      BY <3>1, <3>2
  <2> HIDE DEF S
  <2>6. n \in S
    BY <1>1, <2>4, <2>5, Induction
  <2> USE DEF S
  <2>7. Fine(n)
    BY <1>1, <1>3, <2>6
  <2> QED
    BY <1>1, <2>2, <2>7
<1> QED
  BY <1>2, <1>3

\* The lists that FlatMap joins: one for every element of s.
LEMMA Mapped ==
  ASSUME NEW s, IsList(s), NEW lists, lists = [i \in DOMAIN s |-> lists[i]],
         \A i \in DOMAIN s : IsList(lists[i])
  PROVE  /\ IsList(FlattenSeq(lists))
         /\ \A x : x \in Range(FlattenSeq(lists)) <=> \E i \in DOMAIN s : x \in Range(lists[i])
<1>1. DOMAIN s = 1..Len(s) /\ Len(s) \in Nat
  BY ListShape
<1>2. IsList(lists) /\ DOMAIN lists = DOMAIN s
  BY <1>1, FunctionIsList
<1> QED
  BY <1>2, Flattened

\* The lists that Select joins, and those that Image joins.
LEMMA Selected ==
  ASSUME NEW s, IsList(s), NEW T,
         NEW lists, lists = [i \in DOMAIN s |-> IF s[i] \in T THEN <<s[i]>> ELSE <<>>]
  PROVE  IsList(FlattenSeq(lists)) /\ Range(FlattenSeq(lists)) = Range(s) \intersect T
<1>1. \A i \in DOMAIN s : IsList(lists[i])
  BY SmallLists
<1>2. \A i \in DOMAIN s : \A x : x \in Range(lists[i]) <=> x = s[i] /\ x \in T
  BY SmallLists
<1>3. IsList(s) /\ lists = [i \in DOMAIN s |-> lists[i]]
  OBVIOUS
<1>4. /\ IsList(FlattenSeq(lists))
      /\ \A x : x \in Range(FlattenSeq(lists)) <=> \E i \in DOMAIN s : x \in Range(lists[i])
  BY ONLY <1>1, <1>3, Mapped
<1>5. \A x : x \in Range(s) <=> \E i \in DOMAIN s : x = s[i]
  BY DEF Range
<1>6. ASSUME NEW x PROVE x \in Range(FlattenSeq(lists)) <=> x \in Range(s) /\ x \in T
  <2>1. x \in Range(FlattenSeq(lists)) <=> \E i \in DOMAIN s : x = s[i] /\ x \in T
    BY ONLY <1>2, <1>4
  <2> QED
    BY ONLY <1>5, <2>1
<1> QED
  BY <1>4, <1>6

LEMMA Imaged ==
  ASSUME NEW s, IsList(s), NEW f, NEW lists, lists = [i \in DOMAIN s |-> <<f[i]>>]
  PROVE  IsList(FlattenSeq(lists)) /\ Range(FlattenSeq(lists)) = {f[i] : i \in DOMAIN s}
<1>1. \A i \in DOMAIN s : IsList(lists[i])
  BY SmallLists
<1>2. \A i \in DOMAIN s : \A x : x \in Range(lists[i]) <=> x = f[i]
  BY SmallLists
<1>3. IsList(s) /\ lists = [i \in DOMAIN s |-> lists[i]]
  OBVIOUS
<1>4. /\ IsList(FlattenSeq(lists))
      /\ \A x : x \in Range(FlattenSeq(lists)) <=> \E i \in DOMAIN s : x \in Range(lists[i])
  BY ONLY <1>1, <1>3, Mapped
<1>5. ASSUME NEW x PROVE x \in Range(FlattenSeq(lists)) <=> \E i \in DOMAIN s : x = f[i]
  BY ONLY <1>2, <1>4
<1> QED
  BY <1>4, <1>5

\* Identifiers in creation order are a list of them.
Numbered(S) == \E n \in Nat : S \subseteq 1..n

LEMMA Greatest ==
  ASSUME NEW S, Numbered(S), S # {}
  PROVE  Max(S) \in S /\ Max(S) \in Nat /\ \A x \in S : x \in 1..Max(S)
<1> DEFINE Above == {n \in Nat : S \subseteq 1..n}
<1>1. Above # {}
  BY DEF Numbered
<1> HIDE DEF Above
<1>2. PICK n \in Above : \A m \in Above : n <= m
  <2>1. Above \in SUBSET Nat
    BY DEF Above
  <2> QED
    BY <1>1, <2>1, LeastOfNat
<1> USE DEF Above
<1>3. n \in Nat /\ S \subseteq 1..n /\ n # 0
  OBVIOUS
<1>4. n \in S
  <2> SUFFICES ASSUME n \notin S PROVE FALSE
    OBVIOUS
  <2>1. S \subseteq 1..(n - 1) /\ n - 1 \in Nat
    BY <1>3
  <2>2. n - 1 \in Above
    BY <2>1
  <2> QED
    BY <1>2, <1>3, <2>2
<1>5. \A y \in S : n >= y
  BY <1>3
<1> DEFINE m == Max(S)
<1>6. m \in S /\ \A y \in S : m >= y
  BY <1>4, <1>5 DEF Max
<1> HIDE DEF m
<1>7. m \in 1..n
  BY <1>3, <1>6
<1>8. \A x \in S : x \in 1..m
  BY <1>3, <1>6, <1>7
<1> QED
  BY <1>3, <1>6, <1>7, <1>8 DEF m

LEMMA InOrderList ==
  ASSUME NEW S, Numbered(S)
  PROVE  IsList(InOrder(S)) /\ Range(InOrder(S)) = S
<1>1. CASE S = {}
  BY <1>1, SmallLists DEF InOrder
<1>2. CASE S # {}
  <2> DEFINE n == Max(S)
             s == [i \in 1..n |-> i]
             lists == [i \in DOMAIN s |-> IF s[i] \in S THEN <<s[i]>> ELSE <<>>]
  <2>1. n \in Nat /\ S \subseteq 1..n
    BY <1>2, Greatest
  <2>2. InOrder(S) = FlattenSeq(lists)
    BY <1>2 DEF InOrder, Select, FlatMap
  <2> HIDE DEF n
  <2>3. IsList(s) /\ Range(s) = 1..n
    <3>1. Range(s) = 1..n
      BY DEF Range
    <3> QED
      BY <2>1, <3>1, FunctionIsList
  <2>4. IsList(FlattenSeq(lists)) /\ Range(FlattenSeq(lists)) = Range(s) \intersect S
    <3> HIDE DEF s
    <3> QED
      BY <2>3, Selected
  <2> QED
    BY <2>1, <2>2, <2>3, <2>4
<1> QED
  BY <1>1, <1>2

\* Numbers in a strictly increasing list are in one order only.
Increasing(s) == \A i, j \in DOMAIN s : i < j => s[i] < s[j]

LEMMA IncreasingPrefix ==
  ASSUME NEW s, NEW t, IsList(s), IsList(t), Increasing(s), Increasing(t),
         Range(s) = Range(t), Range(s) \subseteq Int
  PROVE  \A k \in DOMAIN s : k \in DOMAIN t /\ s[k] = t[k]
<1> DEFINE Bad == {k \in Nat : k \in DOMAIN s /\ ~ (k \in DOMAIN t /\ s[k] = t[k])}
<1>1. /\ DOMAIN s = 1..Len(s) /\ Len(s) \in Nat
      /\ DOMAIN t = 1..Len(t) /\ Len(t) \in Nat
  BY ListShape
<1> SUFFICES ASSUME Bad # {} PROVE FALSE
  BY <1>1
<1>2. PICK k \in Bad : \A m \in Bad : k <= m
  <2> HIDE DEF Bad
  <2>1. Bad \in SUBSET Nat
    BY DEF Bad
  <2> QED
    BY <2>1, LeastOfNat
<1>3. k \in 1..Len(s)
  BY <1>1
<1>4. \A i \in 1..(k - 1) : i \in 1..Len(t) /\ s[i] = t[i]
  <2> TAKE i \in 1..(k - 1)
  <2>1. i \in Nat /\ i \in DOMAIN s /\ i < k
    BY <1>1, <1>3
  <2>2. i \notin Bad
    BY <1>2, <2>1
  <2> QED
    BY <1>1, <2>1, <2>2
<1>5. PICK j \in 1..Len(t) : t[j] = s[k]
  BY <1>1, <1>3, ListShape
<1>6. \A i \in 1..Len(s) : s[i] \in Int
  BY ListShape
<1>7. \A i \in 1..Len(t) : t[i] \in Int
  BY ListShape
<1>8. j >= k
  <2> SUFFICES ASSUME j < k PROVE FALSE
    BY <1>3, <1>5
  <2>1. j \in 1..(k - 1) /\ t[j] = s[j]
    BY <1>3, <1>4, <1>5
  <2>2. s[j] < s[k]
    BY <1>1, <1>3, <2>1 DEF Increasing
  <2> QED
    BY <1>3, <1>5, <1>6, <2>1, <2>2
<1>9. k \in 1..Len(t)
  BY <1>3, <1>5, <1>8
<1>10. PICK m \in 1..Len(s) : s[m] = t[k]
  BY <1>9, ListShape
<1>11. m >= k
  <2> SUFFICES ASSUME m < k PROVE FALSE
    BY <1>3, <1>10
  <2>1. m \in 1..(k - 1) /\ t[m] = s[m] /\ m \in 1..Len(t)
    BY <1>3, <1>4, <1>10
  <2>2. t[m] < t[k]
    BY <1>1, <1>9, <2>1 DEF Increasing
  <2> QED
    BY <1>7, <1>9, <1>10, <2>1, <2>2
<1>12. t[k] <= s[k]
  <2>1. k < j => t[k] < t[j]
    BY <1>1, <1>5, <1>9 DEF Increasing
  <2> QED
    BY <1>3, <1>5, <1>6, <1>7, <1>8, <1>9, <2>1
<1>13. s[k] <= t[k]
  <2>1. k < m => s[k] < s[m]
    BY <1>1, <1>3, <1>10 DEF Increasing
  <2> QED
    BY <1>3, <1>6, <1>7, <1>9, <1>10, <1>11, <2>1
<1>14. s[k] = t[k]
  BY <1>3, <1>6, <1>7, <1>9, <1>12, <1>13
<1> QED
  BY <1>1, <1>2, <1>9, <1>14

LEMMA IncreasingAreOne ==
  ASSUME NEW s, NEW t, IsList(s), IsList(t), Increasing(s), Increasing(t),
         Range(s) = Range(t), Range(s) \subseteq Int
  PROVE  s = t
<1>1. \A k \in DOMAIN s : k \in DOMAIN t /\ s[k] = t[k]
  BY IncreasingPrefix
<1>2. \A k \in DOMAIN t : k \in DOMAIN s /\ t[k] = s[k]
  BY IncreasingPrefix
<1>3. DOMAIN s = DOMAIN t
  BY <1>1, <1>2
<1>4. s \in Seq(Range(s)) /\ t \in Seq(Range(t))
  BY DEF IsList
<1>5. s = [k \in DOMAIN s |-> s[k]] /\ t = [k \in DOMAIN t |-> t[k]]
  BY <1>4
<1> QED
  BY <1>1, <1>3, <1>5

\* There are as many of them as the set has.
LEMMA IncreasingCounts ==
  ASSUME NEW s, IsList(s), Increasing(s), Range(s) \subseteq Int
  PROVE  IsFiniteSet(Range(s)) /\ Cardinality(Range(s)) = Len(s)
<1> DEFINE n == Len(s)
           S == Range(s)
<1>1. n \in Nat /\ DOMAIN s = 1..n
  BY ListShape
<1>2. s = [k \in 1..n |-> s[k]] /\ \A k \in 1..n : s[k] \in S
  BY <1>1, ListShape DEF IsList
<1>3. \A i, j \in 1..n : s[i] = s[j] => i = j
  <2> TAKE i, j \in 1..n
  <2>1. s[i] \in Int /\ s[j] \in Int
    BY <1>2
  <2>2. i < j => s[i] < s[j]
    BY <1>1 DEF Increasing
  <2>3. j < i => s[j] < s[i]
    BY <1>1 DEF Increasing
  <2> QED
    BY <1>1, <2>1, <2>2, <2>3
<1>4. s \in Bijection(1..n, S)
  <2>1. \A x \in S : \E k \in 1..n : s[k] = x
    BY ListShape
  <2> HIDE DEF n, S
  <2>2. s \in [1..n -> S]
    BY <1>2
  <2>3. s \in Injection(1..n, S)
    BY <1>3, <2>2 DEF Injection, IsInjective
  <2>4. s \in Surjection(1..n, S)
    BY <2>1, <2>2 DEF Surjection
  <2> QED
    BY <2>3, <2>4 DEF Bijection
<1>5. ExistsBijection(1..n, S)
  BY <1>4 DEF ExistsBijection
<1>6. IsFiniteSet(1..n) /\ Cardinality(1..n) = n
  <2> HIDE DEF n
  <2>1. 1 \in Int /\ n \in Int /\ (IF 1 > n THEN 0 ELSE n - 1 + 1) = n
    BY <1>1
  <2> QED
    BY <2>1, FS_Interval
<1> QED
  BY <1>5, <1>6, FS_Bijection

LEMMA IncreasingJoin ==
  ASSUME NEW s, NEW t, IsList(s), IsList(t), Increasing(s), Increasing(t),
         Range(s) \subseteq Int, Range(t) \subseteq Int,
         \A x \in Range(s), y \in Range(t) : x < y
  PROVE  Increasing(s \o t)
<1>1. /\ Len(s) \in Nat /\ DOMAIN s = 1..Len(s)
      /\ Len(t) \in Nat /\ DOMAIN t = 1..Len(t)
  BY ListShape
<1>2. /\ \A i \in 1..Len(s) : s[i] \in Range(s)
      /\ \A i \in 1..Len(t) : t[i] \in Range(t)
  BY ListShape
<1>3. s \in Seq(Range(s)) /\ t \in Seq(Range(t))
  BY DEF IsList
<1>4. /\ DOMAIN (s \o t) = 1..(Len(s) + Len(t))
      /\ \A i \in 1..(Len(s) + Len(t)) :
           (s \o t)[i] = IF i <= Len(s) THEN s[i] ELSE t[i - Len(s)]
  <2> DEFINE S == Range(s) \union Range(t)
  <2>1. s \in Seq(S) /\ t \in Seq(S)
    BY <1>3
  <2> HIDE DEF S
  <2> QED
    BY <2>1
<1>5. ASSUME NEW i \in 1..(Len(s) + Len(t)), NEW j \in 1..(Len(s) + Len(t)), i < j
      PROVE  (s \o t)[i] < (s \o t)[j]
  <2>1. CASE j <= Len(s)
    <3>1. i \in 1..Len(s) /\ j \in 1..Len(s) /\ i <= Len(s)
      BY <1>1, <1>5, <2>1
    <3>2. s[i] < s[j]
      BY <1>1, <1>5, <3>1 DEF Increasing
    <3> QED
      BY <1>4, <2>1, <3>1, <3>2
  <2>2. CASE i > Len(s)
    <3>1. /\ i - Len(s) \in 1..Len(t) /\ j - Len(s) \in 1..Len(t)
          /\ i - Len(s) < j - Len(s) /\ ~ (i <= Len(s)) /\ ~ (j <= Len(s))
      BY <1>1, <1>5, <2>2
    <3>2. t[i - Len(s)] < t[j - Len(s)]
      BY <1>1, <3>1 DEF Increasing
    <3> QED
      BY <1>4, <3>1, <3>2
  <2>3. CASE i <= Len(s) /\ j > Len(s)
    <3>1. i \in 1..Len(s) /\ j - Len(s) \in 1..Len(t) /\ ~ (j <= Len(s))
      BY <1>1, <2>3
    <3>2. s[i] < t[j - Len(s)]
      BY <1>2, <3>1
    <3> QED
      BY <1>4, <2>3, <3>1, <3>2
  <2> QED
    BY <1>1, <2>1, <2>2, <2>3
<1> QED
  BY <1>4, <1>5 DEF Increasing

\* The indices of a list that pass a test, one after the other.
Passing(n, T) == [i \in 1..n |-> IF i \in T THEN <<i>> ELSE <<>>]

LEMMA PassingInOrder ==
  ASSUME NEW n \in Nat, NEW T
  PROVE  /\ IsList(FlattenSeq(Passing(n, T))) /\ Increasing(FlattenSeq(Passing(n, T)))
         /\ Range(FlattenSeq(Passing(n, T))) = 1..n \intersect T
<1> DEFINE lists == Passing(n, T)
<1>1. CASE n = 0
  <2>1. lists = <<>>
    BY <1>1 DEF Passing
  <2>2. FlattenSeq(lists) = <<>>
    BY <2>1 DEF FlattenSeq
  <2>3. Increasing(<<>>)
    BY DEF Increasing
  <2>4. 1..n \intersect T = {}
    BY <1>1
  <2> QED
    BY <2>2, <2>3, <2>4, SmallLists
<1>2. CASE n # 0
  <2> DEFINE flatten == CHOOSE g : Flattens(g, n, lists)
  <2>1. Flattens(flatten, n, lists)
    BY FlattenExists
  <2>2. FlattenSeq(lists) = flatten[n]
    <3>1. Len(lists) = n /\ lists # <<>>
      BY <1>2 DEF Passing
    <3> QED
      BY <3>1 DEF FlattenSeq, Flattens
  <2> HIDE DEF flatten
  <2>3. \A i \in 1..n : flatten[i] = IF i = 1 THEN lists[i] ELSE flatten[i - 1] \o lists[i]
    BY <2>1 DEF Flattens
  <2>4. \A i \in 1..n : lists[i] = IF i \in T THEN <<i>> ELSE <<>>
    BY DEF Passing
  <2> HIDE DEF lists
  <2> DEFINE Fine(i) == /\ IsList(flatten[i]) /\ Increasing(flatten[i])
                        /\ Range(flatten[i]) = 1..i \intersect T
             S == {i \in Nat : i \in 1..n => Fine(i)}
  <2>5. ASSUME NEW i \in 1..n
        PROVE  IsList(lists[i]) /\ Increasing(lists[i]) /\ Range(lists[i]) = {i} \intersect T
    <3>1. CASE i \in T
      <4>1. lists[i] = <<i>>
        BY <2>4, <3>1
      <4>2. Increasing(<<i>>)
        <5>1. DOMAIN <<i>> = 1..1 /\ \A j, k \in 1..1 : ~ (j < k)
          OBVIOUS
        <5> QED
          BY <5>1 DEF Increasing
      <4> QED
        BY <3>1, <4>1, <4>2, SmallLists
    <3>2. CASE i \notin T
      <4>1. lists[i] = <<>>
        BY <2>4, <3>2
      <4>2. Increasing(<<>>)
        BY DEF Increasing
      <4> QED
        BY <3>2, <4>1, <4>2, SmallLists
    <3> QED
      BY <3>1, <3>2
  <2>6. 0 \in S
    OBVIOUS
  <2>7. ASSUME NEW k \in Nat, k \in S PROVE k + 1 \in S
    <3> SUFFICES ASSUME k + 1 \in 1..n PROVE Fine(k + 1)
      BY <2>7
    <3>1. CASE k = 0
      <4>1. flatten[1] = lists[1]
        BY <1>2, <2>3
      <4>2. 1..1 = {1} /\ 1 \in 1..n
        BY <1>2
      <4> QED
        BY <2>5, <3>1, <4>1, <4>2
    <3>2. CASE k # 0
      <4>1. k \in 1..n /\ Fine(k)
        BY <2>7, <3>2
      <4>2. flatten[k + 1] = flatten[k] \o lists[k + 1]
        <5>1. k + 1 # 1 /\ (k + 1) - 1 = k
          BY <4>1
        <5> QED
          BY <2>3, <5>1
      <4>3. \A x \in Range(flatten[k]), y \in Range(lists[k + 1]) : x \in 1..k /\ y = k + 1
        BY <2>5, <4>1
      <4>4. Increasing(flatten[k + 1])
        <5>1. Range(flatten[k]) \subseteq Int /\ Range(lists[k + 1]) \subseteq Int
          <6>1. 1..k \subseteq Int /\ {k + 1} \subseteq Int
            OBVIOUS
          <6>2. Range(lists[k + 1]) = {k + 1} \intersect T
            BY <2>5
          <6> QED
            BY <4>1, <6>1, <6>2
        <5>2. \A x \in Range(flatten[k]), y \in Range(lists[k + 1]) : x < y
          BY <4>1, <4>3
        <5>3. IsList(lists[k + 1]) /\ Increasing(lists[k + 1])
          BY <2>5
        <5> QED
          BY <4>1, <4>2, <5>1, <5>2, <5>3, IncreasingJoin
      <4>5. IsList(flatten[k + 1]) /\ Range(flatten[k + 1]) = (1..k \intersect T) \union ({k + 1} \intersect T)
        BY <2>5, <4>1, <4>2, ConcatList
      <4>6. 1..(k + 1) = 1..k \union {k + 1}
        BY <4>1
      <4> QED
        BY <4>4, <4>5, <4>6
    <3> QED
      BY <3>1, <3>2
  <2> HIDE DEF S
  <2>8. n \in S
    BY <2>6, <2>7, Induction
  <2> USE DEF S
  <2>9. Fine(n)
    BY <1>2, <2>8
  <2> QED
    BY <2>2, <2>9 DEF lists
<1> QED
  BY <1>1, <1>2

LEMMA InOrderEnumerates ==
  ASSUME NEW S, Numbered(S)
  PROVE  /\ IsList(InOrder(S)) /\ Increasing(InOrder(S)) /\ Range(InOrder(S)) = S
         /\ S \subseteq Int /\ IsFiniteSet(S) /\ Cardinality(S) = Len(InOrder(S))
<1>1. IsList(InOrder(S)) /\ Range(InOrder(S)) = S
  BY InOrderList
<1>2. S \subseteq Int
  BY DEF Numbered
<1>3. Increasing(InOrder(S))
  <2>1. CASE S = {}
    BY <2>1 DEF InOrder, Increasing
  <2>2. CASE S # {}
    <3> DEFINE n == Max(S)
    <3>1. n \in Nat
      BY <2>2, Greatest
    <3>2. InOrder(S) = FlattenSeq(Passing(n, S))
      BY <2>2, <3>1 DEF InOrder, Select, FlatMap, Passing
    <3> HIDE DEF n
    <3> QED
      BY <3>1, <3>2, PassingInOrder
  <2> QED
    BY <2>1, <2>2
<1> QED
  BY <1>1, <1>2, <1>3, IncreasingCounts

\* The elements of s at the indices of a list.
Along(s, indices) == [k \in 1..Len(indices) |-> s[indices[k]]]

LEMMA AlongJoin ==
  ASSUME NEW s, NEW a, NEW b, IsList(a), IsList(b)
  PROVE  Along(s, a \o b) = Along(s, a) \o Along(s, b)
<1> DEFINE S == Range(a) \union Range(b)
           T == {s[i] : i \in S}
           f == Along(s, a)
           g == Along(s, b)
<1>1. /\ Len(a) \in Nat /\ Len(b) \in Nat /\ a \in Seq(S) /\ b \in Seq(S)
  <2>1. a \in Seq(Range(a)) /\ b \in Seq(Range(b))
    BY DEF IsList
  <2> QED
    BY <2>1
<1>2. /\ \A i \in 1..Len(a) : a[i] \in S
      /\ \A i \in 1..Len(b) : b[i] \in S
  BY ListShape
<1>3. f \in Seq(T) /\ g \in Seq(T) /\ Len(f) = Len(a) /\ Len(g) = Len(b)
  BY <1>1, <1>2 DEF Along
<1>4. /\ \A i \in 1..Len(a) : f[i] = s[a[i]]
      /\ \A i \in 1..Len(b) : g[i] = s[b[i]]
  BY DEF Along
<1> HIDE DEF S
<1>5. /\ Len(a \o b) = Len(a) + Len(b)
      /\ \A i \in 1..(Len(a) + Len(b)) : (a \o b)[i] = IF i <= Len(a) THEN a[i] ELSE b[i - Len(a)]
  BY <1>1
<1> HIDE DEF f, g, T
<1>6. f \o g = [i \in 1..(Len(a) + Len(b)) |-> IF i <= Len(a) THEN f[i] ELSE g[i - Len(a)]]
  <2> DEFINE h == f \o g
  <2>1. h \in Seq(T) /\ Len(h) = Len(a) + Len(b)
    BY <1>3
  <2>2. \A i \in 1..(Len(a) + Len(b)) : h[i] = IF i <= Len(a) THEN f[i] ELSE g[i - Len(a)]
    BY <1>1, <1>3
  <2> HIDE DEF h
  <2>3. h = [i \in 1..(Len(a) + Len(b)) |-> h[i]]
    BY <2>1
  <2>4. h = [i \in 1..(Len(a) + Len(b)) |-> IF i <= Len(a) THEN f[i] ELSE g[i - Len(a)]]
    BY <2>2, <2>3
  <2> QED
    BY <2>4 DEF h
<1>7. ASSUME NEW i \in 1..(Len(a) + Len(b))
      PROVE  s[(a \o b)[i]] = IF i <= Len(a) THEN f[i] ELSE g[i - Len(a)]
  <2>1. CASE i <= Len(a)
    BY <1>1, <1>4, <1>5, <2>1
  <2>2. CASE ~ (i <= Len(a))
    <3>1. i - Len(a) \in 1..Len(b)
      BY <1>1, <2>2
    <3> QED
      BY <1>4, <1>5, <2>2, <3>1
  <2> QED
    BY <2>1, <2>2
<1>8. Along(s, a \o b) = [i \in 1..(Len(a) + Len(b)) |-> s[(a \o b)[i]]]
  BY <1>5 DEF Along
<1> QED
  BY <1>6, <1>7, <1>8 DEF f, g

\* What is selected, by the indices it is at.
LEMMA SelectedInOrder ==
  ASSUME NEW s, IsList(s), NEW T \in SUBSET DOMAIN s,
         NEW lists, lists = [i \in DOMAIN s |-> IF i \in T THEN <<s[i]>> ELSE <<>>]
  PROVE  FlattenSeq(lists) = Along(s, InOrder(T))
<1> DEFINE n == Len(s)
           indices == Passing(n, T)
<1>1. n \in Nat /\ DOMAIN s = 1..n
  BY ListShape
<1>2. FlattenSeq(indices) = InOrder(T)
  <2>1. Numbered(T)
    BY <1>1 DEF Numbered
  <2>2. 1..n \intersect T = T
    BY <1>1
  <2> HIDE DEF indices
  <2>3. /\ IsList(FlattenSeq(indices)) /\ Increasing(FlattenSeq(indices))
        /\ Range(FlattenSeq(indices)) = T
    BY <1>1, <2>2, PassingInOrder DEF indices
  <2> QED
    BY <2>1, <2>3, InOrderEnumerates, IncreasingAreOne
<1>3. CASE n = 0
  <2>1. lists = <<>> /\ indices = <<>>
    BY <1>1, <1>3 DEF Passing
  <2>2. FlattenSeq(lists) = <<>> /\ FlattenSeq(indices) = <<>>
    BY <2>1 DEF FlattenSeq
  <2>3. Along(s, <<>>) = <<>>
    BY DEF Along
  <2> QED
    BY <1>2, <2>2, <2>3
<1>4. CASE n # 0
  <2> DEFINE flat == CHOOSE g : Flattens(g, n, lists)
             at == CHOOSE g : Flattens(g, n, indices)
  <2>1. Flattens(flat, n, lists) /\ Flattens(at, n, indices)
    BY <1>1, FlattenExists
  <2>2. FlattenSeq(lists) = flat[n]
    <3>1. Len(lists) = n /\ lists # <<>>
      BY <1>1, <1>4
    <3> HIDE DEF n, indices
    <3> QED
      BY ONLY <3>1 DEF FlattenSeq, Flattens
  <2>9. FlattenSeq(indices) = at[n]
    <3>1. Len(indices) = n /\ indices # <<>>
      BY <1>1, <1>4 DEF Passing
    <3> HIDE DEF indices
    <3> QED
      BY <3>1 DEF FlattenSeq, Flattens
  <2> HIDE DEF flat, at
  <2>3. /\ \A i \in 1..n : flat[i] = IF i = 1 THEN lists[i] ELSE flat[i - 1] \o lists[i]
        /\ \A i \in 1..n : at[i] = IF i = 1 THEN indices[i] ELSE at[i - 1] \o indices[i]
    BY <2>1 DEF Flattens
  <2>4. ASSUME NEW i \in 1..n PROVE IsList(indices[i]) /\ lists[i] = Along(s, indices[i])
    <3>1. CASE i \in T
      <4>1. indices[i] = <<i>> /\ lists[i] = <<s[i]>>
        BY <1>1, <3>1 DEF Passing
      <4>2. Along(s, <<i>>) = <<s[i]>>
        BY DEF Along
      <4> QED
        BY <4>1, <4>2, SmallLists
    <3>2. CASE i \notin T
      <4>1. indices[i] = <<>> /\ lists[i] = <<>>
        BY <1>1, <3>2 DEF Passing
      <4>2. Along(s, <<>>) = <<>>
        BY DEF Along
      <4> QED
        BY <4>1, <4>2, SmallLists
    <3> QED
      BY <3>1, <3>2
  <2> HIDE DEF indices
  <2> DEFINE Fine(i) == IsList(at[i]) /\ flat[i] = Along(s, at[i])
             S == {i \in Nat : i \in 1..n => Fine(i)}
  <2>5. 0 \in S
    OBVIOUS
  <2>6. ASSUME NEW k \in Nat, k \in S PROVE k + 1 \in S
    <3> SUFFICES ASSUME k + 1 \in 1..n PROVE Fine(k + 1)
      BY <2>6
    <3>1. CASE k = 0
      <4>1. 1 \in 1..n /\ flat[1] = lists[1] /\ at[1] = indices[1]
        BY <1>1, <1>4, <2>3
      <4>2. IsList(indices[1]) /\ lists[1] = Along(s, indices[1])
        BY <2>4, <4>1
      <4> QED
        BY <3>1, <4>1, <4>2
    <3>2. CASE k # 0
      <4>1. k \in 1..n /\ Fine(k)
        BY <1>1, <2>6, <3>2
      <4>2. /\ flat[k + 1] = flat[k] \o lists[k + 1]
            /\ at[k + 1] = at[k] \o indices[k + 1]
        <5>1. k + 1 # 1 /\ (k + 1) - 1 = k
          BY <4>1
        <5> QED
          BY <2>3, <5>1
      <4>3. IsList(indices[k + 1]) /\ lists[k + 1] = Along(s, indices[k + 1])
        BY <2>4
      <4>4. Along(s, at[k] \o indices[k + 1]) = Along(s, at[k]) \o Along(s, indices[k + 1])
        <5>1. IsList(at[k]) /\ IsList(indices[k + 1])
          BY <4>1, <4>3
        <5> HIDE DEF Fine
        <5> QED
          BY ONLY <5>1, AlongJoin
      <4>5. IsList(at[k] \o indices[k + 1])
        BY <4>1, <4>3, ConcatList
      <4> QED
        BY <4>1, <4>2, <4>3, <4>4, <4>5
    <3> QED
      BY <3>1, <3>2
  <2> HIDE DEF S
  <2>7. n \in S
    BY <1>1, <2>5, <2>6, Induction
  <2> USE DEF S
  <2>8. Fine(n)
    BY <1>1, <1>4, <2>7
  <2> QED
    BY <1>2, <2>2, <2>8, <2>9
<1> QED
  BY <1>3, <1>4

------------------------------------------------------------------------------
\* The values that matching binds.
LEMMA EntitiesOfValues ==
  /\ \A n : EntitiesOf(NodeRef(n)) = {n}
  /\ \A r : EntitiesOf(RelRef(r)) = {r}
  /\ \A p : EntitiesOf(TrailRef(p)) = Range(p)
  /\ \A s : EntitiesOf(PathRef(s)) = {}
  /\ EntitiesOf(NullRef) = {}
<1>1. \A n : EntitiesOf(NodeRef(n)) = {n}
  <2>1. \A n : IsNode(NodeRef(n)) /\ ~IsRel(NodeRef(n)) /\ ~IsTrail(NodeRef(n))
    BY DEF NodeRef, IsNode, IsRel, IsTrail
  <2>2. \A n : NodeRef(n).node = n
    BY DEF NodeRef
  <2> QED
    BY <2>1, <2>2 DEF EntitiesOf
<1>2. \A r : EntitiesOf(RelRef(r)) = {r}
  <2>1. \A r : ~IsNode(RelRef(r)) /\ IsRel(RelRef(r)) /\ ~IsTrail(RelRef(r))
    BY DEF RelRef, IsNode, IsRel, IsTrail
  <2>2. \A r : RelRef(r).rel = r
    BY DEF RelRef
  <2> QED
    BY <2>1, <2>2 DEF EntitiesOf
<1>3. \A p : EntitiesOf(TrailRef(p)) = Range(p)
  <2>1. \A p : ~IsNode(TrailRef(p)) /\ ~IsRel(TrailRef(p)) /\ IsTrail(TrailRef(p))
    BY DEF TrailRef, IsNode, IsRel, IsTrail
  <2>2. \A p : TrailRef(p).trail = p
    BY DEF TrailRef
  <2> QED
    BY <2>1, <2>2 DEF EntitiesOf
<1>4. \A s : EntitiesOf(PathRef(s)) = {}
  <2>1. \A s : ~IsNode(PathRef(s)) /\ ~IsRel(PathRef(s)) /\ ~IsTrail(PathRef(s))
    BY DEF PathRef, IsNode, IsRel, IsTrail
  <2> QED
    BY <2>1 DEF EntitiesOf
<1>5. EntitiesOf(NullRef) = {}
  <2>1. ~IsNode(NullRef) /\ ~IsRel(NullRef) /\ ~IsTrail(NullRef)
    BY DEF NullRef, IsNode, IsRel, IsTrail
  <2> QED
    BY <2>1 DEF EntitiesOf
<1> QED
  BY <1>1, <1>2, <1>3, <1>4, <1>5

\* The identifiers of a graph are numbers with a greatest one.
LEMMA GraphIsNumbered ==
  ASSUME NEW G, IsGraph(G)
  PROVE  Numbered(G.nodes) /\ Numbered(DOMAIN G.rels)
<1>1. Len(G.prop) \in Nat /\ DOMAIN G.prop = 1..Len(G.prop)
  BY DEF IsGraph
<1> QED
  BY <1>1 DEF IsGraph, Numbered

LEMMA RelsAtList ==
  ASSUME NEW G, IsGraph(G), NEW dir \in {"OUT", "IN", "BOTH"}, NEW n
  PROVE  IsList(RelsAt(G, dir, n)) /\ Range(RelsAt(G, dir, n)) \subseteq DOMAIN G.rels
<1> DEFINE leaving  == {r \in DOMAIN G.rels : G.rels[r].start = n}
           entering == {r \in DOMAIN G.rels : G.rels[r].end = n}
<1>1. \A S \in SUBSET DOMAIN G.rels : IsList(InOrder(S)) /\ Range(InOrder(S)) \subseteq DOMAIN G.rels
  BY InOrderList, GraphIsNumbered DEF Numbered
<1>2. /\ IsList(InOrder(leaving)) /\ Range(InOrder(leaving)) \subseteq DOMAIN G.rels
      /\ IsList(InOrder(entering)) /\ Range(InOrder(entering)) \subseteq DOMAIN G.rels
      /\ IsList(InOrder(entering \ leaving))
      /\ Range(InOrder(entering \ leaving)) \subseteq DOMAIN G.rels
  BY <1>1
<1>3. RelsAt(G, dir, n) = CASE dir = "OUT"  -> InOrder(leaving)
                            [] dir = "IN"   -> InOrder(entering)
                            [] dir = "BOTH" -> InOrder(leaving) \o InOrder(entering \ leaving)
  BY DEF RelsAt
<1> HIDE DEF leaving, entering
<1> QED
  BY <1>2, <1>3, ConcatList

LEMMA HopsList ==
  ASSUME NEW G, IsGraph(G), NEW pat, IsHop(pat), NEW n
  PROVE  /\ IsList(Hops(G, pat, n))
         /\ \A r \in Range(Hops(G, pat, n)) :
              r \in DOMAIN G.rels /\ FarEnd(G, r, n) \in G.nodes
<1> DEFINE s == RelsAt(G, pat.dir, n)
           T == {r \in Range(s) : TypeFits(G, pat, r) /\ FarEnd(G, r, n) \in G.nodes}
           lists == [i \in DOMAIN s |-> IF s[i] \in T THEN <<s[i]>> ELSE <<>>]
<1>1. IsList(s) /\ Range(s) \subseteq DOMAIN G.rels
  BY RelsAtList DEF IsHop
<1> HIDE DEF s
<1>2. \A i \in DOMAIN s : s[i] \in T <=> TypeFits(G, pat, s[i]) /\ FarEnd(G, s[i], n) \in G.nodes
  BY DEF Range
<1>3. lists = [i \in DOMAIN s |->
                 IF TypeFits(G, pat, s[i]) /\ FarEnd(G, s[i], n) \in G.nodes THEN <<s[i]>> ELSE <<>>]
  BY <1>2
<1>4. Hops(G, pat, n) = FlattenSeq(lists)
  BY <1>3 DEF Hops, Select, FlatMap, s
<1>5. IsList(FlattenSeq(lists)) /\ Range(FlattenSeq(lists)) = Range(s) \intersect T
  <2> HIDE DEF T
  <2> QED
    BY <1>1, Selected
<1> QED
  BY <1>1, <1>4, <1>5

\* Trails that start at n: relationships of the graph, to n or to a live node.
TrailsFrom(G, n) == [path : Seq(DOMAIN G.rels), at : G.nodes \union {n}]

LEMMA ExtensionsList ==
  ASSUME NEW G, IsGraph(G), NEW pat, IsHop(pat), NEW n, NEW t \in TrailsFrom(G, n)
  PROVE  IsList(Extensions(G, pat, t)) /\ Range(Extensions(G, pat, t)) \subseteq TrailsFrom(G, n)
<1> DEFINE s == Hops(G, pat, t.at)
           T == {r \in Range(s) : ~Contains(t.path, r)}
           lists == [i \in DOMAIN s |-> IF s[i] \in T THEN <<s[i]>> ELSE <<>>]
           kept == FlattenSeq(lists)
           f == [i \in DOMAIN kept |-> [path |-> Append(t.path, kept[i]), at |-> FarEnd(G, kept[i], t.at)]]
           longer == [i \in DOMAIN kept |-> <<f[i]>>]
<1>1. /\ IsList(s)
      /\ \A r \in Range(s) : r \in DOMAIN G.rels /\ FarEnd(G, r, t.at) \in G.nodes
  BY HopsList
<1> HIDE DEF s
<1>2. \A i \in DOMAIN s : s[i] \in T <=> ~Contains(t.path, s[i])
  BY DEF Range
<1>3. lists = [i \in DOMAIN s |-> IF ~Contains(t.path, s[i]) THEN <<s[i]>> ELSE <<>>]
  BY <1>2
<1>4. kept = Select(s, LAMBDA r : ~Contains(t.path, r))
  BY <1>3 DEF Select, FlatMap
<1>5. IsList(kept) /\ Range(kept) = Range(s) \intersect T
  <2> HIDE DEF T
  <2> QED
    BY <1>1, Selected
<1> HIDE DEF lists, kept
<1>6. Extensions(G, pat, t) = FlattenSeq(longer)
  BY <1>4 DEF Extensions, Image, FlatMap, s
<1>7. ASSUME NEW i \in DOMAIN kept PROVE f[i] \in TrailsFrom(G, n)
  <2>1. kept[i] \in DOMAIN G.rels /\ FarEnd(G, kept[i], t.at) \in G.nodes
    BY <1>1, <1>5 DEF Range
  <2> QED
    BY <2>1 DEF TrailsFrom
<1> HIDE DEF f
<1>8. IsList(FlattenSeq(longer)) /\ Range(FlattenSeq(longer)) = {f[i] : i \in DOMAIN kept}
  BY <1>5, Imaged
<1> QED
  BY <1>6, <1>7, <1>8

\* One level of trails after the other.
LevelsUpTo(g, k, G, pat, n) ==
  g = [j \in 0..k |-> IF j = 0 THEN <<[path |-> <<>>, at |-> n]>>
                      ELSE FlatMap(LAMBDA t : Extensions(G, pat, t), g[j - 1])]

LEMMA LevelsExist ==
  ASSUME NEW G, NEW pat, NEW n, NEW m \in Nat
  PROVE  \E g : LevelsUpTo(g, m, G, pat, n)
<1> DEFINE S == {k \in Nat : \E g : LevelsUpTo(g, k, G, pat, n)}
<1>1. 0 \in S
  <2>1. LevelsUpTo([j \in 0..0 |-> <<[path |-> <<>>, at |-> n]>>], 0, G, pat, n)
    BY DEF LevelsUpTo
  <2> QED
    BY <2>1
<1>2. ASSUME NEW k \in Nat, k \in S PROVE k + 1 \in S
  <2>1. PICK g : LevelsUpTo(g, k, G, pat, n)
    BY <1>2
  <2> DEFINE h == [j \in 0..(k + 1) |-> IF j = 0 THEN <<[path |-> <<>>, at |-> n]>>
                                        ELSE FlatMap(LAMBDA t : Extensions(G, pat, t), g[j - 1])]
  <2>2. ASSUME NEW j \in 0..(k + 1), j # 0 PROVE h[j - 1] = g[j - 1]
    <3>1. j - 1 \in 0..k /\ j - 1 \in 0..(k + 1)
      BY <2>2
    <3> QED
      BY <2>1, <3>1 DEF LevelsUpTo
  <2>3. h = [j \in 0..(k + 1) |-> IF j = 0 THEN <<[path |-> <<>>, at |-> n]>>
                                  ELSE FlatMap(LAMBDA t : Extensions(G, pat, t), h[j - 1])]
    BY <2>2
  <2> HIDE DEF h
  <2>4. LevelsUpTo(h, k + 1, G, pat, n)
    BY <2>3 DEF LevelsUpTo
  <2> QED
    BY <2>4
<1> HIDE DEF S
<1>3. m \in S
  BY <1>1, <1>2, Induction
<1> QED
  BY <1>3 DEF S

\* The trails of every level, and those that a pattern asks for.
LEMMA LevelsList ==
  ASSUME NEW G, IsGraph(G), NEW pat, IsHop(pat), pat.varlen, NEW n, NEW k \in 0..pat.max
  PROVE  /\ IsList(TrailsOfLength(G, pat, n)[k])
         /\ Range(TrailsOfLength(G, pat, n)[k]) \subseteq TrailsFrom(G, n)
<1> DEFINE level == TrailsOfLength(G, pat, n)
           S == {j \in Nat : j \in 0..pat.max =>
                   IsList(level[j]) /\ Range(level[j]) \subseteq TrailsFrom(G, n)}
<1>1. pat.max \in Nat
  BY DEF IsHop
<1>2. LevelsUpTo(level, pat.max, G, pat, n)
  <2>1. level = CHOOSE g : LevelsUpTo(g, pat.max, G, pat, n)
    BY DEF TrailsOfLength, LevelsUpTo
  <2> QED
    BY <1>1, <2>1, LevelsExist
<1> HIDE DEF level
<1>3. 0 \in S
  <2>1. level[0] = <<[path |-> <<>>, at |-> n]>>
    <3>1. 0 \in 0..pat.max
      BY <1>1
    <3> QED
      BY <1>2, <3>1 DEF LevelsUpTo
  <2>2. [path |-> <<>>, at |-> n] \in TrailsFrom(G, n)
    BY DEF TrailsFrom
  <2> QED
    BY <2>1, <2>2, SmallLists
<1>4. ASSUME NEW j \in Nat, j \in S PROVE j + 1 \in S
  <2> SUFFICES ASSUME j + 1 \in 0..pat.max
               PROVE  IsList(level[j + 1]) /\ Range(level[j + 1]) \subseteq TrailsFrom(G, n)
    BY <1>4
  <2> DEFINE s == level[j]
             lists == [i \in DOMAIN s |-> Extensions(G, pat, s[i])]
  <2>1. IsList(s) /\ Range(s) \subseteq TrailsFrom(G, n)
    BY <1>1, <1>4
  <2>2. level[j + 1] = FlattenSeq(lists)
    <3>1. j + 1 # 0 /\ (j + 1) - 1 = j
      OBVIOUS
    <3>2. level[j + 1] = FlatMap(LAMBDA t : Extensions(G, pat, t), level[j])
      BY <1>1, <1>2, <3>1 DEF LevelsUpTo
    <3> QED
      BY <3>2 DEF FlatMap
  <2> HIDE DEF s
  <2>3. \A i \in DOMAIN s : IsList(lists[i]) /\ Range(lists[i]) \subseteq TrailsFrom(G, n)
    <3>1. \A i \in DOMAIN s : s[i] \in TrailsFrom(G, n)
      BY <2>1 DEF Range
    <3> QED
      BY <3>1, ExtensionsList
  <2>4. lists = [i \in DOMAIN s |-> lists[i]]
    OBVIOUS
  <2> HIDE DEF lists
  <2>5. /\ IsList(FlattenSeq(lists))
        /\ \A x : x \in Range(FlattenSeq(lists)) <=> \E i \in DOMAIN s : x \in Range(lists[i])
    BY <2>1, <2>3, <2>4, Mapped
  <2> QED
    BY <2>2, <2>3, <2>5
<1> HIDE DEF S
<1>5. k \in S
  BY <1>1, <1>3, <1>4, Induction
<1> QED
  BY <1>5 DEF S, level

LEMMA TrailsList ==
  ASSUME NEW G, IsGraph(G), NEW pat, IsHop(pat), pat.varlen, NEW n
  PROVE  IsList(Trails(G, pat, n)) /\ Range(Trails(G, pat, n)) \subseteq TrailsFrom(G, n)
<1> DEFINE s == [i \in 1..(pat.max - pat.min + 1) |-> pat.min + i - 1]
           lists == [i \in DOMAIN s |-> TrailsOfLength(G, pat, n)[s[i]]]
<1>1. pat.min \in Nat /\ pat.max \in Nat
  BY DEF IsHop
<1>2. Trails(G, pat, n) = FlattenSeq(lists)
  BY DEF Trails, FlatMap
<1>3. IsList(s)
  <2>1. CASE pat.max - pat.min + 1 \in Nat
    BY <2>1, FunctionIsList
  <2>2. CASE pat.max - pat.min + 1 \notin Nat
    <3>1. s = [i \in 1..0 |-> s[i]]
      BY <1>1, <2>2
    <3> QED
      BY <3>1, FunctionIsList
  <2> QED
    BY <2>1, <2>2
<1>4. \A i \in DOMAIN s : s[i] \in 0..pat.max
  BY <1>1
<1> HIDE DEF s
<1>5. \A i \in DOMAIN s : IsList(lists[i]) /\ Range(lists[i]) \subseteq TrailsFrom(G, n)
  BY <1>4, LevelsList
<1>6. lists = [i \in DOMAIN s |-> lists[i]]
  OBVIOUS
<1> HIDE DEF lists
<1>7. /\ IsList(FlattenSeq(lists))
      /\ \A x : x \in Range(FlattenSeq(lists)) <=> \E i \in DOMAIN s : x \in Range(lists[i])
  BY <1>3, <1>5, <1>6, Mapped
<1> QED
  BY <1>2, <1>5, <1>7

\* What a hop leads by is of the graph, and where it leads to is live, or where
\* it came from.
LEMMA CandidateRelsList ==
  ASSUME NEW G, IsGraph(G), NEW pat, IsHop(pat), NEW n
  PROVE  /\ IsList(CandidateRels(G, pat, n))
         /\ \A c \in Range(CandidateRels(G, pat, n)) :
              /\ EntitiesOf(c.value) \subseteq DOMAIN G.rels /\ ~IsNode(c.value)
              /\ c.at \in G.nodes \union {n}
<1>1. CASE pat.varlen
  <2> DEFINE s == Trails(G, pat, n)
             f == [i \in DOMAIN s |-> [value |-> TrailRef(s[i].path), at |-> s[i].at]]
             lists == [i \in DOMAIN s |-> <<f[i]>>]
  <2>1. IsList(s) /\ Range(s) \subseteq TrailsFrom(G, n)
    BY <1>1, TrailsList
  <2>2. CandidateRels(G, pat, n) = FlattenSeq(lists)
    BY <1>1 DEF CandidateRels, Image, FlatMap
  <2> HIDE DEF s
  <2>3. ASSUME NEW i \in DOMAIN s
        PROVE  /\ EntitiesOf(f[i].value) \subseteq DOMAIN G.rels /\ ~IsNode(f[i].value)
               /\ f[i].at \in G.nodes \union {n}
    <3>1. s[i] \in TrailsFrom(G, n)
      BY <2>1 DEF Range
    <3>2. s[i].path \in Seq(DOMAIN G.rels) /\ s[i].at \in G.nodes \union {n}
      BY <3>1 DEF TrailsFrom
    <3>3. Range(s[i].path) \subseteq DOMAIN G.rels
      BY <3>2 DEF Range
    <3>4. EntitiesOf(TrailRef(s[i].path)) = Range(s[i].path) /\ ~IsNode(TrailRef(s[i].path))
      BY EntitiesOfValues DEF TrailRef, IsNode
    <3> QED
      BY <3>2, <3>3, <3>4
  <2> HIDE DEF f
  <2>4. IsList(FlattenSeq(lists)) /\ Range(FlattenSeq(lists)) = {f[i] : i \in DOMAIN s}
    BY <2>1, Imaged
  <2> QED
    BY <2>2, <2>3, <2>4
<1>2. CASE ~pat.varlen
  <2> DEFINE s == Hops(G, pat, n)
             T == {r \in Range(s) : RelFits(G, pat, r)}
             chosen == [i \in DOMAIN s |-> IF s[i] \in T THEN <<s[i]>> ELSE <<>>]
             kept == FlattenSeq(chosen)
             f == [i \in DOMAIN kept |-> [value |-> RelRef(kept[i]), at |-> FarEnd(G, kept[i], n)]]
             lists == [i \in DOMAIN kept |-> <<f[i]>>]
  <2>1. IsList(s) /\ \A r \in Range(s) : r \in DOMAIN G.rels /\ FarEnd(G, r, n) \in G.nodes
    BY HopsList
  <2> HIDE DEF s
  <2>2. \A i \in DOMAIN s : s[i] \in T <=> RelFits(G, pat, s[i])
    BY DEF Range
  <2>3. chosen = [i \in DOMAIN s |-> IF RelFits(G, pat, s[i]) THEN <<s[i]>> ELSE <<>>]
    BY <2>2
  <2>4. kept = Select(s, LAMBDA r : RelFits(G, pat, r))
    BY <2>3 DEF Select, FlatMap
  <2>5. IsList(kept) /\ Range(kept) = Range(s) \intersect T
    <3> HIDE DEF T
    <3> QED
      BY <2>1, Selected
  <2> HIDE DEF chosen, kept
  <2>6. CandidateRels(G, pat, n) = FlattenSeq(lists)
    BY <1>2, <2>4 DEF CandidateRels, Image, FlatMap, s
  <2>7. ASSUME NEW i \in DOMAIN kept
        PROVE  /\ EntitiesOf(f[i].value) \subseteq DOMAIN G.rels /\ ~IsNode(f[i].value)
               /\ f[i].at \in G.nodes \union {n}
    <3>1. kept[i] \in DOMAIN G.rels /\ FarEnd(G, kept[i], n) \in G.nodes
      BY <2>1, <2>5 DEF Range
    <3>2. EntitiesOf(RelRef(kept[i])) = {kept[i]} /\ ~IsNode(RelRef(kept[i]))
      BY EntitiesOfValues DEF RelRef, IsNode
    <3> QED
      BY <3>1, <3>2
  <2> HIDE DEF f
  <2>8. IsList(FlattenSeq(lists)) /\ Range(FlattenSeq(lists)) = {f[i] : i \in DOMAIN kept}
    BY <2>5, Imaged
  <2> QED
    BY <2>6, <2>7, <2>8
<1> QED
  BY <1>1, <1>2

------------------------------------------------------------------------------
\* A row whose values stand for entities of E only, and one that still has what
\* another has.
Within(row, E) == \A x \in DOMAIN row : EntitiesOf(row[x]) \subseteq E

Keeps(new, old) == DOMAIN old \subseteq DOMAIN new /\ \A x \in DOMAIN old : new[x] = old[x]

LEMMA AssignedWithin ==
  ASSUME NEW row, NEW var, NEW v, NEW E, Within(row, E), EntitiesOf(v) \subseteq E
  PROVE  Within(Assign(row, var, v), E)
<1>1. ASSUME NEW x \in DOMAIN Assign(row, var, v)
      PROVE  EntitiesOf(Assign(row, var, v)[x]) \subseteq E
  <2>1. CASE x = var
    BY <2>1 DEF Assign
  <2>2. CASE x # var
    <3>1. x \in DOMAIN row
      BY <2>2 DEF Assign
    <3>2. Assign(row, var, v)[x] = row[x]
      BY <2>2, <3>1 DEF Assign
    <3> QED
      BY <3>1, <3>2 DEF Within
  <2> QED
    BY <2>1, <2>2
<1> QED
  BY <1>1 DEF Within

LEMMA AssignedKeeps ==
  ASSUME NEW row, NEW var, NEW v, NEW old, Keeps(row, old), var \notin DOMAIN old
  PROVE  Keeps(Assign(row, var, v), old)
<1>1. ASSUME NEW x \in DOMAIN old
      PROVE  x \in DOMAIN Assign(row, var, v) /\ Assign(row, var, v)[x] = old[x]
  <2>1. x # var /\ x \in DOMAIN row /\ row[x] = old[x]
    BY DEF Keeps
  <2>2. Assign(row, var, v)[x] = row[x]
    BY <2>1 DEF Assign
  <2>3. x \in DOMAIN Assign(row, var, v)
    BY <2>1 DEF Assign
  <2> QED
    BY <2>1, <2>2, <2>3
<1> QED
  BY <1>1 DEF Keeps

LEMMA BindList ==
  ASSUME NEW row, NEW var, NEW v, NEW E, NEW old,
         Within(row, E), EntitiesOf(v) \subseteq E, Keeps(row, old)
  PROVE  /\ IsList(Bind(row, var, v))
         /\ \A r \in Range(Bind(row, var, v)) : Within(r, E) /\ Keeps(r, old)
<1>1. CASE var # NoVar /\ ~Bound(row, var)
  <2>1. Bind(row, var, v) = <<Assign(row, var, v)>>
    BY <1>1 DEF Bind
  <2>2. var \notin DOMAIN old
    BY <1>1 DEF Bound, Keeps
  <2> QED
    BY <2>1, <2>2, SmallLists, AssignedWithin, AssignedKeeps
<1>2. CASE ~(var # NoVar /\ ~Bound(row, var))
  <2>1. Bind(row, var, v) \in {<<row>>, <<>>}
    BY <1>2 DEF Bind
  <2> QED
    BY <2>1, SmallLists
<1> QED
  BY <1>1, <1>2

\* The entities that rows may come to stand for: those of the graph, and any
\* others that they stood for before.
Covers(E, G) == G.nodes \subseteq E /\ DOMAIN G.rels \subseteq E

LEMMA CandidateNodesList ==
  ASSUME NEW G, IsGraph(G), NEW pat, NEW row, NEW E, G.nodes \subseteq E,
         Bound(row, pat.var) /\ IsNode(row[pat.var]) => row[pat.var].node \in E
  PROVE  IsList(CandidateNodes(G, pat, row)) /\ Range(CandidateNodes(G, pat, row)) \subseteq E
<1>1. ASSUME NEW s, IsList(s), Range(s) \subseteq E
      PROVE  /\ IsList(Select(s, LAMBDA n : NodeMatches(G, pat, n)))
             /\ Range(Select(s, LAMBDA n : NodeMatches(G, pat, n))) \subseteq E
  <2> DEFINE T == {n \in Range(s) : NodeMatches(G, pat, n)}
             lists == [i \in DOMAIN s |-> IF s[i] \in T THEN <<s[i]>> ELSE <<>>]
  <2>1. \A i \in DOMAIN s : s[i] \in T <=> NodeMatches(G, pat, s[i])
    BY DEF Range
  <2>2. lists = [i \in DOMAIN s |-> IF NodeMatches(G, pat, s[i]) THEN <<s[i]>> ELSE <<>>]
    BY <2>1
  <2>3. Select(s, LAMBDA n : NodeMatches(G, pat, n)) = FlattenSeq(lists)
    BY <2>2 DEF Select, FlatMap
  <2>4. IsList(FlattenSeq(lists)) /\ Range(FlattenSeq(lists)) = Range(s) \intersect T
    <3> HIDE DEF T
    <3> QED
      BY <1>1, Selected
  <2> QED
    BY <1>1, <2>3, <2>4
<1>2. CASE Bound(row, pat.var) /\ IsNode(row[pat.var])
  <2> DEFINE n == row[pat.var].node
  <2>1. IsList(<<n>>) /\ Range(<<n>>) \subseteq E
    BY <1>2, SmallLists
  <2>2. CandidateNodes(G, pat, row) = Select(<<n>>, LAMBDA x : NodeMatches(G, pat, x))
    BY <1>2 DEF CandidateNodes
  <2> HIDE DEF n
  <2> QED
    BY <1>1, <2>1, <2>2
<1>3. CASE Bound(row, pat.var) /\ ~IsNode(row[pat.var])
  BY <1>3, SmallLists DEF CandidateNodes
<1>4. CASE ~Bound(row, pat.var)
  <2> DEFINE s == InOrder(G.nodes)
  <2>1. IsList(s) /\ Range(s) \subseteq E
    BY InOrderList, GraphIsNumbered
  <2>2. CandidateNodes(G, pat, row) = Select(s, LAMBDA n : NodeMatches(G, pat, n))
    BY <1>4 DEF CandidateNodes
  <2> HIDE DEF s
  <2> QED
    BY <1>1, <2>1, <2>2
<1> QED
  BY <1>2, <1>3, <1>4

\* Rows that stand for E and keep what a row had; the same of partial matches.
GoodRows(rows, E, old) ==
  IsList(rows) /\ \A r \in Range(rows) : Within(r, E) /\ Keeps(r, old)

GoodMatches(matches, E, old) ==
  /\ IsList(matches)
  /\ \A m \in Range(matches) : Within(m.row, E) /\ Keeps(m.row, old) /\ m.at \in E

\* A variable bound in every row, and partial matches that have reached a node.
LEMMA BindEachGood ==
  ASSUME NEW rows, NEW E, NEW old, GoodRows(rows, E, old),
         NEW var, NEW v, EntitiesOf(v) \subseteq E
  PROVE  GoodRows(BindEach(rows, var, v), E, old)
<1> DEFINE lists == [i \in DOMAIN rows |-> Bind(rows[i], var, v)]
<1>1. ASSUME NEW i \in DOMAIN rows PROVE GoodRows(lists[i], E, old)
  <2>1. Within(rows[i], E) /\ Keeps(rows[i], old)
    BY DEF GoodRows, Range
  <2> QED
    BY <2>1, BindList DEF GoodRows
<1>2. lists = [i \in DOMAIN rows |-> lists[i]] /\ \A i \in DOMAIN rows : IsList(lists[i])
  BY <1>1 DEF GoodRows
<1>3. BindEach(rows, var, v) = FlattenSeq(lists)
  BY DEF BindEach, FlatMap
<1> HIDE DEF lists
<1>4. /\ IsList(FlattenSeq(lists))
      /\ \A x : x \in Range(FlattenSeq(lists)) <=> \E i \in DOMAIN rows : x \in Range(lists[i])
  BY <1>2, Mapped DEF GoodRows
<1> QED
  BY <1>1, <1>3, <1>4 DEF GoodRows

LEMMA AtNodeGood ==
  ASSUME NEW rows, NEW E, NEW old, GoodRows(rows, E, old), NEW n \in E, NEW acc
  PROVE  GoodMatches(AtNode(rows, n, acc), E, old)
<1> DEFINE f == [i \in DOMAIN rows |-> [row |-> rows[i], at |-> n, acc |-> acc]]
           lists == [i \in DOMAIN rows |-> <<f[i]>>]
<1>1. AtNode(rows, n, acc) = FlattenSeq(lists)
  BY DEF AtNode, Image, FlatMap
<1>2. ASSUME NEW i \in DOMAIN rows
      PROVE  Within(f[i].row, E) /\ Keeps(f[i].row, old) /\ f[i].at \in E
  BY DEF GoodRows, Range
<1> HIDE DEF f
<1>3. IsList(FlattenSeq(lists)) /\ Range(FlattenSeq(lists)) = {f[i] : i \in DOMAIN rows}
  BY Imaged DEF GoodRows
<1> QED
  BY <1>1, <1>2, <1>3 DEF GoodMatches

\* Every match of a list, extended; and one hop of one match.
LEMMA GoodMatchesJoin ==
  ASSUME NEW s, IsList(s), NEW lists, lists = [i \in DOMAIN s |-> lists[i]],
         NEW E, NEW old, \A i \in DOMAIN s : GoodMatches(lists[i], E, old)
  PROVE  GoodMatches(FlattenSeq(lists), E, old)
<1>1. \A i \in DOMAIN s : IsList(lists[i])
  BY DEF GoodMatches
<1>2. /\ IsList(FlattenSeq(lists))
      /\ \A x : x \in Range(FlattenSeq(lists)) <=> \E i \in DOMAIN s : x \in Range(lists[i])
  BY <1>1, Mapped
<1> QED
  BY <1>2 DEF GoodMatches

LEMMA GoodRowsJoin ==
  ASSUME NEW s, IsList(s), NEW lists, lists = [i \in DOMAIN s |-> lists[i]],
         NEW E, NEW old, \A i \in DOMAIN s : GoodRows(lists[i], E, old)
  PROVE  GoodRows(FlattenSeq(lists), E, old)
<1>1. \A i \in DOMAIN s : IsList(lists[i])
  BY DEF GoodRows
<1>2. /\ IsList(FlattenSeq(lists))
      /\ \A x : x \in Range(FlattenSeq(lists)) <=> \E i \in DOMAIN s : x \in Range(lists[i])
  BY <1>1, Mapped
<1> QED
  BY <1>2 DEF GoodRows

LEMMA ExtendByHopList ==
  ASSUME NEW G, IsGraph(G), NEW rp, IsHop(rp), NEW np, NEW E, Covers(E, G), NEW old,
         NEW m, Within(m.row, E), Keeps(m.row, old), m.at \in E
  PROVE  GoodMatches(ExtendByHop(G, rp, np, m), E, old)
<1> DEFINE s == CandidateRels(G, rp, m.at)
           rows(c) == IF ~NodeMatches(G, np, c.at) THEN <<>>
                      ELSE BindEach(Bind(m.row, rp.var, c.value), np.var, NodeRef(c.at))
           lists == [i \in DOMAIN s |->
                       AtNode(rows(s[i]), s[i].at, m.acc \o <<s[i].value, NodeRef(s[i].at)>>)]
<1>1. IsList(s) /\ \A c \in Range(s) : EntitiesOf(c.value) \subseteq E /\ c.at \in E
  BY CandidateRelsList DEF Covers
<1>2. ExtendByHop(G, rp, np, m) = FlattenSeq(lists)
  BY DEF ExtendByHop, FlatMap
<1> HIDE DEF s
<1>3. ASSUME NEW i \in DOMAIN s PROVE GoodMatches(lists[i], E, old)
  <2>1. EntitiesOf(s[i].value) \subseteq E /\ s[i].at \in E
    BY <1>1 DEF Range
  <2>2. GoodRows(rows(s[i]), E, old)
    <3>1. GoodRows(Bind(m.row, rp.var, s[i].value), E, old)
      BY <2>1, BindList DEF GoodRows
    <3>2. EntitiesOf(NodeRef(s[i].at)) \subseteq E
      BY <2>1, EntitiesOfValues
    <3>3. GoodRows(BindEach(Bind(m.row, rp.var, s[i].value), np.var, NodeRef(s[i].at)), E, old)
      BY <3>1, <3>2, BindEachGood
    <3>4. GoodRows(<<>>, E, old)
      BY SmallLists DEF GoodRows
    <3> QED
      BY <3>3, <3>4
  <2>3. lists[i] = AtNode(rows(s[i]), s[i].at, m.acc \o <<s[i].value, NodeRef(s[i].at)>>)
    OBVIOUS
  <2> HIDE DEF rows
  <2> QED
    BY <2>1, <2>2, <2>3, AtNodeGood
<1>4. lists = [i \in DOMAIN s |-> lists[i]]
  OBVIOUS
<1> HIDE DEF lists
<1> QED
  BY <1>1, <1>2, <1>3, <1>4, GoodMatchesJoin

------------------------------------------------------------------------------
\* A path, hop by hop.
PartialUpTo(g, k, G, path, row) ==
  g = [j \in 0..k |-> IF j = 0 THEN StartsOf(G, path.nodes[1], row)
                      ELSE FlatMap(LAMBDA m : ExtendByHop(G, path.hops[j], path.nodes[j + 1], m),
                                   g[j - 1])]

LEMMA PartialExists ==
  ASSUME NEW G, NEW path, NEW row, NEW n \in Nat
  PROVE  \E g : PartialUpTo(g, n, G, path, row)
<1> DEFINE S == {k \in Nat : \E g : PartialUpTo(g, k, G, path, row)}
<1>1. 0 \in S
  <2>1. PartialUpTo([j \in 0..0 |-> StartsOf(G, path.nodes[1], row)], 0, G, path, row)
    BY DEF PartialUpTo
  <2> QED
    BY <2>1
<1>2. ASSUME NEW k \in Nat, k \in S PROVE k + 1 \in S
  <2>1. PICK g : PartialUpTo(g, k, G, path, row)
    BY <1>2
  <2> DEFINE h == [j \in 0..(k + 1) |->
                     IF j = 0 THEN StartsOf(G, path.nodes[1], row)
                     ELSE FlatMap(LAMBDA m : ExtendByHop(G, path.hops[j], path.nodes[j + 1], m),
                                  g[j - 1])]
  <2>2. ASSUME NEW j \in 0..(k + 1), j # 0 PROVE h[j - 1] = g[j - 1]
    <3>1. j - 1 \in 0..k /\ j - 1 \in 0..(k + 1)
      BY <2>2
    <3> QED
      BY <2>1, <3>1 DEF PartialUpTo
  <2>3. h = [j \in 0..(k + 1) |->
               IF j = 0 THEN StartsOf(G, path.nodes[1], row)
               ELSE FlatMap(LAMBDA m : ExtendByHop(G, path.hops[j], path.nodes[j + 1], m),
                            h[j - 1])]
    BY <2>2
  <2> HIDE DEF h
  <2>4. PartialUpTo(h, k + 1, G, path, row)
    BY <2>3 DEF PartialUpTo
  <2> QED
    BY <2>4
<1> HIDE DEF S
<1>3. n \in S
  BY <1>1, <1>2, Induction
<1> QED
  BY <1>3 DEF S

LEMMA StartsGood ==
  ASSUME NEW G, IsGraph(G), NEW pat, NEW E, Covers(E, G),
         NEW row, Within(row, E), NEW old, Keeps(row, old)
  PROVE  GoodMatches(StartsOf(G, pat, row), E, old)
<1> DEFINE s == CandidateNodes(G, pat, row)
           lists == [i \in DOMAIN s |-> AtNode(Bind(row, pat.var, NodeRef(s[i])), s[i], <<NodeRef(s[i])>>)]
<1>1. IsList(s) /\ Range(s) \subseteq E
  <2>1. Bound(row, pat.var) /\ IsNode(row[pat.var]) => row[pat.var].node \in E
    BY DEF Bound, Within, EntitiesOf
  <2> QED
    BY <2>1, CandidateNodesList DEF Covers
<1>2. StartsOf(G, pat, row) = FlattenSeq(lists)
  BY DEF StartsOf, FlatMap
<1> HIDE DEF s
<1>3. ASSUME NEW i \in DOMAIN s PROVE GoodMatches(lists[i], E, old)
  <2>1. s[i] \in E
    BY <1>1 DEF Range
  <2>2. EntitiesOf(NodeRef(s[i])) \subseteq E
    BY <2>1, EntitiesOfValues
  <2>3. GoodRows(Bind(row, pat.var, NodeRef(s[i])), E, old)
    BY <2>2, BindList DEF GoodRows
  <2> QED
    BY <2>1, <2>3, AtNodeGood
<1>4. lists = [i \in DOMAIN s |-> lists[i]]
  OBVIOUS
<1> HIDE DEF lists
<1> QED
  BY <1>1, <1>2, <1>3, <1>4, GoodMatchesJoin

LEMMA MatchPathGood ==
  ASSUME NEW G, IsGraph(G), NEW path, IsPathPattern(path), NEW E, Covers(E, G),
         NEW row, Within(row, E), NEW old, Keeps(row, old),
         path.var = NoVar \/ path.var \notin DOMAIN old
  PROVE  GoodRows(MatchPath(G, path, row), E, old)
<1> DEFINE partial == CHOOSE g : PartialUpTo(g, Len(path.hops), G, path, row)
           S == {k \in Nat : k \in 0..Len(path.hops) => GoodMatches(partial[k], E, old)}
           n == Len(path.hops)
           last == partial[n]
           f == [i \in DOMAIN last |-> IF path.var = NoVar THEN last[i].row
                                       ELSE Assign(last[i].row, path.var, PathRef(last[i].acc))]
           lists == [i \in DOMAIN last |-> <<f[i]>>]
<1>1. MatchPath(G, path, row) = FlattenSeq(lists)
  BY DEF MatchPath, Image, FlatMap, PartialUpTo
<1>2. n \in Nat /\ \A k \in 1..n : IsHop(path.hops[k])
  BY DEF IsPathPattern, Range
<1>3. PartialUpTo(partial, n, G, path, row)
  BY <1>2, PartialExists
<1> HIDE DEF partial
<1>4. 0 \in S
  <2>1. partial[0] = StartsOf(G, path.nodes[1], row)
    <3>1. 0 \in 0..n
      BY <1>2
    <3> QED
      BY <1>3, <3>1 DEF PartialUpTo
  <2> QED
    BY <2>1, StartsGood
<1>5. ASSUME NEW k \in Nat, k \in S PROVE k + 1 \in S
  <2> SUFFICES ASSUME k + 1 \in 0..n PROVE GoodMatches(partial[k + 1], E, old)
    BY <1>5
  <2> DEFINE s == partial[k]
             more == [i \in DOMAIN s |->
                        ExtendByHop(G, path.hops[k + 1], path.nodes[(k + 1) + 1], s[i])]
  <2>1. GoodMatches(s, E, old)
    BY <1>2, <1>5
  <2>2. partial[k + 1] = FlattenSeq(more)
    <3>1. k + 1 # 0 /\ (k + 1) - 1 = k
      OBVIOUS
    <3>2. partial[k + 1] = FlatMap(LAMBDA m : ExtendByHop(G, path.hops[k + 1],
                                                         path.nodes[(k + 1) + 1], m), partial[k])
      BY <1>2, <1>3, <3>1 DEF PartialUpTo
    <3> QED
      BY <3>2 DEF FlatMap
  <2> HIDE DEF s
  <2>3. ASSUME NEW i \in DOMAIN s PROVE GoodMatches(more[i], E, old)
    <3>1. Within(s[i].row, E) /\ Keeps(s[i].row, old) /\ s[i].at \in E
      BY <2>1 DEF GoodMatches, Range
    <3>2. IsHop(path.hops[k + 1])
      BY <1>2
    <3> QED
      BY <3>1, <3>2, ExtendByHopList
  <2>4. more = [i \in DOMAIN s |-> more[i]] /\ IsList(s)
    BY <2>1 DEF GoodMatches
  <2> HIDE DEF more
  <2> QED
    BY <2>2, <2>3, <2>4, GoodMatchesJoin
<1>6. GoodMatches(last, E, old)
  <2>1. n \in S
    <3> HIDE DEF S, n
    <3> QED
      BY <1>2, <1>4, <1>5, Induction
  <2> QED
    BY <1>2, <2>1
<1> HIDE DEF last
<1>7. ASSUME NEW i \in DOMAIN last PROVE Within(f[i], E) /\ Keeps(f[i], old)
  <2>1. Within(last[i].row, E) /\ Keeps(last[i].row, old)
    BY <1>6 DEF GoodMatches, Range
  <2>2. EntitiesOf(PathRef(last[i].acc)) \subseteq E
    BY EntitiesOfValues
  <2>3. CASE path.var = NoVar
    BY <2>1, <2>3
  <2>4. CASE path.var # NoVar
    <3>1. /\ Within(Assign(last[i].row, path.var, PathRef(last[i].acc)), E)
          /\ Keeps(Assign(last[i].row, path.var, PathRef(last[i].acc)), old)
      BY <2>1, <2>2, <2>4, AssignedWithin, AssignedKeeps
    <3> QED
      BY <2>4, <3>1
  <2> QED
    BY <2>3, <2>4
<1> HIDE DEF f
<1>8. IsList(FlattenSeq(lists)) /\ Range(FlattenSeq(lists)) = {f[i] : i \in DOMAIN last}
  BY <1>6, Imaged DEF GoodMatches
<1> QED
  BY <1>1, <1>7, <1>8 DEF GoodRows

------------------------------------------------------------------------------
\* The paths of a pattern, one after the other.
\* No path of the pattern is named like something that the row has: a path
\* variable, unlike every other one, is bound again.
PathsAreNew(pattern, old) ==
  \A k \in 1..Len(pattern) : pattern[k].var = NoVar \/ pattern[k].var \notin DOMAIN old

RowsUpTo(g, k, G, pattern, row) ==
  g = [j \in 0..k |-> IF j = 0 THEN <<row>>
                      ELSE FlatMap(LAMBDA r : MatchPath(G, pattern[j], r), g[j - 1])]

LEMMA RowsExist ==
  ASSUME NEW G, NEW pattern, NEW row, NEW n \in Nat
  PROVE  \E g : RowsUpTo(g, n, G, pattern, row)
<1> DEFINE S == {k \in Nat : \E g : RowsUpTo(g, k, G, pattern, row)}
<1>1. 0 \in S
  <2>1. RowsUpTo([j \in 0..0 |-> <<row>>], 0, G, pattern, row)
    BY DEF RowsUpTo
  <2> QED
    BY <2>1
<1>2. ASSUME NEW k \in Nat, k \in S PROVE k + 1 \in S
  <2>1. PICK g : RowsUpTo(g, k, G, pattern, row)
    BY <1>2
  <2> DEFINE h == [j \in 0..(k + 1) |->
                     IF j = 0 THEN <<row>>
                     ELSE FlatMap(LAMBDA r : MatchPath(G, pattern[j], r), g[j - 1])]
  <2>2. ASSUME NEW j \in 0..(k + 1), j # 0 PROVE h[j - 1] = g[j - 1]
    <3>1. j - 1 \in 0..k /\ j - 1 \in 0..(k + 1)
      BY <2>2
    <3> QED
      BY <2>1, <3>1 DEF RowsUpTo
  <2>3. h = [j \in 0..(k + 1) |->
               IF j = 0 THEN <<row>>
               ELSE FlatMap(LAMBDA r : MatchPath(G, pattern[j], r), h[j - 1])]
    BY <2>2
  <2> HIDE DEF h
  <2>4. RowsUpTo(h, k + 1, G, pattern, row)
    BY <2>3 DEF RowsUpTo
  <2> QED
    BY <2>4
<1> HIDE DEF S
<1>3. n \in S
  BY <1>1, <1>2, Induction
<1> QED
  BY <1>3 DEF S

LEMMA MatchPatternGood ==
  ASSUME NEW G, IsGraph(G), NEW pattern, IsPattern(pattern), NEW E, Covers(E, G),
         NEW row, Within(row, E), NEW old, Keeps(row, old), PathsAreNew(pattern, old)
  PROVE  GoodRows(MatchPattern(G, pattern, row), E, old)
<1> DEFINE after == CHOOSE g : RowsUpTo(g, Len(pattern), G, pattern, row)
           n == Len(pattern)
           S == {k \in Nat : k \in 0..n => GoodRows(after[k], E, old)}
<1>1. MatchPattern(G, pattern, row) = after[n]
  BY DEF MatchPattern, RowsUpTo
<1>2. n \in Nat /\ \A k \in 1..n : IsPathPattern(pattern[k])
  BY DEF IsPattern, Range
<1>3. RowsUpTo(after, n, G, pattern, row)
  BY <1>2, RowsExist
<1> HIDE DEF after
<1>4. 0 \in S
  <2>1. after[0] = <<row>>
    <3>1. 0 \in 0..n
      BY <1>2
    <3> QED
      BY <1>3, <3>1 DEF RowsUpTo
  <2> QED
    BY <2>1, SmallLists DEF GoodRows
<1>5. ASSUME NEW k \in Nat, k \in S PROVE k + 1 \in S
  <2> SUFFICES ASSUME k + 1 \in 0..n PROVE GoodRows(after[k + 1], E, old)
    BY <1>5
  <2> DEFINE s == after[k]
             more == [i \in DOMAIN s |-> MatchPath(G, pattern[k + 1], s[i])]
  <2>1. GoodRows(s, E, old)
    BY <1>2, <1>5
  <2>2. after[k + 1] = FlattenSeq(more)
    <3>1. k + 1 # 0 /\ (k + 1) - 1 = k
      OBVIOUS
    <3>2. after[k + 1] = FlatMap(LAMBDA r : MatchPath(G, pattern[k + 1], r), after[k])
      BY <1>2, <1>3, <3>1 DEF RowsUpTo
    <3> QED
      BY <3>2 DEF FlatMap
  <2> HIDE DEF s
  <2>3. ASSUME NEW i \in DOMAIN s PROVE GoodRows(more[i], E, old)
    <3>1. Within(s[i], E) /\ Keeps(s[i], old)
      BY <2>1 DEF GoodRows, Range
    <3>2. /\ IsPathPattern(pattern[k + 1])
          /\ pattern[k + 1].var = NoVar \/ pattern[k + 1].var \notin DOMAIN old
      BY <1>2 DEF PathsAreNew
    <3> QED
      BY <3>1, <3>2, MatchPathGood
  <2>4. more = [i \in DOMAIN s |-> more[i]] /\ IsList(s)
    BY <2>1 DEF GoodRows
  <2> HIDE DEF more
  <2> QED
    BY <2>2, <2>3, <2>4, GoodRowsJoin
<1>6. n \in S
  <2> HIDE DEF S, n
  <2> QED
    BY <1>2, <1>4, <1>5, Induction
<1> QED
  BY <1>1, <1>2, <1>6

\* MATCH of one row: rows that stand for what the graph and the row had, that
\* keep what the row had, and at least one of them when it is optional.
LEMMA MatchRowGood ==
  ASSUME NEW G, IsGraph(G), NEW clause, IsPattern(clause.pattern), NEW E, Covers(E, G),
         NEW row, Within(row, E), NEW old, Keeps(row, old), PathsAreNew(clause.pattern, old)
  PROVE  /\ GoodRows(MatchRow(G, clause, row), E, old)
         /\ clause.optional => Range(MatchRow(G, clause, row)) # {}
<1> DEFINE found == MatchPattern(G, clause.pattern, row)
           T == {r \in Range(found) : Holds(G, clause.where, r)}
           lists == [i \in DOMAIN found |-> IF found[i] \in T THEN <<found[i]>> ELSE <<>>]
           kept == FlattenSeq(lists)
           new == PatternVars(clause.pattern) \ DOMAIN row
           nulls == [x \in DOMAIN row \union new |-> IF x \in new THEN NullRef ELSE row[x]]
<1>1. GoodRows(found, E, old)
  BY MatchPatternGood
<1> HIDE DEF found
<1>2. \A i \in DOMAIN found : found[i] \in T <=> Holds(G, clause.where, found[i])
  BY DEF Range
<1>3. lists = [i \in DOMAIN found |-> IF Holds(G, clause.where, found[i]) THEN <<found[i]>> ELSE <<>>]
  BY <1>2
<1>4. kept = Select(found, LAMBDA r : Holds(G, clause.where, r))
  BY <1>3 DEF Select, FlatMap
<1>5. IsList(kept) /\ Range(kept) = Range(found) \intersect T
  <2> HIDE DEF T
  <2> QED
    BY <1>1, Selected DEF GoodRows
<1>6. GoodRows(kept, E, old)
  BY <1>1, <1>5 DEF GoodRows
<1> HIDE DEF T, lists, kept
<1>7. MatchRow(G, clause, row) = IF kept = <<>> /\ clause.optional THEN <<nulls>> ELSE kept
  BY <1>4 DEF MatchRow, found
<1>8. Within(nulls, E) /\ Keeps(nulls, old)
  <2>1. ASSUME NEW x \in DOMAIN nulls PROVE EntitiesOf(nulls[x]) \subseteq E
    BY EntitiesOfValues DEF Within
  <2>2. ASSUME NEW x \in DOMAIN old PROVE x \in DOMAIN nulls /\ nulls[x] = old[x]
    BY DEF Keeps
  <2> QED
    BY <2>1, <2>2 DEF Within, Keeps
<1> HIDE DEF nulls
<1>9. CASE kept = <<>> /\ clause.optional
  BY <1>7, <1>8, <1>9, SmallLists DEF GoodRows
<1>10. CASE ~(kept = <<>> /\ clause.optional)
  <2>1. kept # <<>> => Range(kept) # {}
    <3> SUFFICES ASSUME Range(kept) = {} PROVE kept = <<>>
      OBVIOUS
    <3>1. kept \in Seq({})
      BY <1>5 DEF IsList
    <3> QED
      BY <3>1
  <2> QED
    BY <1>6, <1>7, <1>10, <2>1
<1> QED
  BY <1>9, <1>10
==============================================================================
