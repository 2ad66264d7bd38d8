------------------------- MODULE ProjectionOrderProofs -------------------------
(****************************************************************************)
(* ORDER BY for every query and every table: the passes of _order_paired,   *)
(* one stable sort for each key from the last to the first, give the order  *)
(* of all the keys.                                                         *)
(*                                                                          *)
(* A list that has been rearranged is written as the list before along the  *)
(* indices of its elements (Along), and an order as the set of the pairs    *)
(* of indices of which the first is to come first (Follows).                *)
(****************************************************************************)
EXTENDS ProjectionProofs

------------------------------------------------------------------------------
\* Lists, element by element.
LEMMA JoinAt ==
  ASSUME NEW s, NEW t, IsList(s), IsList(t)
  PROVE  /\ IsList(s \o t) /\ Len(s \o t) = Len(s) + Len(t)
         /\ s \o t = [i \in 1..(Len(s) + Len(t)) |-> IF i <= Len(s) THEN s[i] ELSE t[i - Len(s)]]
<1> DEFINE S == Range(s) \union Range(t)
<1>1. s \in Seq(S) /\ t \in Seq(S)
  BY DEF IsList
<1>2. IsList(s \o t)
  BY ConcatList
<1> HIDE DEF S
<1> DEFINE h == s \o t
<1>3. h \in Seq(S) /\ Len(h) = Len(s) + Len(t)
  BY <1>1
<1>4. Len(s) \in Nat /\ Len(t) \in Nat
  BY ListShape
<1>5. \A i \in 1..(Len(s) + Len(t)) : h[i] = IF i <= Len(s) THEN s[i] ELSE t[i - Len(s)]
  BY <1>1
<1> HIDE DEF h
<1>6. h = [i \in 1..(Len(s) + Len(t)) |-> h[i]]
  BY <1>3
<1>7. h = [i \in 1..(Len(s) + Len(t)) |-> IF i <= Len(s) THEN s[i] ELSE t[i - Len(s)]]
  BY <1>5, <1>6
<1> QED
  BY <1>2, <1>3, <1>7 DEF h

LEMMA InsertedAt ==
  ASSUME NEW s, IsList(s), NEW at \in 1..(Len(s) + 1), NEW x
  PROVE  /\ IsList(InsertAt(s, at, x)) /\ Len(InsertAt(s, at, x)) = Len(s) + 1
         /\ InsertAt(s, at, x) =
              [i \in 1..(Len(s) + 1) |-> IF i < at THEN s[i] ELSE IF i = at THEN x ELSE s[i - 1]]
<1> DEFINE n == Len(s)
           front == SubSeq(s, 1, at - 1)
           back == SubSeq(s, at, n)
           new(i) == IF i < at THEN s[i] ELSE IF i = at THEN x ELSE s[i - 1]
<1>1. n \in Nat
  BY ListShape
<1>2. at \in Int /\ 1 <= at /\ at <= n + 1
  BY <1>1
<1>3. /\ IsList(front) /\ Len(front) = at - 1
      /\ front = [i \in 1..(at - 1) |-> s[i]]
  <2>1. at - 1 \in Int /\ 1 \in Int /\ 1 <= 1 /\ at - 1 <= Len(s)
    BY <1>1, <1>2
  <2>2. /\ IsList(front) /\ front = [i \in 1..(at - 1 - 1 + 1) |-> s[1 + i - 1]]
        /\ Len(front) = IF 1 <= at - 1 THEN at - 1 - 1 + 1 ELSE 0
    BY <2>1, Slice
  <2>3. at - 1 - 1 + 1 = at - 1 /\ \A i \in 1..(at - 1) : 1 + i - 1 = i
    BY <1>2
  <2>4. Len(front) = at - 1
    BY ONLY <2>2, <1>2
  <2> QED
    BY <2>2, <2>3, <2>4
<1>4. /\ IsList(back) /\ Len(back) = n + 1 - at
      /\ \A i \in 1..(n + 1 - at) : back[i] = s[at + i - 1]
  <2>1. at \in Int /\ n \in Int /\ 1 <= at /\ n <= Len(s)
    BY <1>1, <1>2
  <2>2. /\ IsList(back) /\ back = [i \in 1..(n - at + 1) |-> s[at + i - 1]]
        /\ Len(back) = IF at <= n THEN n - at + 1 ELSE 0
    BY <2>1, Slice
  <2>3. n - at + 1 = n + 1 - at
    BY <1>1, <1>2
  <2>4. Len(back) = n + 1 - at
    BY ONLY <2>2, <1>1, <1>2
  <2> QED
    BY <2>2, <2>3, <2>4
<1>5. IsList(<<x>>) /\ Len(<<x>>) = 1 /\ <<x>>[1] = x
  BY SmallLists
<1>6. InsertAt(s, at, x) = front \o <<x>> \o back
  BY DEF InsertAt
<1> HIDE DEF front, back, n
<1>7. /\ IsList(front \o <<x>>) /\ Len(front \o <<x>>) = at
      /\ \A i \in 1..at : (front \o <<x>>)[i] = IF i < at THEN s[i] ELSE x
  <2>1. /\ IsList(front \o <<x>>) /\ Len(front \o <<x>>) = (at - 1) + 1
        /\ front \o <<x>> = [i \in 1..((at - 1) + 1) |-> IF i <= at - 1 THEN front[i] ELSE <<x>>[i - (at - 1)]]
    BY <1>3, <1>5, JoinAt
  <2>2. (at - 1) + 1 = at
    BY <1>2
  <2>3. ASSUME NEW i \in 1..at PROVE (front \o <<x>>)[i] = IF i < at THEN s[i] ELSE x
    <3>1. CASE i < at
      <4>1. i \in 1..(at - 1) /\ i <= at - 1 /\ i \in 1..((at - 1) + 1)
        BY <1>2, <3>1
      <4> QED
        BY <1>3, <2>1, <3>1, <4>1
    <3>2. CASE ~(i < at)
      <4>1. i - (at - 1) = 1 /\ ~(i <= at - 1) /\ i \in 1..((at - 1) + 1)
        BY <1>2, <3>2
      <4> QED
        BY <1>5, <2>1, <3>2, <4>1
    <3> QED
      BY <3>1, <3>2
  <2> QED
    BY <2>1, <2>2, <2>3
<1>8. /\ IsList(front \o <<x>> \o back) /\ Len(front \o <<x>> \o back) = at + (n + 1 - at)
      /\ front \o <<x>> \o back =
           [i \in 1..(at + (n + 1 - at)) |-> IF i <= at THEN (front \o <<x>>)[i] ELSE back[i - at]]
  <2> DEFINE f == front \o <<x>>
  <2>1. IsList(f) /\ Len(f) = at
    BY <1>7
  <2> HIDE DEF f
  <2>2. /\ IsList(f \o back) /\ Len(f \o back) = Len(f) + Len(back)
        /\ f \o back = [i \in 1..(Len(f) + Len(back)) |-> IF i <= Len(f) THEN f[i] ELSE back[i - Len(f)]]
    BY <1>4, <2>1, JoinAt
  <2> QED
    BY <1>4, <2>1, <2>2 DEF f
<1>9. at + (n + 1 - at) = n + 1
  BY <1>1, <1>2
<1>10. \A i \in 1..(n + 1) : (IF i <= at THEN (front \o <<x>>)[i] ELSE back[i - at]) = new(i)
  <2> TAKE i \in 1..(n + 1)
  <2>1. CASE i <= at
    <3>1. i \in 1..at
      BY <1>1, <1>2, <2>1
    <3>2. i < at \/ i = at
      BY <1>1, <1>2, <2>1
    <3> QED
      BY <1>7, <1>2, <2>1, <3>1, <3>2
  <2>2. CASE ~(i <= at)
    <3>1. i - at \in 1..(n + 1 - at) /\ at + (i - at) - 1 = i - 1 /\ ~(i < at) /\ i # at
      BY <1>1, <1>2, <2>2
    <3> QED
      BY <1>4, <2>2, <3>1
  <2> QED
    BY <2>1, <2>2
<1> QED
  BY <1>6, <1>8, <1>9, <1>10 DEF n

\* Along indices that are rearranged.
LEMMA AlongRange ==
  ASSUME NEW P, IsList(P), NEW Q, IsList(Q), Range(Q) = DOMAIN P
  PROVE  /\ IsList(Along(P, Q)) /\ Range(Along(P, Q)) = Range(P) /\ DOMAIN Along(P, Q) = DOMAIN Q
         /\ \A a \in DOMAIN Q : Q[a] \in DOMAIN P /\ Along(P, Q)[a] = P[Q[a]]
<1> DEFINE f == Along(P, Q)
<1>1. Len(Q) \in Nat /\ DOMAIN Q = 1..Len(Q)
  BY ListShape
<1>2. f = [a \in 1..Len(Q) |-> f[a]] /\ \A a \in 1..Len(Q) : f[a] = P[Q[a]]
  BY DEF Along
<1> HIDE DEF f
<1>3. IsList(f) /\ DOMAIN f = DOMAIN Q
  BY <1>1, <1>2, FunctionIsList
<1>4. /\ \A a \in DOMAIN Q : Q[a] \in DOMAIN P
      /\ \A m \in DOMAIN P : \E a \in DOMAIN Q : Q[a] = m
      /\ \A m \in DOMAIN P : P[m] \in Range(P)
      /\ \A x \in Range(P) : \E m \in DOMAIN P : P[m] = x
  BY DEF Range
<1>5. \A a \in DOMAIN f : f[a] \in Range(P)
  BY <1>1, <1>2, <1>3, <1>4
<1>6. ASSUME NEW x \in Range(P) PROVE \E a \in DOMAIN f : f[a] = x
  <2>1. PICK m \in DOMAIN P : P[m] = x
    BY <1>4
  <2>2. PICK a \in DOMAIN Q : Q[a] = m
    BY <1>4
  <2> QED
    BY <1>1, <1>2, <1>3, <2>1, <2>2
<1> QED
  BY <1>1, <1>2, <1>3, <1>4, <1>5, <1>6 DEF Range, f

------------------------------------------------------------------------------
\* A list of indices that follows a relation.
Follows(P, rel) == \A a, b \in DOMAIN P : a < b => <<P[a], P[b]>> \in rel

LEMMA JoinFollows ==
  ASSUME NEW P, NEW Q, IsList(P), IsList(Q), NEW rel, Follows(P, rel), Follows(Q, rel),
         \A i \in Range(P), j \in Range(Q) : <<i, j>> \in rel
  PROVE  Follows(P \o Q, rel)
<1>1. /\ Len(P) \in Nat /\ DOMAIN P = 1..Len(P) /\ Len(Q) \in Nat /\ DOMAIN Q = 1..Len(Q)
      /\ \A i \in 1..Len(P) : P[i] \in Range(P)
      /\ \A i \in 1..Len(Q) : Q[i] \in Range(Q)
  BY ListShape
<1>2. P \o Q = [i \in 1..(Len(P) + Len(Q)) |-> IF i <= Len(P) THEN P[i] ELSE Q[i - Len(P)]]
  BY JoinAt
<1> SUFFICES ASSUME NEW a \in 1..(Len(P) + Len(Q)), NEW b \in 1..(Len(P) + Len(Q)), a < b
             PROVE  <<(P \o Q)[a], (P \o Q)[b]>> \in rel
  BY <1>2 DEF Follows
<1>3. CASE b <= Len(P)
  <2>1. a \in DOMAIN P /\ b \in DOMAIN P /\ a <= Len(P)
    BY <1>1, <1>3
  <2> QED
    BY <1>2, <1>3, <2>1 DEF Follows
<1>4. CASE ~(b <= Len(P)) /\ a <= Len(P)
  <2>1. a \in 1..Len(P) /\ b - Len(P) \in 1..Len(Q)
    BY <1>1, <1>4
  <2> QED
    BY <1>1, <1>2, <1>4, <2>1
<1>5. CASE ~(b <= Len(P)) /\ ~(a <= Len(P))
  <2>1. a - Len(P) \in DOMAIN Q /\ b - Len(P) \in DOMAIN Q /\ a - Len(P) < b - Len(P)
    BY <1>1, <1>5
  <2> QED
    BY <1>2, <1>5, <2>1 DEF Follows
<1> QED
  BY <1>3, <1>4, <1>5

------------------------------------------------------------------------------
\* One pass, stable: what is before what.
AfterSort(s, key) ==
  {pair \in (DOMAIN s) \X (DOMAIN s) :
     \/ Before(key, s[pair[1]], s[pair[2]])
     \/ ~Before(key, s[pair[2]], s[pair[1]]) /\ pair[1] < pair[2]}

LEMMA IsAfter ==
  ASSUME NEW s, NEW key, NEW i \in DOMAIN s, NEW j \in DOMAIN s
  PROVE  <<i, j>> \in AfterSort(s, key) <=>
           Before(key, s[i], s[j]) \/ (~Before(key, s[j], s[i]) /\ i < j)
<1> DEFINE pair == <<i, j>>
<1>1. pair \in (DOMAIN s) \X (DOMAIN s) /\ pair[1] = i /\ pair[2] = j
  OBVIOUS
<1> HIDE DEF pair
<1>2. pair \in AfterSort(s, key) <=> Before(key, s[i], s[j]) \/ (~Before(key, s[j], s[i]) /\ i < j)
  BY <1>1 DEF AfterSort
<1> QED
  BY <1>2 DEF pair

\* A strict order in which being neither before nor after is transitive.
WeakOrder(s, key) ==
  \A i, j, l \in DOMAIN s :
    Before(key, s[i], s[j]) =>
      /\ ~Before(key, s[j], s[i])
      /\ Before(key, s[i], s[l]) \/ Before(key, s[l], s[j])

\* P with x before its element number at.
With(P, at, x) ==
  [i \in 1..(Len(P) + 1) |-> IF i < at THEN P[i] ELSE IF i = at THEN x ELSE P[i - 1]]

LEMMA WithList ==
  ASSUME NEW P, IsList(P), NEW at \in 1..(Len(P) + 1), NEW x
  PROVE  /\ IsList(With(P, at, x)) /\ Len(With(P, at, x)) = Len(P) + 1
         /\ Range(With(P, at, x)) = Range(P) \union {x}
<1> DEFINE Q == With(P, at, x)
<1>1. /\ Len(P) \in Nat /\ DOMAIN P = 1..Len(P) /\ at \in Int /\ 1 <= at /\ at <= Len(P) + 1
      /\ \A i \in 1..Len(P) : P[i] \in Range(P)
      /\ \A y \in Range(P) : \E i \in 1..Len(P) : P[i] = y
  BY ListShape
<1>2. /\ DOMAIN Q = 1..(Len(P) + 1)
      /\ \A i \in 1..(Len(P) + 1) : Q[i] = IF i < at THEN P[i] ELSE IF i = at THEN x ELSE P[i - 1]
  BY DEF With
<1>3. Q = [i \in 1..(Len(P) + 1) |-> Q[i]]
  BY DEF With
<1> HIDE DEF Q
<1>4. Len(P) + 1 \in Nat
  BY <1>1
<1>5. IsList(Q) /\ Len(Q) = Len(P) + 1
  BY <1>3, <1>4, FunctionIsList
<1>6. ASSUME NEW i \in 1..(Len(P) + 1) PROVE Q[i] \in Range(P) \union {x}
  <2>1. CASE i < at
    <3>1. i \in 1..Len(P)
      BY <1>1, <2>1
    <3> QED
      BY <1>1, <1>2, <2>1, <3>1
  <2>2. CASE i = at
    BY <1>1, <1>2, <2>2
  <2>3. CASE ~(i < at) /\ i # at
    <3>1. i - 1 \in 1..Len(P)
      BY <1>1, <2>3
    <3> QED
      BY <1>1, <1>2, <2>3, <3>1
  <2> QED
    BY <2>1, <2>2, <2>3
<1>7. ASSUME NEW y \in Range(P) PROVE \E i \in 1..(Len(P) + 1) : Q[i] = y
  <2>1. PICK i \in 1..Len(P) : P[i] = y
    BY <1>1
  <2>2. CASE i < at
    <3>1. i \in 1..(Len(P) + 1)
      BY <1>1
    <3> QED
      BY <1>2, <2>1, <2>2, <3>1
  <2>3. CASE ~(i < at)
    <3>1. i + 1 \in 1..(Len(P) + 1) /\ ~(i + 1 < at) /\ i + 1 # at /\ (i + 1) - 1 = i
      BY <1>1, <2>3
    <3> QED
      BY <1>2, <2>1, <3>1
  <2> QED
    BY <2>2, <2>3
<1>8. Q[at] = x
  BY <1>1, <1>2
<1> HIDE DEF With
<1>9. at \in 1..(Len(P) + 1)
  OBVIOUS
<1>10. Range(Q) = {Q[i] : i \in 1..(Len(P) + 1)}
  BY <1>2 DEF Range
<1>11. Range(Q) = Range(P) \union {x}
  BY <1>6, <1>7, <1>8, <1>9, <1>10
<1> QED
  BY <1>5, <1>11 DEF Q

LEMMA InsertAlong ==
  ASSUME NEW s, IsList(s), NEW key, NEW k \in Nat, k + 1 \in DOMAIN s,
         NEW P, IsList(P), Range(P) = 1..k
  PROVE  \E Q : /\ IsList(Q) /\ Range(Q) = 1..(k + 1)
                /\ Inserted(Along(s, P), s[k + 1], key) = Along(s, Q)
                /\ WeakOrder(s, key) /\ Follows(P, AfterSort(s, key)) => Follows(Q, AfterSort(s, key))
<1> DEFINE t == Along(s, P)
           n == Len(P)
           x == k + 1
           behind == {i \in DOMAIN t : Before(key, s[x], t[i])}
           at == IF behind = {} THEN Len(t) + 1 ELSE Min(behind)
           Q == With(P, at, x)
<1>1. /\ n \in Nat /\ DOMAIN P = 1..n /\ Len(s) \in Nat /\ DOMAIN s = 1..Len(s) /\ x \in 1..Len(s)
      /\ \A i \in 1..n : P[i] \in 1..k /\ P[i] \in DOMAIN s
  <2>1. /\ n \in Nat /\ DOMAIN P = 1..n /\ Len(s) \in Nat /\ DOMAIN s = 1..Len(s)
        /\ \A i \in 1..n : P[i] \in 1..k
    BY ListShape
  <2> QED
    BY <2>1
<1>2. DOMAIN t = 1..n /\ \A i \in 1..n : t[i] = s[P[i]]
  BY DEF Along
<1>3. IsList(t) /\ Len(t) = n
  <2>1. t = [i \in 1..n |-> t[i]]
    BY DEF Along
  <2> HIDE DEF t
  <2> QED
    BY <1>1, <2>1, FunctionIsList
<1>4. Inserted(t, s[x], key) = InsertAt(t, at, s[x])
  BY DEF Inserted
<1> HIDE DEF t
<1>5. /\ at \in 1..(n + 1)
      /\ \A i \in 1..n : i < at => ~Before(key, s[x], t[i])
      /\ at # n + 1 => Before(key, s[x], t[at])
  <2>1. behind \in SUBSET Nat /\ behind \subseteq 1..n
    BY <1>1, <1>2
  <2>2. CASE behind = {}
    <3>1. at = n + 1 /\ n + 1 \in 1..(n + 1)
      BY <1>1, <1>3, <2>2
    <3>2. \A i \in 1..n : ~Before(key, s[x], t[i])
      BY <1>2, <2>2
    <3> HIDE DEF at, behind
    <3> QED
      BY <3>1, <3>2
  <2>3. CASE behind # {}
    <3>1. \E i \in behind : \A j \in behind : i <= j
      BY <2>1, <2>3, LeastOfNat
    <3>2. Min(behind) \in behind /\ \A j \in behind : Min(behind) <= j
      BY <3>1 DEF Min
    <3>3. at \in behind /\ \A j \in behind : at <= j
      BY <2>3, <3>2
    <3> HIDE DEF at
    <3>4. at \in 1..n /\ Before(key, s[x], t[at])
      BY <2>1, <3>3
    <3>5. ASSUME NEW i \in 1..n, i < at, Before(key, s[x], t[i]) PROVE FALSE
      <4>1. i \in behind
        BY <1>2, <3>5
      <4> HIDE DEF behind
      <4> QED
        BY <3>3, <3>4, <3>5, <4>1
    <3> QED
      BY <1>1, <3>4, <3>5
  <2> QED
    BY <2>2, <2>3
<1> HIDE DEF at
<1>6. /\ IsList(Q) /\ Len(Q) = n + 1 /\ Range(Q) = Range(P) \union {x}
  BY <1>5, WithList
<1>7. Range(Q) = 1..(k + 1)
  <2>1. 1..(k + 1) = 1..k \union {k + 1}
    OBVIOUS
  <2> QED
    BY <1>6, <2>1
<1>8. /\ at \in Int /\ 1 <= at /\ at <= n + 1
      /\ DOMAIN Q = 1..(n + 1)
      /\ \A i \in 1..(n + 1) : Q[i] = IF i < at THEN P[i] ELSE IF i = at THEN x ELSE P[i - 1]
  BY <1>1, <1>5 DEF With
<1> HIDE DEF Q
<1>9. InsertAt(t, at, s[x]) = Along(s, Q)
  <2>1. InsertAt(t, at, s[x]) =
          [i \in 1..(n + 1) |-> IF i < at THEN t[i] ELSE IF i = at THEN s[x] ELSE t[i - 1]]
    <3>1. at \in 1..(Len(t) + 1)
      BY <1>3, <1>5
    <3> DEFINE y == s[x]
    <3> HIDE DEF y
    <3>2. InsertAt(t, at, y) =
            [i \in 1..(Len(t) + 1) |-> IF i < at THEN t[i] ELSE IF i = at THEN y ELSE t[i - 1]]
      BY <1>3, <3>1, InsertedAt
    <3> QED
      BY <1>3, <3>2 DEF y
  <2>2. Along(s, Q) = [i \in 1..(n + 1) |-> s[Q[i]]]
    BY <1>6 DEF Along
  <2>3. ASSUME NEW i \in 1..(n + 1)
        PROVE  (IF i < at THEN t[i] ELSE IF i = at THEN s[x] ELSE t[i - 1]) = s[Q[i]]
    <3>1. CASE i < at
      <4>1. i \in 1..n
        BY <1>1, <1>8, <3>1
      <4> QED
        BY <1>2, <1>8, <3>1, <4>1
    <3>2. CASE i = at
      BY <1>8, <3>2
    <3>3. CASE ~(i < at) /\ i # at
      <4>1. i - 1 \in 1..n
        BY <1>1, <1>8, <3>3
      <4> QED
        BY <1>2, <1>8, <3>3, <4>1
    <3> QED
      BY <3>1, <3>2, <3>3
  <2> QED
    BY <2>1, <2>2, <2>3
<1>10. ASSUME WeakOrder(s, key), Follows(P, AfterSort(s, key)) PROVE Follows(Q, AfterSort(s, key))
  <2> SUFFICES ASSUME NEW a \in 1..(n + 1), NEW b \in 1..(n + 1), a < b
               PROVE  <<Q[a], Q[b]>> \in AfterSort(s, key)
    BY <1>8 DEF Follows
  <2> DEFINE R == AfterSort(s, key)
  <2>1. \A i, j \in 1..n : i < j => <<P[i], P[j]>> \in R
    BY <1>1, <1>10 DEF Follows
  <2>2. ASSUME NEW i \in 1..n, i < at PROVE <<P[i], x>> \in R
    <3>1. ~Before(key, s[x], s[P[i]]) /\ P[i] < x /\ P[i] \in DOMAIN s /\ x \in DOMAIN s
      BY <1>1, <1>2, <1>5, <2>2
    <3> HIDE DEF x
    <3> QED
      BY <3>1, IsAfter
  <2>3. ASSUME NEW i \in 1..n, at <= i PROVE <<x, P[i]>> \in R
    <3>1. at \in 1..n /\ at # n + 1
      BY <1>1, <1>8, <2>3
    <3>2. Before(key, s[x], s[P[at]]) /\ P[at] \in DOMAIN s /\ P[i] \in DOMAIN s /\ x \in DOMAIN s
      BY <1>1, <1>2, <1>5, <3>1
    <3> HIDE DEF x
    <3>3. Before(key, s[x], s[P[i]])
      <4>1. CASE i = at
        BY <3>2, <4>1
      <4>2. CASE at < i
        <5>1. <<P[at], P[i]>> \in R
          BY <2>1, <3>1, <4>2
        <5>2. Before(key, s[P[at]], s[P[i]]) \/ ~Before(key, s[P[i]], s[P[at]])
          BY <3>2, <5>1, IsAfter
        <5>3. ~Before(key, s[P[i]], s[P[at]])
          BY <1>10, <3>2, <5>2 DEF WeakOrder
        <5> QED
          BY <1>10, <3>2, <5>3 DEF WeakOrder
      <4> QED
        BY <2>3, <1>8, <4>1, <4>2
    <3> QED
      BY <3>2, <3>3, IsAfter
  <2> HIDE DEF R, x
  <2>4. CASE b < at
    <3>1. a \in 1..n /\ b \in 1..n /\ a < at
      BY <1>1, <1>8, <2>4
    <3> QED
      BY <1>8, <2>1, <2>4, <3>1 DEF R
  <2>5. CASE b = at
    <3>1. a \in 1..n /\ a < at
      BY <1>1, <1>8, <2>5
    <3> QED
      BY <1>8, <2>2, <2>5, <3>1 DEF R
  <2>6. CASE ~(b < at) /\ b # at /\ a < at
    <3>1. a \in 1..n /\ b - 1 \in 1..n /\ a < b - 1
      BY <1>1, <1>8, <2>6
    <3> QED
      BY <1>8, <2>1, <2>6, <3>1 DEF R
  <2>7. CASE a = at
    <3>1. b - 1 \in 1..n /\ at <= b - 1 /\ ~(b < at) /\ b # at
      BY <1>1, <1>8, <2>7
    <3> QED
      BY <1>8, <2>3, <2>7, <3>1 DEF R
  <2>8. CASE ~(a < at) /\ a # at
    <3>1. /\ a - 1 \in 1..n /\ b - 1 \in 1..n /\ a - 1 < b - 1
          /\ ~(b < at) /\ b # at
      BY <1>1, <1>8, <2>8
    <3> QED
      BY <1>8, <2>1, <2>8, <3>1 DEF R
  <2> QED
    BY <1>8, <2>4, <2>5, <2>6, <2>7, <2>8
<1> QED
  BY <1>4, <1>6, <1>7, <1>9, <1>10 DEF t

\* Sorting rearranges, and when there is an order it does so by it, stable.
LEMMA SortedAlong ==
  ASSUME NEW s, IsList(s), NEW key
  PROVE  \E Q : /\ IsList(Q) /\ Range(Q) = DOMAIN s
                /\ Sorted(s, key) = Along(s, Q)
                /\ WeakOrder(s, key) => Follows(Q, AfterSort(s, key))
<1> DEFINE n == Len(s)
           upTo == CHOOSE g : SortsUpTo(g, n, s, key)
           Fine(k) == \E Q : /\ IsList(Q) /\ Range(Q) = 1..k
                             /\ upTo[k] = Along(s, Q)
                             /\ WeakOrder(s, key) => Follows(Q, AfterSort(s, key))
           S == {k \in Nat : k \in 0..n => Fine(k)}
<1>1. n \in Nat /\ DOMAIN s = 1..n
  BY ListShape
<1>2. Sorted(s, key) = upTo[n]
  BY DEF Sorted, SortsUpTo
<1>3. SortsUpTo(upTo, n, s, key)
  BY <1>1, SortsExist
<1> HIDE DEF upTo
<1>4. \A j \in 0..n : upTo[j] = IF j = 0 THEN <<>> ELSE Inserted(upTo[j - 1], s[j], key)
  BY ONLY <1>3 DEF SortsUpTo
<1>5. 0 \in S
  <2>1. 0 \in 0..n
    BY <1>1
  <2>2. upTo[0] = <<>>
    BY <1>4, <2>1
  <2>3. Along(s, <<>>) = <<>>
    BY DEF Along
  <2>4. Follows(<<>>, AfterSort(s, key))
    BY DEF Follows
  <2>5. IsList(<<>>) /\ Range(<<>>) = 1..0
    BY SmallLists
  <2> HIDE DEF n
  <2> QED
    BY <2>2, <2>3, <2>4, <2>5
<1>6. ASSUME NEW k \in Nat, k \in S PROVE k + 1 \in S
  <2> SUFFICES ASSUME k + 1 \in 0..n PROVE Fine(k + 1)
    OBVIOUS
  <2>1. k \in 0..n /\ k + 1 # 0 /\ (k + 1) - 1 = k /\ k + 1 \in DOMAIN s
    BY <1>1
  <2>2. PICK P : /\ IsList(P) /\ Range(P) = 1..k
                 /\ upTo[k] = Along(s, P)
                 /\ WeakOrder(s, key) => Follows(P, AfterSort(s, key))
    BY <1>6, <2>1
  <2>3. upTo[k + 1] = Inserted(Along(s, P), s[k + 1], key)
    BY <1>4, <2>1, <2>2
  <2>4. \E Q : /\ IsList(Q) /\ Range(Q) = 1..(k + 1)
               /\ Inserted(Along(s, P), s[k + 1], key) = Along(s, Q)
               /\ WeakOrder(s, key) /\ Follows(P, AfterSort(s, key)) => Follows(Q, AfterSort(s, key))
    BY <2>1, <2>2, InsertAlong
  <2> QED
    BY <2>2, <2>3, <2>4
<1> HIDE DEF S
<1>7. n \in S
  BY <1>1, <1>5, <1>6, Induction
<1>8. Fine(n)
  BY <1>1, <1>7 DEF S
<1> QED
  BY <1>1, <1>2, <1>8

\* Values that Python has an order for, here numbers and nodes, as they are or
\* frozen; a frozen null comes last.
HasOrder(v) ==
  IF IsFrozen(v) THEN IsNull(v.frozen) \/ OrderOf(v.frozen) \in Int ELSE OrderOf(v) \in Int

LEMMA LessIsWeak ==
  ASSUME NEW u, NEW v, NEW w, HasOrder(u), HasOrder(v), HasOrder(w),
         Comparable(u, v), Comparable(u, w), Less(u, v)
  PROVE  ~Less(v, u) /\ (Less(u, w) \/ Less(w, v))
<1>1. CASE IsFrozen(u)
  <2>1. IsFrozen(v) /\ IsFrozen(w)
    BY <1>1 DEF Comparable
  <2>2. /\ Less(u, v) <=> ~IsNull(u.frozen) /\ (IsNull(v.frozen) \/ OrderOf(u.frozen) < OrderOf(v.frozen))
        /\ Less(v, u) <=> ~IsNull(v.frozen) /\ (IsNull(u.frozen) \/ OrderOf(v.frozen) < OrderOf(u.frozen))
        /\ Less(u, w) <=> ~IsNull(u.frozen) /\ (IsNull(w.frozen) \/ OrderOf(u.frozen) < OrderOf(w.frozen))
        /\ Less(w, v) <=> ~IsNull(w.frozen) /\ (IsNull(v.frozen) \/ OrderOf(w.frozen) < OrderOf(v.frozen))
    BY <1>1, <2>1 DEF Less
  <2>3. /\ IsNull(u.frozen) \/ OrderOf(u.frozen) \in Int
        /\ IsNull(v.frozen) \/ OrderOf(v.frozen) \in Int
        /\ IsNull(w.frozen) \/ OrderOf(w.frozen) \in Int
    BY <1>1, <2>1 DEF HasOrder
  <2> QED
    BY <2>2, <2>3
<1>2. CASE ~IsFrozen(u)
  <2>1. ~IsFrozen(v) /\ ~IsFrozen(w)
    BY <1>2 DEF Comparable, IsFrozen
  <2>2. /\ Less(u, v) <=> OrderOf(u) < OrderOf(v)
        /\ Less(v, u) <=> OrderOf(v) < OrderOf(u)
        /\ Less(u, w) <=> OrderOf(u) < OrderOf(w)
        /\ Less(w, v) <=> OrderOf(w) < OrderOf(v)
    BY <1>2, <2>1 DEF Less
  <2>3. OrderOf(u) \in Int /\ OrderOf(v) \in Int /\ OrderOf(w) \in Int
    BY <1>2, <2>1 DEF HasOrder
  <2> QED
    BY <2>2, <2>3
<1> QED
  BY <1>1, <1>2

\* What a pass needs: the values of its key that are not null have an order, and
\* are all frozen or all not.
CanSort(s, key) ==
  \A i, j \in DOMAIN s :
    LET v == KeyValue(key, s[i])
        w == KeyValue(key, s[j])
    IN  ~IsNull(v) /\ ~IsNull(w) => HasOrder(v) /\ HasOrder(w) /\ Comparable(v, w)

NoNulls(s, key) == \A i \in DOMAIN s : ~IsNull(KeyValue(key, s[i]))

LEMMA SortsWeakly ==
  ASSUME NEW s, NEW key, CanSort(s, key), NoNulls(s, key)
  PROVE  WeakOrder(s, key)
<1> SUFFICES ASSUME NEW i \in DOMAIN s, NEW j \in DOMAIN s, NEW l \in DOMAIN s, Before(key, s[i], s[j])
             PROVE  /\ ~Before(key, s[j], s[i])
                    /\ Before(key, s[i], s[l]) \/ Before(key, s[l], s[j])
  BY DEF WeakOrder
<1> DEFINE u == KeyValue(key, s[i])
           v == KeyValue(key, s[j])
           w == KeyValue(key, s[l])
<1>1. /\ HasOrder(u) /\ HasOrder(v) /\ HasOrder(w)
      /\ Comparable(u, v) /\ Comparable(u, w) /\ Comparable(v, u) /\ Comparable(v, w)
  BY DEF CanSort, NoNulls
<1>2. /\ Before(key, s[i], s[j]) <=> IF key.desc THEN Less(v, u) ELSE Less(u, v)
      /\ Before(key, s[j], s[i]) <=> IF key.desc THEN Less(u, v) ELSE Less(v, u)
      /\ Before(key, s[i], s[l]) <=> IF key.desc THEN Less(w, u) ELSE Less(u, w)
      /\ Before(key, s[l], s[j]) <=> IF key.desc THEN Less(v, w) ELSE Less(w, v)
  BY DEF Before
<1> HIDE DEF u, v, w
<1>3. CASE key.desc
  <2>1. Less(v, u)
    BY <1>2, <1>3
  <2>2. ~Less(u, v) /\ (Less(v, w) \/ Less(w, u))
    BY <1>1, <2>1, LessIsWeak
  <2> QED
    BY <1>2, <1>3, <2>2
<1>4. CASE ~key.desc
  <2>1. Less(u, v)
    BY <1>2, <1>4
  <2>2. ~Less(v, u) /\ (Less(u, w) \/ Less(w, v))
    BY <1>1, <2>1, LessIsWeak
  <2> QED
    BY <1>2, <1>4, <2>2
<1> QED
  BY <1>3, <1>4

\* What is before what after a pass with nulls.
AfterPass(s, key) ==
  {pair \in (DOMAIN s) \X (DOMAIN s) :
     \/ Precedes(key, s[pair[1]], s[pair[2]])
     \/ ~Precedes(key, s[pair[2]], s[pair[1]]) /\ pair[1] < pair[2]}

LEMMA IsAfterPass ==
  ASSUME NEW s, NEW key, NEW i \in DOMAIN s, NEW j \in DOMAIN s
  PROVE  <<i, j>> \in AfterPass(s, key) <=>
           Precedes(key, s[i], s[j]) \/ (~Precedes(key, s[j], s[i]) /\ i < j)
<1> DEFINE pair == <<i, j>>
<1>1. pair \in (DOMAIN s) \X (DOMAIN s) /\ pair[1] = i /\ pair[2] = j
  OBVIOUS
<1> HIDE DEF pair
<1>2. pair \in AfterPass(s, key) <=> Precedes(key, s[i], s[j]) \/ (~Precedes(key, s[j], s[i]) /\ i < j)
  BY <1>1 DEF AfterPass
<1> QED
  BY <1>2 DEF pair

\* The elements at the indices of a set, in order, and what is told of them.
LEMMA AlongSet ==
  ASSUME NEW s, IsList(s), NEW D \in SUBSET DOMAIN s
  PROVE  /\ IsList(InOrder(D)) /\ Increasing(InOrder(D)) /\ Range(InOrder(D)) = D
         /\ IsList(Along(s, InOrder(D))) /\ DOMAIN Along(s, InOrder(D)) = DOMAIN InOrder(D)
         /\ \A m \in DOMAIN InOrder(D) : InOrder(D)[m] \in D /\ Along(s, InOrder(D))[m] = s[InOrder(D)[m]]
<1> DEFINE d == InOrder(D)
           t == Along(s, d)
<1>1. Len(s) \in Nat /\ DOMAIN s = 1..Len(s)
  BY ListShape
<1>2. Numbered(D)
  BY <1>1 DEF Numbered
<1>3. IsList(d) /\ Increasing(d) /\ Range(d) = D
  BY <1>2, InOrderEnumerates
<1> HIDE DEF d
<1>4. Len(d) \in Nat /\ DOMAIN d = 1..Len(d) /\ \A m \in 1..Len(d) : d[m] \in D
  BY <1>3, ListShape
<1>5. t = [m \in 1..Len(d) |-> t[m]] /\ \A m \in 1..Len(d) : t[m] = s[d[m]]
  BY DEF Along
<1> HIDE DEF t
<1>6. IsList(t)
  BY <1>4, <1>5, FunctionIsList
<1> QED
  BY <1>3, <1>4, <1>5, <1>6 DEF t, d

LEMMA PassedAlong ==
  ASSUME NEW s, IsList(s), NEW key
  PROVE  \E Q : /\ IsList(Q) /\ Range(Q) = DOMAIN s
                /\ Passed(s, key) = Along(s, Q)
                /\ CanSort(s, key) => Follows(Q, AfterPass(s, key))
<1> DEFINE NoKey(i) == IsNull(KeyValue(key, s[i]))
           N == {i \in DOMAIN s : NoKey(i)}
           M == {i \in DOMAIN s : ~NoKey(i)}
           nulls == Select(s, LAMBDA p : IsNull(KeyValue(key, p)))
           rest  == Select(s, LAMBDA p : ~IsNull(KeyValue(key, p)))
           e == InOrder(N)
           d == InOrder(M)
<1>1. Passed(s, key) = IF NullsFirst(key) THEN nulls \o Sorted(rest, key) ELSE Sorted(rest, key) \o nulls
  BY DEF Passed
<1>2. N \in SUBSET DOMAIN s /\ M \in SUBSET DOMAIN s /\ N \union M = DOMAIN s
  OBVIOUS
<1>3. nulls = Along(s, e)
  <2> DEFINE lists == [i \in DOMAIN s |-> IF i \in N THEN <<s[i]>> ELSE <<>>]
  <2>1. lists = [i \in DOMAIN s |-> IF IsNull(KeyValue(key, s[i])) THEN <<s[i]>> ELSE <<>>]
    OBVIOUS
  <2>2. nulls = FlattenSeq(lists)
    BY <2>1 DEF Select, FlatMap
  <2> HIDE DEF N, nulls
  <2> QED
    BY <1>2, <2>2, SelectedInOrder
<1>4. rest = Along(s, d)
  <2> DEFINE lists == [i \in DOMAIN s |-> IF i \in M THEN <<s[i]>> ELSE <<>>]
  <2>1. lists = [i \in DOMAIN s |-> IF ~IsNull(KeyValue(key, s[i])) THEN <<s[i]>> ELSE <<>>]
    OBVIOUS
  <2>2. rest = FlattenSeq(lists)
    BY <2>1 DEF Select, FlatMap
  <2> HIDE DEF M, rest
  <2> QED
    BY <1>2, <2>2, SelectedInOrder
<1>5. /\ \A i \in N : NoKey(i)
      /\ \A i \in M : ~NoKey(i)
  OBVIOUS
<1> HIDE DEF N, M, nulls, rest
<1>6. IsList(e) /\ Increasing(e) /\ Range(e) = N
  BY <1>2, AlongSet
<1>7. /\ IsList(d) /\ Increasing(d) /\ Range(d) = M
      /\ IsList(rest) /\ DOMAIN rest = DOMAIN d
      /\ \A m \in DOMAIN d : d[m] \in M /\ rest[m] = s[d[m]]
  BY <1>2, <1>4, AlongSet
<1> HIDE DEF d, e
<1>8. PICK Q0 : /\ IsList(Q0) /\ Range(Q0) = DOMAIN rest
                /\ Sorted(rest, key) = Along(rest, Q0)
                /\ WeakOrder(rest, key) => Follows(Q0, AfterSort(rest, key))
  BY <1>7, SortedAlong
<1> DEFINE f == Along(d, Q0)
<1>9. /\ IsList(f) /\ Range(f) = M /\ DOMAIN f = DOMAIN Q0
      /\ \A a \in DOMAIN Q0 : f[a] = d[Q0[a]] /\ Q0[a] \in DOMAIN d
  BY <1>7, <1>8, AlongRange
<1>10. Sorted(rest, key) = Along(s, f)
  <2>1. Along(Along(s, d), Q0) = Along(s, Along(d, Q0))
    BY <1>7, <1>8, AlongAlong
  <2> QED
    BY <1>4, <1>8, <2>1
<1> HIDE DEF f
<1>11. ASSUME CanSort(s, key)
       PROVE  Follows(e, AfterPass(s, key)) /\ Follows(f, AfterPass(s, key))
  <2>1. ASSUME NEW a \in DOMAIN e, NEW b \in DOMAIN e, a < b
        PROVE  <<e[a], e[b]>> \in AfterPass(s, key)
    <3>1. e[a] \in N /\ e[b] \in N /\ e[a] < e[b]
      BY <1>6, <2>1 DEF Increasing, Range
    <3>2. ~Precedes(key, s[e[b]], s[e[a]])
      <4>1. NoKey(e[a]) /\ NoKey(e[b])
        BY <1>5, <3>1
      <4> QED
        BY <4>1 DEF Precedes, IsNull
    <3> QED
      BY <1>2, <3>1, <3>2, IsAfterPass
  <2>2. ASSUME NEW a \in DOMAIN f, NEW b \in DOMAIN f, a < b
        PROVE  <<f[a], f[b]>> \in AfterPass(s, key)
    <3> DEFINE x == Q0[a]
               y == Q0[b]
    <3>1. /\ x \in DOMAIN d /\ y \in DOMAIN d /\ f[a] = d[x] /\ f[b] = d[y]
          /\ rest[x] = s[d[x]] /\ rest[y] = s[d[y]] /\ d[x] \in M /\ d[y] \in M
          /\ x \in DOMAIN rest /\ y \in DOMAIN rest
      BY <1>7, <1>9
    <3>2. CanSort(rest, key) /\ NoNulls(rest, key)
      <4>1. \A m \in DOMAIN rest : rest[m] = s[d[m]] /\ d[m] \in DOMAIN s /\ ~NoKey(d[m])
        BY <1>2, <1>5, <1>7
      <4> QED
        BY <1>11, <4>1 DEF CanSort, NoNulls
    <3>3. <<x, y>> \in AfterSort(rest, key)
      BY <1>8, <1>9, <2>2, <3>2, SortsWeakly DEF Follows
    <3> HIDE DEF x, y
    <3>4. Before(key, rest[x], rest[y]) \/ (~Before(key, rest[y], rest[x]) /\ x < y)
      BY <3>1, <3>3, IsAfter
    <3>5. ~NoKey(d[x]) /\ ~NoKey(d[y])
      BY <1>5, <3>1
    <3>6. /\ Before(key, rest[x], rest[y]) <=> Precedes(key, s[d[x]], s[d[y]])
          /\ Before(key, rest[y], rest[x]) <=> Precedes(key, s[d[y]], s[d[x]])
      BY <3>1, <3>5 DEF Precedes, Before
    <3>7. x < y => d[x] < d[y]
      BY <1>7, <3>1 DEF Increasing
    <3>8. d[x] \in DOMAIN s /\ d[y] \in DOMAIN s
      BY <1>2, <3>1
    <3> QED
      BY <3>1, <3>4, <3>6, <3>7, <3>8, IsAfterPass
  <2> QED
    BY <2>1, <2>2 DEF Follows
<1>12. CASE NullsFirst(key)
  <2>1. Passed(s, key) = Along(s, e \o f)
    <3>1. Passed(s, key) = Along(s, e) \o Along(s, f)
      BY <1>1, <1>3, <1>10, <1>12
    <3>2. Along(s, e \o f) = Along(s, e) \o Along(s, f)
      BY <1>6, <1>9, AlongJoin
    <3> QED
      BY <3>1, <3>2
  <2>2. IsList(e \o f) /\ Range(e \o f) = DOMAIN s
    <3>1. IsList(e \o f) /\ Range(e \o f) = Range(e) \union Range(f)
      BY <1>6, <1>9, ConcatList
    <3> QED
      BY <1>2, <1>6, <1>9, <3>1
  <2>3. ASSUME CanSort(s, key) PROVE Follows(e \o f, AfterPass(s, key))
    <3>1. ASSUME NEW i \in N, NEW j \in M PROVE <<i, j>> \in AfterPass(s, key)
      <4>1. NoKey(i) /\ ~NoKey(j) /\ i \in DOMAIN s /\ j \in DOMAIN s
        BY <1>2, <1>5
      <4>2. Precedes(key, s[i], s[j])
        BY <1>12, <4>1 DEF Precedes, IsNull
      <4> QED
        BY <4>1, <4>2, IsAfterPass
    <3> QED
      BY <1>6, <1>9, <1>11, <2>3, <3>1, JoinFollows
  <2> QED
    BY <2>1, <2>2, <2>3
<1>13. CASE ~NullsFirst(key)
  <2>1. Passed(s, key) = Along(s, f \o e)
    <3>1. Passed(s, key) = Along(s, f) \o Along(s, e)
      BY <1>1, <1>3, <1>10, <1>13
    <3>2. Along(s, f \o e) = Along(s, f) \o Along(s, e)
      BY <1>6, <1>9, AlongJoin
    <3> QED
      BY <3>1, <3>2
  <2>2. IsList(f \o e) /\ Range(f \o e) = DOMAIN s
    <3>1. IsList(f \o e) /\ Range(f \o e) = Range(f) \union Range(e)
      BY <1>6, <1>9, ConcatList
    <3> QED
      BY <1>2, <1>6, <1>9, <3>1
  <2>3. ASSUME CanSort(s, key) PROVE Follows(f \o e, AfterPass(s, key))
    <3>1. ASSUME NEW i \in M, NEW j \in N PROVE <<i, j>> \in AfterPass(s, key)
      <4>1. ~NoKey(i) /\ NoKey(j) /\ i \in DOMAIN s /\ j \in DOMAIN s
        BY <1>2, <1>5
      <4>2. Precedes(key, s[i], s[j])
        BY <1>13, <4>1 DEF Precedes, IsNull
      <4> QED
        BY <4>1, <4>2, IsAfterPass
    <3> QED
      BY <1>6, <1>9, <1>11, <2>3, <3>1, JoinFollows
  <2> QED
    BY <2>1, <2>2, <2>3
<1> QED
  BY <1>12, <1>13

------------------------------------------------------------------------------
LEMMA PrecedesOneWay ==
  ASSUME NEW s, NEW key, CanSort(s, key), NEW i \in DOMAIN s, NEW j \in DOMAIN s,
         Precedes(key, s[i], s[j])
  PROVE  ~Precedes(key, s[j], s[i])
<1> DEFINE v == KeyValue(key, s[i])
           w == KeyValue(key, s[j])
<1>1. /\ Precedes(key, s[i], s[j]) <=>
           IF IsNull(v) \/ IsNull(w) THEN IsNull(v) # IsNull(w) /\ (IsNull(v) <=> NullsFirst(key))
           ELSE IF key.desc THEN Less(w, v) ELSE Less(v, w)
      /\ Precedes(key, s[j], s[i]) <=>
           IF IsNull(w) \/ IsNull(v) THEN IsNull(w) # IsNull(v) /\ (IsNull(w) <=> NullsFirst(key))
           ELSE IF key.desc THEN Less(v, w) ELSE Less(w, v)
  BY DEF Precedes
<1>2. ~IsNull(v) /\ ~IsNull(w) => HasOrder(v) /\ HasOrder(w) /\ Comparable(v, w) /\ Comparable(w, v)
  BY DEF CanSort
<1> HIDE DEF v, w
<1>3. CASE IsNull(v) \/ IsNull(w)
  BY <1>1, <1>3 DEF IsNull
<1>4. CASE ~IsNull(v) /\ ~IsNull(w)
  <2>1. Less(v, w) => ~Less(w, v)
    BY <1>2, <1>4, LessIsWeak
  <2> QED
    BY <1>1, <1>4, <2>1
<1> QED
  BY <1>3, <1>4

\* ComesFirst of the keys behind the first r, and what is before what by them.
FirstByLast(order, r, p, q) ==
  \E k \in DOMAIN order :
    /\ r < k
    /\ Precedes(order[k], p, q)
    /\ \A l \in (r + 1)..(k - 1) : ~Precedes(order[l], q, p)

AfterKeys(s, order, r) ==
  {pair \in (DOMAIN s) \X (DOMAIN s) :
     \/ FirstByLast(order, r, s[pair[1]], s[pair[2]])
     \/ ~FirstByLast(order, r, s[pair[2]], s[pair[1]]) /\ pair[1] < pair[2]}

LEMMA IsAfterKeys ==
  ASSUME NEW s, NEW order, NEW r, NEW i \in DOMAIN s, NEW j \in DOMAIN s
  PROVE  <<i, j>> \in AfterKeys(s, order, r) <=>
           \/ FirstByLast(order, r, s[i], s[j])
           \/ ~FirstByLast(order, r, s[j], s[i]) /\ i < j
<1> DEFINE pair == <<i, j>>
<1>1. pair \in (DOMAIN s) \X (DOMAIN s) /\ pair[1] = i /\ pair[2] = j
  OBVIOUS
<1> HIDE DEF pair
<1>2. pair \in AfterKeys(s, order, r) <=>
        FirstByLast(order, r, s[i], s[j]) \/ (~FirstByLast(order, r, s[j], s[i]) /\ i < j)
  BY <1>1 DEF AfterKeys
<1> QED
  BY <1>2 DEF pair

\* One key more.
LEMMA OneMoreKey ==
  ASSUME NEW order, IsList(order), NEW r \in DOMAIN order, NEW p, NEW q
  PROVE  /\ Precedes(order[r], p, q) => FirstByLast(order, r - 1, p, q)
         /\ FirstByLast(order, r, p, q) /\ ~Precedes(order[r], q, p) => FirstByLast(order, r - 1, p, q)
         /\ FirstByLast(order, r - 1, p, q) => Precedes(order[r], p, q) \/ FirstByLast(order, r, p, q)
<1>1. DOMAIN order = 1..Len(order) /\ Len(order) \in Nat
  BY ListShape
<1>2. ASSUME Precedes(order[r], p, q) PROVE FirstByLast(order, r - 1, p, q)
  <2>1. r - 1 < r /\ \A l \in ((r - 1) + 1)..(r - 1) : FALSE
    BY <1>1
  <2> QED
    BY <1>2, <2>1 DEF FirstByLast
<1>3. ASSUME FirstByLast(order, r, p, q), ~Precedes(order[r], q, p) PROVE FirstByLast(order, r - 1, p, q)
  <2>1. PICK k \in DOMAIN order : /\ r < k /\ Precedes(order[k], p, q)
                                  /\ \A l \in (r + 1)..(k - 1) : ~Precedes(order[l], q, p)
    BY <1>3 DEF FirstByLast
  <2>2. r - 1 < k /\ \A l \in ((r - 1) + 1)..(k - 1) : l = r \/ l \in (r + 1)..(k - 1)
    BY <1>1, <2>1
  <2>3. \A l \in ((r - 1) + 1)..(k - 1) : ~Precedes(order[l], q, p)
    BY <1>3, <2>1, <2>2
  <2> QED
    BY <2>1, <2>2, <2>3 DEF FirstByLast
<1>4. ASSUME FirstByLast(order, r - 1, p, q), ~Precedes(order[r], p, q) PROVE FirstByLast(order, r, p, q)
  <2>1. PICK k \in DOMAIN order : /\ r - 1 < k /\ Precedes(order[k], p, q)
                                  /\ \A l \in ((r - 1) + 1)..(k - 1) : ~Precedes(order[l], q, p)
    BY <1>4 DEF FirstByLast
  <2>2. r < k
    BY <1>1, <1>4, <2>1
  <2>3. \A l \in (r + 1)..(k - 1) : l \in ((r - 1) + 1)..(k - 1)
    BY <1>1, <2>1
  <2> QED
    BY <2>1, <2>2, <2>3 DEF FirstByLast
<1> QED
  BY <1>2, <1>3, <1>4

LEMMA FirstOneWay ==
  ASSUME NEW s, NEW order, IsList(order), NEW r \in Nat,
         \A k \in DOMAIN order : r < k => CanSort(s, order[k]),
         NEW i \in DOMAIN s, NEW j \in DOMAIN s, FirstByLast(order, r, s[i], s[j])
  PROVE  ~FirstByLast(order, r, s[j], s[i])
<1> SUFFICES ASSUME FirstByLast(order, r, s[j], s[i]) PROVE FALSE
  OBVIOUS
<1>1. DOMAIN order = 1..Len(order) /\ Len(order) \in Nat
  BY ListShape
<1>2. PICK k \in DOMAIN order : /\ r < k /\ Precedes(order[k], s[i], s[j])
                                /\ \A l \in (r + 1)..(k - 1) : ~Precedes(order[l], s[j], s[i])
  BY DEF FirstByLast
<1>3. PICK m \in DOMAIN order : /\ r < m /\ Precedes(order[m], s[j], s[i])
                                /\ \A l \in (r + 1)..(m - 1) : ~Precedes(order[l], s[i], s[j])
  BY DEF FirstByLast
<1>4. ~(k < m)
  <2>1. k < m => k \in (r + 1)..(m - 1)
    BY <1>1, <1>2
  <2> QED
    BY <1>2, <1>3, <2>1
<1>5. ~(m < k)
  <2>1. m < k => m \in (r + 1)..(k - 1)
    BY <1>1, <1>3
  <2> QED
    BY <1>2, <1>3, <2>1
<1>6. k = m
  BY <1>1, <1>4, <1>5
<1> QED
  BY <1>2, <1>3, <1>6, PrecedesOneWay

\* A pass by key r after passes by the keys behind it.
LEMMA PassAfterKeys ==
  ASSUME NEW s, NEW order, IsList(order), NEW r \in DOMAIN order,
         NEW P, IsList(P), Range(P) = DOMAIN s, Follows(P, AfterKeys(s, order, r)),
         NEW Q, IsList(Q), Range(Q) = DOMAIN P, Follows(Q, AfterPass(Along(s, P), order[r]))
  PROVE  Follows(Along(P, Q), AfterKeys(s, order, r - 1))
<1> DEFINE t == Along(s, P)
           f == Along(P, Q)
<1>1. /\ DOMAIN f = DOMAIN Q
      /\ \A a \in DOMAIN Q : Q[a] \in DOMAIN P /\ f[a] = P[Q[a]]
  BY AlongRange
<1>2. Len(P) \in Nat /\ DOMAIN P = 1..Len(P) /\ \A m \in DOMAIN P : P[m] \in DOMAIN s
  BY ListShape
<1>3. DOMAIN t = DOMAIN P /\ \A m \in DOMAIN P : t[m] = s[P[m]]
  BY <1>2 DEF Along
<1> HIDE DEF t, f
<1> SUFFICES ASSUME NEW a \in DOMAIN f, NEW b \in DOMAIN f, a < b
             PROVE  <<f[a], f[b]>> \in AfterKeys(s, order, r - 1)
  BY DEF Follows, f
<1> DEFINE x == Q[a]
           y == Q[b]
           i == P[x]
           j == P[y]
<1>4. /\ x \in DOMAIN P /\ y \in DOMAIN P /\ f[a] = i /\ f[b] = j
      /\ i \in DOMAIN s /\ j \in DOMAIN s /\ t[x] = s[i] /\ t[y] = s[j]
      /\ x \in DOMAIN t /\ y \in DOMAIN t
  BY <1>1, <1>2, <1>3
<1>5. <<x, y>> \in AfterPass(t, order[r])
  BY <1>1 DEF Follows, t
<1>6. Precedes(order[r], t[x], t[y]) \/ (~Precedes(order[r], t[y], t[x]) /\ x < y)
  BY <1>4, <1>5, IsAfterPass
<1>7. x < y => <<i, j>> \in AfterKeys(s, order, r)
  BY <1>4 DEF Follows
<1> HIDE DEF x, y, i, j
<1>8. CASE Precedes(order[r], s[i], s[j])
  <2>1. FirstByLast(order, r - 1, s[i], s[j])
    BY <1>8, OneMoreKey
  <2> QED
    BY <1>4, <2>1, IsAfterKeys
<1>9. CASE ~Precedes(order[r], s[j], s[i]) /\ x < y
  <2>1. FirstByLast(order, r, s[i], s[j]) \/ (~FirstByLast(order, r, s[j], s[i]) /\ i < j)
    BY <1>4, <1>7, <1>9, IsAfterKeys
  <2>2. FirstByLast(order, r, s[i], s[j]) => FirstByLast(order, r - 1, s[i], s[j])
    BY <1>9, OneMoreKey
  <2>3. ~FirstByLast(order, r, s[j], s[i]) => ~FirstByLast(order, r - 1, s[j], s[i])
    BY <1>9, OneMoreKey
  <2> QED
    BY <1>4, <2>1, <2>2, <2>3, IsAfterKeys
<1> QED
  BY <1>4, <1>6, <1>8, <1>9

\* A list that follows a relation is arranged by what is before what.
LEMMA FollowsArranged ==
  ASSUME NEW s, IsList(s), NEW P, IsList(P), Range(P) = DOMAIN s, NEW rel, Follows(P, rel),
         \A i, j \in DOMAIN s : <<i, j>> \in rel => <<j, i>> \notin rel,
         NEW ahead, \A i \in DOMAIN s : ahead[i] = {j \in DOMAIN s : <<j, i>> \in rel}
  PROVE  Along(s, P) = Arranged(s, ahead)
<1> DEFINE n == Len(P)
           D == DOMAIN s
<1>1. /\ n \in Nat /\ DOMAIN P = 1..n /\ Len(s) \in Nat /\ D = 1..Len(s)
      /\ \A a \in 1..n : P[a] \in D
      /\ \A i \in D : \E a \in 1..n : P[a] = i
  BY ListShape
<1>2. \A a, b \in 1..n : a < b => <<P[a], P[b]>> \in rel /\ <<P[b], P[a]>> \notin rel
  BY <1>1 DEF Follows
<1>3. \A a \in 1..n : <<P[a], P[a]>> \notin rel
  BY <1>1
<1>4. \A a, b \in 1..n : P[a] = P[b] => a = b
  <2> SUFFICES ASSUME NEW a \in 1..n, NEW b \in 1..n, P[a] = P[b], a < b PROVE FALSE
    BY <1>1
  <2> QED
    BY <1>2
<1>5. P = [a \in 1..n |-> P[a]]
  BY <1>1 DEF IsList
<1>6. n = Len(s)
  <2> HIDE DEF n, D
  <2>1. P \in [1..n -> D]
    BY <1>1, <1>5
  <2>2. P \in Injection(1..n, D)
    BY <1>4, <2>1 DEF Injection, IsInjective
  <2>3. P \in Surjection(1..n, D)
    BY <1>1, <2>1 DEF Surjection
  <2>4. ExistsBijection(1..n, D)
    BY <2>2, <2>3 DEF Bijection, ExistsBijection
  <2>5. IsFiniteSet(1..n) /\ Cardinality(1..n) = n
    <3>1. 1 \in Int /\ n \in Int /\ (IF 1 > n THEN 0 ELSE n - 1 + 1) = n
      BY <1>1
    <3> QED
      BY <3>1, FS_Interval
  <2>6. Cardinality(D) = Len(s)
    <3> DEFINE m == Len(s)
    <3> HIDE DEF m
    <3>1. 1 \in Int /\ m \in Int /\ (IF 1 > m THEN 0 ELSE m - 1 + 1) = m
      BY <1>1 DEF m
    <3>2. Cardinality(1..m) = m
      BY <3>1, FS_Interval
    <3> QED
      BY <1>1, <3>2 DEF m
  <2> QED
    BY <2>4, <2>5, <2>6, FS_Bijection
<1>7. ASSUME NEW a \in 1..n PROVE Cardinality(ahead[P[a]]) = a - 1
  <2> DEFINE g == [b \in 1..(a - 1) |-> P[b]]
             A == ahead[P[a]]
  <2>1. A = {j \in D : <<j, P[a]>> \in rel}
    BY <1>1
  <2>2. \A b \in 1..(a - 1) : b \in 1..n /\ b < a
    BY <1>1
  <2>3. \A b \in 1..(a - 1) : P[b] \in A
    BY <1>1, <1>2, <2>1, <2>2
  <2>4. ASSUME NEW j \in A PROVE \E b \in 1..(a - 1) : P[b] = j
    <3>1. PICK b \in 1..n : P[b] = j
      BY <1>1, <2>1
    <3>2. <<P[b], P[a]>> \in rel
      BY <2>1, <3>1
    <3>3. ~(a < b) /\ a # b
      BY <1>2, <1>3, <3>2
    <3>4. b \in 1..(a - 1)
      BY <1>1, <3>3
    <3> QED
      BY <3>1, <3>4
  <2> HIDE DEF A
  <2>5. g \in [1..(a - 1) -> A]
    BY <2>3
  <2>6. g \in Injection(1..(a - 1), A)
    BY <1>4, <2>2, <2>5 DEF Injection, IsInjective
  <2>7. g \in Surjection(1..(a - 1), A)
    BY <2>4, <2>5 DEF Surjection
  <2> HIDE DEF g
  <2>8. ExistsBijection(1..(a - 1), A)
    BY <2>6, <2>7 DEF Bijection, ExistsBijection
  <2>9. IsFiniteSet(1..(a - 1)) /\ Cardinality(1..(a - 1)) = a - 1
    <3>1. 1 \in Int /\ a - 1 \in Int /\ (IF 1 > a - 1 THEN 0 ELSE (a - 1) - 1 + 1) = a - 1
      BY <1>1
    <3> QED
      BY <3>1, FS_Interval
  <2> QED
    BY <2>8, <2>9, FS_Bijection DEF A
<1>8. ASSUME NEW a \in 1..n PROVE (CHOOSE i \in D : Cardinality(ahead[i]) = a - 1) = P[a]
  <2>1. P[a] \in D /\ Cardinality(ahead[P[a]]) = a - 1
    BY <1>1, <1>7
  <2>2. ASSUME NEW i \in D, Cardinality(ahead[i]) = a - 1 PROVE i = P[a]
    <3>1. PICK b \in 1..n : P[b] = i
      BY <1>1
    <3>2. b - 1 = a - 1
      BY <1>7, <2>2, <3>1
    <3>3. a = b
      BY <1>1, <3>2
    <3> QED
      BY <3>1, <3>3
  <2> HIDE DEF D, n
  <2> QED
    BY <2>1, <2>2
<1>9. Along(s, P) = [a \in 1..n |-> s[P[a]]]
  BY DEF Along
<1>10. Arranged(s, ahead) = [a \in 1..n |-> s[CHOOSE i \in D : Cardinality(ahead[i]) = a - 1]]
  BY <1>1, <1>6 DEF Arranged
<1> HIDE DEF D, n
<1> QED
  BY <1>8, <1>9, <1>10

\* What ORDER BY starts from, as the stages before it leave it.
Begun ==
  IF ~Aggregates(clause) THEN Along(Made(clause, rows), InOrder(Chosen(clause, rows)))
  ELSE LET made == GroupedRows(clause.items, rows)
       IN  IF clause.distinct THEN Uniq(made, Kinds(made)) ELSE made

LEMMA BegunList ==
  ASSUME IsList(rows)
  PROVE  IsList(Begun)
<1>1. CASE ~Aggregates(clause)
  <2>1. /\ IsList(Made(clause, rows)) /\ DOMAIN Made(clause, rows) = DOMAIN rows
        /\ Chosen(clause, rows) \in SUBSET DOMAIN rows
    BY MadeList
  <2>2. IsList(Along(Made(clause, rows), InOrder(Chosen(clause, rows))))
    BY <2>1, AlongSet
  <2> QED
    BY <1>1, <2>2 DEF Begun
<1>2. CASE Aggregates(clause)
  <2> DEFINE groups == GroupsOf(clause.items, rows)
             made == GroupedRows(clause.items, rows)
  <2>1. IsList(groups)
    BY GroupsList
  <2>2. made = [g \in DOMAIN groups |-> made[g]]
    BY DEF GroupedRows
  <2> HIDE DEF groups, made
  <2>3. IsList(made)
    BY <2>1, <2>2, MappedList
  <2>4. IsList(Uniq(made, Kinds(made)))
    BY <2>3, UniqList
  <2> QED
    BY <1>2, <2>3, <2>4 DEF Begun, made
<1> QED
  BY <1>1, <1>2

LEMMA BegunUnordered ==
  ASSUME IsList(rows), Aggregates(clause) \/ KindsTellApart
  PROVE  Begun = Unordered(clause, rows)
<1>1. CASE ~Aggregates(clause)
  BY <1>1, ChosenRows DEF Begun, Unordered
<1>2. CASE Aggregates(clause)
  BY <1>2 DEF Begun, Unordered, GroupedRows
<1> QED
  BY <1>1, <1>2

\* The values of the keys have an order in Python.
Orderable(s, order) ==
  \A i \in DOMAIN s, k \in DOMAIN order :
    LET v == KeyValue(order[k], s[i]) IN ~IsNull(v) => HasOrder(v)

\* What the passes have made of s, with the first r keys still to come.
OrderedBehind(s, order, r, t) ==
  \E P : /\ IsList(P) /\ Range(P) = DOMAIN s /\ t = Along(s, P)
         /\ Orderable(s, order) =>
              /\ Follows(P, AfterKeys(s, order, r))
              /\ \A k \in DOMAIN order : r < k => CanSort(s, order[k])

OInv ==
  /\ phase = "distinct" /\ Aggregates(clause) => pairs = Begun
  /\ phase = "order" =>
       /\ keys = [k \in 1..Len(keys) |-> clause.order[Len(keys) + 1 - k]]
       /\ OrderedBehind(Begun, clause.order, Len(keys), pairs)

LEMMA NothingOrdered ==
  ASSUME NEW s, IsList(s), NEW order, IsList(order)
  PROVE  OrderedBehind(s, order, Len(order), s)
<1> DEFINE P == InOrder(DOMAIN s)
           n == Len(order)
<1>1. /\ IsList(P) /\ Increasing(P) /\ Range(P) = DOMAIN s
      /\ \A m \in DOMAIN P : P[m] \in DOMAIN s
  BY AlongSet
<1>2. s = Along(s, P)
  BY WhollyInOrder
<1> HIDE DEF P
<1>3. n \in Nat /\ DOMAIN order = 1..n
  BY ListShape
<1>4. \A k \in DOMAIN order : ~(n < k)
  BY <1>3
<1>5. Follows(P, AfterKeys(s, order, n))
  <2> SUFFICES ASSUME NEW a \in DOMAIN P, NEW b \in DOMAIN P, a < b
               PROVE  <<P[a], P[b]>> \in AfterKeys(s, order, n)
    BY DEF Follows
  <2>1. P[a] \in DOMAIN s /\ P[b] \in DOMAIN s /\ P[a] < P[b]
    BY <1>1 DEF Increasing
  <2> HIDE DEF n
  <2>2. ~FirstByLast(order, n, s[P[b]], s[P[a]])
    BY <1>4 DEF FirstByLast
  <2> QED
    BY <2>1, <2>2, IsAfterKeys
<1> QED
  BY <1>1, <1>2, <1>4, <1>5 DEF OrderedBehind

LEMMA OnePassMore ==
  ASSUME NEW s, IsList(s), NEW order, IsList(order), NEW r \in DOMAIN order,
         NEW t, OrderedBehind(s, order, r, t),
         \A i, j \in DOMAIN t :
           LET v == KeyValue(order[r], t[i])
               w == KeyValue(order[r], t[j])
           IN  ~IsNull(v) /\ ~IsNull(w) => Comparable(v, w)
  PROVE  OrderedBehind(s, order, r - 1, Passed(t, order[r]))
<1>1. PICK P : /\ IsList(P) /\ Range(P) = DOMAIN s /\ t = Along(s, P)
               /\ Orderable(s, order) =>
                    /\ Follows(P, AfterKeys(s, order, r))
                    /\ \A k \in DOMAIN order : r < k => CanSort(s, order[k])
  BY DEF OrderedBehind
<1>2. /\ Len(P) \in Nat /\ DOMAIN P = 1..Len(P) /\ \A m \in DOMAIN P : P[m] \in DOMAIN s
      /\ \A i \in DOMAIN s : \E m \in DOMAIN P : P[m] = i
      /\ DOMAIN order = 1..Len(order) /\ Len(order) \in Nat
  BY <1>1, ListShape
<1>3. t = [m \in 1..Len(P) |-> t[m]] /\ DOMAIN t = DOMAIN P /\ \A m \in DOMAIN P : t[m] = s[P[m]]
  BY <1>1, <1>2 DEF Along
<1>4. IsList(t)
  BY <1>2, <1>3, FunctionIsList
<1>5. PICK Q : /\ IsList(Q) /\ Range(Q) = DOMAIN t /\ Passed(t, order[r]) = Along(t, Q)
               /\ CanSort(t, order[r]) => Follows(Q, AfterPass(t, order[r]))
  BY <1>4, PassedAlong
<1> DEFINE R == Along(P, Q)
<1>6. IsList(R) /\ Range(R) = DOMAIN s
  BY <1>1, <1>3, <1>5, AlongRange
<1>7. Passed(t, order[r]) = Along(s, R)
  <2>1. Range(Q) \subseteq DOMAIN P
    BY <1>3, <1>5
  <2>2. Along(Along(s, P), Q) = Along(s, Along(P, Q))
    BY <1>1, <1>5, <2>1, AlongAlong
  <2> QED
    BY <1>1, <1>5, <2>2
<1>8. ASSUME Orderable(s, order)
      PROVE  /\ Follows(R, AfterKeys(s, order, r - 1))
             /\ \A k \in DOMAIN order : r - 1 < k => CanSort(s, order[k])
  <2>1. /\ Follows(P, AfterKeys(s, order, r))
        /\ \A k \in DOMAIN order : r < k => CanSort(s, order[k])
    BY <1>1, <1>8
  <2>2. \A i \in DOMAIN s : ~IsNull(KeyValue(order[r], s[i])) => HasOrder(KeyValue(order[r], s[i]))
    BY <1>8 DEF Orderable
  <2>3. CanSort(t, order[r])
    <3>1. \A m \in DOMAIN t : ~IsNull(KeyValue(order[r], t[m])) => HasOrder(KeyValue(order[r], t[m]))
      BY <1>2, <1>3, <2>2
    <3> QED
      BY <3>1 DEF CanSort
  <2>4. CanSort(s, order[r])
    <3>1. \A i \in DOMAIN s : \E m \in DOMAIN t : t[m] = s[i]
      BY <1>2, <1>3
    <3> QED
      BY <2>3, <3>1 DEF CanSort
  <2>5. Follows(R, AfterKeys(s, order, r - 1))
    BY <1>1, <1>3, <1>5, <2>1, <2>3, PassAfterKeys
  <2>6. \A k \in DOMAIN order : r - 1 < k => k = r \/ r < k
    BY <1>2
  <2> QED
    BY <2>1, <2>4, <2>5, <2>6
<1> HIDE DEF R
<1> QED
  BY <1>6, <1>7, <1>8 DEF OrderedBehind

LEMMA OrderListed ==
  ASSUME PInv, phase \in {"projected", "distinct", "order"}
  PROVE  IsList(rows) /\ IsList(clause.order) /\ Len(keys) \in Nat /\ Len(clause.order) \in Nat
         /\ IsList(pairs) /\ IsList(keys)
<1>1. todo # <<>> /\ Reshapes(clause)
  BY DEF PInv, TypeOK
<1>2. IsClause(clause)
  BY <1>1, ClauseAtHand DEF PInv
<1>3. IsList(clause.order)
  BY <1>1, <1>2 DEF IsClause, Reshapes, IsList
<1>4. IsList(keys) /\ IsList(pairs)
  BY DEF PInv, Listed
<1> QED
  BY <1>3, <1>4, RowsListed, ListShape

LEMMA FilterBegins == PInv /\ KInv /\ OInv /\ Filter => OInv'
<1> SUFFICES ASSUME PInv, KInv, OInv, Filter PROVE OInv'
  OBVIOUS
<1>1. /\ phase = "distinct" /\ phase' = "order" /\ UNCHANGED <<todo, rows>>
      /\ keys' = Reverse(clause.order)
      /\ pairs' = IF FiltersFirst(clause) THEN SatisfyingPairs(pairs, clause.where) ELSE pairs
  BY DEF Filter
<1>2. clause' = clause /\ Begun' = Begun
  BY <1>1 DEF clause, Begun
<1>3. IsList(rows) /\ IsList(clause.order) /\ Len(clause.order) \in Nat
  BY <1>1, OrderListed
<1> DEFINE n == Len(clause.order)
<1>4. /\ keys' = [k \in 1..n |-> clause.order[(n - k) + 1]] /\ Len(keys') = n
  <2>1. keys' = [k \in 1..n |-> clause.order[(n - k) + 1]]
    BY <1>1 DEF Reverse
  <2>2. Len(keys') = n
    BY <1>1, <1>3, ReverseList
  <2> QED
    BY <2>1, <2>2
<1>5. keys' = [k \in 1..Len(keys') |-> clause.order[Len(keys') + 1 - k]]
  <2>1. \A k \in 1..n : (n - k) + 1 = n + 1 - k
    BY <1>3
  <2> HIDE DEF n
  <2> QED
    BY <1>4, <2>1
<1>6. pairs' = Begun
  <2>1. CASE Aggregates(clause)
    BY <1>1, <2>1 DEF OInv, FiltersFirst
  <2>2. CASE ~Aggregates(clause)
    <3>1. KInv'
      BY FilterKeeps
    <3>2. pairs' = Along(Made(clause, rows), InOrder(Chosen(clause, rows)))
      BY <1>1, <1>2, <1>4, <2>2, <3>1 DEF KInv
    <3> QED
      BY <2>2, <3>2 DEF Begun
  <2> QED
    BY <2>1, <2>2
<1>7. OrderedBehind(Begun, clause.order, n, Begun)
  BY <1>3, BegunList, NothingOrdered
<1> QED
  BY <1>1, <1>2, <1>4, <1>5, <1>6, <1>7 DEF OInv

LEMMA OrderPassOrders == PInv /\ OInv /\ OrderPass => OInv'
<1> SUFFICES ASSUME PInv, OInv, OrderPass PROVE OInv'
  OBVIOUS
<1> DEFINE order == clause.order
           r == Len(keys)
<1>1. /\ phase = "order" /\ phase' = "order" /\ keys # <<>> /\ UNCHANGED <<todo, rows>>
      /\ CanOrderBy(Head(keys))
      /\ pairs' = Passed(pairs, Head(keys)) /\ keys' = Tail(keys)
  BY DEF OrderPass
<1>2. clause' = clause /\ Begun' = Begun
  BY <1>1 DEF clause, Begun
<1>3. IsList(rows) /\ IsList(order) /\ Len(order) \in Nat /\ r \in Nat /\ IsList(keys)
  BY <1>1, OrderListed
<1>4. r # 0 /\ r <= Len(order) /\ DOMAIN order = 1..Len(order)
  <2>1. keys \in Seq(Range(keys))
    BY <1>3 DEF IsList
  <2>2. Len(keys) # 0
    BY <1>1, <2>1
  <2>3. r <= Len(order)
    BY <1>1 DEF PInv, TypeOK
  <2> QED
    BY <1>3, <2>2, <2>3, ListShape
<1>5. keys = [k \in 1..r |-> order[r + 1 - k]] /\ OrderedBehind(Begun, order, r, pairs)
  BY <1>1 DEF OInv
<1> HIDE DEF order
<1>6. r \in DOMAIN order /\ Head(keys) = order[r]
  <2>1. keys \in Seq(Range(keys))
    BY <1>3 DEF IsList
  <2>2. Head(keys) = keys[1]
    BY <2>1
  <2>3. 1 \in 1..r /\ r + 1 - 1 = r /\ r \in 1..Len(order)
    BY <1>3, <1>4
  <2> HIDE DEF r
  <2> QED
    BY <1>4, <1>5, <2>2, <2>3
<1>7. /\ Len(Tail(keys)) = r - 1
      /\ Tail(keys) = [k \in 1..(r - 1) |-> order[(r - 1) + 1 - k]]
  <2> DEFINE S == Range(keys)
  <2>1. keys \in Seq(S)
    BY <1>3 DEF IsList
  <2> HIDE DEF S
  <2>2. Tail(keys) \in Seq(S) /\ Len(Tail(keys)) = r - 1
    BY <1>1, <2>1
  <2>3. \A k \in 1..(r - 1) : Tail(keys)[k] = keys[k + 1]
    BY <1>1, <2>1
  <2>4. Tail(keys) = [k \in 1..(r - 1) |-> Tail(keys)[k]]
    <3> DEFINE tail == Tail(keys)
    <3> HIDE DEF tail, r
    <3>1. tail \in Seq(S) /\ Len(tail) = r - 1
      BY <2>2 DEF tail
    <3>2. tail = [k \in 1..(r - 1) |-> tail[k]]
      BY <3>1
    <3> QED
      BY <3>2 DEF tail
  <2>5. Len(Tail(keys)) = r - 1 /\ Tail(keys) = [k \in 1..(r - 1) |-> keys[k + 1]]
    BY <2>2, <2>3, <2>4
  <2>6. \A k \in 1..(r - 1) : k + 1 \in 1..r /\ r + 1 - (k + 1) = (r - 1) + 1 - k
    BY <1>3
  <2> HIDE DEF r
  <2>7. \A k \in 1..(r - 1) : keys[k + 1] = order[(r - 1) + 1 - k]
    BY <1>5, <2>6
  <2> QED
    BY <2>5, <2>7
<1>8. \A i, j \in DOMAIN pairs :
        LET v == KeyValue(order[r], pairs[i])
            w == KeyValue(order[r], pairs[j])
        IN  ~IsNull(v) /\ ~IsNull(w) => Comparable(v, w)
  BY <1>1, <1>6 DEF CanOrderBy
<1>9. OrderedBehind(Begun, order, r - 1, Passed(pairs, order[r]))
  <2> HIDE DEF r
  <2> QED
    BY <1>3, <1>5, <1>6, <1>8, BegunList, OnePassMore
<1> QED
  BY <1>1, <1>2, <1>6, <1>7, <1>9 DEF OInv, order

LEMMA OrderInvariant == PSpec => []OInv
<1>1. PInit => OInv
  BY DEF PInit, OInv
<1>2. PInv /\ KInv /\ GInv /\ OInv /\ [PNext]_pvars => OInv'
  <2> SUFFICES ASSUME PInv, KInv, GInv, OInv, [PNext]_pvars PROVE OInv'
    OBVIOUS
  <2>1. CASE Filter
    BY <2>1, FilterBegins
  <2>2. CASE OrderPass
    BY <2>2, OrderPassOrders
  <2>3. CASE Distinct
    BY <2>3 DEF Distinct, GInv, OInv, Begun, clause
  <2>4. CASE UNCHANGED pvars
    BY <2>4 DEF pvars, OInv, Begun, clause
  <2>5. CASE Done
    BY <2>4, <2>5 DEF Done
  <2>6. CASE phase' \notin {"distinct", "order"}
    BY <2>6 DEF OInv
  <2>7. CASE \/ BeginPart \/ EndPart \/ Unwind \/ CallProcedure \/ Project \/ Group
             \/ FinishWith \/ FinishReturn \/ UnknownVariable \/ NotANumber \/ CannotOrder
    BY <2>6, <2>7 DEF BeginPart, EndPart, Unwind, CallProcedure, Project, Group, FinishWith,
                      FinishReturn, Yield, UnknownVariable, NotANumber, CannotOrder, Raise
  <2> QED
    BY <2>1, <2>2, <2>3, <2>4, <2>5, <2>7 DEF PNext
<1> QED
  BY <1>1, <1>2, ProjectionInvariant, KeepsInvariant, GroupsInvariant, PTL DEF PSpec

\* The values that ORDER BY has compared are nulls, numbers and nodes, frozen or not.
KeysHaveAnOrder == Orderable(pairs, clause.order)

\* After the last pass of ORDER BY the rows are those that the stages before have
\* left, in the order of all the keys, the first one first, with nulls where each
\* key wants them, and as they came where no key tells them apart (_order_paired).
THEOREM AlwaysOrderedAsAsked ==
  PSpec => [](KeysHaveAnOrder /\ (Aggregates(clause) \/ KindsTellApart) => OrderedAsAsked)
<1>1. PInv /\ OInv => (KeysHaveAnOrder /\ (Aggregates(clause) \/ KindsTellApart) => OrderedAsAsked)
  <2> SUFFICES ASSUME PInv, OInv, KeysHaveAnOrder, Aggregates(clause) \/ KindsTellApart,
                      phase = "order", keys = <<>>
               PROVE  \E given \in {Unordered(clause, rows)} :
                        pairs = Arranged(given, [i \in DOMAIN given |->
                                  {j \in DOMAIN given :
                                     \/ ComesFirst(clause.order, given[j], given[i])
                                     \/ ~ComesFirst(clause.order, given[i], given[j]) /\ j < i}])
    BY DEF OrderedAsAsked, Ordered
  <2> DEFINE s == Begun
             order == clause.order
             rel == AfterKeys(s, order, 0)
             before(i) == {j \in DOMAIN s : \/ ComesFirst(order, s[j], s[i])
                                            \/ ~ComesFirst(order, s[i], s[j]) /\ j < i}
             ahead == [i \in DOMAIN s |-> before(i)]
  <2>1. IsList(rows) /\ IsList(order) /\ IsList(s) /\ s = Unordered(clause, rows)
    BY OrderListed, BegunList, BegunUnordered
  <2>2. Len(keys) = 0
    OBVIOUS
  <2>3. OrderedBehind(s, order, 0, pairs)
    BY <2>2 DEF OInv
  <2>4. Orderable(pairs, order)
    BY DEF KeysHaveAnOrder
  <2> HIDE DEF s, order
  <2>5. PICK P : /\ IsList(P) /\ Range(P) = DOMAIN s /\ pairs = Along(s, P)
                 /\ Orderable(s, order) =>
                      /\ Follows(P, rel)
                      /\ \A k \in DOMAIN order : 0 < k => CanSort(s, order[k])
    BY <2>3 DEF OrderedBehind
  <2>6. Orderable(s, order)
    <3>1. Len(P) \in Nat /\ DOMAIN P = 1..Len(P) /\ \A i \in DOMAIN s : \E m \in DOMAIN P : P[m] = i
      BY <2>5, ListShape
    <3>2. DOMAIN pairs = DOMAIN P /\ \A m \in DOMAIN P : pairs[m] = s[P[m]]
      BY <2>5, <3>1 DEF Along
    <3>3. \A i \in DOMAIN s : \E m \in DOMAIN pairs : pairs[m] = s[i]
      BY <3>1, <3>2
    <3> QED
      BY <2>4, <3>3 DEF Orderable
  <2>7. Follows(P, rel) /\ \A k \in DOMAIN order : 0 < k => CanSort(s, order[k])
    BY <2>5, <2>6
  <2>8. \A i, j \in DOMAIN s : FirstByLast(order, 0, s[i], s[j]) <=> ComesFirst(order, s[i], s[j])
    <3>1. \A k \in DOMAIN order : 0 < k /\ (0 + 1)..(k - 1) = 1..(k - 1)
      BY <2>1, ListShape
    <3> QED
      BY <3>1 DEF FirstByLast, ComesFirst
  <2>9. \A i, j \in DOMAIN s : <<i, j>> \in rel => <<j, i>> \notin rel
    <3> TAKE i, j \in DOMAIN s
    <3>1. /\ <<i, j>> \in rel <=> FirstByLast(order, 0, s[i], s[j]) \/ (~FirstByLast(order, 0, s[j], s[i]) /\ i < j)
          /\ <<j, i>> \in rel <=> FirstByLast(order, 0, s[j], s[i]) \/ (~FirstByLast(order, 0, s[i], s[j]) /\ j < i)
      BY IsAfterKeys
    <3>2. FirstByLast(order, 0, s[i], s[j]) => ~FirstByLast(order, 0, s[j], s[i])
      BY <2>1, <2>7, FirstOneWay
    <3>3. ~(i < j /\ j < i)
      BY <2>1, ListShape
    <3> QED
      BY <3>1, <3>2, <3>3
  <2>10. \A i \in DOMAIN s : ahead[i] = {j \in DOMAIN s : <<j, i>> \in rel}
    <3> TAKE i \in DOMAIN s
    <3>1. \A j \in DOMAIN s :
            <<j, i>> \in rel <=> ComesFirst(order, s[j], s[i]) \/ (~ComesFirst(order, s[i], s[j]) /\ j < i)
      BY <2>8, IsAfterKeys
    <3> HIDE DEF rel
    <3> QED
      BY <3>1
  <2> HIDE DEF rel, ahead
  <2>11. pairs = Arranged(s, ahead)
    BY <2>1, <2>5, <2>7, <2>9, <2>10, FollowsArranged
  <2>12. s \in {Unordered(clause, rows)}
    BY <2>1
  <2> QED
    BY <2>11, <2>12 DEF ahead, order
<1> QED
  BY <1>1, ProjectionInvariant, OrderInvariant, PTL
=============================================================================
