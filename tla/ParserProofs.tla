---------------------------- MODULE ParserProofs ----------------------------
(***************************************************************************)
(* The lexer and the nesting guard of the parser, for every text.  Comments *)
(* go to the next token: those pending are what there is since the last    *)
(* one.  And the guard counts what is open: what is still to do leaves      *)
(* exactly what it has counted, and so does what every try block would go   *)
(* back to.                                                                 *)
(***************************************************************************)
EXTENDS Parser, WellFoundedInduction, FiniteSetTheorems, SequenceTheorems, TLAPS

(* What is in a sequence.                                                  *)
Entries(s) == {s[i] : i \in DOMAIN s}

-----------------------------------------------------------------------------
(* Reading ahead.                                                          *)

LEMMA Least ==
  ASSUME NEW T \in SUBSET Nat, T # {}
  PROVE  \E n \in T : \A m \in T : n <= m
<1> DEFINE R == {ss \in Nat \X Nat : ss[1] < ss[2]}
<1>1. IsWellFoundedOn(R, Nat)
  BY NatLessThanWellFounded DEF OpToRel
<1>2. PICK n \in T : \A m \in T : ~ (<<m, n>> \in R)
  <2> HIDE DEF R
  <2>1. QED
    BY <1>1, WFMin
<1>3. ASSUME NEW m \in T PROVE n <= m
  <2>1. m \in Nat /\ n \in Nat /\ <<m, n>> \notin R
    <3> HIDE DEF R
    <3>1. QED
      BY <1>2
  <2>2. ~ (m < n)
    BY <2>1
  <2>3. QED
    BY <2>1, <2>2
<1>4. QED
  BY <1>3

(* What is there to be read is in the text.                                *)
LEMMA Ahead ==
  ASSUME source \in Seq(Entries(source)), NEW p, At(p) # EndOfText
  PROVE  p \in 1..Len(source) /\ At(p) = source[p] /\ Len(source) \in Nat
BY DEF At

(* The first atom of some kind, of which the end of the text is one.       *)
LEMMA FirstStop ==
  ASSUME source \in Seq(Entries(source)), NEW p \in 1..(Len(source) + 1), NEW Stop,
         EndOfText \in Stop
  PROVE  \E q \in p..(Len(source) + 1) : At(q) \in Stop /\ \A k \in p..(q - 1) : At(k) \notin Stop
<1>1. Len(source) \in Nat /\ DOMAIN source = 1..Len(source)
  OBVIOUS
<1> DEFINE T == {q \in p..(Len(source) + 1) : At(q) \in Stop}
<1>2. At(Len(source) + 1) = EndOfText
  BY <1>1 DEF At
<1>3. T \in SUBSET Nat /\ Len(source) + 1 \in T
  BY <1>1, <1>2
<1>4. PICK q \in T : \A m \in T : q <= m
  <2> HIDE DEF T
  <2>1. QED
    BY <1>3, Least
<1>5. ASSUME NEW k \in p..(q - 1) PROVE At(k) \notin Stop
  <2>1. k \in p..(Len(source) + 1) /\ k < q
    BY <1>1, <1>4
  <2>2. QED
    BY <1>4, <2>1
<1>6. QED
  BY <1>4, <1>5

(* Where a run ends.                                                       *)
LEMMA RunEnds ==
  ASSUME source \in Seq(Entries(source)), NEW p \in 1..(Len(source) + 1), NEW set, EndOfText \notin set
  PROVE  /\ RunEnd(p, set) \in p..(Len(source) + 1)
         /\ At(RunEnd(p, set)) \notin set
         /\ \A k \in p..(RunEnd(p, set) - 1) : At(k) \in set
<1> DEFINE Stop == {At(q) : q \in 1..(Len(source) + 1)} \ set
<1>1. Len(source) \in Nat /\ At(Len(source) + 1) = EndOfText
  BY DEF At
<1>2. EndOfText \in Stop
  BY <1>1
<1>3. PICK q \in p..(Len(source) + 1) : At(q) \in Stop /\ \A k \in p..(q - 1) : At(k) \notin Stop
  <2> HIDE DEF Stop
  <2>1. QED
    BY <1>2, FirstStop
<1>4. \A k \in p..(q - 1) : At(k) \in set
  <2>1. \A k \in p..(q - 1) : k \in 1..(Len(source) + 1)
    BY <1>1
  <2>2. QED
    BY <1>3, <2>1
<1>5. At(q) \notin set
  BY <1>3
<1>6. QED
  BY <1>3, <1>4, <1>5 DEF RunEnd

-----------------------------------------------------------------------------
(* The body of a string or a quoted name, as a function of where one begins *)
(* to read: it is there, and its end is a number.                           *)
Scanned(body, first, last, Stops, next, new) ==
  body = [p \in first..last |->
            IF p = last THEN [text |-> <<>>, end |-> 0]
            ELSE IF p \in Stops THEN [text |-> <<>>, end |-> p + 1]
            ELSE [body[next[p]] EXCEPT !.text = new[p] \o @]]

(* A function that reads on until it stops exists.                         *)
LEMMA ScannedExists ==
  ASSUME NEW first \in Nat, NEW last \in Nat, first <= last, NEW Stops, NEW new,
         NEW next, \A p \in first..(last - 1) : next[p] \in (p + 1)..last
  PROVE  \E body : Scanned(body, first, last, Stops, next, new)
<1> DEFINE S == {d \in Nat : d <= last - first =>
                   \E body : Scanned(body, last - d, last, Stops, next, new)}
           Entry(f, p) == IF p = last THEN [text |-> <<>>, end |-> 0]
                          ELSE IF p \in Stops THEN [text |-> <<>>, end |-> p + 1]
                          ELSE [f[next[p]] EXCEPT !.text = new[p] \o @]
<1>1. \A f, n : Scanned(f, n, last, Stops, next, new) <=> f = [p \in n..last |-> Entry(f, p)]
  BY DEF Scanned
<1>2. \A f, g, p : f[next[p]] = g[next[p]] => Entry(f, p) = Entry(g, p)
  OBVIOUS
<1>3. \A f, g : Entry(f, last) = Entry(g, last)
  OBVIOUS
<1> HIDE DEF Entry
<1>4. 0 \in S
  <2> DEFINE f == [p \in last..last |-> Entry(0, p)]
  <2>1. f = [p \in last..last |-> Entry(f, p)]
    <3>1. \A p \in last..last : p = last
      OBVIOUS
    <3> HIDE DEF f
    <3>2. \A p \in last..last : Entry(0, p) = Entry(f, p)
      BY <1>3, <3>1
    <3>3. QED
      BY <3>2 DEF f
  <2> HIDE DEF f
  <2>2. last - 0 = last
    OBVIOUS
  <2>3. Scanned(f, last - 0, last, Stops, next, new)
    BY <1>1, <2>1, <2>2
  <2>4. QED
    BY <2>3
<1>5. ASSUME NEW d \in Nat, d \in S PROVE d + 1 \in S
  <2>1. SUFFICES ASSUME d + 1 <= last - first
                 PROVE  \E body : Scanned(body, last - (d + 1), last, Stops, next, new)
    OBVIOUS
  <2> DEFINE n == last - (d + 1)
  <2>2. n \in first..(last - 1) /\ last - d = n + 1
    BY <2>1
  <2>3. PICK g : Scanned(g, n + 1, last, Stops, next, new)
    BY <1>5, <2>1, <2>2
  <2> HIDE DEF n
  <2>4. g = [p \in (n + 1)..last |-> Entry(g, p)]
    BY <1>1, <2>3
  <2> DEFINE f == [p \in n..last |-> IF p = n THEN Entry(g, n) ELSE g[p]]
  <2>5. \A p \in (n + 1)..last : f[p] = g[p]
    BY <2>2
  <2>6. ASSUME NEW p \in n..last PROVE f[p] = Entry(f, p)
    <3>1. CASE p = last
      <4>1. p \in (n + 1)..last /\ f[p] = g[p]
        BY <2>2, <2>5, <3>1
      <4>2. g[p] = Entry(g, p)
        BY <2>4, <4>1
      <4> HIDE DEF f
      <4>3. QED
        BY <1>3, <3>1, <4>1, <4>2
    <3>2. CASE p # last
      <4>1. next[p] \in (p + 1)..last /\ p \in first..(last - 1)
        BY <2>2, <2>6, <3>2
      <4>2. next[p] \in (n + 1)..last
        BY <2>2, <2>6, <4>1
      <4>3. Entry(f, p) = Entry(g, p)
        <5>1. f[next[p]] = g[next[p]]
          BY <2>5, <4>2
        <5> HIDE DEF f
        <5>2. QED
          BY <1>2, <5>1
      <4>4. CASE p = n
        BY <4>3, <4>4
      <4>5. CASE p # n
        <5>1. p \in (n + 1)..last /\ f[p] = g[p]
          BY <2>2, <2>6, <4>5
        <5>2. g[p] = Entry(g, p)
          BY <2>4, <5>1
        <5> HIDE DEF f
        <5>3. QED
          BY <4>3, <5>1, <5>2
      <4>6. QED
        BY <4>4, <4>5
    <3>3. QED
      BY <3>1, <3>2
  <2>7. f = [p \in n..last |-> Entry(f, p)]
    <3>1. f = [p \in n..last |-> f[p]]
      OBVIOUS
    <3> HIDE DEF f
    <3>2. QED
      BY <2>6, <3>1
  <2> HIDE DEF f
  <2>8. Scanned(f, n, last, Stops, next, new)
    BY <1>1, <2>7
  <2>9. QED
    BY <2>8 DEF n
<1> HIDE DEF S
<1>6. \A d \in Nat : d \in S
  <2>1. ASSUME Nat \ S # {} PROVE FALSE
    <3>1. PICK d \in Nat \ S : \A m \in Nat \ S : d <= m
      BY <2>1, Least
    <3>2. d # 0 /\ d - 1 \in Nat /\ (d - 1) + 1 = d /\ ~ (d <= d - 1)
      BY <1>4
    <3>3. d - 1 \in S
      BY <3>1, <3>2
    <3>4. QED
      BY <1>5, <3>1, <3>2, <3>3
  <2>2. QED
    BY <2>1
<1>7. last - first \in Nat /\ last - (last - first) = first
  OBVIOUS
<1>8. last - first \in S
  BY <1>6, <1>7
<1>9. QED
  BY <1>7, <1>8 DEF S

(* Where it stops is a number: each step goes nearer to the end.           *)
LEMMA ScannedEnds ==
  ASSUME NEW first \in Nat, NEW last \in Nat, first <= last, NEW Stops, NEW new,
         NEW next, \A p \in first..(last - 1) : next[p] \in (p + 1)..last,
         NEW body, Scanned(body, first, last, Stops, next, new)
  PROVE  body[first].end \in {0} \cup (first + 1)..last
<1> DEFINE Ends(r, p) == r = [text |-> r.text, end |-> r.end] /\ r.end \in {0} \cup (p + 1)..last
           Bad == {last - p : p \in {q \in first..last : ~Ends(body[q], q)}}
<1>1. \A p \in first..last : body[p] = IF p = last THEN [text |-> <<>>, end |-> 0]
                                       ELSE IF p \in Stops THEN [text |-> <<>>, end |-> p + 1]
                                       ELSE [body[next[p]] EXCEPT !.text = new[p] \o @]
  BY DEF Scanned
<1>2. ASSUME NEW r, NEW x, NEW p \in first..last, NEW q \in (p + 1)..last, Ends(r, q)
      PROVE  Ends([r EXCEPT !.text = x], p)
  <2>1. \A u, v : [[text |-> u, end |-> v] EXCEPT !.text = x] = [text |-> x, end |-> v]
    OBVIOUS
  <2>2. [r EXCEPT !.text = x] = [text |-> x, end |-> r.end]
    BY <1>2, <2>1
  <2>3. r.end \in {0} \cup (p + 1)..last
    BY <1>2
  <2>4. QED
    BY <2>2, <2>3
<1>3. \A p \in first..last : /\ Ends([text |-> <<>>, end |-> 0], p)
                             /\ p # last => Ends([text |-> <<>>, end |-> p + 1], p)
  OBVIOUS
<1> HIDE DEF Ends
<1>4. ASSUME Bad # {} PROVE FALSE
  <2>1. Bad \in SUBSET Nat
    OBVIOUS
  <2>2. PICK d \in Bad : \A m \in Bad : d <= m
    <3> HIDE DEF Bad
    <3>1. QED
      BY <1>4, <2>1, Least
  <2>3. PICK p \in first..last : ~Ends(body[p], p) /\ d = last - p
    OBVIOUS
  <2>4. p # last /\ p \notin Stops
    <3>1. CASE p = last
      BY <1>1, <1>3, <2>3, <3>1
    <3>2. CASE p # last /\ p \in Stops
      BY <1>1, <1>3, <2>3, <3>2
    <3>3. QED
      BY <3>1, <3>2
  <2>5. next[p] \in (p + 1)..last
    BY <2>3, <2>4
  <2>6. next[p] \in first..last /\ last - next[p] < d /\ last - next[p] \in Nat /\ d \in Nat
    BY <2>3, <2>5
  <2>7. last - next[p] \notin Bad
    <3> HIDE DEF Bad
    <3>1. QED
      BY <2>2, <2>6
  <2>8. Ends(body[next[p]], next[p])
    BY <2>6, <2>7
  <2>9. PICK x : body[p] = [body[next[p]] EXCEPT !.text = x]
    BY <1>1, <2>3, <2>4
  <2>10. Ends([body[next[p]] EXCEPT !.text = x], p)
    BY <1>2, <2>3, <2>5, <2>8, Zenon
  <2>11. QED
    BY <2>3, <2>9, <2>10, Zenon
<1>5. Ends(body[first], first)
  BY <1>4
<1>6. QED
  BY <1>5 DEF Ends

StringUpTo(f, start, quote) ==
  f = [p \in start..(Len(source) + 1) |->
         IF p > Len(source) THEN [text |-> <<>>, end |-> 0]
         ELSE IF source[p] = "\\" /\ p < Len(source)
         THEN [f[p+2] EXCEPT !.text =
                 <<IF source[p+1] \in DOMAIN Escapes THEN Escapes[source[p+1]] ELSE source[p+1]>> \o @]
         ELSE IF source[p] = quote THEN [text |-> <<>>, end |-> p + 1]
         ELSE [f[p+1] EXCEPT !.text = <<source[p]>> \o @]]

(* StringBody and BacktickBody are such functions.                         *)
LEMMA StringEnds ==
  ASSUME source \in Seq(Entries(source)), NEW start \in 1..(Len(source) + 1), NEW quote
  PROVE  StringBody(start, quote).end \in {0} \cup (start + 1)..(Len(source) + 1)
<1> DEFINE body == CHOOSE f : StringUpTo(f, start, quote)
           last == Len(source) + 1
           Escaped(p) == source[p] = "\\" /\ p < Len(source)
           Char(p) == IF source[p+1] \in DOMAIN Escapes THEN Escapes[source[p+1]] ELSE source[p+1]
           Stops == {p \in start..last : source[p] = quote /\ ~Escaped(p)}
           next == [p \in start..last |-> IF Escaped(p) THEN p + 2 ELSE p + 1]
           new == [p \in start..last |-> IF Escaped(p) THEN <<Char(p)>> ELSE <<source[p]>>]
<1>1. Len(source) \in Nat /\ start \in Nat /\ last \in Nat /\ start <= last
  OBVIOUS
<1>2. StringBody(start, quote) = body[start]
  BY DEF StringBody, StringUpTo
<1>3. \A p \in start..(last - 1) : next[p] \in (p + 1)..last
  BY <1>1
<1>4. \A f : StringUpTo(f, start, quote) <=> Scanned(f, start, last, Stops, next, new)
  <2> SUFFICES ASSUME NEW f PROVE StringUpTo(f, start, quote) <=> Scanned(f, start, last, Stops, next, new)
    OBVIOUS
  <2> DEFINE Read(p) == IF p > Len(source) THEN [text |-> <<>>, end |-> 0]
                        ELSE IF Escaped(p) THEN [f[p+2] EXCEPT !.text = <<Char(p)>> \o @]
                        ELSE IF source[p] = quote THEN [text |-> <<>>, end |-> p + 1]
                        ELSE [f[p+1] EXCEPT !.text = <<source[p]>> \o @]
             Entry(p) == IF p = last THEN [text |-> <<>>, end |-> 0]
                         ELSE IF p \in Stops THEN [text |-> <<>>, end |-> p + 1]
                         ELSE [f[next[p]] EXCEPT !.text = new[p] \o @]
  <2>1. ASSUME NEW p \in start..last PROVE Read(p) = Entry(p)
    <3>1. p > Len(source) <=> p = last
      BY <1>1
    <3>2. CASE p = last
      BY <3>1, <3>2
    <3>3. CASE p # last /\ Escaped(p)
      <4>1. p \notin Stops /\ next[p] = p + 2 /\ new[p] = <<Char(p)>>
        BY <3>3
      <4> HIDE DEF last, Stops, next, new, Char, Escaped
      <4>2. QED
        BY <3>1, <3>3, <4>1
    <3>4. CASE p # last /\ ~Escaped(p)
      <4>1. (p \in Stops <=> source[p] = quote) /\ next[p] = p + 1 /\ new[p] = <<source[p]>>
        BY <3>4
      <4> HIDE DEF last, Stops, next, new, Char, Escaped
      <4>2. QED
        BY <3>1, <3>4, <4>1
    <3>5. QED
      BY <3>2, <3>3, <3>4
  <2>2. StringUpTo(f, start, quote) <=> f = [p \in start..last |-> Read(p)]
    BY DEF StringUpTo
  <2>3. Scanned(f, start, last, Stops, next, new) <=> f = [p \in start..last |-> Entry(p)]
    BY DEF Scanned
  <2> HIDE DEF Read, Entry
  <2>4. [p \in start..last |-> Read(p)] = [p \in start..last |-> Entry(p)]
    BY <2>1
  <2>5. QED
    BY <2>2, <2>3, <2>4
<1>5. \E f : StringUpTo(f, start, quote)
  <2> HIDE DEF last, Stops, next, new
  <2>1. QED
    BY <1>1, <1>3, <1>4, ScannedExists
<1>6. StringUpTo(body, start, quote)
  BY <1>5
<1> HIDE DEF body, Stops, next, new
<1>7. Scanned(body, start, last, Stops, next, new)
  BY <1>4, <1>6
<1>8. body[start].end \in {0} \cup (start + 1)..last
  <2> HIDE DEF last
  <2>1. QED
    BY <1>1, <1>3, <1>7, ScannedEnds
<1>9. QED
  BY <1>2, <1>8

BacktickUpTo(f, start) ==
  f = [p \in start..(Len(source) + 1) |->
         IF p > Len(source) THEN [text |-> <<>>, end |-> 0]
         ELSE IF source[p] = Backtick /\ At(p + 1) # Backtick THEN [text |-> <<>>, end |-> p + 1]
         ELSE [f[IF source[p] = Backtick THEN p + 2 ELSE p + 1] EXCEPT !.text = <<source[p]>> \o @]]

LEMMA BacktickEnds ==
  ASSUME source \in Seq(Entries(source)), NEW start \in 1..(Len(source) + 1)
  PROVE  BacktickBody(start).end \in {0} \cup (start + 1)..(Len(source) + 1)
<1> DEFINE body == CHOOSE f : BacktickUpTo(f, start)
           last == Len(source) + 1
           Stops == {p \in start..last : source[p] = Backtick /\ At(p + 1) # Backtick}
           next == [p \in start..last |->
                      IF source[p] = Backtick /\ p \notin Stops THEN p + 2 ELSE p + 1]
           new == [p \in start..last |-> <<source[p]>>]
<1>1. Len(source) \in Nat /\ start \in Nat /\ last \in Nat /\ start <= last /\ DOMAIN source = 1..Len(source)
  OBVIOUS
<1>2. BacktickBody(start) = body[start]
  BY DEF BacktickBody, BacktickUpTo
<1>3. ASSUME NEW p \in start..(last - 1) PROVE next[p] \in (p + 1)..last
  <2>1. CASE source[p] = Backtick /\ p \notin Stops
    <3>1. At(p + 1) = Backtick /\ Backtick # EndOfText
      BY <1>1, <2>1 DEF Backtick, EndOfText
    <3>2. p + 1 \in DOMAIN source
      BY <3>1 DEF At
    <3>3. QED
      BY <1>1, <2>1, <3>2
  <2>2. CASE ~(source[p] = Backtick /\ p \notin Stops)
    <3>1. next[p] = p + 1
      BY <1>1, <2>2
    <3>2. QED
      BY <1>1, <3>1
  <2>3. QED
    BY <2>1, <2>2
<1>4. \A f : BacktickUpTo(f, start) <=> Scanned(f, start, last, Stops, next, new)
  <2> SUFFICES ASSUME NEW f PROVE BacktickUpTo(f, start) <=> Scanned(f, start, last, Stops, next, new)
    OBVIOUS
  <2> DEFINE Read(p) == IF p > Len(source) THEN [text |-> <<>>, end |-> 0]
                        ELSE IF source[p] = Backtick /\ At(p + 1) # Backtick
                        THEN [text |-> <<>>, end |-> p + 1]
                        ELSE [f[IF source[p] = Backtick THEN p + 2 ELSE p + 1]
                                EXCEPT !.text = <<source[p]>> \o @]
             Entry(p) == IF p = last THEN [text |-> <<>>, end |-> 0]
                         ELSE IF p \in Stops THEN [text |-> <<>>, end |-> p + 1]
                         ELSE [f[next[p]] EXCEPT !.text = new[p] \o @]
  <2>1. ASSUME NEW p \in start..last PROVE Read(p) = Entry(p)
    <3>1. p > Len(source) <=> p = last
      BY <1>1
    <3>2. p \in Stops <=> source[p] = Backtick /\ At(p + 1) # Backtick
      OBVIOUS
    <3>3. new[p] = <<source[p]>>
      OBVIOUS
    <3>4. p \notin Stops => next[p] = IF source[p] = Backtick THEN p + 2 ELSE p + 1
      BY <3>2
    <3> HIDE DEF last, Stops, next, new
    <3>5. QED
      BY <3>1, <3>2, <3>3, <3>4
  <2>2. BacktickUpTo(f, start) <=> f = [p \in start..last |-> Read(p)]
    BY DEF BacktickUpTo
  <2>3. Scanned(f, start, last, Stops, next, new) <=> f = [p \in start..last |-> Entry(p)]
    BY DEF Scanned
  <2> HIDE DEF Read, Entry
  <2>4. [p \in start..last |-> Read(p)] = [p \in start..last |-> Entry(p)]
    BY <2>1
  <2>5. QED
    BY <2>2, <2>3, <2>4
<1>5. \E f : BacktickUpTo(f, start)
  <2> HIDE DEF last, Stops, next, new
  <2>1. QED
    BY <1>1, <1>3, <1>4, ScannedExists
<1>6. BacktickUpTo(body, start)
  BY <1>5
<1> HIDE DEF body, Stops, next, new
<1>7. Scanned(body, start, last, Stops, next, new)
  BY <1>4, <1>6
<1>8. body[start].end \in {0} \cup (start + 1)..last
  <2> HIDE DEF last
  <2>1. QED
    BY <1>1, <1>3, <1>7, ScannedEnds
<1>9. QED
  BY <1>2, <1>8

(* What comes after the text is no atom of the kinds a scanner looks for.  *)
LEMMA EndIsNothing ==
  /\ EndOfText \notin Space /\ EndOfText \notin Digit /\ EndOfText \notin HexDigit
  /\ EndOfText \notin Quotes /\ EndOfText \notin {"/", "*", "$", ".", "x", "X", "o", "O"}
  /\ EndOfText # Backtick
BY Zenon DEF EndOfText, Space, Digit, HexDigit, Quotes, Backtick

LEMMA NoSpace == "/" \notin Space
BY Zenon DEF Space

(* A number ends at a place in the text, or has an exponent without digits. *)
LEMMA NumberEnds ==
  ASSUME source \in Seq(Entries(source)), pos \in Nat \ {0}, StartsNumber
  PROVE  NumberEnd \in {0} \cup (pos + 1)..(Len(source) + 1)
<1>1. Len(source) \in Nat /\ DOMAIN source = 1..Len(source)
  OBVIOUS
<1>2. \A p : At(p) # EndOfText => p \in 1..Len(source)
  BY Ahead
<1>3. Peek(0) = At(pos) /\ Peek(1) = At(pos + 1)
  BY DEF Peek
<1>4. pos \in 1..Len(source)
  BY <1>1, <1>2, <1>3, EndIsNothing DEF StartsNumber
<1>5. /\ IntegerEnd \in pos..(Len(source) + 1) /\ At(IntegerEnd) \notin Digit
      /\ At(pos) \in Digit => IntegerEnd # pos
      /\ At(pos) \notin Digit => IntegerEnd = pos
  <2>1. pos \in 1..(Len(source) + 1)
    BY <1>1, <1>4
  <2>2. /\ IntegerEnd \in pos..(Len(source) + 1) /\ At(IntegerEnd) \notin Digit
        /\ \A k \in pos..(IntegerEnd - 1) : At(k) \in Digit
    BY <2>1, RunEnds, EndIsNothing DEF IntegerEnd
  <2>3. At(pos) \notin Digit => IntegerEnd = pos
    BY <1>1, <1>4, <2>2
  <2>4. QED
    BY <2>2, <2>3
<1>6. FractionEnd \in (pos + 1)..(Len(source) + 1)
  <2>1. CASE At(IntegerEnd) = "." /\ At(IntegerEnd + 1) \in Digit
    <3>1. IntegerEnd + 1 \in 1..(Len(source) + 1)
      BY <1>1, <1>2, <2>1, EndIsNothing
    <3>2. RunEnd(IntegerEnd + 1, Digit) \in (IntegerEnd + 1)..(Len(source) + 1)
      BY <3>1, RunEnds, EndIsNothing
    <3>3. FractionEnd = RunEnd(IntegerEnd + 1, Digit)
      BY <2>1 DEF FractionEnd
    <3>4. QED
      BY <1>1, <1>4, <1>5, <3>2, <3>3
  <2>2. CASE ~(At(IntegerEnd) = "." /\ At(IntegerEnd + 1) \in Digit)
    <3>1. FractionEnd = IntegerEnd
      BY <2>2 DEF FractionEnd
    <3>2. At(pos) \in Digit
      BY <1>3, <1>5, <2>2 DEF StartsNumber
    <3>3. QED
      BY <1>1, <1>4, <1>5, <3>1, <3>2
  <2>3. QED
    BY <2>1, <2>2
<1> DEFINE first == FractionEnd + (IF At(FractionEnd + 1) \in {"+", "-"} THEN 2 ELSE 1)
<1>7. At(first) \in Digit => RunEnd(first, Digit) \in (pos + 1)..(Len(source) + 1)
  <2>1. SUFFICES ASSUME At(first) \in Digit PROVE RunEnd(first, Digit) \in (pos + 1)..(Len(source) + 1)
    OBVIOUS
  <2>2. first \in Nat /\ pos + 1 <= first
    BY <1>1, <1>4, <1>6
  <2> HIDE DEF first
  <2>3. first \in 1..(Len(source) + 1)
    BY <1>1, <1>2, <2>1, EndIsNothing
  <2>4. RunEnd(first, Digit) \in first..(Len(source) + 1)
    BY <2>3, RunEnds, EndIsNothing
  <2>5. QED
    BY <1>1, <1>4, <2>2, <2>4
<1>8. NumberEnd = IF At(FractionEnd) \notin {"e", "E"} THEN FractionEnd
                  ELSE IF At(first) \in Digit THEN RunEnd(first, Digit) ELSE 0
  BY DEF NumberEnd
<1> HIDE DEF first
<1>9. QED
  BY <1>6, <1>7, <1>8

-----------------------------------------------------------------------------
(* The comments pending are those since the last token, and each token has *)
(* those since the one before it: each from its opening to its end, and    *)
(* nothing but white space between them.                                   *)
Claims(comments, first, next) ==
  /\ \A n \in DOMAIN comments : comments[n] \in first..(next - 1) /\ Opens(comments[n])
  /\ \A n \in 2..Len(comments) :
        comments[n - 1] < comments[n] /\ ~Covers(comments[n - 1], comments[n])
  /\ comments # <<>> => ~Covers(comments[Len(comments)], next)
  /\ \A p \in first..(next - 1) :
        source[p] \notin Space => \E n \in DOMAIN comments : Covers(comments[n], p)

EndBefore(k) == IF k = 1 THEN 1 ELSE tokens[k - 1].end

CommentsInv ==
  /\ source \in Seq(Entries(source)) /\ tokens \in Seq(Entries(tokens)) /\ pending \in Seq(Nat)
  /\ pos \in Nat \ {0} /\ EndBefore(Len(tokens) + 1) \in 1..pos
  /\ Claims(pending, EndBefore(Len(tokens) + 1), pos)
  /\ \A k \in DOMAIN tokens : Claims(tokens[k].comments, EndBefore(k), tokens[k].from)

(* Claims says of each token what the property does.                       *)
LEMMA ClaimsAreEnough ==
  (\A k \in DOMAIN tokens : Claims(tokens[k].comments, EndBefore(k), tokens[k].from))
    <=> CommentsGoToTheNextToken
<1>1. \A k : Gap(k) = EndBefore(k)..(tokens[k].from - 1)
  BY DEF Gap, EndBefore
<1> HIDE DEF Gap
<1>2. QED
  BY <1>1 DEF CommentsGoToTheNextToken, Claims

(* What is claimed of a text stays true of it.                             *)
LEMMA ClaimsStay ==
  ASSUME UNCHANGED source, NEW c, NEW first, NEW next, Claims(c, first, next)
  PROVE  Claims(c, first, next)'
<1>1. /\ \A p : Opens(p)' <=> Opens(p)
      /\ \A s, p : Covers(s, p)' <=> Covers(s, p)
  BY DEF Opens, Covers, At
<1>2. QED
  BY <1>1 DEF Claims

(* A comment that goes as far as a place covers those before it.           *)
LEMMA CoversWhatIsBefore ==
  ASSUME NEW s \in Nat, NEW p \in Nat, NEW t \in Nat, s <= p, p <= t, Covers(s, t)
  PROVE  Covers(s, p)
<1>1. s..p \subseteq s..t /\ (s + 2)..(p - 2) \subseteq (s + 2)..(t - 2)
  OBVIOUS
<1>2. QED
  BY <1>1 DEF Covers

LEMMA TwoParts ==
  ASSUME NEW a \in Nat, NEW b \in Nat, NEW c \in Nat, a <= b, b <= c
  PROVE  /\ \A p \in a..(c - 1) : p \in a..(b - 1) \/ p \in b..(c - 1)
         /\ a..(b - 1) \subseteq a..(c - 1)
OBVIOUS

LEMMA PlacesOfAComment ==
  ASSUME NEW a \in Nat, NEW b \in Nat
  PROVE  \A p \in a..(b - 1) : /\ p = a \/ p = a + 1 \/ p \in (a + 2)..(b - 1)
                               /\ a <= p /\ a..p \subseteq a..(b - 1)
OBVIOUS

(* White space is passed: nothing is added to what must be claimed.        *)
LEMMA Skipped ==
  ASSUME CommentsInv, UNCHANGED <<source, tokens, pending>>, pos' \in Nat, pos <= pos',
         \A k \in pos..(pos' - 1) : source[k] \in Space
  PROVE  CommentsInv'
<1>1. PICK first : first = EndBefore(Len(tokens) + 1)
  OBVIOUS
<1>2. /\ pos \in Nat \ {0} /\ first \in 1..pos /\ Claims(pending, first, pos)
      /\ pending \in Seq(Nat)
  BY <1>1 DEF CommentsInv
<1>3. \A k : EndBefore(k)' = EndBefore(k)
  BY DEF EndBefore
<1>4. UNCHANGED <<EndBefore(Len(tokens) + 1), Entries(source), Entries(tokens)>>
  BY DEF EndBefore, Entries
<1>5. Claims(pending, first, pos')
  <2>1. first \in Nat /\ pos \in Nat /\ first <= pos
    BY <1>2
  <2>2. pos' \in Nat /\ pos <= pos'
    OBVIOUS
  <2>3. /\ \A p \in first..(pos' - 1) : p \in first..(pos - 1) \/ p \in pos..(pos' - 1)
        /\ first..(pos - 1) \subseteq first..(pos' - 1)
    BY ONLY <2>1, <2>2, TwoParts
  <2>4. \A n \in DOMAIN pending : pending[n] \in first..(pos' - 1) /\ Opens(pending[n])
    BY <1>2, <2>3 DEF Claims
  <2>5. \A p \in first..(pos' - 1) :
          source[p] \notin Space => \E n \in DOMAIN pending : Covers(pending[n], p)
    BY <1>2, <2>3 DEF Claims
  <2>6. ASSUME pending # <<>> PROVE ~Covers(pending[Len(pending)], pos')
    <3>1. Len(pending) \in DOMAIN pending
      BY <1>2, <2>6
    <3>2. pending[Len(pending)] \in Nat /\ pending[Len(pending)] <= pos
      <4>1. pending[Len(pending)] \in first..(pos - 1)
        BY <1>2, <3>1 DEF Claims
      <4>2. QED
        BY <2>1, <4>1
    <3>3. ~Covers(pending[Len(pending)], pos)
      BY <1>2, <2>6 DEF Claims
    <3>4. QED
      BY <2>1, <2>2, <3>2, <3>3, CoversWhatIsBefore
  <2>7. QED
    BY <1>2, <2>4, <2>5, <2>6 DEF Claims
<1>6. \A k \in DOMAIN tokens : Claims(tokens[k].comments, EndBefore(k), tokens[k].from)'
  <2>1. ASSUME NEW k \in DOMAIN tokens PROVE Claims(tokens[k].comments, EndBefore(k), tokens[k].from)'
    <3>1. Claims(tokens[k].comments, EndBefore(k), tokens[k].from)
      BY DEF CommentsInv
    <3>2. PICK c, a, b : c = tokens[k].comments /\ a = EndBefore(k) /\ b = tokens[k].from
      OBVIOUS
    <3>3. Claims(c, a, b)'
      BY <3>1, <3>2, ClaimsStay
    <3>4. QED
      BY <1>3, <3>2, <3>3
  <2>2. QED
    BY <2>1
<1>7. QED
  <2>1. Claims(pending, EndBefore(Len(tokens) + 1), pos)'
    <3>1. PICK c, b : c = pending /\ b = pos'
      OBVIOUS
    <3>2. Claims(c, first, b)'
      BY <1>5, <3>1, ClaimsStay
    <3>3. QED
      BY <1>1, <1>4, <3>1, <3>2
  <2>2. (EndBefore(Len(tokens) + 1) \in 1..pos)'
    BY <1>1, <1>2, <1>4
  <2>3. QED
    BY <1>2, <1>4, <1>6, <2>1, <2>2 DEF CommentsInv

(* A comment is passed, and noted as the last of those pending.            *)
LEMMA Noted ==
  ASSUME CommentsInv, UNCHANGED <<source, tokens>>, pos' \in Nat, pos < pos',
         pending' = Append(pending, pos), Opens(pos),
         \A p \in pos..(pos' - 1) : Covers(pos, p), ~Covers(pos, pos')
  PROVE  CommentsInv'
<1> DEFINE first == EndBefore(Len(tokens) + 1)
           m == Len(pending)
<1>1. pos \in Nat \ {0} /\ first \in 1..pos /\ Claims(pending, first, pos)
  BY DEF CommentsInv
<1>2. \A k : EndBefore(k)' = EndBefore(k)
  BY DEF EndBefore
<1>3. UNCHANGED <<EndBefore(Len(tokens) + 1), Entries(source), Entries(tokens)>>
  BY DEF EndBefore, Entries
<1>4. /\ m \in Nat /\ DOMAIN pending = 1..m /\ pending' \in Seq(Nat)
      /\ Len(pending') = m + 1 /\ DOMAIN pending' = 1..(m + 1) /\ pending'[m + 1] = pos
      /\ \A n \in 1..m : pending'[n] = pending[n]
      /\ pending = <<>> <=> m = 0
  BY <1>1 DEF CommentsInv
<1>5. m = Len(pending)
  OBVIOUS
<1> HIDE DEF first, m
<1>6. Claims(pending', first, pos')
  <2>1. ASSUME NEW n \in DOMAIN pending'
        PROVE  pending'[n] \in first..(pos' - 1) /\ Opens(pending'[n])
    <3>1. CASE n = m + 1
      BY <1>1, <1>4, <3>1
    <3>2. CASE n # m + 1
      <4>1. n \in DOMAIN pending /\ pending'[n] = pending[n]
        BY <1>4, <2>1, <3>2
      <4>2. pending[n] \in first..(pos - 1) /\ Opens(pending[n])
        BY <1>1, <4>1 DEF Claims
      <4>3. QED
        BY <1>1, <4>1, <4>2
    <3>3. QED
      BY <3>1, <3>2
  <2>2. ASSUME NEW n \in 2..Len(pending')
        PROVE  pending'[n - 1] < pending'[n] /\ ~Covers(pending'[n - 1], pending'[n])
    <3>1. CASE n = m + 1
      <4>1. n - 1 = m /\ m \in DOMAIN pending /\ pending'[n - 1] = pending[m] /\ pending'[n] = pos
            /\ pending # <<>>
        BY <1>4, <2>2, <3>1
      <4>2. pending[m] \in first..(pos - 1)
        BY <1>1, <4>1 DEF Claims
      <4>3. ~Covers(pending[m], pos)
        BY <1>1, <1>5, <4>1 DEF Claims
      <4>4. QED
        BY <1>1, <4>1, <4>2, <4>3
    <3>2. CASE n # m + 1
      <4>1. n \in 2..m /\ pending'[n - 1] = pending[n - 1] /\ pending'[n] = pending[n]
        BY <1>4, <2>2, <3>2
      <4>2. QED
        BY <1>1, <1>5, <4>1 DEF Claims
    <3>3. QED
      BY <3>1, <3>2
  <2>3. ~Covers(pending'[Len(pending')], pos')
    BY <1>4
  <2>4. ASSUME NEW p \in first..(pos' - 1), source[p] \notin Space
        PROVE  \E n \in DOMAIN pending' : Covers(pending'[n], p)
    <3>1. CASE p \in first..(pos - 1)
      <4>1. PICK n \in DOMAIN pending : Covers(pending[n], p)
        BY <1>1, <2>4, <3>1 DEF Claims
      <4>2. n \in DOMAIN pending' /\ pending'[n] = pending[n]
        BY <1>4, <4>1
      <4>3. QED
        BY <4>1, <4>2
    <3>2. CASE p \notin first..(pos - 1)
      <4>1. first \in Nat /\ pos \in Nat /\ first <= pos
        BY <1>1
      <4>2. pos' \in Nat /\ pos <= pos'
        BY <4>1
      <4>3. \A q \in first..(pos' - 1) : q \in first..(pos - 1) \/ q \in pos..(pos' - 1)
        BY ONLY <4>1, <4>2, TwoParts
      <4>4. Covers(pos, p)
        BY <2>4, <3>2, <4>3
      <4>5. m + 1 \in DOMAIN pending' /\ pending'[m + 1] = pos
        BY <1>4
      <4>6. QED
        BY <4>4, <4>5
    <3>3. QED
      BY <3>1, <3>2
  <2>5. QED
    BY <2>1, <2>2, <2>3, <2>4 DEF Claims
<1>7. Claims(pending, EndBefore(Len(tokens) + 1), pos)'
  <2>1. PICK c, a, b : c = pending' /\ a = first /\ b = pos'
    OBVIOUS
  <2>2. Claims(c, a, b)'
    BY <1>6, <2>1, ClaimsStay
  <2>3. QED
    BY <1>3, <2>1, <2>2 DEF first
<1>8. \A k \in DOMAIN tokens : Claims(tokens[k].comments, EndBefore(k), tokens[k].from)'
  <2>1. ASSUME NEW k \in DOMAIN tokens PROVE Claims(tokens[k].comments, EndBefore(k), tokens[k].from)'
    <3>1. Claims(tokens[k].comments, EndBefore(k), tokens[k].from)
      BY DEF CommentsInv
    <3>2. PICK c, a, b : c = tokens[k].comments /\ a = EndBefore(k) /\ b = tokens[k].from
      OBVIOUS
    <3>3. Claims(c, a, b)'
      BY <3>1, <3>2, ClaimsStay
    <3>4. QED
      BY <1>2, <3>2, <3>3
  <2>2. QED
    BY <2>1
<1>9. QED
  BY <1>1, <1>3, <1>4, <1>7, <1>8 DEF CommentsInv, first

LEMMA ListedIs ==
  ASSUME NEW S, NEW n \in Nat, NEW s, s = [k \in 1..n |-> s[k]], \A k \in 1..n : s[k] \in S
  PROVE  s \in Seq(S)
OBVIOUS

(* A token takes the comments pending, and there are none behind it yet.   *)
LEMMA Claimed ==
  ASSUME CommentsInv, UNCHANGED source, NEW kind, NEW text, NEW end \in Nat \ {0},
         tokens' = Append(tokens, [kind |-> kind, text |-> text, from |-> pos, end |-> end,
                                   comments |-> pending]),
         pos' = end, pending' = <<>>
  PROVE  CommentsInv'
<1> DEFINE m == Len(tokens)
           token == [kind |-> kind, text |-> text, from |-> pos, end |-> end, comments |-> pending]
<1>1. /\ m \in Nat /\ DOMAIN tokens = 1..m /\ Len(tokens') = m + 1 /\ DOMAIN tokens' = 1..(m + 1)
      /\ tokens'[m + 1] = token /\ \A k \in 1..m : tokens'[k] = tokens[k]
  BY DEF CommentsInv
<1>2. tokens' \in Seq(Entries(tokens'))
  <2>1. \A k \in 1..(m + 1) : tokens'[k] \in Entries(tokens')
    BY <1>1 DEF Entries
  <2>2. tokens' = [k \in 1..(m + 1) |-> tokens'[k]]
    <3>1. tokens' \in Seq(Entries(tokens) \cup {token})
      BY AppendProperties DEF CommentsInv
    <3> HIDE DEF token
    <3>2. QED
      BY <1>1, <3>1
  <2> HIDE DEF m, token
  <2>3. m + 1 \in Nat
    BY <1>1
  <2>4. QED
    BY <2>1, <2>2, <2>3, ListedIs
<1>3. token.from = pos /\ token.end = end /\ token.comments = pending
  OBVIOUS
<1> HIDE DEF m, token
<1>4. \A k \in 1..(m + 1) : EndBefore(k)' = EndBefore(k)
  BY <1>1 DEF EndBefore
<1>5. EndBefore(Len(tokens) + 1)' = end
  <2>1. Len(tokens') + 1 = m + 2 /\ m + 2 # 1 /\ Len(tokens') + 1 - 1 = m + 1
    BY <1>1
  <2>2. QED
    BY <1>1, <1>3, <2>1 DEF EndBefore
<1>6. Claims(pending, EndBefore(Len(tokens) + 1), pos)'
  <2>1. end..(end - 1) = {} /\ DOMAIN pending' = {} /\ 2..Len(pending') = {}
    OBVIOUS
  <2>2. QED
    BY <1>5, <2>1 DEF Claims
<1>7. ASSUME NEW k \in DOMAIN tokens'
      PROVE  Claims(tokens[k].comments, EndBefore(k), tokens[k].from)'
  <2>1. Claims(tokens'[k].comments, EndBefore(k), tokens'[k].from)
    <3>1. CASE k = m + 1
      BY <1>1, <1>3, <3>1 DEF CommentsInv, m
    <3>2. CASE k # m + 1
      <4>1. k \in DOMAIN tokens /\ tokens'[k] = tokens[k]
        BY <1>1, <1>7, <3>2
      <4>2. QED
        BY <4>1 DEF CommentsInv
    <3>3. QED
      BY <3>1, <3>2
  <2>2. EndBefore(k)' = EndBefore(k)
    BY <1>1, <1>4, <1>7
  <2>3. PICK c, a, b : c = tokens'[k].comments /\ a = EndBefore(k) /\ b = tokens'[k].from
    OBVIOUS
  <2>4. Claims(c, a, b)'
    BY <2>1, <2>3, ClaimsStay
  <2>5. QED
    BY <2>2, <2>3, <2>4
<1>8. Entries(source)' = Entries(source)
  BY DEF Entries
<1>9. QED
  <2>1. end \in 1..end
    OBVIOUS
  <2>2. (source \in Seq(Entries(source)))' /\ pending' \in Seq(Nat)
    BY <1>8 DEF CommentsInv
  <2>3. (tokens \in Seq(Entries(tokens)))'
    BY <1>2 DEF Entries
  <2>4. QED
    BY <1>5, <1>6, <1>7, <2>1, <2>2, <2>3 DEF CommentsInv

(* What is left to do then: each step reads on, within the text, or is the *)
(* last one.                                                               *)
ReadsOn == \/ pos' \in (pos + 1)..(Len(source) + 1)
           \/ pos' = pos /\ lexing' # lexing

Kept == CommentsInv' /\ ReadsOn

LEMMA EmitKeeps ==
  ASSUME CommentsInv, NEW kind, NEW text, NEW end \in (pos + 1)..(Len(source) + 1),
         Emit(kind, text, end)
  PROVE  Kept
<1>1. end \in Nat \ {0} /\ pos' = end
  BY DEF CommentsInv, Emit
<1>2. CommentsInv'
  BY <1>1, Claimed DEF Emit
<1>3. QED
  BY <1>1, <1>2 DEF Kept, ReadsOn

LEMMA NothingReadKeeps ==
  ASSUME CommentsInv, UNCHANGED <<source, pos, pending, tokens>>
  PROVE  CommentsInv'
<1>1. \A k \in pos..(pos' - 1) : FALSE
  BY DEF CommentsInv
<1>2. pos' \in Nat /\ pos <= pos'
  BY DEF CommentsInv
<1>3. QED
  BY <1>1, <1>2, Skipped

LEMMA ErrorKeeps ==
  ASSUME CommentsInv, Scanning, NEW code, code # "scanning", TokenizeError(code)
  PROVE  Kept
<1>1. UNCHANGED <<source, pos, pending, tokens>> /\ lexing' # lexing
  BY DEF TokenizeError, Scanning
<1>2. QED
  BY <1>1, NothingReadKeeps DEF Kept, ReadsOn

-----------------------------------------------------------------------------
(* What the scanners know of the place they begin at.                      *)
LEMMA Here ==
  ASSUME CommentsInv
  PROVE  /\ source \in Seq(Entries(source)) /\ pos \in Nat \ {0}
         /\ Len(source) \in Nat /\ DOMAIN source = 1..Len(source)
         /\ Peek(0) = At(pos) /\ Peek(1) = At(pos + 1)
         /\ \A p : At(p) # EndOfText => p \in 1..Len(source) /\ At(p) = source[p]
<1>1. source \in Seq(Entries(source)) /\ pos \in Nat \ {0}
  BY DEF CommentsInv
<1>2. pos + 0 = pos
  BY <1>1
<1>3. QED
  BY <1>1, <1>2, Ahead DEF Peek

(* One lemma for each scanner.                                             *)
LEMMA SkipSpaceKeeps == CommentsInv /\ SkipSpace => Kept
<1> SUFFICES ASSUME CommentsInv, SkipSpace PROVE Kept
  OBVIOUS
<1>1. pos \in 1..Len(source) /\ At(pos) \in Space
  BY Here, EndIsNothing DEF SkipSpace
<1>2. pos \in 1..(Len(source) + 1)
  BY <1>1, Here
<1>3. /\ pos' \in pos..(Len(source) + 1) /\ \A k \in pos..(pos' - 1) : At(k) \in Space
      /\ At(pos') \notin Space /\ UNCHANGED <<source, tokens, pending>>
  BY <1>2, Here, RunEnds, EndIsNothing DEF SkipSpace
<1>4. \A k \in pos..(pos' - 1) : source[k] \in Space
  BY <1>3, Here, EndIsNothing
<1>5. pos' \in Nat /\ pos <= pos'
  BY <1>3, Here
<1>6. CommentsInv'
  BY <1>3, <1>4, <1>5, Skipped
<1>7. pos' # pos
  BY <1>1, <1>3
<1>8. pos' \in (pos + 1)..(Len(source) + 1)
  <2>1. pos \in Nat /\ Len(source) \in Nat
    BY Here
  <2>2. QED
    BY ONLY <1>3, <1>7, <2>1
<1>9. QED
  BY <1>6, <1>8 DEF Kept, ReadsOn

LEMMA SkipLineCommentKeeps == CommentsInv /\ SkipLineComment => Kept
<1> SUFFICES ASSUME CommentsInv, SkipLineComment PROVE Kept
  OBVIOUS
<1>1. Peek(0) = "/" /\ Peek(1) = "/" /\ "/" # EndOfText
  BY EndIsNothing DEF SkipLineComment
<1>2. pos \in 1..Len(source) /\ pos + 1 \in 1..Len(source) /\ At(pos) = "/" /\ At(pos + 1) = "/"
  BY <1>1, Here
<1>3. pos + 2 \in 1..(Len(source) + 1)
  BY <1>2, Here
<1> DEFINE Stops == {"\n", EndOfText}
           IsEnd(p) == At(p) \in Stops /\ \A k \in (pos + 2)..(p - 1) : At(k) \notin Stops
<1>4. \E p \in (pos + 2)..(Len(source) + 1) : IsEnd(p)
  BY <1>3, Here, FirstStop
<1>5. pos' = CHOOSE p \in (pos + 2)..(Len(source) + 1) : IsEnd(p)
  BY DEF SkipLineComment
<1>6. pos' \in (pos + 2)..(Len(source) + 1) /\ IsEnd(pos')
  <2> HIDE DEF IsEnd
  <2>1. QED
    BY <1>4, <1>5
<1>7. pos' \in Nat /\ pos < pos' /\ pos' \in (pos + 1)..(Len(source) + 1) /\ pos \in Nat
  BY <1>6, Here
<1>8. "/" \notin Stops
  BY EndIsNothing, NoSpace DEF Space
<1> HIDE DEF Stops
<1>9. \A k \in pos..(pos' - 1) : At(k) \notin Stops
  BY <1>2, <1>6, <1>7, <1>8, PlacesOfAComment
<1>10. /\ Opens(pos) /\ ~Covers(pos, pos')
       /\ \A p \in pos..(pos' - 1) : Covers(pos, p)
  <2>1. Opens(pos)
    BY <1>2 DEF Opens
  <2>2. \A p : Covers(pos, p) <=> pos <= p /\ \A q \in pos..p : At(q) \notin Stops
    BY <1>2 DEF Covers, Stops
  <2>3. pos' \in pos..pos' /\ At(pos') \in Stops
    BY <1>6, <1>7
  <2>4. ASSUME NEW p \in pos..(pos' - 1) PROVE Covers(pos, p)
    <3>1. pos <= p /\ pos..p \subseteq pos..(pos' - 1)
      BY <1>7, PlacesOfAComment
    <3>2. QED
      BY <1>9, <2>2, <3>1
  <2>5. QED
    BY <2>1, <2>2, <2>3, <2>4
<1>11. UNCHANGED <<source, tokens>> /\ pending' = Append(pending, pos)
  BY DEF SkipLineComment
<1>12. QED
  BY <1>7, <1>10, <1>11, Noted DEF Kept, ReadsOn

LEMMA SkipBlockCommentKeeps == CommentsInv /\ SkipBlockComment => Kept
<1> SUFFICES ASSUME CommentsInv, SkipBlockComment PROVE Kept
  OBVIOUS
<1> DEFINE Closes(p) == At(p) = "*" /\ At(p + 1) = "/"
           closings == {p \in (pos + 2)..Len(source) : Closes(p)}
<1>1. CASE closings = {}
  <2>1. TokenizeError("CG1003") /\ Scanning
    BY <1>1 DEF SkipBlockComment
  <2>2. QED
    BY <2>1, ErrorKeeps
<1>2. CASE closings # {}
  <2>1. pos' = 2 + CHOOSE p \in closings : \A q \in closings : p <= q
    BY <1>2 DEF SkipBlockComment
  <2>2. UNCHANGED <<source, tokens>> /\ pending' = Append(pending, pos)
    BY <1>2 DEF SkipBlockComment
  <2>3. closings \in SUBSET Nat /\ \A p \in closings : p \in Nat /\ pos + 2 <= p /\ p + 1 <= Len(source)
    BY Here, EndIsNothing
  <2>4. \A p : p \in closings => Closes(p)
    OBVIOUS
  <2>5. \A q : q \in (pos + 2)..Len(source) /\ Closes(q) => q \in closings
    OBVIOUS
  <2> HIDE DEF closings
  <2>6. \E p \in closings : \A q \in closings : p <= q
    BY <1>2, <2>3, Least
  <2>7. PICK p \in closings : pos' = 2 + p /\ \A q \in closings : p <= q
    BY <2>1, <2>6
  <2>8. /\ pos \in Nat /\ p \in Nat /\ pos + 2 <= p /\ p + 1 <= Len(source) /\ Len(source) \in Nat
        /\ pos' = p + 2
    BY <2>3, <2>7, Here
  <2>9. pos' \in Nat /\ pos < pos' /\ pos' \in (pos + 1)..(Len(source) + 1)
    BY <2>8
  <2>10. At(pos) = "/" /\ At(pos + 1) = "*"
    BY Here DEF SkipBlockComment
  <2>11. Opens(pos)
    BY <2>10 DEF Opens
  <2>12. \A t : Covers(pos, t) <=> pos <= t /\ \A q \in (pos + 2)..(t - 2) : ~Closes(q)
    BY <2>10 DEF Covers
  <2>13. Closes(p)
    BY <2>4
  <2> HIDE DEF Closes
  <2>14. ~Covers(pos, pos')
    <3>1. p \in (pos + 2)..(pos' - 2)
      BY <2>8
    <3>2. QED
      BY <2>12, <2>13, <3>1
  <2>15. ASSUME NEW t \in pos..(pos' - 1) PROVE Covers(pos, t)
    <3>1. ASSUME NEW q \in (pos + 2)..(t - 2) PROVE ~Closes(q)
      <4>1. q \in (pos + 2)..Len(source) /\ ~(p <= q)
        BY <2>8
      <4>2. QED
        BY <2>5, <2>7, <4>1
    <3>2. pos <= t
      BY <2>8
    <3>3. QED
      BY <2>12, <3>1, <3>2
  <2>16. CommentsInv'
    BY <2>2, <2>9, <2>11, <2>14, <2>15, Noted
  <2>17. QED
    BY <2>9, <2>16 DEF Kept, ReadsOn
<1>3. QED
  BY <1>1, <1>2

LEMMA ScanStringKeeps == CommentsInv /\ ScanString => Kept
<1> SUFFICES ASSUME CommentsInv, ScanString PROVE Kept
  OBVIOUS
<1> DEFINE body == StringBody(pos + 1, Peek(0))
<1>1. pos \in 1..Len(source)
  BY Here, EndIsNothing DEF ScanString
<1>2. pos + 1 \in 1..(Len(source) + 1)
  BY <1>1, Here
<1>3. body.end \in {0} \cup (pos + 1 + 1)..(Len(source) + 1)
  BY <1>2, Here, StringEnds
<1>4. IF body.end = 0 THEN TokenizeError("CG1002") ELSE Emit("STRING", body.text, body.end)
  BY DEF ScanString
<1> HIDE DEF body
<1>5. CASE body.end = 0
  BY <1>4, <1>5, ErrorKeeps DEF ScanString
<1>6. CASE body.end # 0
  <2>1. body.end \in (pos + 1)..(Len(source) + 1)
    BY <1>3, <1>6, Here
  <2>2. QED
    BY <1>4, <1>6, <2>1, EmitKeeps
<1>7. QED
  BY <1>5, <1>6

LEMMA ScanBacktickKeeps == CommentsInv /\ ScanBacktick => Kept
<1> SUFFICES ASSUME CommentsInv, ScanBacktick PROVE Kept
  OBVIOUS
<1> DEFINE body == BacktickBody(pos + 1)
<1>1. pos \in 1..Len(source)
  BY Here, EndIsNothing DEF ScanBacktick
<1>2. pos + 1 \in 1..(Len(source) + 1)
  BY <1>1, Here
<1>3. body.end \in {0} \cup (pos + 1 + 1)..(Len(source) + 1)
  BY <1>2, Here, BacktickEnds
<1>4. IF body.end = 0 THEN TokenizeError("CG1002") ELSE Emit("IDENT", body.text, body.end)
  BY DEF ScanBacktick
<1> HIDE DEF body
<1>5. CASE body.end = 0
  BY <1>4, <1>5, ErrorKeeps DEF ScanBacktick
<1>6. CASE body.end # 0
  <2>1. body.end \in (pos + 1)..(Len(source) + 1)
    BY <1>3, <1>6, Here
  <2>2. QED
    BY <1>4, <1>6, <2>1, EmitKeeps
<1>7. QED
  BY <1>5, <1>6

LEMMA ScanBasedNumberKeeps == CommentsInv /\ ScanBasedNumber => Kept
<1> SUFFICES ASSUME CommentsInv, ScanBasedNumber PROVE Kept
  OBVIOUS
<1> DEFINE valid == IF Peek(1) \in {"x", "X"} THEN HexDigit ELSE Digit \ {"8", "9"}
           end == RunEnd(pos + 2, valid)
<1>1. pos + 1 \in 1..Len(source)
  BY Here, EndIsNothing DEF ScanBasedNumber, InBasedNumber
<1>2. pos + 2 \in 1..(Len(source) + 1)
  BY <1>1, Here
<1>3. end \in (pos + 2)..(Len(source) + 1)
  BY <1>2, Here, RunEnds, EndIsNothing
<1>4. \/ TokenizeError("CG1004")
      \/ Emit("INTEGER", SubSeq(source, pos, end - 1), end)
  BY DEF ScanBasedNumber
<1> HIDE DEF end
<1>5. end \in (pos + 1)..(Len(source) + 1)
  BY <1>3, Here
<1>6. QED
  BY <1>4, <1>5, ErrorKeeps, EmitKeeps DEF ScanBasedNumber

LEMMA ScanNumberKeeps == CommentsInv /\ ScanNumber => Kept
<1> SUFFICES ASSUME CommentsInv, ScanNumber PROVE Kept
  OBVIOUS
<1>1. NumberEnd \in {0} \cup (pos + 1)..(Len(source) + 1)
  BY Here, NumberEnds DEF ScanNumber
<1>2. CASE NumberEnd = 0
  BY <1>2, ErrorKeeps DEF ScanNumber
<1>3. CASE NumberEnd # 0
  BY <1>1, <1>3, EmitKeeps DEF ScanNumber
<1>4. QED
  BY <1>2, <1>3

LEMMA ScanParameterKeeps == CommentsInv /\ ScanParameter => Kept
<1> SUFFICES ASSUME CommentsInv, ScanParameter PROVE Kept
  OBVIOUS
<1> DEFINE end == RunEnd(pos + 1, Word)
<1>1. pos \in 1..Len(source)
  BY Here, EndIsNothing DEF ScanParameter
<1>2. pos + 1 \in 1..(Len(source) + 1)
  BY <1>1, Here
<1>3. end \in (pos + 1)..(Len(source) + 1)
  BY <1>2, Here, RunEnds, WordsAreThere
<1>4. \/ TokenizeError("CG1005")
      \/ Emit("PARAMETER", SubSeq(source, pos + 1, end - 1), end)
  BY DEF ScanParameter
<1> HIDE DEF end
<1>5. QED
  BY <1>3, <1>4, ErrorKeeps, EmitKeeps DEF ScanParameter

LEMMA ScanOperatorKeeps == CommentsInv /\ ScanOperator => Kept
<1> SUFFICES ASSUME CommentsInv, ScanOperator PROVE Kept
  OBVIOUS
<1> DEFINE two == <<Peek(0), Peek(1)>>
<1>1. CASE two \in DOMAIN TwoCharacterKind
  <2>1. Peek(1) # EndOfText
    <3>1. Peek(1) \in {">", "=", "~", "-", "."}
      BY <1>1 DEF TwoCharacterKind, TwoCharacters
    <3>2. EndOfText \notin {">", "=", "~", "-", "."}
      BY Zenon DEF EndOfText
    <3>3. QED
      BY <3>1, <3>2
  <2>2. pos + 2 \in (pos + 1)..(Len(source) + 1)
    BY <2>1, Here
  <2>3. \E kind : Emit(kind, two, pos + 2)
    BY <1>1 DEF ScanOperator
  <2>4. QED
    BY <2>2, <2>3, EmitKeeps
<1>2. CASE two \notin DOMAIN TwoCharacterKind
  <2>1. Peek(0) \in OneCharacterKind /\ \E kind, text : Emit(kind, text, pos + 1)
    BY <1>2 DEF ScanOperator
  <2>2. EndOfText \notin OneCharacterKind
    BY Zenon DEF EndOfText, OneCharacterKind
  <2>3. pos + 1 \in (pos + 1)..(Len(source) + 1)
    BY <2>1, <2>2, Here
  <2>4. QED
    BY <2>1, <2>3, EmitKeeps
<1>3. QED
  BY <1>1, <1>2

LEMMA ScanWordKeeps == CommentsInv /\ ScanWord => Kept
<1> SUFFICES ASSUME CommentsInv, ScanWord PROVE Kept
  OBVIOUS
<1> DEFINE end == RunEnd(pos, Word)
<1>1. pos \in 1..Len(source) /\ At(pos) \in Word
  BY Here, WordsAreThere DEF ScanWord, Word
<1>2. pos \in 1..(Len(source) + 1)
  BY <1>1, Here
<1>3. end \in pos..(Len(source) + 1) /\ At(end) \notin Word
  BY <1>2, Here, RunEnds, WordsAreThere
<1>4. \E kind, text : Emit(kind, text, end)
  BY Zenon DEF ScanWord
<1> HIDE DEF end
<1>5. end \in (pos + 1)..(Len(source) + 1)
  BY <1>1, <1>3, Here
<1>6. QED
  BY <1>4, <1>5, EmitKeeps

LEMMA EndOfInputKeeps == CommentsInv /\ EndOfInput => Kept
<1> SUFFICES ASSUME CommentsInv, EndOfInput PROVE Kept
  OBVIOUS
<1>1. CommentsInv'
  BY Here, Claimed DEF EndOfInput
<1>2. pos' = pos /\ lexing' # lexing
  BY DEF EndOfInput, Scanning
<1>3. QED
  BY <1>1, <1>2 DEF Kept, ReadsOn

LEMMA LexKeeps == CommentsInv /\ Lex => Kept
<1> SUFFICES ASSUME CommentsInv, Lex PROVE Kept
  OBVIOUS
<1>1. CASE IllegalCharacter
  BY <1>1, ErrorKeeps DEF IllegalCharacter
<1>2. QED
  BY <1>1, SkipSpaceKeeps, SkipLineCommentKeeps, SkipBlockCommentKeeps, ScanStringKeeps,
     ScanBacktickKeeps, ScanBasedNumberKeeps, ScanNumberKeeps, ScanParameterKeeps,
     ScanOperatorKeeps, ScanWordKeeps, EndOfInputKeeps DEF Lex

LEMMA CommentsInvariance == LexerSpec => []CommentsInv
<1>1. ASSUME NEW text \in Seq(STRING), NEW s, s = text PROVE s \in Seq(Entries(s))
  <2>1. DOMAIN text = 1..Len(text) /\ Len(text) \in Nat /\ text = [i \in 1..Len(text) |-> text[i]]
    OBVIOUS
  <2>2. \A i \in 1..Len(text) : text[i] \in Entries(text)
    BY <2>1 DEF Entries
  <2>3. QED
    BY <1>1, <2>1, <2>2, ListedIs
<1>2. ASSUME source \in Seq(Entries(source)), pos = 1, pending = <<>>, tokens = <<>> PROVE CommentsInv
  <2>1. EndBefore(Len(tokens) + 1) = 1 /\ 1..(pos - 1) = {} /\ DOMAIN tokens = {} /\ DOMAIN pending = {}
        /\ Len(pending) = 0
    BY <1>2 DEF EndBefore
  <2>2. Claims(pending, EndBefore(Len(tokens) + 1), pos)
    BY <1>2, <2>1 DEF Claims
  <2>3. QED
    BY <1>2, <2>1, <2>2 DEF CommentsInv
<1>3. LexerIdle => CommentsInv
  BY <1>1, <1>2 DEF LexerIdle, LexInit
<1>4. CommentsInv /\ [LexerNext]_lexer => CommentsInv'
  <2> SUFFICES ASSUME CommentsInv, [LexerNext]_lexer PROVE CommentsInv'
    OBVIOUS
  <2>1. CASE Lex
    BY <2>1, LexKeeps DEF Kept
  <2>2. CASE \E text \in Seq(STRING) : Restart(text)
    <3>1. PICK text \in Seq(STRING) : Restart(text)
      BY <2>2
    <3>2. source' = text /\ pos' = 1 /\ pending' = <<>> /\ tokens' = <<>>
      BY <3>1 DEF Restart
    <3>3. source' \in Seq(Entries(source')) /\ tokens' \in Seq(Entries(tokens')) /\ pending' \in Seq(Nat)
      BY <1>1, <3>2
    <3>4. EndBefore(Len(tokens) + 1)' = 1 /\ 1..(pos' - 1) = {} /\ DOMAIN tokens' = {}
          /\ DOMAIN pending' = {} /\ Len(pending') = 0
      BY <3>2 DEF EndBefore
    <3>5. Claims(pending, EndBefore(Len(tokens) + 1), pos)'
      BY <3>2, <3>4 DEF Claims
    <3>6. QED
      BY <3>2, <3>3, <3>4, <3>5 DEF CommentsInv, Entries
  <2>3. CASE UNCHANGED lexer
    BY <2>3, NothingReadKeeps DEF lexer
  <2>4. QED
    BY <2>1, <2>2, <2>3 DEF LexerNext
<1>5. QED
  BY <1>3, <1>4, PTL DEF LexerSpec

(* Every comment is kept, once, by the first token after it (_take_comments *)
(* in lexer.py), however many there are between two tokens, for every text, *)
(* whichever scanner makes the token, and for each of the texts that are    *)
(* read one after another.                                                  *)
THEOREM CommentsAlwaysGoToTheNextToken == LexerSpec => []CommentsGoToTheNextToken
<1>1. CommentsInv => CommentsGoToTheNextToken
  BY ClaimsAreEnough DEF CommentsInv
<1>2. QED
  BY <1>1, CommentsInvariance, PTL

(* No scanner stands still and none goes beyond the text: each step of the *)
(* lexer (next_token) reads on, by at least one atom, or ends the reading.  *)
THEOREM TheLexerReadsOn == LexerSpec => [][Lex => ReadsOn]_lexer
<1>1. CommentsInv /\ [LexerNext]_lexer => [Lex => ReadsOn]_lexer
  BY LexKeeps DEF Kept
<1>2. QED
  BY <1>1, CommentsInvariance, PTL DEF LexerSpec

-----------------------------------------------------------------------------
(* Counting. *)

LEMMA CountIsNatural ==
  ASSUME NEW items \in Seq(Vocabulary), NEW k \in Nat, NEW item
  PROVE  IsFiniteSet(Places(items, k, item)) /\ Later(items, k, item) \in Nat
<1>1. IsFiniteSet(k..Len(items))
  BY FS_Interval
<1>2. Places(items, k, item) \subseteq k..Len(items)
  BY DEF Places
<1>3. IsFiniteSet(Places(items, k, item))
  BY <1>1, <1>2, FS_Subset
<1>4. QED
  BY <1>3, FS_CardinalityType DEF Later

LEMMA OpenIsInteger ==
  ASSUME NEW items \in Seq(Vocabulary), NEW k \in Nat
  PROVE  Open(items, k) \in Int
BY CountIsNatural DEF Open

(* One item more. *)
LEMMA CountStep ==
  ASSUME NEW items \in Seq(Vocabulary), NEW k \in 1..Len(items), NEW item
  PROVE  Later(items, k, item) = Later(items, k + 1, item) + (IF items[k] = item THEN 1 ELSE 0)
<1>1. IsFiniteSet(Places(items, k + 1, item)) /\ Cardinality(Places(items, k + 1, item)) \in Nat
  BY CountIsNatural DEF Later
<1>2. k \notin Places(items, k + 1, item)
  BY DEF Places
<1>3. CASE items[k] = item
  <2>1. Places(items, k, item) = Places(items, k + 1, item) \union {k}
    BY <1>3 DEF Places
  <2>2. Cardinality(Places(items, k, item)) = Cardinality(Places(items, k + 1, item)) + 1
    BY <1>1, <1>2, <2>1, FS_AddElement
  <2>3. QED
    BY <1>3, <2>2 DEF Later
<1>4. CASE items[k] # item
  <2>1. Places(items, k, item) = Places(items, k + 1, item)
    BY <1>4 DEF Places
  <2>2. QED
    BY <1>1, <1>4, <2>1 DEF Later
<1>5. QED
  BY <1>3, <1>4

LEMMA OpenStep ==
  ASSUME NEW items \in Seq(Vocabulary), NEW k \in 1..Len(items)
  PROVE  /\ items[k] = "@enter" => Open(items, k) = Open(items, k + 1) - 1
         /\ items[k] = "@leave" => Open(items, k) = Open(items, k + 1) + 1
         /\ items[k] \notin {"@enter", "@leave"} => Open(items, k) = Open(items, k + 1)
<1>1. /\ Later(items, k, "@enter") = Later(items, k + 1, "@enter") + (IF items[k] = "@enter" THEN 1 ELSE 0)
      /\ Later(items, k, "@leave") = Later(items, k + 1, "@leave") + (IF items[k] = "@leave" THEN 1 ELSE 0)
  BY CountStep
<1>2. Later(items, k + 1, "@enter") \in Nat /\ Later(items, k + 1, "@leave") \in Nat
  BY CountIsNatural
<1>3. QED
  BY <1>1, <1>2 DEF Open

LEMMA NothingLater ==
  ASSUME NEW items \in Seq(Vocabulary)
  PROVE  Open(items, Len(items) + 1) = 0
<1>1. ASSUME NEW item
      PROVE  Later(items, Len(items) + 1, item) = 0
  <2>1. Places(items, Len(items) + 1, item) = {}
    BY DEF Places
  <2>2. QED
    BY <2>1, FS_EmptySet DEF Later
<1>2. QED
  BY <1>1 DEF Open

(* Where the ends of two sequences agree, so do the counts. *)
SameEnd(s, t, n, k) ==
  /\ Len(s) = Len(t) + n /\ k > n
  /\ \A i \in k..Len(s) : s[i] = t[i - n]

LEMMA CountOfTheSameEnd ==
  ASSUME NEW s \in Seq(Vocabulary), NEW t \in Seq(Vocabulary), NEW n \in Nat, NEW k \in Nat, NEW item,
         SameEnd(s, t, n, k)
  PROVE  Later(s, k, item) = Later(t, k - n, item)
<1> DEFINE f == [i \in Places(s, k, item) |-> i - n]
<1>1. f \in Bijection(Places(s, k, item), Places(t, k - n, item))
  <2>1. \A i \in Places(s, k, item) : i - n \in Places(t, k - n, item)
    BY DEF Places, SameEnd
  <2>2. f \in Injection(Places(s, k, item), Places(t, k - n, item))
    <3>1. f \in [Places(s, k, item) -> Places(t, k - n, item)]
      BY <2>1
    <3>2. \A i, j \in Places(s, k, item) : i - n = j - n => i = j
      BY DEF Places
    <3>3. QED
      BY <3>1, <3>2 DEF Injection, IsInjective
  <2>3. \A j \in Places(t, k - n, item) : j + n \in Places(s, k, item) /\ f[j + n] = j
    BY DEF Places, SameEnd
  <2>4. f \in Surjection(Places(s, k, item), Places(t, k - n, item))
    BY <2>1, <2>3 DEF Surjection
  <2>5. QED
    BY <2>2, <2>4 DEF Bijection
<1>2. IsFiniteSet(Places(s, k, item))
  BY CountIsNatural
<1>3. ExistsBijection(Places(s, k, item), Places(t, k - n, item))
  BY <1>1 DEF ExistsBijection
<1>4. Cardinality(Places(s, k, item)) = Cardinality(Places(t, k - n, item))
  BY <1>2, <1>3, FS_Bijection
<1>5. QED
  BY <1>4 DEF Later

LEMMA OpenOfTheSameEnd ==
  ASSUME NEW s \in Seq(Vocabulary), NEW t \in Seq(Vocabulary), NEW n \in Nat, NEW k \in Nat,
         SameEnd(s, t, n, k)
  PROVE  Open(s, k) = Open(t, k - n)
BY CountOfTheSameEnd DEF Open

(* What is open in a sequence before another is open in both together. *)
LEMMA OpenOfAConcatenation ==
  ASSUME NEW s \in Seq(Vocabulary), NEW t \in Seq(Vocabulary), NEW k \in 1..(Len(s) + Len(t) + 1)
  PROVE  /\ s \o t \in Seq(Vocabulary) /\ Len(s \o t) = Len(s) + Len(t)
         /\ k > Len(s) => Open(s \o t, k) = Open(t, k - Len(s))
         /\ k <= Len(s) => Open(s \o t, k) = Open(s, k) + Open(t, 1)
<1>1. /\ s \o t \in Seq(Vocabulary) /\ Len(s \o t) = Len(s) + Len(t)
      /\ Len(s) \in Nat /\ Len(t) \in Nat
      /\ \A i \in 1..Len(s) : (s \o t)[i] = s[i]
      /\ \A i \in (Len(s) + 1)..(Len(s) + Len(t)) : (s \o t)[i] = t[i - Len(s)]
  <2>1. Len(s) \in Nat /\ Len(t) \in Nat
    OBVIOUS
  <2>2. /\ s \o t \in Seq(Vocabulary) /\ Len(s \o t) = Len(s) + Len(t)
        /\ \A i \in 1..(Len(s) + Len(t)) : (s \o t)[i] = IF i <= Len(s) THEN s[i] ELSE t[i - Len(s)]
    BY ConcatProperties
  <2>3. QED
    BY <2>1, <2>2
<1>2. ASSUME NEW m \in Nat, m > Len(s)
      PROVE  Open(s \o t, m) = Open(t, m - Len(s))
  <2>1. SameEnd(s \o t, t, Len(s), m)
    <3>1. ASSUME NEW i \in m..Len(s \o t) PROVE (s \o t)[i] = t[i - Len(s)]
      <4>1. i \in (Len(s) + 1)..(Len(s) + Len(t))
        BY <1>1, <1>2
      <4>2. QED
        BY <1>1, <4>1
    <3>2. Len(s \o t) = Len(t) + Len(s)
      BY <1>1
    <3>3. QED
      BY <1>2, <3>1, <3>2 DEF SameEnd
  <2> DEFINE both == s \o t
  <2>2. both \in Seq(Vocabulary) /\ Len(s) \in Nat /\ m \in Nat /\ SameEnd(both, t, Len(s), m)
    BY <1>1, <2>1
  <2> HIDE DEF both
  <2>3. Open(both, m) = Open(t, m - Len(s))
    BY <2>2, OpenOfTheSameEnd
  <2>4. QED
    BY <2>3 DEF both
<1>3. ASSUME k <= Len(s), NEW item
      PROVE  Later(s \o t, k, item) = Later(s, k, item) + Later(s \o t, Len(s) + 1, item)
  <2>1. Places(s \o t, k, item) = Places(s, k, item) \union Places(s \o t, Len(s) + 1, item)
    BY <1>1, <1>3 DEF Places
  <2>2. Places(s, k, item) \intersect Places(s \o t, Len(s) + 1, item) = {}
    BY <1>1 DEF Places
  <2>3. IsFiniteSet(Places(s, k, item)) /\ IsFiniteSet(Places(s \o t, Len(s) + 1, item))
    <3>1. k \in Nat /\ Len(s) + 1 \in Nat
      BY <1>1
    <3>2. QED
      BY <1>1, <3>1, CountIsNatural
  <2>4. Cardinality(Places(s, k, item)) \in Nat /\ Cardinality(Places(s \o t, Len(s) + 1, item)) \in Nat
    BY <2>3, FS_CardinalityType
  <2>5. Cardinality(Places(s \o t, k, item))
          = Cardinality(Places(s, k, item)) + Cardinality(Places(s \o t, Len(s) + 1, item)) - Cardinality({})
    BY <2>1, <2>2, <2>3, FS_Union
  <2>6. QED
    BY <2>4, <2>5, FS_EmptySet DEF Later
<1>4. ASSUME k <= Len(s)
      PROVE  Open(s \o t, k) = Open(s, k) + Open(t, 1)
  <2>1. Open(s \o t, Len(s) + 1) = Open(t, 1)
    BY <1>1, <1>2
  <2>2. /\ Later(s \o t, k, "@leave") = Later(s, k, "@leave") + Later(s \o t, Len(s) + 1, "@leave")
        /\ Later(s \o t, k, "@enter") = Later(s, k, "@enter") + Later(s \o t, Len(s) + 1, "@enter")
    BY <1>3, <1>4
  <2>3. /\ Later(s, k, "@leave") \in Nat /\ Later(s, k, "@enter") \in Nat
        /\ Later(s \o t, Len(s) + 1, "@leave") \in Nat /\ Later(s \o t, Len(s) + 1, "@enter") \in Nat
    <3>1. k \in Nat /\ Len(s) + 1 \in Nat
      BY <1>1
    <3>2. QED
      BY <1>1, <3>1, CountIsNatural
  <2>4. QED
    BY <2>1, <2>2, <2>3 DEF Open
<1>5. QED
  BY <1>1, <1>2, <1>4

-----------------------------------------------------------------------------
(* Nesting is kept by putting sequences one after the other, by taking the *)
(* first items off, and holds of items without the guard's.                *)

LEMMA Concatenated ==
  ASSUME NEW s, NEW t, Nested(s), Nested(t)
  PROVE  Nested(s \o t) /\ Open(s \o t, 1) = Open(s, 1) + Open(t, 1)
<1>1. s \in Seq(Vocabulary) /\ t \in Seq(Vocabulary) /\ Len(s) \in Nat /\ Len(t) \in Nat
  BY DEF Nested
<1>2. /\ s \o t \in Seq(Vocabulary) /\ Len(s \o t) = Len(s) + Len(t)
      /\ \A i \in 1..Len(s) : (s \o t)[i] = s[i]
      /\ \A i \in (Len(s) + 1)..(Len(s) + Len(t)) : (s \o t)[i] = t[i - Len(s)]
  BY <1>1
<1>3. Open(t, 1) \in Int /\ Open(t, 1) >= 0
  BY <1>1, OpenIsInteger DEF Nested
<1>4. ASSUME NEW k \in 1..(Len(s \o t) + 1)
      PROVE  Open(s \o t, k) >= 0
  <2>1. CASE k <= Len(s)
    <3>1. Open(s \o t, k) = Open(s, k) + Open(t, 1)
      BY <1>1, <1>2, <2>1, OpenOfAConcatenation
    <3>2. Open(s, k) \in Int /\ Open(s, k) >= 0
      BY <1>1, <2>1, OpenIsInteger DEF Nested
    <3>3. QED
      BY <1>3, <3>1, <3>2
  <2>2. CASE k > Len(s)
    <3>1. Open(s \o t, k) = Open(t, k - Len(s))
      BY <1>1, <1>2, <2>2, OpenOfAConcatenation
    <3>2. k - Len(s) \in 1..(Len(t) + 1)
      BY <1>1, <1>2, <2>2
    <3>3. QED
      BY <3>1, <3>2 DEF Nested
  <2>3. QED
    BY <1>1, <1>2, <2>1, <2>2
<1>5. Supplied(s \o t)
  <2>1. SUFFICES ASSUME NEW k \in 1..Len(s \o t)
                 PROVE  /\ (s \o t)[k] = "@try" =>
                             /\ k + 2 <= Len(s \o t)
                             /\ (s \o t)[k + 1] \notin Control /\ (s \o t)[k + 2] \notin Control
                        /\ (s \o t)[k] \in {"@list", "@more"} =>
                             k + 1 <= Len(s \o t) /\ (s \o t)[k + 1] \notin Control
    BY DEF Supplied
  <2>2. CASE k <= Len(s)
    <3>1. (s \o t)[k] = s[k] /\ k \in 1..Len(s)
      BY <1>1, <1>2, <2>2
    <3>2. s[k] = "@try" => k + 2 <= Len(s) /\ s[k + 1] \notin Control /\ s[k + 2] \notin Control
      BY <3>1 DEF Nested, Supplied
    <3>3. s[k] \in {"@list", "@more"} => k + 1 <= Len(s) /\ s[k + 1] \notin Control
      BY <3>1 DEF Nested, Supplied
    <3>4. QED
      BY <1>1, <1>2, <3>1, <3>2, <3>3
  <2>3. CASE k > Len(s)
    <3> DEFINE j == k - Len(s)
    <3>1. (s \o t)[k] = t[j] /\ j \in 1..Len(t)
      BY <1>1, <1>2, <2>3
    <3>2. t[j] = "@try" => j + 2 <= Len(t) /\ t[j + 1] \notin Control /\ t[j + 2] \notin Control
      BY <3>1 DEF Nested, Supplied
    <3>3. t[j] \in {"@list", "@more"} => j + 1 <= Len(t) /\ t[j + 1] \notin Control
      BY <3>1 DEF Nested, Supplied
    <3>4. j + 1 <= Len(t) => (s \o t)[k + 1] = t[j + 1]
      BY <1>1, <1>2, <2>3
    <3>5. j + 2 <= Len(t) => (s \o t)[k + 2] = t[j + 2]
      BY <1>1, <1>2, <2>3
    <3>6. QED
      BY <1>1, <1>2, <3>1, <3>2, <3>3, <3>4, <3>5
  <2>4. QED
    BY <1>1, <1>2, <2>2, <2>3
<1>6. Open(s \o t, 1) = Open(s, 1) + Open(t, 1)
  <2>1. CASE Len(s) = 0
    <3>1. Open(s \o t, 1) = Open(t, 1)
      BY <1>1, <2>1, OpenOfAConcatenation
    <3>2. Open(s, Len(s) + 1) = 0
      BY <1>1, NothingLater
    <3>3. Len(s) + 1 = 1
      BY <2>1
    <3>4. QED
      BY <1>3, <3>1, <3>2, <3>3
  <2>2. CASE Len(s) > 0
    BY <1>1, <2>2, OpenOfAConcatenation
  <2>3. QED
    BY <1>1, <2>1, <2>2
<1>7. QED
  BY <1>2, <1>4, <1>5, <1>6 DEF Nested

LEMMA FirstTakenOff ==
  ASSUME NEW s, Nested(s), NEW n \in 0..Len(s)
  PROVE  /\ Nested(SubSeq(s, n + 1, Len(s)))
         /\ Open(SubSeq(s, n + 1, Len(s)), 1) = Open(s, n + 1)
<1> DEFINE t == SubSeq(s, n + 1, Len(s))
<1>1. s \in Seq(Vocabulary) /\ Len(s) \in Nat
  BY DEF Nested
<1>2. t \in Seq(Vocabulary) /\ Len(t) = Len(s) - n /\ \A i \in 1..Len(t) : t[i] = s[i + n]
  <2>1. n + 1 \in 1..(Len(s) + 1) /\ Len(s) \in n..Len(s)
    BY <1>1
  <2>2. /\ t \in Seq(Vocabulary)
        /\ Len(t) = IF n + 1 <= Len(s) THEN Len(s) - (n + 1) + 1 ELSE 0
        /\ \A i \in 1..(Len(s) - (n + 1) + 1) : t[i] = s[(n + 1) + i - 1]
    BY <1>1, <2>1, SubSeqProperties
  <2> HIDE DEF t
  <2>3. Len(t) = Len(s) - n /\ Len(s) - (n + 1) + 1 = Len(s) - n
    BY <1>1, <2>2
  <2>4. ASSUME NEW i \in 1..Len(t) PROVE t[i] = s[i + n]
    <3>1. i \in 1..(Len(s) - (n + 1) + 1) /\ (n + 1) + i - 1 = i + n
      BY <1>1, <2>3
    <3>2. t[i] = s[(n + 1) + i - 1]
      BY <2>2, <3>1
    <3>3. QED
      BY <3>1, <3>2
  <2>5. QED
    BY <2>2, <2>3, <2>4
<1> HIDE DEF t
<1>3. ASSUME NEW k \in 1..(Len(t) + 1)
      PROVE  Open(s, k + n) = Open(t, k)
  <2>1. SameEnd(s, t, n, k + n)
    BY <1>1, <1>2 DEF SameEnd
  <2>2. k + n \in Nat /\ (k + n) - n = k
    BY <1>1, <1>2
  <2>3. Open(s, k + n) = Open(t, (k + n) - n)
    BY <1>1, <1>2, <2>1, <2>2, OpenOfTheSameEnd
  <2>4. QED
    BY <2>2, <2>3
<1>4. \A k \in 1..(Len(t) + 1) : Open(t, k) >= 0
  <2>1. TAKE k \in 1..(Len(t) + 1)
  <2>2. k + n \in 1..(Len(s) + 1)
    BY <1>1, <1>2
  <2>3. QED
    BY <1>3, <2>2 DEF Nested
<1>5. Supplied(t)
  <2>1. SUFFICES ASSUME NEW k \in 1..Len(t)
                 PROVE  /\ t[k] = "@try" =>
                             k + 2 <= Len(t) /\ t[k + 1] \notin Control /\ t[k + 2] \notin Control
                        /\ t[k] \in {"@list", "@more"} => k + 1 <= Len(t) /\ t[k + 1] \notin Control
    BY DEF Supplied
  <2> DEFINE j == k + n
  <2>2. t[k] = s[j] /\ j \in 1..Len(s)
    BY <1>1, <1>2
  <2>3. s[j] = "@try" => j + 2 <= Len(s) /\ s[j + 1] \notin Control /\ s[j + 2] \notin Control
    BY <2>2 DEF Nested, Supplied
  <2>4. s[j] \in {"@list", "@more"} => j + 1 <= Len(s) /\ s[j + 1] \notin Control
    BY <2>2 DEF Nested, Supplied
  <2>5. j + 1 <= Len(s) => k + 1 <= Len(t) /\ t[k + 1] = s[j + 1]
    BY <1>1, <1>2
  <2>6. j + 2 <= Len(s) => k + 2 <= Len(t) /\ t[k + 2] = s[j + 2]
    BY <1>1, <1>2
  <2>7. QED
    BY <1>1, <2>2, <2>3, <2>4, <2>5, <2>6
<1>6. Open(t, 1) = Open(s, n + 1)
  BY <1>1, <1>2, <1>3
<1>7. Nested(t)
  BY <1>2, <1>4, <1>5 DEF Nested
<1>8. QED
  BY <1>6, <1>7 DEF t

LEMMA TailIsNested ==
  ASSUME NEW s, Nested(s), s # <<>>
  PROVE  /\ Nested(Tail(s)) /\ Head(s) \in Vocabulary
         /\ Open(Tail(s), 1) \in Int /\ Open(Tail(s), 1) >= 0
         /\ Head(s) = "@enter" => Open(Tail(s), 1) = Open(s, 1) + 1
         /\ Head(s) = "@leave" => Open(Tail(s), 1) = Open(s, 1) - 1
         /\ Head(s) \notin {"@enter", "@leave"} => Open(Tail(s), 1) = Open(s, 1)
<1>1. s \in Seq(Vocabulary) /\ Len(s) \in Nat /\ Len(s) > 0
  BY DEF Nested
<1>2. /\ Tail(s) = SubSeq(s, 1 + 1, Len(s)) /\ Head(s) = s[1] /\ Head(s) \in Vocabulary
      /\ 1 \in 1..Len(s) /\ 1 \in 0..Len(s)
  BY <1>1
<1>3. Nested(Tail(s)) /\ Open(Tail(s), 1) = Open(s, 1 + 1)
  BY <1>1, <1>2, FirstTakenOff
<1>4. Open(s, 1) \in Int /\ Open(s, 1 + 1) \in Int
  <2>1. 1 \in Nat /\ 1 + 1 \in Nat
    OBVIOUS
  <2>2. QED
    BY <1>1, <2>1, OpenIsInteger
<1>5. /\ s[1] = "@enter" => Open(s, 1) = Open(s, 1 + 1) - 1
      /\ s[1] = "@leave" => Open(s, 1) = Open(s, 1 + 1) + 1
      /\ s[1] \notin {"@enter", "@leave"} => Open(s, 1) = Open(s, 1 + 1)
  BY <1>1, <1>2, OpenStep
<1>6. Open(Tail(s), 1) >= 0
  <2>1. Tail(s) \in Seq(Vocabulary) /\ Len(Tail(s)) \in Nat
    BY <1>1
  <2>2. 1 \in 1..(Len(Tail(s)) + 1)
    BY <2>1
  <2>3. QED
    BY <1>3, <2>2 DEF Nested
<1>7. QED
  BY <1>2, <1>3, <1>4, <1>5, <1>6

LEMMA NothingOpen ==
  ASSUME NEW s \in Seq(Vocabulary), Supplied(s), \A i \in 1..Len(s) : s[i] \notin {"@enter", "@leave"}
  PROVE  Nested(s) /\ Open(s, 1) = 0
<1>1. ASSUME NEW k \in 1..(Len(s) + 1)
      PROVE  Open(s, k) = 0
  <2>1. Places(s, k, "@enter") = {} /\ Places(s, k, "@leave") = {}
    BY DEF Places
  <2>2. Later(s, k, "@enter") = 0 /\ Later(s, k, "@leave") = 0
    BY <2>1, FS_EmptySet DEF Later
  <2>3. QED
    BY <2>2 DEF Open
<1>2. Len(s) \in Nat
  OBVIOUS
<1>3. QED
  BY <1>1, <1>2 DEF Nested

LEMMA OneItem ==
  ASSUME NEW item \in Vocabulary, item \notin Control
  PROVE  Nested(<<item>>) /\ Open(<<item>>, 1) = 0
<1>1. /\ <<item>> \in Seq(Vocabulary) /\ Supplied(<<item>>)
      /\ \A i \in 1..Len(<<item>>) : <<item>>[i] \notin {"@enter", "@leave"}
  BY DEF Supplied, Control
<1>2. QED
  BY <1>1, NothingOpen

LEMMA NoItem == Nested(<<>>) /\ Open(<<>>, 1) = 0
<1>1. /\ <<>> \in Seq(Vocabulary) /\ Supplied(<<>>)
      /\ \A i \in 1..Len(<<>>) : <<>>[i] \notin {"@enter", "@leave"}
  BY DEF Supplied
<1>2. QED
  BY <1>1, NothingOpen

-----------------------------------------------------------------------------
(* The invariant.  What is still to do, and what each try block would go   *)
(* back to, leaves exactly what it has been counted for.                   *)

Guarded(items, count) ==
  Nested(items) /\ Open(items, 1) = count /\ count \in 0..MaxParseDepth

GuardInv ==
  /\ Guarded(todo, depth)
  /\ outcome # "parsing" => todo = <<>>
  /\ tries \in Seq(Entries(tries))
  /\ \A saved \in Entries(tries) : Guarded(saved.todo, saved.depth)

LEMMA OwnEntries ==
  ASSUME NEW S, NEW s \in Seq(S)
  PROVE  s \in Seq(Entries(s)) /\ Entries(s) \subseteq S
BY DEF Entries

LEMMA RestIsGuarded ==
  ASSUME GuardInv, todo # <<>>, Item \notin Control
  PROVE  Guarded(Tail(todo), depth)
BY TailIsNested DEF GuardInv, Guarded, Item, Control

LEMMA AheadOfTheRest ==
  ASSUME NEW s, NEW t, NEW count, Nested(s), Open(s, 1) = 0, Guarded(t, count)
  PROVE  Guarded(s \o t, count)
BY Concatenated DEF Guarded

-----------------------------------------------------------------------------
(* Each action keeps the invariant. *)

(* The value of an item that is a symbol or a value is not the guard's.    *)
LEMMA NotControl ==
  /\ RuleNames \cap Control = {} /\ TokenKinds \cap Control = {}
  /\ (DOMAIN Fields) \cap Control = {} /\ (DOMAIN Constant) \cap Control = {}
  /\ Readers \cap Control = {} /\ Shapers \cap Control = {}
BY ControlIsNothingElse DEF Words

(* What is done on a path of its own, and with the try blocks as they are. *)
LEMMA GuardOfThePath ==
  ASSUME GuardInv, Guarded(todo', depth'), UNCHANGED tries,
         outcome' # "parsing" => todo' = <<>>
  PROVE  GuardInv'
BY DEF GuardInv, Entries, Guarded, Nested, Supplied, Open, Later, Places

LEMMA CallRuleKeeps == GuardInv /\ CallRule => GuardInv'
<1>1. SUFFICES ASSUME GuardInv, CallRule PROVE GuardInv'
  OBVIOUS
<1>2. PICK first \in Applicable(Item) : todo' = Grammar[Item][first].do \o Tail(todo)
  BY <1>1 DEF CallRule
<1>3. Item \in RuleNames /\ first \in DOMAIN Grammar[Item]
  BY <1>1, <1>2 DEF CallRule, Applicable
<1>4. Nested(Grammar[Item][first].do) /\ Open(Grammar[Item][first].do, 1) = 0
  BY <1>3, MethodsAreNested
<1>5. Guarded(Tail(todo), depth)
  BY <1>1, <1>3, NotControl, RestIsGuarded DEF CallRule, Working
<1>6. Guarded(todo', depth')
  BY <1>1, <1>2, <1>4, <1>5, AheadOfTheRest DEF CallRule
<1>7. QED
  BY <1>1, <1>6, GuardOfThePath DEF CallRule, Working

(* The actions that pass one item on.                                      *)
LEMMA OneItemDone ==
  ASSUME GuardInv, Working, Item \notin Control, todo' = Tail(todo), UNCHANGED <<depth, tries, outcome>>
  PROVE  GuardInv'
<1>1. Guarded(todo', depth')
  BY RestIsGuarded DEF Working
<1>2. QED
  BY <1>1, GuardOfThePath DEF Working

LEMMA SymbolsKeep ==
  GuardInv /\ (PassToken \/ BuildNode \/ PushConstant \/ ReadToken \/ Reshape \/ AdminText) => GuardInv'
<1>1. GuardInv /\ PassToken => GuardInv'
  BY NotControl, OneItemDone DEF PassToken
<1>2. GuardInv /\ BuildNode => GuardInv'
  BY NotControl, OneItemDone DEF BuildNode
<1>3. GuardInv /\ PushConstant => GuardInv'
  BY NotControl, OneItemDone DEF PushConstant
<1>4. GuardInv /\ ReadToken => GuardInv'
  BY NotControl, OneItemDone DEF ReadToken
<1>5. GuardInv /\ Reshape => GuardInv'
  BY NotControl, OneItemDone DEF Reshape
<1>6. GuardInv /\ AdminText => GuardInv'
  <2>1. "@admin" \notin Control
    BY DEF Control
  <2>2. QED
    BY <2>1, OneItemDone DEF AdminText
<1>7. QED
  BY <1>1, <1>2, <1>3, <1>4, <1>5, <1>6

(* The items a list or a try block takes with it.                          *)
LEMMA TakenAlong ==
  ASSUME GuardInv, Working
  PROVE  /\ todo \in Seq(Vocabulary) /\ Len(todo) \in Nat /\ Len(todo) > 0 /\ Item = todo[1]
         /\ Item \in {"@list", "@more"} =>
              /\ Len(todo) >= 2 /\ todo[2] \in Vocabulary /\ todo[2] \notin Control
              /\ Guarded(SubSeq(todo, 3, Len(todo)), depth)
         /\ Item = "@try" =>
              /\ Len(todo) >= 3 /\ todo[2] \in Vocabulary /\ todo[2] \notin Control
              /\ Guarded(SubSeq(todo, 3, Len(todo)), depth)
              /\ Guarded(SubSeq(todo, 4, Len(todo)), depth)
<1>1. todo \in Seq(Vocabulary) /\ Len(todo) \in Nat /\ Len(todo) > 0 /\ Item = todo[1] /\ Supplied(todo)
  BY DEF GuardInv, Guarded, Nested, Working, Item
<1>2. 1 \in 1..Len(todo)
  BY <1>1
<1>3. /\ todo[1] = "@try" => 1 + 2 <= Len(todo) /\ todo[1 + 1] \notin Control /\ todo[1 + 2] \notin Control
      /\ todo[1] \in {"@list", "@more"} => 1 + 1 <= Len(todo) /\ todo[1 + 1] \notin Control
  BY <1>1, <1>2 DEF Supplied
<1>4. ASSUME NEW n \in 1..Len(todo), \A i \in 1..n : todo[i] \notin {"@enter", "@leave"}, n \in 1..3
      PROVE  Guarded(SubSeq(todo, n + 1, Len(todo)), depth)
  <2>1. n \in 0..Len(todo)
    OBVIOUS
  <2>2. /\ Nested(SubSeq(todo, n + 1, Len(todo)))
        /\ Open(SubSeq(todo, n + 1, Len(todo)), 1) = Open(todo, n + 1)
    BY <2>1, FirstTakenOff DEF GuardInv, Guarded
  <2>3. \A i \in 1..n : Open(todo, i) = Open(todo, i + 1)
    BY <1>1, <1>4, OpenStep
  <2>4. Open(todo, 1) = Open(todo, n + 1)
    <3>1. 1 \in 1..n /\ (n >= 2 => 2 \in 1..n) /\ (n >= 3 => 3 \in 1..n) /\ (n = 1 \/ n = 2 \/ n = 3)
      BY <1>4
    <3>2. /\ Open(todo, 1) = Open(todo, 1 + 1)
          /\ n >= 2 => Open(todo, 2) = Open(todo, 2 + 1)
          /\ n >= 3 => Open(todo, 3) = Open(todo, 3 + 1)
      BY <2>3, <3>1
    <3>3. QED
      BY <3>1, <3>2
  <2>5. QED
    BY <2>2, <2>4 DEF GuardInv, Guarded
<1>5. \A item \in Vocabulary : item \notin Control => item \notin {"@enter", "@leave"}
  BY DEF Control
<1>6. ASSUME Item \in {"@list", "@more"}
      PROVE  /\ Len(todo) >= 2 /\ todo[2] \in Vocabulary /\ todo[2] \notin Control
             /\ Guarded(SubSeq(todo, 3, Len(todo)), depth)
  <2>1. Len(todo) >= 2 /\ todo[2] \in Vocabulary /\ todo[2] \notin Control
    BY <1>1, <1>3, <1>6
  <2>2. \A i \in 1..2 : todo[i] \notin {"@enter", "@leave"}
    BY <1>1, <1>5, <1>6, <2>1
  <2>3. 2 \in 1..Len(todo) /\ 2 \in 1..3
    BY <1>1, <2>1
  <2>4. Guarded(SubSeq(todo, 2 + 1, Len(todo)), depth)
    BY <1>4, <2>2, <2>3
  <2>5. QED
    BY <2>1, <2>4
<1>7. ASSUME Item = "@try"
      PROVE  /\ Len(todo) >= 3 /\ todo[2] \in Vocabulary /\ todo[2] \notin Control
             /\ Guarded(SubSeq(todo, 3, Len(todo)), depth)
             /\ Guarded(SubSeq(todo, 4, Len(todo)), depth)
  <2>1. /\ Len(todo) >= 3 /\ todo[2] \in Vocabulary /\ todo[2] \notin Control
        /\ todo[3] \in Vocabulary /\ todo[3] \notin Control
    BY <1>1, <1>3, <1>7
  <2>2. \A i \in 1..3 : todo[i] \notin {"@enter", "@leave"}
    <3>1. /\ todo[1] \notin {"@enter", "@leave"} /\ todo[2] \notin {"@enter", "@leave"}
          /\ todo[3] \notin {"@enter", "@leave"}
      BY <1>1, <1>5, <1>7, <2>1
    <3>2. \A i \in 1..3 : i = 1 \/ i = 2 \/ i = 3
      OBVIOUS
    <3>3. QED
      BY <3>1, <3>2
  <2>3. 2 \in 1..Len(todo) /\ 3 \in 1..Len(todo) /\ 2 \in 1..3 /\ 3 \in 1..3 /\ \A i \in 1..2 : i \in 1..3
    BY <1>1, <2>1
  <2>4. Guarded(SubSeq(todo, 2 + 1, Len(todo)), depth) /\ Guarded(SubSeq(todo, 3 + 1, Len(todo)), depth)
    BY <1>4, <2>2, <2>3
  <2>5. QED
    BY <2>1, <2>4
<1>8. QED
  BY <1>1, <1>6, <1>7

(* An element of a list, and what comes after it.                          *)
LEMMA ElementAndMore ==
  ASSUME NEW element \in Vocabulary, element \notin Control
  PROVE  /\ Nested(<<element, "@add", "@more", element>>)
         /\ Open(<<element, "@add", "@more", element>>, 1) = 0
<1> DEFINE again == <<element, "@add", "@more", element>>
<1>1. "@add" \in Vocabulary /\ "@more" \in Vocabulary
  BY DEF Vocabulary, Words, Control, Shapers
<1>2. again \in Seq(Vocabulary) /\ Len(again) = 4
  BY <1>1
<1>3. again[1] = element /\ again[2] = "@add" /\ again[3] = "@more" /\ again[4] = element
  OBVIOUS
<1>4. element \notin {"@enter", "@leave", "@try", "@list", "@more"}
  BY DEF Control
<1>5. \A i \in 1..4 : i = 1 \/ i = 2 \/ i = 3 \/ i = 4
  OBVIOUS
<1> HIDE DEF again
<1>6. Supplied(again)
  BY <1>2, <1>3, <1>4, <1>5 DEF Supplied
<1>7. \A i \in 1..Len(again) : again[i] \notin {"@enter", "@leave"}
  BY <1>2, <1>3, <1>4, <1>5
<1>8. Nested(again) /\ Open(again, 1) = 0
  BY <1>2, <1>6, <1>7, NothingOpen
<1>9. QED
  BY <1>8 DEF again

LEMMA ListItemKeeps == GuardInv /\ ListItem => GuardInv'
<1>1. SUFFICES ASSUME GuardInv, ListItem PROVE GuardInv'
  OBVIOUS
<1> DEFINE again == <<todo[2], "@add", "@more", todo[2]>>
           comma == <<",">>
           rest == SubSeq(todo, 3, Len(todo))
<1>2. todo[2] \in Vocabulary /\ todo[2] \notin Control /\ Guarded(rest, depth)
  BY <1>1, TakenAlong DEF ListItem
<1>3. Nested(again) /\ Open(again, 1) = 0
  BY <1>2, ElementAndMore
<1>4. Nested(comma) /\ Open(comma, 1) = 0
  <2>1. "," \in Vocabulary
    BY MethodsAreNested DEF Vocabulary, Words
  <2>2. "," \notin Control
    BY DEF Control
  <2>3. QED
    BY <2>1, <2>2, OneItem
<1>5. \/ todo' = again \o rest
      \/ todo' = (comma \o again) \o rest
      \/ todo' = <<>> \o rest
  BY <1>1 DEF ListItem
<1> HIDE DEF again, comma, rest
<1>6. Nested(comma \o again) /\ Open(comma \o again, 1) = 0
  BY <1>3, <1>4, Concatenated
<1>7. Guarded(again \o rest, depth)
  BY <1>2, <1>3, AheadOfTheRest
<1>8. Guarded((comma \o again) \o rest, depth)
  BY <1>2, <1>6, AheadOfTheRest
<1>9. Guarded(<<>> \o rest, depth)
  BY <1>2, NoItem, AheadOfTheRest
<1>10. Guarded(todo', depth')
  BY <1>1, <1>5, <1>7, <1>8, <1>9 DEF ListItem
<1>11. QED
  BY <1>1, <1>10, GuardOfThePath DEF ListItem, Working

(* The guard itself.  It counts one for each of its items, so what is left *)
(* leaves one less or one more.                                            *)
LEMMA EnterKeeps == GuardInv /\ Enter => GuardInv'
<1>1. SUFFICES ASSUME GuardInv, Enter PROVE GuardInv'
  OBVIOUS
<1>2. /\ Nested(Tail(todo)) /\ Open(Tail(todo), 1) = Open(todo, 1) + 1
  BY <1>1, TailIsNested DEF GuardInv, Guarded, Enter, Working, Item
<1>3. Open(todo, 1) = depth /\ depth \in 0..MaxParseDepth
  BY <1>1 DEF GuardInv, Guarded
<1>4. depth' \in 0..MaxParseDepth
  BY <1>1, <1>3, MaxParseDepthIsPositive DEF Enter
<1>5. Guarded(todo', depth')
  BY <1>1, <1>2, <1>3, <1>4 DEF Enter, Guarded
<1>6. QED
  BY <1>1, <1>5, GuardOfThePath DEF Enter, Working

LEMMA LeaveKeeps == GuardInv /\ Leave => GuardInv'
<1>1. SUFFICES ASSUME GuardInv, Leave PROVE GuardInv'
  OBVIOUS
<1>2. /\ Nested(Tail(todo)) /\ Open(Tail(todo), 1) = Open(todo, 1) - 1 /\ Open(Tail(todo), 1) >= 0
  BY <1>1, TailIsNested DEF GuardInv, Guarded, Leave, Working, Item
<1>3. Open(todo, 1) = depth /\ depth \in 0..MaxParseDepth
  BY <1>1 DEF GuardInv, Guarded
<1>4. depth' \in 0..MaxParseDepth
  BY <1>1, <1>2, <1>3, MaxParseDepthIsPositive DEF Leave
<1>5. Guarded(todo', depth')
  BY <1>1, <1>2, <1>3, <1>4 DEF Leave, Guarded
<1>6. QED
  BY <1>1, <1>5, GuardOfThePath DEF Leave, Working

(* Giving up.                                                              *)
LEMMA NothingLeft ==
  ASSUME todo' = <<>>, depth' = 0, tries' = <<>>
  PROVE  GuardInv'
<1>1. Guarded(todo', depth')
  BY NoItem, MaxParseDepthIsPositive DEF Guarded
<1>2. Entries(tries') = {} /\ tries' \in Seq(Entries(tries'))
  BY DEF Entries
<1>3. QED
  BY <1>1, <1>2 DEF GuardInv, Entries, Guarded, Nested, Supplied, Open, Later, Places

LEMMA GivingUpKeeps == GuardInv /\ (BadInt \/ DepthExceeded \/ Reject) => GuardInv'
BY NothingLeft DEF BadInt, DepthExceeded, Reject

-----------------------------------------------------------------------------
(* The try blocks.                                                         *)

LEMMA GuardOfTheTries ==
  ASSUME Guarded(todo', depth'), outcome' # "parsing" => todo' = <<>>,
         NEW S, tries' \in Seq(S), \A saved \in S : Guarded(saved.todo, saved.depth)
  PROVE  GuardInv'
<1>1. tries' \in Seq(Entries(tries')) /\ Entries(tries') \subseteq S
  BY OwnEntries
<1>2. QED
  BY <1>1 DEF GuardInv, Entries, Guarded, Nested, Supplied, Open, Later, Places

LEMMA TryKeeps == GuardInv /\ Try => GuardInv'
<1>1. SUFFICES ASSUME GuardInv, Try PROVE GuardInv'
  OBVIOUS
<1> DEFINE saved == [at |-> at, values |-> values, depth |-> depth,
                     todo |-> SubSeq(todo, 3, Len(todo))]
           S == Entries(tries) \union {saved}
<1>2. /\ todo[2] \in Vocabulary /\ todo[2] \notin Control
      /\ Guarded(SubSeq(todo, 3, Len(todo)), depth) /\ Guarded(SubSeq(todo, 4, Len(todo)), depth)
  BY <1>1, TakenAlong DEF Try
<1>3. Guarded(<<todo[2]>> \o SubSeq(todo, 4, Len(todo)), depth)
  BY <1>2, OneItem, AheadOfTheRest
<1>4. Guarded(todo', depth')
  BY <1>1, <1>3 DEF Try
<1>5. saved.todo = SubSeq(todo, 3, Len(todo)) /\ saved.depth = depth
  OBVIOUS
<1>6. tries' = Append(tries, saved)
  BY <1>1 DEF Try
<1> HIDE DEF saved
<1>7. \A x \in S : Guarded(x.todo, x.depth)
  BY <1>1, <1>2, <1>5 DEF GuardInv
<1>8. tries' \in Seq(S)
  <2>1. tries \in Seq(S)
    <3>1. tries \in Seq(Entries(tries)) /\ Entries(tries) \subseteq S
      BY <1>1 DEF GuardInv
    <3> HIDE DEF S
    <3>2. QED
      BY <3>1
  <2>2. saved \in S
    OBVIOUS
  <2> HIDE DEF S
  <2>3. QED
    BY <1>6, <2>1, <2>2
<1>9. outcome' = "parsing"
  BY <1>1 DEF Try, Working
<1> HIDE DEF S
<1>10. QED
  BY <1>4, <1>7, <1>8, <1>9, GuardOfTheTries

(* The innermost try block is left.                                        *)
LEMMA LastTryLeft ==
  ASSUME GuardInv
  PROVE  /\ SubSeq(tries, 1, Len(tries) - 1) \in Seq(Entries(tries))
         /\ tries # <<>> => tries[Len(tries)] \in Entries(tries)
<1>1. tries \in Seq(Entries(tries))
  BY DEF GuardInv
<1>2. ASSUME NEW S, NEW s \in Seq(S)
      PROVE  /\ SubSeq(s, 1, Len(s) - 1) \in Seq(S)
             /\ s # <<>> => s[Len(s)] \in S
  OBVIOUS
<1>3. QED
  BY <1>1, <1>2

LEMMA CommitKeeps == GuardInv /\ Commit => GuardInv'
<1>1. SUFFICES ASSUME GuardInv, Commit PROVE GuardInv'
  OBVIOUS
<1>2. Item \notin Control
  BY <1>1 DEF Commit, Control
<1>3. Guarded(todo', depth')
  BY <1>1, <1>2, RestIsGuarded DEF Commit, Working
<1>4. tries' \in Seq(Entries(tries))
  BY <1>1, LastTryLeft DEF Commit
<1>5. \A saved \in Entries(tries) : Guarded(saved.todo, saved.depth)
  BY <1>1 DEF GuardInv
<1>6. outcome' = "parsing"
  BY <1>1 DEF Commit, Working
<1>7. QED
  BY <1>3, <1>4, <1>5, <1>6, GuardOfTheTries

LEMMA BacktrackKeeps == GuardInv /\ Backtrack => GuardInv'
<1>1. SUFFICES ASSUME GuardInv, Backtrack PROVE GuardInv'
  OBVIOUS
<1>2. \A saved \in Entries(tries) : Guarded(saved.todo, saved.depth)
  BY <1>1 DEF GuardInv
<1>3. tries[Len(tries)] \in Entries(tries) /\ tries' \in Seq(Entries(tries))
  BY <1>1, LastTryLeft DEF Backtrack
<1>4. Guarded(tries[Len(tries)].todo, tries[Len(tries)].depth)
  BY <1>2, <1>3
<1>5. Guarded(todo', depth')
  BY <1>1, <1>4 DEF Backtrack
<1>6. outcome' = "parsing"
  BY <1>1 DEF Backtrack, Working
<1>7. QED
  BY <1>2, <1>3, <1>5, <1>6, GuardOfTheTries

-----------------------------------------------------------------------------
LEMMA StartParsingKeeps == GuardInv /\ StartParsing => GuardInv'
<1>1. SUFFICES ASSUME GuardInv, StartParsing PROVE GuardInv'
  OBVIOUS
<1>2. depth = 0 /\ depth \in 0..MaxParseDepth
  BY <1>1, NoItem DEF GuardInv, Guarded, StartParsing
<1>3. Nested(<<"root">>) /\ Open(<<"root">>, 1) = 0
  <2>1. "root" \in Vocabulary
    BY MethodsAreNested DEF Vocabulary, Words
  <2>2. "root" \notin Control
    BY DEF Control
  <2>3. QED
    BY <2>1, <2>2, OneItem
<1>4. Guarded(todo', depth')
  BY <1>1, <1>2, <1>3 DEF Guarded, StartParsing
<1>5. QED
  BY <1>1, <1>4, GuardOfThePath DEF StartParsing

LEMMA HandOverKeeps == GuardInv /\ (HandOver \/ Accept) => GuardInv'
<1>1. SUFFICES ASSUME GuardInv, HandOver \/ Accept PROVE GuardInv'
  OBVIOUS
<1>2. UNCHANGED <<todo, depth, tries>> /\ todo = <<>>
  BY <1>1 DEF HandOver, Accept, GuardInv
<1>3. Guarded(todo', depth')
  BY <1>1, <1>2 DEF GuardInv
<1>4. QED
  BY <1>1, <1>2, <1>3, GuardOfThePath

LEMMA GuardInvariance == ParserSpec => []GuardInv
<1>1. ParserIdle => GuardInv
  <2>1. SUFFICES ASSUME ParserIdle PROVE GuardInv
    OBVIOUS
  <2>2. Guarded(todo, depth)
    BY <2>1, NoItem, MaxParseDepthIsPositive DEF ParserIdle, Guarded
  <2>3. Entries(tries) = {} /\ tries \in Seq(Entries(tries))
    BY <2>1 DEF ParserIdle, Entries
  <2>4. QED
    BY <2>1, <2>2, <2>3 DEF ParserIdle, GuardInv
<1>2. GuardInv /\ [ParserNext]_parser => GuardInv'
  <2>1. SUFFICES ASSUME GuardInv, [ParserNext]_parser PROVE GuardInv'
    OBVIOUS
  <2>2. CASE StartParsing
    BY <2>1, <2>2, StartParsingKeeps
  <2>3. CASE Parse
    BY <2>1, <2>3, CallRuleKeeps, SymbolsKeep, ListItemKeeps, EnterKeeps, LeaveKeeps,
       GivingUpKeeps, TryKeeps, CommitKeeps, BacktrackKeeps, HandOverKeeps DEF Parse
  <2>4. CASE HandOver
    BY <2>1, <2>4, HandOverKeeps
  <2>5. CASE UNCHANGED parser
    <3>1. UNCHANGED <<todo, depth, tries, outcome>>
      BY <2>5 DEF parser
    <3>2. Guarded(todo', depth') /\ (outcome' # "parsing" => todo' = <<>>)
      BY <2>1, <3>1 DEF GuardInv
    <3>3. QED
      BY <2>1, <3>1, <3>2, GuardOfThePath
  <2>6. QED
    BY <2>1, <2>2, <2>3, <2>4, <2>5 DEF ParserNext
<1>3. QED
  BY <1>1, <1>2, PTL DEF ParserSpec

(* The nesting guard of the parser (Parser._parse_nested, _max_depth in    *)
(* parser.py) counts exactly the constructs still open and stays within    *)
(* its limit, for every text, dialect and limit, and however often the     *)
(* parser has gone back.                                                   *)
THEOREM TheGuardCountsWhatIsOpen == ParserSpec => []DepthCountsWhatIsOpen
<1>1. GuardInv => DepthCountsWhatIsOpen
  BY DEF GuardInv, Guarded, DepthCountsWhatIsOpen
<1>2. QED
  BY <1>1, GuardInvariance, PTL
=============================================================================
