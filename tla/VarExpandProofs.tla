--------------------------- MODULE VarExpandProofs ---------------------------
(****************************************************************************)
(* The search for the trails of a variable-length relationship is right on  *)
(* every graph, from every node, for every pattern: what it reports are     *)
(* trails (Sound), the shorter ones first and none twice (Levels, Once),    *)
(* and at the end all of them (Complete), in the order of the definition by *)
(* levels (LevelByLevel).                                                   *)
(****************************************************************************)
EXTENDS VarExpand, PathMatchProofs, SequenceTheorems

Prefix(p, q) == Len(p) <= Len(q) /\ \A i \in 1..Len(p) : p[i] = q[i]

------------------------------------------------------------------------------
\* The bounds of the pattern are what the parser lets through.
Bounds == pat.min \in Nat /\ pat.max \in Nat

LEMMA Appended ==
  ASSUME NEW S, NEW s \in Seq(S), NEW e \in S
  PROVE  /\ Append(s, e) \in Seq(S)
         /\ Len(s) \in Nat
         /\ Len(Append(s, e)) = Len(s) + 1
         /\ \A i \in 1..Len(s) : Append(s, e)[i] = s[i]
         /\ Append(s, e)[Len(s) + 1] = e
OBVIOUS

LEMMA BeyondIsLonger ==
  ASSUME TypeOK, NEW r \in DOMAIN graph.rels
  PROVE  /\ Beyond(r) = [path |-> Beyond(r).path, at |-> Beyond(r).at]
         /\ Beyond(r).at = FarEnd(graph, r, here.at)
         /\ Beyond(r).path \in Seq(DOMAIN graph.rels)
         /\ Len(here.path) \in Nat
         /\ Len(Beyond(r).path) = Len(here.path) + 1
         /\ \A i \in 1..Len(here.path) : Beyond(r).path[i] = here.path[i]
         /\ Beyond(r).path[Len(here.path) + 1] = r
<1>1. here.path \in Seq(DOMAIN graph.rels)
  BY DEF TypeOK, Trail
<1>2. Beyond(r).path = Append(here.path, r) /\ Beyond(r).at = FarEnd(graph, r, here.at)
  BY DEF Beyond
<1>3. Beyond(r) = [path |-> Beyond(r).path, at |-> Beyond(r).at]
  BY DEF Beyond
<1>4. /\ Append(here.path, r) \in Seq(DOMAIN graph.rels)
      /\ Len(here.path) \in Nat
      /\ Len(Append(here.path, r)) = Len(here.path) + 1
      /\ \A i \in 1..Len(here.path) : Append(here.path, r)[i] = here.path[i]
      /\ Append(here.path, r)[Len(here.path) + 1] = r
  <2>1. ASSUME NEW p \in Seq(DOMAIN graph.rels)
        PROVE  /\ Append(p, r) \in Seq(DOMAIN graph.rels)
               /\ Len(p) \in Nat /\ Len(Append(p, r)) = Len(p) + 1
               /\ \A i \in 1..Len(p) : Append(p, r)[i] = p[i]
               /\ Append(p, r)[Len(p) + 1] = r
    BY Appended
  <2> QED
    BY <1>1, <2>1
<1> QED
  BY <1>2, <1>3, <1>4

LEMMA TypeInit == Init => TypeOK /\ Bounds
<1> SUFFICES ASSUME Init PROVE TypeOK /\ Bounds
  OBVIOUS
<1>1. <<>> \in Seq(DOMAIN graph.rels) /\ start \in Node
  BY DEF Node
<1>2. here \in Trail /\ queue = <<here>> /\ results = <<>>
  BY <1>1 DEF Init, Trail
<1>3. queue \in Seq(Trail) /\ results \in Seq(Trail)
  BY <1>2
<1> QED
  BY <1>2, <1>3, HopPatsAssumption DEF Init, TypeOK, Bounds, IsHop

LEMMA TypeNext == TypeOK /\ Bounds /\ [Next]_vars => TypeOK' /\ Bounds'
<1> SUFFICES ASSUME TypeOK, Bounds, [Next]_vars PROVE TypeOK' /\ Bounds'
  OBVIOUS
<1>1. UNCHANGED problem
  BY DEF Next, Pop, Skip, Follow, vars
<1>2. UNCHANGED <<Node, Trail>> /\ Bounds'
  BY <1>1 DEF problem, Node, Trail, Bounds
<1>3. CASE Pop
  <2>1. Head(queue) \in Trail /\ Tail(queue) \in Seq(Trail)
    BY <1>3 DEF Pop, TypeOK
  <2>2. results' \in Seq(Trail)
    BY <1>3, <2>1 DEF Pop, TypeOK
  <2>3. candidates' \subseteq {1, 2} \X DOMAIN graph.rels
    BY <1>3 DEF Pop, CandidatesAt
  <2> QED
    BY <1>1, <1>2, <1>3, <2>1, <2>2, <2>3 DEF Pop, TypeOK, problem
<1>4. ASSUME NEW c \in candidates, Skip(c) PROVE TypeOK'
  BY <1>1, <1>2, <1>4 DEF Skip, TypeOK, problem
<1>5. ASSUME NEW c \in candidates, Follow(c) PROVE TypeOK'
  <2>1. c[2] \in DOMAIN graph.rels
    BY DEF TypeOK
  <2>2. Beyond(c[2]).at \in graph.nodes => Beyond(c[2]) \in Trail
    BY <2>1, BeyondIsLonger DEF Trail, Node
  <2>3. queue' \in Seq(Trail)
    BY <1>5, <2>2 DEF Follow, TypeOK
  <2> QED
    BY <1>1, <1>2, <1>5, <2>1, <2>3 DEF Follow, TypeOK, problem
<1>6. CASE UNCHANGED vars
  BY <1>2, <1>6 DEF vars, problem, TypeOK
<1> QED
  BY <1>2, <1>3, <1>4, <1>5, <1>6 DEF Next

------------------------------------------------------------------------------
\* A relationship that is looked at joins the node it is looked at from and its
\* far end, and whatever joins a node to another is looked at there and leads
\* to that other.
LEMMA CandidatesJoin ==
  ASSUME NEW n, NEW c \in CandidatesAt(n)
  PROVE  Joins(pat.dir, c[2], n, FarEnd(graph, c[2], n))
BY DEF CandidatesAt, Joins, FarEnd

LEMMA JoinedAreCandidates ==
  ASSUME NEW r \in DOMAIN graph.rels, NEW a, NEW b, Joins(pat.dir, r, a, b)
  PROVE  b = FarEnd(graph, r, a) /\ \E c \in CandidatesAt(a) : c[2] = r
<1>1. b = FarEnd(graph, r, a)
  BY DEF Joins, FarEnd
<1>2. CASE pat.dir # "IN" /\ graph.rels[r].start = a
  <2>1. <<1, r>> \in CandidatesAt(a)
    BY <1>2 DEF CandidatesAt
  <2> QED
    BY <1>1, <2>1
<1>3. CASE pat.dir # "OUT" /\ graph.rels[r].end = a
  <2>1. <<2, r>> \in CandidatesAt(a)
    BY <1>3 DEF CandidatesAt
  <2> QED
    BY <1>1, <2>1
<1> QED
  BY <1>2, <1>3 DEF Joins

------------------------------------------------------------------------------
\* What the search holds are trails, as far as it has gone.
Going(t) == IsTrailTo(t.path, t.at) /\ Len(t.path) <= pat.max

Sound ==
  /\ \A i \in DOMAIN queue : Going(queue[i])
  /\ Going(here)
  /\ candidates # {} => Len(here.path) < pat.max /\ candidates \subseteq CandidatesAt(here.at)
  /\ ResultsAreTrails

\* A trail extended by a relationship that leads on to a live node is a trail.
LEMMA TrailsGrow ==
  ASSUME TypeOK, Bounds, Going(here), Len(here.path) < pat.max,
         NEW c \in CandidatesAt(here.at), LeadsOn(c[2]), Beyond(c[2]).at \in graph.nodes
  PROVE  Going(Beyond(c[2]))
<1> DEFINE p == here.path
           q == Beyond(c[2]).path
           n == Beyond(c[2]).at
           k == Len(p)
<1>1. c[2] \in DOMAIN graph.rels
  BY DEF CandidatesAt
<1>2. p \in Seq(DOMAIN graph.rels) /\ k \in Nat
  BY DEF TypeOK, Trail
<1>3. /\ q \in Seq(DOMAIN graph.rels) /\ Len(q) = k + 1
      /\ \A i \in 1..k : q[i] = p[i]
      /\ q[k + 1] = c[2]
      /\ n = FarEnd(graph, c[2], here.at)
  BY <1>1, BeyondIsLonger
<1>4. PICK via \in [0..k -> Node] : IsTrailThrough(p, via) /\ via[k] = here.at
  BY DEF Going, IsTrailTo
<1> DEFINE longer == [i \in 0..(k + 1) |-> IF i = k + 1 THEN n ELSE via[i]]
<1>5. longer \in [0..(k + 1) -> Node]
  BY <1>2, <1>4 DEF Node
<1>6. DOMAIN p = 1..k /\ DOMAIN q = 1..(k + 1)
  BY <1>2, <1>3
<1>7. \A i \in 1..k : p[i] # c[2]
  BY <1>6 DEF LeadsOn, Range
<1>8. /\ \A i \in 0..k : longer[i] = via[i]
      /\ longer[k + 1] = n
  BY <1>2
<1>9. Joins(pat.dir, c[2], here.at, n)
  BY <1>3, CandidatesJoin
<1> HIDE DEF p, q, n, k, longer
<1>10. IsTrailThrough(q, longer)
  <2>1. \A i, j \in DOMAIN q : q[i] = q[j] => i = j
    BY <1>2, <1>3, <1>4, <1>6, <1>7 DEF IsTrailThrough
  <2>2. \A i \in DOMAIN q : TypeFits(graph, pat, q[i])
    <3>1. \A i \in 1..k : TypeFits(graph, pat, p[i])
      BY <1>4, <1>6 DEF IsTrailThrough
    <3>2. TypeFits(graph, pat, c[2])
      BY DEF LeadsOn
    <3> QED
      BY <1>2, <1>3, <1>6, <3>1, <3>2
  <2>3. longer[0] = start
    BY <1>2, <1>4, <1>8 DEF IsTrailThrough
  <2>4. ASSUME NEW i \in DOMAIN q
        PROVE  Joins(pat.dir, q[i], longer[i - 1], longer[i]) /\ longer[i] \in graph.nodes
    <3>1. CASE i \in 1..k
      <4>1. i - 1 \in 0..k /\ i \in 0..k
        BY <1>2, <3>1
      <4>2. longer[i - 1] = via[i - 1] /\ longer[i] = via[i] /\ q[i] = p[i]
        BY <1>3, <1>8, <3>1, <4>1
      <4> QED
        BY <1>4, <1>6, <3>1, <4>2 DEF IsTrailThrough
    <3>2. CASE i = k + 1
      <4>1. longer[i - 1] = here.at /\ longer[i] = n /\ q[i] = c[2]
        BY <1>2, <1>3, <1>4, <1>8, <3>2
      <4> QED
        BY <1>9, <4>1 DEF n
    <3> QED
      BY <1>2, <1>6, <3>1, <3>2
  <2> QED
    BY <2>1, <2>2, <2>3, <2>4 DEF IsTrailThrough
<1>11. IsTrailTo(q, n)
  BY <1>3, <1>5, <1>8, <1>10 DEF IsTrailTo
<1>12. k + 1 <= pat.max
  BY <1>2 DEF Bounds, k, p
<1> QED
  BY <1>3, <1>11, <1>12 DEF Going, q, n

LEMMA SoundInit == Init => Sound
<1> SUFFICES ASSUME Init PROVE Sound
  OBVIOUS
<1>1. TypeOK /\ Bounds
  BY TypeInit
<1>2. here.path = <<>> /\ Len(here.path) = 0 /\ here.at = start /\ DOMAIN here.path = {}
  BY DEF Init
<1> DEFINE via == [i \in 0..0 |-> start]
<1>3. via \in [0..Len(here.path) -> Node] /\ via[0] = start
  BY <1>2 DEF Node
<1>4. IsTrailThrough(here.path, via)
  BY <1>2, <1>3 DEF IsTrailThrough
<1>5. Going(here)
  BY <1>1, <1>2, <1>3, <1>4 DEF Going, IsTrailTo, Bounds
<1>6. \A i \in DOMAIN queue : queue[i] = here
  BY DEF Init
<1>7. candidates = {} /\ ResultsAreTrails
  BY DEF Init, ResultsAreTrails
<1> QED
  BY <1>5, <1>6, <1>7 DEF Sound

LEMMA WantedIsGoing ==
  ASSUME Bounds, NEW t \in Trail, Going(t), Len(t.path) >= pat.min
  PROVE  t \in Wanted
<1>1. t.path \in Seq(DOMAIN graph.rels) /\ t.at \in Node /\ t = [path |-> t.path, at |-> t.at]
  BY DEF Trail
<1>2. Len(t.path) \in pat.min..pat.max /\ t.path \in [1..Len(t.path) -> DOMAIN graph.rels]
  BY <1>1 DEF Bounds, Going
<1>3. t.path \in Paths
  BY <1>2 DEF Paths
<1> QED
  BY <1>1, <1>3 DEF Wanted, Going

LEMMA SoundNext == TypeOK /\ Bounds /\ Sound /\ [Next]_vars => Sound'
<1> SUFFICES ASSUME TypeOK, Bounds, Sound, [Next]_vars PROVE Sound'
  OBVIOUS
<1>1. UNCHANGED problem
  BY DEF Next, Pop, Skip, Follow, vars
<1>2. /\ \A t : Going(t)' <=> Going(t)
      /\ \A n : CandidatesAt(n)' = CandidatesAt(n)
      /\ UNCHANGED Wanted
  BY <1>1 DEF problem, Going, IsTrailTo, IsTrailThrough, Joins, Node, CandidatesAt, Wanted, Paths
<1>3. CASE Pop
  <2>1. 1 \in DOMAIN queue /\ Head(queue) = queue[1] /\ Head(queue) \in Trail
    BY <1>3 DEF Pop, TypeOK
  <2>2. Going(here')
    BY <1>3, <2>1 DEF Pop, Sound
  <2>3. \A i \in DOMAIN queue' : Going(queue'[i])
    <3>1. \A i \in DOMAIN Tail(queue) : i + 1 \in DOMAIN queue /\ Tail(queue)[i] = queue[i + 1]
      BY <1>3 DEF Pop, TypeOK
    <3> QED
      BY <1>3, <3>1 DEF Pop, Sound
  <2>4. ResultsAreTrails'
    <3>1. CASE Len(here'.path) >= pat.min
      <4>1. here' \in Wanted
        BY <1>3, <2>1, <2>2, <3>1, WantedIsGoing DEF Pop
      <4>2. results' = Append(results, here') /\ results \in Seq(Trail)
        BY <1>3, <3>1 DEF Pop, TypeOK
      <4>3. \A i \in DOMAIN results' : results'[i] = here' \/ (i \in DOMAIN results /\ results'[i] = results[i])
        BY <4>2
      <4> QED
        BY <1>2, <4>1, <4>3 DEF Sound, ResultsAreTrails
    <3>2. CASE ~(Len(here'.path) >= pat.min)
      BY <1>2, <1>3, <3>2 DEF Pop, Sound, ResultsAreTrails
    <3> QED
      BY <3>1, <3>2
  <2>5. candidates' # {} => (Len(here.path) < pat.max /\ candidates \subseteq CandidatesAt(here.at))'
    BY <1>1, <1>3 DEF Pop, problem, CandidatesAt
  <2> QED
    BY <1>2, <2>2, <2>3, <2>4, <2>5 DEF Sound
<1>4. ASSUME NEW c \in candidates, Skip(c) PROVE Sound'
  BY <1>1, <1>2, <1>4 DEF Skip, Sound, ResultsAreTrails, problem
<1>5. ASSUME NEW c \in candidates, Follow(c) PROVE Sound'
  <2>1. c \in CandidatesAt(here.at) /\ Len(here.path) < pat.max /\ LeadsOn(c[2])
    BY <1>5 DEF Follow, Sound
  <2>2. Beyond(c[2]).at \in graph.nodes => Going(Beyond(c[2]))
    BY <2>1, TrailsGrow DEF Sound
  <2>3. \A i \in DOMAIN queue' : Going(queue'[i])
    <3>1. CASE Beyond(c[2]).at \in graph.nodes
      <4>1. queue' = Append(queue, Beyond(c[2])) /\ queue \in Seq(Trail)
        BY <1>5, <3>1 DEF Follow, TypeOK
      <4>2. \A i \in DOMAIN queue' :
              queue'[i] = Beyond(c[2]) \/ (i \in DOMAIN queue /\ queue'[i] = queue[i])
        BY <4>1
      <4> QED
        BY <2>2, <3>1, <4>2 DEF Sound
    <3>2. CASE Beyond(c[2]).at \notin graph.nodes
      BY <1>5, <3>2 DEF Follow, Sound
    <3> QED
      BY <3>1, <3>2
  <2> QED
    BY <1>1, <1>2, <1>5, <2>1, <2>3 DEF Follow, Sound, ResultsAreTrails, problem
<1>6. CASE UNCHANGED vars
  BY <1>1, <1>2, <1>6 DEF vars, Sound, ResultsAreTrails, problem
<1> QED
  BY <1>3, <1>4, <1>5, <1>6 DEF Next

------------------------------------------------------------------------------
\* The queue is level by level: trails as long as the one taken last, then those
\* one hop longer.
Levels ==
  /\ \A i \in DOMAIN queue : Len(queue[i].path) \in Len(here.path)..(Len(here.path) + 1)
  /\ \A i, j \in DOMAIN queue : i < j => Len(queue[i].path) <= Len(queue[j].path)
  /\ \A i \in DOMAIN results : Len(results[i].path) <= Len(here.path)
  /\ \A i, j \in DOMAIN results : i < j => Len(results[i].path) <= Len(results[j].path)

LEMMA Lengths ==
  ASSUME TypeOK
  PROVE  /\ Len(here.path) \in Nat
         /\ \A i \in DOMAIN queue : Len(queue[i].path) \in Nat
         /\ \A i \in DOMAIN results : Len(results[i].path) \in Nat
         /\ DOMAIN queue = 1..Len(queue) /\ Len(queue) \in Nat
         /\ DOMAIN results = 1..Len(results) /\ Len(results) \in Nat
<1>1. \A t \in Trail : Len(t.path) \in Nat
  BY DEF Trail
<1> QED
  BY <1>1 DEF TypeOK

\* What Pop does to the queue and the results.
LEMMA Popped ==
  ASSUME TypeOK, Pop
  PROVE  /\ here' = queue[1] /\ 1 \in DOMAIN queue
         /\ DOMAIN queue' = 1..Len(queue') /\ Len(queue') = Len(queue) - 1
         /\ \A i \in DOMAIN queue' : i + 1 \in DOMAIN queue /\ queue'[i] = queue[i + 1]
         /\ \/ results' = results
            \/ /\ DOMAIN results' = 1..(Len(results) + 1)
               /\ results'[Len(results) + 1] = queue[1]
               /\ \A i \in DOMAIN results : results'[i] = results[i]
<1>1. queue \in Seq(Trail) /\ queue # <<>> /\ results \in Seq(Trail)
  BY DEF TypeOK, Pop
<1>2. here' = queue[1] /\ queue' = Tail(queue)
  BY <1>1 DEF Pop
<1>3. results' = results \/ results' = Append(results, queue[1])
  BY <1>2 DEF Pop
<1>4. queue[1] \in Trail
  BY <1>1
<1>5. CASE results' = Append(results, queue[1])
  BY <1>1, <1>2, <1>4, <1>5, Appended
<1> QED
  BY <1>1, <1>2, <1>3, <1>5

\* What Follow does to the queue.
LEMMA Followed ==
  ASSUME TypeOK, NEW c \in candidates, Follow(c)
  PROVE  \/ queue' = queue /\ Beyond(c[2]).at \notin graph.nodes
         \/ /\ DOMAIN queue' = 1..(Len(queue) + 1)
            /\ queue'[Len(queue) + 1] = Beyond(c[2])
            /\ \A i \in DOMAIN queue : queue'[i] = queue[i]
<1>1. queue \in Seq(Trail) /\ c[2] \in DOMAIN graph.rels
  BY DEF TypeOK
<1>2. CASE Beyond(c[2]).at \in graph.nodes
  <2>1. Beyond(c[2]) \in Trail
    BY <1>1, <1>2, BeyondIsLonger DEF Trail, Node
  <2>2. queue' = Append(queue, Beyond(c[2]))
    BY <1>2 DEF Follow
  <2> QED
    BY <1>1, <2>1, <2>2, Appended
<1> QED
  BY <1>2 DEF Follow

\* A longest trail at the end keeps the shorter ones first.
LEMMA LongestLast ==
  ASSUME NEW s, NEW t, NEW n \in Nat, DOMAIN s = 1..n, DOMAIN t = 1..(n + 1),
         \A i \in DOMAIN s : t[i] = s[i],
         \A i \in DOMAIN s : Len(s[i].path) \in Nat /\ Len(s[i].path) <= Len(t[n + 1].path),
         \A i, j \in DOMAIN s : i < j => Len(s[i].path) <= Len(s[j].path)
  PROVE  \A i, j \in DOMAIN t : i < j => Len(t[i].path) <= Len(t[j].path)
<1> SUFFICES ASSUME NEW i \in DOMAIN t, NEW j \in DOMAIN t, i < j
             PROVE  Len(t[i].path) <= Len(t[j].path)
  OBVIOUS
<1>1. i \in DOMAIN s /\ t[i] = s[i]
  OBVIOUS
<1>2. CASE j \in DOMAIN s
  BY <1>1, <1>2
<1>3. CASE j = n + 1
  BY <1>1, <1>3
<1> QED
  BY <1>2, <1>3

LEMMA LevelsInit == Init => Levels
<1> SUFFICES ASSUME Init PROVE Levels
  OBVIOUS
<1>1. Len(here.path) = 0 /\ queue = <<here>> /\ results = <<>>
  BY DEF Init
<1> QED
  BY <1>1 DEF Levels

LEMMA LevelsNext == TypeOK /\ Levels /\ [Next]_vars => Levels'
<1> SUFFICES ASSUME TypeOK, Levels, [Next]_vars PROVE Levels'
  OBVIOUS
<1>1. CASE Pop
  <2>1. Len(here'.path) \in Nat /\ Len(here.path) <= Len(here'.path)
    BY <1>1, Popped, Lengths DEF Levels
  <2>2. \A i \in DOMAIN queue' : Len(queue'[i].path) \in Len(here'.path)..(Len(here'.path) + 1)
    <3> SUFFICES ASSUME NEW i \in DOMAIN queue'
                 PROVE  Len(queue'[i].path) \in Len(here'.path)..(Len(here'.path) + 1)
      OBVIOUS
    <3>1. i + 1 \in DOMAIN queue /\ queue'[i] = queue[i + 1] /\ 1 < i + 1
      BY <1>1, Popped, Lengths
    <3>2. /\ Len(queue[i + 1].path) \in Nat /\ Len(here.path) \in Nat
          /\ 1 \in DOMAIN queue
      BY <1>1, <3>1, Popped, Lengths
    <3>3. /\ Len(queue[i + 1].path) \in Nat
          /\ Len(queue[i + 1].path) <= Len(here.path) + 1
          /\ Len(queue[1].path) <= Len(queue[i + 1].path)
      <4>1. Len(queue[i + 1].path) \in Len(here.path)..(Len(here.path) + 1)
        BY <3>1 DEF Levels
      <4>2. Len(queue[1].path) <= Len(queue[i + 1].path)
        BY <3>2, <3>1 DEF Levels
      <4> QED
        BY <3>2, <4>1, <4>2
    <3>4. here' = queue[1] /\ Len(here.path) \in Nat
      BY <1>1, Popped, Lengths
    <3>5. Len(queue[i + 1].path) \in Len(queue[1].path)..(Len(queue[1].path) + 1)
      BY <2>1, <3>3, <3>4
    <3> QED
      BY <3>1, <3>4, <3>5
  <2>3. \A i, j \in DOMAIN queue' : i < j => Len(queue'[i].path) <= Len(queue'[j].path)
    <3> SUFFICES ASSUME NEW i \in DOMAIN queue', NEW j \in DOMAIN queue', i < j
                 PROVE  Len(queue'[i].path) <= Len(queue'[j].path)
      OBVIOUS
    <3>1. /\ i + 1 \in DOMAIN queue /\ queue'[i] = queue[i + 1]
          /\ j + 1 \in DOMAIN queue /\ queue'[j] = queue[j + 1]
      BY <1>1, Popped
    <3>2. i \in Nat /\ j \in Nat /\ i + 1 < j + 1
      BY <1>1, Popped
    <3> QED
      BY <3>1, <3>2 DEF Levels
  <2>4. /\ \A i \in DOMAIN results' : Len(results'[i].path) <= Len(here'.path)
        /\ \A i, j \in DOMAIN results' : i < j => Len(results'[i].path) <= Len(results'[j].path)
    <3>1. \A i \in DOMAIN results : Len(results[i].path) <= Len(here'.path)
      BY <2>1, Lengths DEF Levels
    <3>2. CASE results' = results
      BY <3>1, <3>2 DEF Levels
    <3>3. CASE /\ DOMAIN results' = 1..(Len(results) + 1)
               /\ results'[Len(results) + 1] = queue[1]
               /\ \A i \in DOMAIN results : results'[i] = results[i]
      <4>1. here' = queue[1]
        BY <1>1, Popped
      <4>2. \A i \in DOMAIN results' : i \in DOMAIN results \/ i = Len(results) + 1
        BY <3>3, Lengths
      <4>3. \A i \in DOMAIN results' : Len(results'[i].path) <= Len(here'.path)
        BY <2>1, <3>1, <3>3, <4>1, <4>2
      <4>4. \A i, j \in DOMAIN results' : i < j => Len(results'[i].path) <= Len(results'[j].path)
        <5>1. /\ \A i \in DOMAIN results :
                   /\ Len(results[i].path) \in Nat
                   /\ Len(results[i].path) <= Len(results'[Len(results) + 1].path)
              /\ Len(results) \in Nat /\ DOMAIN results = 1..Len(results)
          BY <3>1, <3>3, <4>1, Lengths
        <5>2. \A i, j \in DOMAIN results : i < j => Len(results[i].path) <= Len(results[j].path)
          BY DEF Levels
        <5> QED
          BY <3>3, <5>1, <5>2, LongestLast
      <4> QED
        BY <4>3, <4>4
    <3> QED
      BY <1>1, <3>2, <3>3, Popped
  <2> QED
    BY <2>2, <2>3, <2>4 DEF Levels
<1>2. ASSUME NEW c \in candidates, Skip(c) PROVE Levels'
  BY <1>2 DEF Skip, Levels
<1>3. ASSUME NEW c \in candidates, Follow(c) PROVE Levels'
  <2>1. UNCHANGED <<here, results>>
    BY <1>3 DEF Follow
  <2>2. CASE queue' = queue
    BY <2>1, <2>2 DEF Levels
  <2>3. CASE /\ DOMAIN queue' = 1..(Len(queue) + 1)
             /\ queue'[Len(queue) + 1] = Beyond(c[2])
             /\ \A i \in DOMAIN queue : queue'[i] = queue[i]
    <3>1. Len(Beyond(c[2]).path) = Len(here.path) + 1
      BY BeyondIsLonger DEF TypeOK
    <3>2. \A i \in DOMAIN queue' : i \in DOMAIN queue \/ i = Len(queue) + 1
      BY <2>3, Lengths
    <3>3. \A i \in DOMAIN queue' : Len(queue'[i].path) \in Len(here.path)..(Len(here.path) + 1)
      BY <2>3, <3>1, <3>2, Lengths DEF Levels
    <3>4. \A i \in DOMAIN queue :
            Len(queue[i].path) \in Nat /\ Len(queue[i].path) <= Len(queue'[Len(queue) + 1].path)
      BY <2>3, <3>1, Lengths DEF Levels
    <3>5. \A i, j \in DOMAIN queue' : i < j => Len(queue'[i].path) <= Len(queue'[j].path)
      BY <2>3, <3>4, Lengths, LongestLast DEF Levels
    <3> QED
      BY <2>1, <3>3, <3>5 DEF Levels
  <2> QED
    BY <1>3, <2>2, <2>3, Followed
<1>4. CASE UNCHANGED vars
  BY <1>4 DEF vars, Levels
<1> QED
  BY <1>1, <1>2, <1>3, <1>4 DEF Next

------------------------------------------------------------------------------
\* Trails differ in their paths.  That a new one differs from those queued takes
\* that the trail it extends is in the queue no more, that its extensions queued
\* so far went over the relationships in seen, and that nothing that was queued
\* is an extension of what still is.
ExtensionOf(q, p) == Len(q) = Len(p) + 1 /\ Prefix(p, q)

Once ==
  /\ \A i, j \in DOMAIN queue : i < j => queue[i].path # queue[j].path
  /\ \A i, j \in DOMAIN results : i < j => results[i].path # results[j].path
  /\ \A i \in DOMAIN results, j \in DOMAIN queue : results[i].path # queue[j].path
  /\ candidates # {} => \A j \in DOMAIN queue :
       /\ queue[j].path # here.path
       /\ ExtensionOf(queue[j].path, here.path) => queue[j].path[Len(here.path) + 1] \in seen
  /\ \A i, j \in DOMAIN queue : ~ExtensionOf(queue[j].path, queue[i].path)

LEMMA OnceInit == Init => Once
<1> SUFFICES ASSUME Init PROVE Once
  OBVIOUS
<1>1. Len(here.path) = 0 /\ queue = <<here>> /\ results = <<>> /\ candidates = {}
  BY DEF Init
<1>2. \A i \in DOMAIN queue : queue[i] = here /\ i = 1
  BY <1>1
<1> QED
  BY <1>1, <1>2 DEF Once, ExtensionOf

LEMMA OnceNext == TypeOK /\ Levels /\ Once /\ [Next]_vars => Once'
<1> SUFFICES ASSUME TypeOK, Levels, Once, [Next]_vars PROVE Once'
  OBVIOUS
<1>1. CASE Pop
  <2>1. \A i, j \in DOMAIN queue' : i < j => queue'[i].path # queue'[j].path
    BY <1>1, Popped, Lengths DEF Once
  <2>2. \A i \in DOMAIN queue' : queue'[i].path # queue[1].path
    BY <1>1, Popped, Lengths DEF Once
  <2>3. \A i \in DOMAIN results : results[i].path # queue[1].path
    BY <1>1, Popped DEF Once
  <2>4. /\ \A i, j \in DOMAIN results' : i < j => results'[i].path # results'[j].path
        /\ \A i \in DOMAIN results', j \in DOMAIN queue' : results'[i].path # queue'[j].path
    <3>1. \A i \in DOMAIN results, j \in DOMAIN queue' : results[i].path # queue'[j].path
      BY <1>1, Popped DEF Once
    <3>2. CASE results' = results
      BY <3>1, <3>2 DEF Once
    <3>3. CASE /\ DOMAIN results' = 1..(Len(results) + 1)
               /\ results'[Len(results) + 1] = queue[1]
               /\ \A i \in DOMAIN results : results'[i] = results[i]
      <4>1. \A i \in DOMAIN results' : i \in DOMAIN results \/ i = Len(results) + 1
        BY <3>3, Lengths
      <4>2. \A i \in DOMAIN results', j \in DOMAIN queue' : results'[i].path # queue'[j].path
        BY <2>2, <3>1, <3>3, <4>1
      <4>3. \A i, j \in DOMAIN results' : i < j => results'[i].path # results'[j].path
        <5> SUFFICES ASSUME NEW i \in DOMAIN results', NEW j \in DOMAIN results', i < j
                     PROVE  results'[i].path # results'[j].path
          OBVIOUS
        <5>1. i \in DOMAIN results /\ results'[i] = results[i]
          BY <3>3, Lengths
        <5>2. CASE j \in DOMAIN results
          BY <3>3, <5>1, <5>2 DEF Once
        <5>3. CASE j = Len(results) + 1
          BY <2>3, <3>3, <5>1, <5>3
        <5> QED
          BY <4>1, <5>2, <5>3
      <4> QED
        BY <4>2, <4>3
    <3> QED
      BY <1>1, <3>2, <3>3, Popped
  <2>5. \A j \in DOMAIN queue' : queue'[j].path # here'.path /\ ~ExtensionOf(queue'[j].path, here'.path)
    BY <1>1, <2>2, Popped DEF Once
  <2>6. \A i, j \in DOMAIN queue' : ~ExtensionOf(queue'[j].path, queue'[i].path)
    BY <1>1, Popped DEF Once
  <2> QED
    BY <2>1, <2>4, <2>5, <2>6 DEF Once
<1>2. ASSUME NEW c \in candidates, Skip(c) PROVE Once'
  <2>1. UNCHANGED <<queue, results, here, seen>> /\ candidates # {}
    BY <1>2 DEF Skip
  <2> QED
    BY <2>1 DEF Once
<1>3. ASSUME NEW c \in candidates, Follow(c) PROVE Once'
  <2>1. /\ UNCHANGED <<here, results>> /\ candidates # {}
        /\ c[2] \notin seen /\ seen' = seen \union {c[2]}
    BY <1>3 DEF Follow, LeadsOn
  <2>2. CASE queue' = queue
    BY <2>1, <2>2 DEF Once
  <2>3. CASE /\ DOMAIN queue' = 1..(Len(queue) + 1)
             /\ queue'[Len(queue) + 1] = Beyond(c[2])
             /\ \A i \in DOMAIN queue : queue'[i] = queue[i]
    <3> DEFINE new == Beyond(c[2]).path
               k == Len(here.path)
    <3>1. /\ k \in Nat /\ Len(new) = k + 1 /\ new[k + 1] = c[2]
          /\ \A i \in 1..k : new[i] = here.path[i]
      BY BeyondIsLonger DEF TypeOK
    <3>2. \A i \in DOMAIN queue' : i \in DOMAIN queue \/ i = Len(queue) + 1
      BY <2>3, Lengths
    <3>3. ExtensionOf(new, here.path)
      BY <3>1 DEF ExtensionOf, Prefix
    <3>4. \A i \in DOMAIN queue : queue[i].path # new
      BY <2>1, <3>1, <3>3 DEF Once
    <3>5. \A i \in DOMAIN results : results[i].path # new
      BY <3>1, Lengths DEF Levels
    <3>6. here.path # new
      BY <3>1
    <3>7. \A i, j \in DOMAIN queue' : i < j => queue'[i].path # queue'[j].path
      <4> SUFFICES ASSUME NEW i \in DOMAIN queue', NEW j \in DOMAIN queue', i < j
                   PROVE  queue'[i].path # queue'[j].path
        OBVIOUS
      <4>1. i \in DOMAIN queue /\ queue'[i] = queue[i]
        BY <2>3, Lengths
      <4> QED
        BY <2>3, <3>2, <3>4, <4>1 DEF Once
    <3>8. \A i \in DOMAIN results, j \in DOMAIN queue' : results[i].path # queue'[j].path
      BY <2>3, <3>2, <3>5 DEF Once
    <3>9. \A j \in DOMAIN queue' :
            /\ queue'[j].path # here.path
            /\ ExtensionOf(queue'[j].path, here.path) => queue'[j].path[k + 1] \in seen'
      BY <2>1, <2>3, <3>1, <3>2, <3>6 DEF Once
    <3>10. \A i, j \in DOMAIN queue' : ~ExtensionOf(queue'[j].path, queue'[i].path)
      <4> SUFFICES ASSUME NEW i \in DOMAIN queue', NEW j \in DOMAIN queue',
                          ExtensionOf(queue'[j].path, queue'[i].path)
                   PROVE  FALSE
        OBVIOUS
      <4>1. \A n \in DOMAIN queue : Len(queue[n].path) \in k..(k + 1)
        BY DEF Levels
      <4>2. CASE i = Len(queue) + 1
        <5>1. Len(queue'[j].path) = k + 2
          BY <2>3, <3>1, <4>2 DEF ExtensionOf
        <5> QED
          BY <2>3, <3>1, <3>2, <4>1, <5>1
      <4>3. CASE i \in DOMAIN queue /\ j = Len(queue) + 1
        <5>1. Len(queue[i].path) = k /\ Prefix(queue[i].path, new)
          BY <2>3, <3>1, <4>1, <4>3 DEF ExtensionOf
        <5>2. queue[i].path = here.path
          <6>1. queue[i] \in Trail /\ here \in Trail
            BY <4>3 DEF TypeOK
          <6>2. \A n \in 1..k : queue[i].path[n] = here.path[n]
            BY <3>1, <5>1 DEF Prefix
          <6> QED
            BY <3>1, <5>1, <6>1, <6>2 DEF Trail
        <5> QED
          BY <2>1, <4>3, <5>2 DEF Once
      <4>4. CASE i \in DOMAIN queue /\ j \in DOMAIN queue
        BY <2>3, <4>4 DEF Once
      <4> QED
        BY <3>2, <4>2, <4>3, <4>4
    <3> QED
      BY <2>1, <3>7, <3>8, <3>9, <3>10 DEF Once
  <2> QED
    BY <1>3, <2>2, <2>3, Followed
<1>4. CASE UNCHANGED vars
  BY <1>4 DEF vars, Once
<1> QED
  BY <1>1, <1>2, <1>3, <1>4 DEF Next

------------------------------------------------------------------------------
\* Of every trail that is wanted a part is still in work: it is reported, or the
\* way to it is queued, or the relationship that leads on along it is still to
\* be looked at.
OnTheWay(t, p, via) == Prefix(t.path, p) /\ t.at = via[Len(t.path)]

LeftToLookAt(p, via) ==
  /\ OnTheWay(here, p, via) /\ Len(here.path) < Len(p)
  /\ p[Len(here.path) + 1] \notin seen
  /\ \E c \in candidates : c[2] = p[Len(here.path) + 1]

InWork(p, via) ==
  \/ [path |-> p, at |-> via[Len(p)]] \in Range(results)
  \/ \E i \in DOMAIN queue : OnTheWay(queue[i], p, via)
  \/ LeftToLookAt(p, via)

Complete ==
  \A p \in Paths : \A via \in [0..Len(p) -> Node] : IsTrailThrough(p, via) => InWork(p, via)

LEMMA PathsAreSequences ==
  ASSUME Bounds, NEW p \in Paths
  PROVE  /\ p \in Seq(DOMAIN graph.rels) /\ DOMAIN p = 1..Len(p) /\ Len(p) \in Nat
         /\ Len(p) >= pat.min /\ Len(p) <= pat.max
<1>1. PICK k \in pat.min..pat.max : p \in [1..k -> DOMAIN graph.rels]
  BY DEF Paths
<1>2. k \in Nat
  BY DEF Bounds
<1>3. p \in Seq(DOMAIN graph.rels) /\ Len(p) = k
  BY <1>1, <1>2
<1> QED
  BY <1>1, <1>2, <1>3 DEF Bounds

LEMMA CompleteInit == Init => Complete
<1> SUFFICES ASSUME Init, NEW p \in Paths, NEW via \in [0..Len(p) -> Node], IsTrailThrough(p, via)
             PROVE  InWork(p, via)
  BY DEF Complete
<1>1. Len(p) \in Nat
  BY TypeInit, PathsAreSequences
<1>2. queue = <<here>> /\ here.path = <<>> /\ here.at = start
  BY DEF Init
<1>3. OnTheWay(here, p, via)
  BY <1>1, <1>2 DEF OnTheWay, Prefix, IsTrailThrough
<1>4. 1 \in DOMAIN queue /\ queue[1] = here
  BY <1>2
<1> QED
  BY <1>3, <1>4 DEF InWork

\* A trail that the search is on the way of goes on by the relationship that
\* joins where the search is to the next of its nodes.
LEMMA NextOnTheWay ==
  ASSUME Bounds, NEW p \in Paths, NEW via \in [0..Len(p) -> Node], IsTrailThrough(p, via),
         NEW t \in Trail, OnTheWay(t, p, via), Len(t.path) < Len(p)
  PROVE  /\ p[Len(t.path) + 1] \in DOMAIN graph.rels
         /\ Joins(pat.dir, p[Len(t.path) + 1], t.at, via[Len(t.path) + 1])
         /\ via[Len(t.path) + 1] \in graph.nodes
         /\ TypeFits(graph, pat, p[Len(t.path) + 1])
         /\ p[Len(t.path) + 1] \notin Range(t.path)
<1> DEFINE k == Len(t.path) + 1
<1>1. t.path \in Seq(DOMAIN graph.rels) /\ DOMAIN t.path = 1..Len(t.path) /\ Len(t.path) \in Nat
  BY DEF Trail
<1>2. /\ p \in Seq(DOMAIN graph.rels) /\ DOMAIN p = 1..Len(p)
      /\ k \in DOMAIN p /\ k - 1 = Len(t.path)
  BY <1>1, PathsAreSequences
<1>3. p[k] \in DOMAIN graph.rels
  BY <1>2
<1>4. /\ Joins(pat.dir, p[k], via[k - 1], via[k]) /\ via[k] \in graph.nodes
      /\ TypeFits(graph, pat, p[k])
  BY <1>2 DEF IsTrailThrough
<1>5. \A i \in 1..Len(t.path) : t.path[i] # p[k]
  <2> SUFFICES ASSUME NEW i \in 1..Len(t.path), t.path[i] = p[k] PROVE FALSE
    OBVIOUS
  <2>1. i \in DOMAIN p /\ p[i] = p[k] /\ i # k
    BY <1>1, <1>2 DEF OnTheWay, Prefix
  <2> QED
    BY <1>2, <2>1 DEF IsTrailThrough
<1>6. p[k] \notin Range(t.path)
  BY <1>1, <1>5 DEF Range
<1> QED
  BY <1>2, <1>3, <1>4, <1>6 DEF OnTheWay

LEMMA CompleteNext == TypeOK /\ Bounds /\ Complete /\ [Next]_vars => Complete'
<1> SUFFICES ASSUME TypeOK, Bounds, Complete, [Next]_vars PROVE Complete'
  OBVIOUS
<1>1. UNCHANGED problem
  BY DEF Next, Pop, Skip, Follow, vars
<1>2. /\ UNCHANGED <<Paths, Node>>
      /\ \A p, via : IsTrailThrough(p, via)' <=> IsTrailThrough(p, via)
  BY <1>1 DEF problem, Paths, Node, IsTrailThrough, Joins
<1> SUFFICES ASSUME NEW p \in Paths, NEW via \in [0..Len(p) -> Node],
                    IsTrailThrough(p, via), InWork(p, via)
             PROVE  InWork(p, via)'
  BY <1>2 DEF Complete
<1>3. /\ p \in Seq(DOMAIN graph.rels) /\ DOMAIN p = 1..Len(p) /\ Len(p) \in Nat
      /\ Len(p) >= pat.min /\ Len(p) <= pat.max
  BY PathsAreSequences
<1> DEFINE whole == [path |-> p, at |-> via[Len(p)]]
<1>4. CASE Pop
  <2>1. /\ here' = queue[1] /\ here' \in Trail /\ Len(here'.path) \in Nat
    BY <1>4, Popped, Lengths DEF TypeOK
  <2>2. CASE whole \in Range(results)
    <3>1. PICK i \in DOMAIN results : results[i] = whole
      BY <2>2 DEF Range
    <3>2. i \in DOMAIN results' /\ results'[i] = whole
      BY <1>4, <3>1, Popped, Lengths
    <3> QED
      BY <3>2 DEF InWork, Range
  <2>3. ASSUME NEW i \in DOMAIN queue, OnTheWay(queue[i], p, via), i # 1
        PROVE  InWork(p, via)'
    <3>1. i - 1 \in DOMAIN queue' /\ queue'[i - 1] = queue[i]
      BY <1>4, <2>3, Popped, Lengths
    <3> QED
      BY <2>3, <3>1 DEF InWork, OnTheWay
  <2>4. CASE OnTheWay(here', p, via) /\ Len(here'.path) < Len(p)
    <3>1. /\ p[Len(here'.path) + 1] \in DOMAIN graph.rels
          /\ Joins(pat.dir, p[Len(here'.path) + 1], here'.at, via[Len(here'.path) + 1])
      BY <2>1, <2>4, NextOnTheWay
    <3>2. \E c \in CandidatesAt(here'.at) : c[2] = p[Len(here'.path) + 1]
      BY <3>1, JoinedAreCandidates
    <3>3. Len(here'.path) < pat.max
      BY <1>3, <2>1, <2>4 DEF Bounds
    <3>4. candidates' = CandidatesAt(here'.at) /\ seen' = {}
      BY <1>4, <3>3 DEF Pop
    <3> QED
      BY <2>4, <3>2, <3>4 DEF InWork, LeftToLookAt, OnTheWay
  <2>5. CASE OnTheWay(here', p, via) /\ ~(Len(here'.path) < Len(p))
    <3>1. Len(here'.path) = Len(p) /\ here'.path = p
      BY <1>3, <2>1, <2>5 DEF OnTheWay, Prefix, Trail
    <3>2. here' = whole
      BY <2>1, <2>5, <3>1 DEF OnTheWay, Trail
    <3>3. results' = Append(results, here') /\ results \in Seq(Trail)
      BY <1>3, <1>4, <3>1 DEF Pop, TypeOK
    <3>4. Len(results) + 1 \in DOMAIN results' /\ results'[Len(results) + 1] = here'
      BY <2>1, <3>3
    <3> QED
      BY <3>2, <3>4 DEF InWork, Range
  <2>6. ~LeftToLookAt(p, via)
    BY <1>4 DEF Pop, LeftToLookAt
  <2> QED
    BY <2>1, <2>2, <2>3, <2>4, <2>5, <2>6 DEF InWork
<1>5. ASSUME UNCHANGED <<here, results>>,
             \A i \in DOMAIN queue : i \in DOMAIN queue' /\ queue'[i] = queue[i],
             ~LeftToLookAt(p, via)
      PROVE  InWork(p, via)'
  BY <1>5 DEF InWork, OnTheWay
<1>6. ASSUME NEW c \in candidates, Skip(c) PROVE InWork(p, via)'
  <2>1. UNCHANGED <<here, results, queue, seen>> /\ candidates' = candidates \ {c} /\ ~LeadsOn(c[2])
    BY <1>6 DEF Skip
  <2>2. CASE LeftToLookAt(p, via)
    <3>1. PICK d \in candidates : d[2] = p[Len(here.path) + 1]
      BY <2>2 DEF LeftToLookAt
    <3>2. LeadsOn(d[2])
      BY <2>2, <3>1, NextOnTheWay DEF LeftToLookAt, LeadsOn, TypeOK
    <3>3. d \in candidates'
      BY <2>1, <3>2
    <3> QED
      BY <2>1, <2>2, <3>1, <3>3 DEF InWork, LeftToLookAt, OnTheWay
  <2> QED
    BY <1>5, <2>1, <2>2
<1>7. ASSUME NEW c \in candidates, Follow(c) PROVE InWork(p, via)'
  <2>1. /\ UNCHANGED <<here, results>> /\ candidates' = candidates \ {c}
        /\ seen' = seen \union {c[2]}
    BY <1>7 DEF Follow
  <2>2. CASE LeftToLookAt(p, via) /\ c[2] # p[Len(here.path) + 1]
    BY <2>1, <2>2 DEF InWork, LeftToLookAt, OnTheWay
  <2>3. CASE LeftToLookAt(p, via) /\ c[2] = p[Len(here.path) + 1]
    <3> DEFINE k == Len(here.path)
               new == Beyond(c[2])
    <3>1. /\ here \in Trail /\ OnTheWay(here, p, via) /\ k < Len(p)
          /\ c[2] \in DOMAIN graph.rels
      BY <2>3 DEF LeftToLookAt, TypeOK
    <3>2. Joins(pat.dir, c[2], here.at, via[k + 1]) /\ via[k + 1] \in graph.nodes
      BY <2>3, <3>1, NextOnTheWay
    <3>3. via[k + 1] = FarEnd(graph, c[2], here.at)
      BY <3>1, <3>2, JoinedAreCandidates
    <3>4. /\ new.at = via[k + 1] /\ k \in Nat
          /\ Len(new.path) = k + 1 /\ new.path[k + 1] = c[2]
          /\ \A i \in 1..k : new.path[i] = here.path[i]
      BY <3>1, <3>3, BeyondIsLonger
    <3>5. OnTheWay(new, p, via)
      BY <1>3, <2>3, <3>1, <3>4 DEF OnTheWay, Prefix
    <3>6. Len(queue) + 1 \in DOMAIN queue' /\ queue'[Len(queue) + 1] = new
      BY <1>7, <3>2, <3>4, Followed, Lengths
    <3>7. OnTheWay(queue'[Len(queue) + 1], p, via)
      BY <3>5, <3>6
    <3> QED
      BY <3>6, <3>7 DEF InWork, OnTheWay
  <2>4. \A i \in DOMAIN queue : i \in DOMAIN queue' /\ queue'[i] = queue[i]
    BY <1>7, Followed, Lengths
  <2> QED
    BY <1>5, <2>1, <2>2, <2>3, <2>4
<1>8. CASE UNCHANGED vars
  BY <1>8 DEF vars, InWork, LeftToLookAt, OnTheWay
<1> QED
  BY <1>4, <1>6, <1>7, <1>8 DEF Next

------------------------------------------------------------------------------
SearchInv == TypeOK /\ Bounds /\ Sound /\ Levels /\ Once /\ Complete

LEMMA SearchInvariant == Spec => []SearchInv
<1>1. Init => SearchInv
  BY TypeInit, SoundInit, LevelsInit, OnceInit, CompleteInit DEF SearchInv
<1>2. SearchInv /\ [Next]_vars => SearchInv'
  BY TypeNext, SoundNext, LevelsNext, OnceNext, CompleteNext DEF SearchInv
<1> QED
  BY <1>1, <1>2, PTL DEF Spec

\* The queue and the results of the search only ever hold trails of entities of
\* the graph.
THEOREM SearchTypeCorrect == Spec => []TypeOK
BY SearchInvariant, PTL DEF SearchInv

\* On every graph, whatever the pattern: a path that comes out of the search
\* repeats no relationship, fits types, direction and bounds, passes through
\* live nodes only, and ends at the node it is reported with.
THEOREM SearchIsSound == Spec => []ResultsAreTrails
<1>1. SearchInv => ResultsAreTrails
  BY DEF SearchInv, Sound
<1> QED
  BY <1>1, SearchInvariant, PTL

\* No path comes out twice, and none before a shorter one, on graphs with loops
\* and parallel relationships too.
THEOREM SearchIsOrderly == Spec => []ShortestFirstAndOnce
<1>1. SearchInv => ShortestFirstAndOnce
  BY DEF SearchInv, Levels, Once, ShortestFirstAndOnce
<1> QED
  BY <1>1, SearchInvariant, PTL

\* A search that has ended has found every trail there is.
THEOREM SearchIsComplete == Spec => []CompleteAtTheEnd
<1>1. SearchInv => CompleteAtTheEnd
  <2> SUFFICES ASSUME SearchInv, Ended, NEW t \in Wanted PROVE t \in Range(results)
    BY DEF CompleteAtTheEnd
  <2>1. t = [path |-> t.path, at |-> t.at] /\ t.path \in Paths
    BY DEF Wanted
  <2>2. PICK via \in [0..Len(t.path) -> Node] :
          IsTrailThrough(t.path, via) /\ via[Len(t.path)] = t.at
    BY DEF Wanted, IsTrailTo
  <2>3. InWork(t.path, via)
    BY <2>1, <2>2 DEF SearchInv, Complete
  <2>4. queue = <<>> /\ candidates = {}
    BY DEF Ended
  <2> QED
    BY <2>1, <2>2, <2>3, <2>4 DEF InWork, LeftToLookAt
<1> QED
  BY <1>1, SearchInvariant, PTL

------------------------------------------------------------------------------
\* Lists of lists, one after the other: what one more adds.
LEMMA FlattensAgree ==
  ASSUME NEW n \in Nat, NEW m \in Nat, n <= m, NEW a, NEW b, \A i \in 1..n : a[i] = b[i],
         NEW g, NEW h, Flattens(g, n, a), Flattens(h, m, b)
  PROVE  \A i \in 1..n : g[i] = h[i]
<1> DEFINE S == {i \in Nat : i \in 1..n => g[i] = h[i]}
<1>1. /\ \A i \in 1..n : g[i] = IF i = 1 THEN a[i] ELSE g[i - 1] \o a[i]
      /\ \A i \in 1..m : h[i] = IF i = 1 THEN b[i] ELSE h[i - 1] \o b[i]
  BY DEF Flattens
<1>2. 0 \in S
  OBVIOUS
<1>3. ASSUME NEW k \in Nat, k \in S PROVE k + 1 \in S
  <2> SUFFICES ASSUME k + 1 \in 1..n PROVE g[k + 1] = h[k + 1]
    OBVIOUS
  <2>1. k + 1 \in 1..m /\ a[k + 1] = b[k + 1]
    OBVIOUS
  <2>2. CASE k = 0
    BY <1>1, <2>1, <2>2
  <2>3. CASE k # 0
    <3>1. k \in 1..n /\ g[k] = h[k] /\ k + 1 # 1 /\ (k + 1) - 1 = k
      BY <1>3, <2>3
    <3> QED
      BY <1>1, <2>1, <3>1
  <2> QED
    BY <2>2, <2>3
<1> HIDE DEF S
<1>4. \A k \in Nat : k \in S
  BY <1>2, <1>3, Induction
<1> QED
  BY <1>4 DEF S

\* The first n of the lists, joined.
Joined(lists, n) == FlattenSeq([i \in 1..n |-> lists[i]])

LEMMA JoinedOneMore ==
  ASSUME NEW S, NEW n \in Nat, NEW lists, \A i \in 1..(n + 1) : lists[i] \in Seq(S)
  PROVE  /\ Joined(lists, 0) = <<>>
         /\ Joined(lists, n) \in Seq(S)
         /\ Joined(lists, n + 1) = Joined(lists, n) \o lists[n + 1]
<1> DEFINE some == [i \in 1..n |-> lists[i]]
           more == [i \in 1..(n + 1) |-> lists[i]]
<1>1. Joined(lists, 0) = <<>>
  BY DEF Joined, FlattenSeq
<1>2. Joined(lists, n) \in Seq(S)
  <2>1. IsList(some) /\ DOMAIN some = 1..n
    BY FunctionIsList
  <2>2. \A i \in DOMAIN some : IsList(some[i]) /\ Range(some[i]) \subseteq S
    BY ListOf
  <2> HIDE DEF some
  <2>3. IsList(FlattenSeq(some)) /\ Range(FlattenSeq(some)) = UNION {Range(some[i]) : i \in DOMAIN some}
    BY <2>1, <2>2, Flattened
  <2>4. Range(FlattenSeq(some)) \subseteq S
    BY <2>2, <2>3
  <2>5. FlattenSeq(some) \in Seq(S)
    BY <2>3, <2>4, SeqMonotonic DEF IsList
  <2> QED
    BY <2>5 DEF Joined, some
<1> DEFINE g == CHOOSE f : Flattens(f, n, some)
           h == CHOOSE f : Flattens(f, n + 1, more)
<1>8. \A i \in 1..(n + 1) : more[i] = lists[i]
  OBVIOUS
<1>3. Flattens(g, n, some) /\ Flattens(h, n + 1, more)
  <2> HIDE DEF some, more
  <2>1. \E f : Flattens(f, n, some)
    BY FlattenExists
  <2>2. n + 1 \in Nat
    OBVIOUS
  <2>3. \E f : Flattens(f, n + 1, more)
    BY <2>2, FlattenExists
  <2> QED
    BY <2>1, <2>3
<1>4. Joined(lists, n + 1) = h[n + 1]
  <2>1. Len(more) = n + 1
    OBVIOUS
  <2> HIDE DEF more
  <2>2. FlattenSeq(more) = h[n + 1]
    BY <2>1 DEF FlattenSeq, Flattens
  <2> QED
    BY <2>2 DEF Joined, more
<1> HIDE DEF g, h
<1>5. h[n + 1] = IF n = 0 THEN more[1] ELSE h[n] \o more[n + 1]
  <2>1. n + 1 \in 1..(n + 1) /\ (n + 1) - 1 = n
    OBVIOUS
  <2> HIDE DEF more
  <2>2. h = [i \in 1..(n + 1) |-> IF i = 1 THEN more[i] ELSE h[i - 1] \o more[i]]
    BY <1>3 DEF Flattens
  <2>3. h[n + 1] = IF n + 1 = 1 THEN more[n + 1] ELSE h[(n + 1) - 1] \o more[n + 1]
    BY <2>1, <2>2
  <2> QED
    BY <2>1, <2>3
<1>6. CASE n = 0
  <2> HIDE DEF more
  <2>1. Joined(lists, n + 1) = lists[1] /\ lists[1] \in Seq(S)
    BY <1>4, <1>5, <1>6, <1>8
  <2>2. <<>> \o lists[1] = lists[1]
    BY <2>1, ConcatEmptySeq
  <2>3. Joined(lists, n) = <<>> /\ n + 1 = 1
    BY <1>1, <1>6
  <2> QED
    BY <1>1, <1>2, <2>1, <2>2, <2>3
<1>7. CASE n # 0
  <2>1. Joined(lists, n) = g[n]
    <3>1. Len(some) = n
      OBVIOUS
    <3> HIDE DEF some
    <3>2. FlattenSeq(some) = g[n]
      BY <1>7, <3>1 DEF FlattenSeq, Flattens, g
    <3> QED
      BY <3>2 DEF Joined, some
  <2>2. g[n] = h[n]
    <3>1. \A i \in 1..n : some[i] = more[i]
      OBVIOUS
    <3> HIDE DEF some, more
    <3>2. \A i \in 1..n : g[i] = h[i]
      BY ONLY <1>3, <3>1, n \in Nat, n + 1 \in Nat, n <= n + 1, FlattensAgree
    <3> QED
      BY <1>7, <3>2
  <2>3. more[n + 1] = lists[n + 1]
    BY <1>8
  <2> HIDE DEF more
  <2> QED
    BY <1>1, <1>2, <1>4, <1>5, <1>7, <2>1, <2>2, <2>3
<1> QED
  BY <1>1, <1>2, <1>6, <1>7

------------------------------------------------------------------------------
\* What the search runs on.
Setting == IsGraph(graph) /\ IsHop(pat) /\ pat.varlen

\* A list of one for every element is the list of them.
LEMMA ImagedIs ==
  ASSUME NEW n \in Nat, NEW f, NEW lists, lists = [i \in 1..n |-> <<f[i]>>]
  PROVE  FlattenSeq(lists) = [i \in 1..n |-> f[i]]
<1> DEFINE s == [i \in 1..n |-> f[i]]
           T == 1..n
<1>1. IsList(s) /\ DOMAIN s = T /\ Len(s) = n /\ \A i \in T : s[i] = f[i]
  BY FunctionIsList
<1>2. lists = [i \in DOMAIN s |-> IF i \in T THEN <<s[i]>> ELSE <<>>]
  BY <1>1
<1>3. FlattenSeq(lists) = Along(s, InOrder(T))
  <2> HIDE DEF s
  <2>1. T \in SUBSET DOMAIN s
    BY <1>1
  <2> HIDE DEF T
  <2> QED
    BY <1>1, <1>2, <2>1, SelectedInOrder
<1>4. InOrder(T) = [i \in 1..n |-> i]
  <2> DEFINE id == [i \in 1..n |-> i]
  <2>1. IsList(id) /\ Range(id) = T
    BY FunctionIsList DEF Range
  <2>2. Increasing(id) /\ T \subseteq Int
    BY DEF Increasing
  <2>3. Numbered(T)
    BY DEF Numbered
  <2> HIDE DEF id, T
  <2>4. IsList(InOrder(T)) /\ Increasing(InOrder(T)) /\ Range(InOrder(T)) = T
    BY <2>3, InOrderEnumerates
  <2> QED
    BY <2>1, <2>2, <2>4, IncreasingAreOne DEF id
<1>5. Len(InOrder(T)) = n /\ \A i \in 1..n : InOrder(T)[i] = i
  BY <1>4
<1> HIDE DEF s, T
<1>6. Along(s, InOrder(T)) = [i \in 1..n |-> s[InOrder(T)[i]]]
  BY <1>5 DEF Along
<1>7. \A i \in 1..n : s[InOrder(T)[i]] = f[i]
  BY <1>1, <1>5 DEF T
<1> QED
  BY <1>3, <1>6, <1>7

\* The order in which relationships are looked at from a node.
TurnAt(n, r) ==
  IF pat.dir # "IN" /\ graph.rels[r].start = n THEN r ELSE Len(graph.prop) + r

InTurn(n, s) == \A i, j \in DOMAIN s : i < j => TurnAt(n, s[i]) < TurnAt(n, s[j])

Around(n) == {c[2] : c \in CandidatesAt(n)}

LEMMA SelectedInTurn ==
  ASSUME NEW n, NEW s, IsList(s), InTurn(n, s), NEW T,
         NEW lists, lists = [i \in DOMAIN s |-> IF s[i] \in T THEN <<s[i]>> ELSE <<>>]
  PROVE  InTurn(n, FlattenSeq(lists))
<1> DEFINE at == {i \in DOMAIN s : s[i] \in T}
<1>1. FlattenSeq(lists) = Along(s, InOrder(at))
  <2>1. lists = [i \in DOMAIN s |-> IF i \in at THEN <<s[i]>> ELSE <<>>]
    OBVIOUS
  <2>2. at \in SUBSET DOMAIN s
    OBVIOUS
  <2> HIDE DEF at
  <2> QED
    BY <2>1, <2>2, SelectedInOrder
<1>2. Numbered(at)
  BY ListShape DEF Numbered
<1> DEFINE o == InOrder(at)
<1>3. IsList(o) /\ Increasing(o) /\ Range(o) = at
  <2> HIDE DEF at
  <2> QED
    BY <1>2, InOrderEnumerates
<1> HIDE DEF o
<1>4. DOMAIN o = 1..Len(o) /\ \A i \in 1..Len(o) : o[i] \in DOMAIN s
  BY <1>3, ListShape
<1> QED
  BY <1>1, <1>3, <1>4 DEF o, Along, InTurn, Increasing

LEMMA RelsInTurn ==
  ASSUME Setting, NEW n
  PROVE  /\ IsList(RelsAt(graph, pat.dir, n)) /\ InTurn(n, RelsAt(graph, pat.dir, n))
         /\ Range(RelsAt(graph, pat.dir, n)) = Around(n)
<1> DEFINE R == DOMAIN graph.rels
           M == Len(graph.prop)
           leaving  == {r \in R : graph.rels[r].start = n}
           entering == {r \in R : graph.rels[r].end = n}
<1>1. Numbered(R) /\ M \in Nat /\ R \subseteq 1..M
  BY GraphIsNumbered DEF Setting, IsGraph
<1>2. \A S \in SUBSET R : /\ IsList(InOrder(S)) /\ Increasing(InOrder(S)) /\ Range(InOrder(S)) = S
  <2> TAKE S \in SUBSET R
  <2>1. Numbered(S)
    BY <1>1 DEF Numbered
  <2> QED
    BY <2>1, InOrderEnumerates
<1>3. RelsAt(graph, pat.dir, n) = CASE pat.dir = "OUT"  -> InOrder(leaving)
                                  [] pat.dir = "IN"   -> InOrder(entering)
                                  [] pat.dir = "BOTH" -> InOrder(leaving) \o InOrder(entering \ leaving)
  BY DEF RelsAt
<1>4. \A r \in R : r \in Nat /\ r <= M /\ r >= 1
  BY <1>1
<1>5. \A r \in R : /\ r \in leaving <=> graph.rels[r].start = n
                   /\ r \in entering <=> graph.rels[r].end = n
  OBVIOUS
<1>6. \A r : r \in Around(n) <=>
               r \in R /\ ((pat.dir # "IN" /\ r \in leaving) \/ (pat.dir # "OUT" /\ r \in entering))
  <2> TAKE r
  <2>1. ASSUME r \in Around(n)
        PROVE  r \in R /\ ((pat.dir # "IN" /\ r \in leaving) \/ (pat.dir # "OUT" /\ r \in entering))
    BY <2>1 DEF Around, CandidatesAt
  <2>2. ASSUME r \in R, pat.dir # "IN" /\ r \in leaving PROVE r \in Around(n)
    <3>1. <<1, r>> \in CandidatesAt(n)
      BY <2>2 DEF CandidatesAt
    <3> QED
      BY <3>1 DEF Around
  <2>3. ASSUME r \in R, pat.dir # "OUT" /\ r \in entering PROVE r \in Around(n)
    <3>1. <<2, r>> \in CandidatesAt(n)
      BY <2>3 DEF CandidatesAt
    <3> QED
      BY <3>1 DEF Around
  <2> QED
    BY <2>1, <2>2, <2>3
<1>7. leaving \in SUBSET R /\ entering \in SUBSET R /\ entering \ leaving \in SUBSET R
  OBVIOUS
<1>8. \A r \in R : TurnAt(n, r) = IF pat.dir # "IN" /\ r \in leaving THEN r ELSE M + r
  BY <1>5 DEF TurnAt
<1> HIDE DEF leaving, entering, R, M
<1>9. ASSUME NEW S \in SUBSET R, (\A r \in S : TurnAt(n, r) = r) \/ (\A r \in S : TurnAt(n, r) = M + r)
      PROVE  InTurn(n, InOrder(S))
  <2> DEFINE s == InOrder(S)
  <2>1. IsList(s) /\ Increasing(s) /\ Range(s) = S
    BY <1>2
  <2> HIDE DEF s
  <2>2. \A i \in DOMAIN s : s[i] \in S /\ s[i] \in Nat
    BY <1>4, <2>1 DEF Range
  <2> QED
    BY <1>1, <1>9, <2>1, <2>2 DEF InTurn, Increasing, s
<1>10. CASE pat.dir = "OUT"
  <2>1. InTurn(n, InOrder(leaving))
    <3>1. \A r \in leaving : TurnAt(n, r) = r
      BY <1>7, <1>8, <1>10
    <3> QED
      BY <1>7, <1>9, <3>1
  <2> QED
    BY <1>2, <1>3, <1>6, <1>7, <1>10, <2>1
<1>11. CASE pat.dir = "IN"
  <2>1. InTurn(n, InOrder(entering))
    <3>1. \A r \in entering : TurnAt(n, r) = M + r
      BY <1>7, <1>8, <1>11
    <3> QED
      BY <1>7, <1>9, <3>1
  <2> QED
    BY <1>2, <1>3, <1>6, <1>7, <1>11, <2>1
<1>12. CASE pat.dir = "BOTH"
  <2> DEFINE a == InOrder(leaving)
             b == InOrder(entering \ leaving)
  <2>1. InTurn(n, a)
    <3>1. \A r \in leaving : TurnAt(n, r) = r
      BY <1>7, <1>8, <1>12
    <3> QED
      BY <1>7, <1>9, <3>1
  <2>2. InTurn(n, b)
    <3>1. \A r \in entering \ leaving : TurnAt(n, r) = M + r
      BY <1>7, <1>8, <1>12
    <3> QED
      BY <1>7, <1>9, <3>1
  <2>3. /\ IsList(a) /\ Range(a) = leaving
        /\ IsList(b) /\ Range(b) = entering \ leaving
    BY <1>2, <1>7
  <2>4. RelsAt(graph, pat.dir, n) = a \o b
    BY <1>3, <1>12
  <2> HIDE DEF a, b
  <2>5. \A x \in leaving, y \in entering \ leaving : TurnAt(n, x) < TurnAt(n, y)
    BY <1>1, <1>4, <1>7, <1>8, <1>12
  <2>6. IsList(a \o b) /\ Range(a \o b) = leaving \union (entering \ leaving)
    BY <2>3, ConcatList
  <2>7. InTurn(n, a \o b)
    <3>1. /\ Len(a) \in Nat /\ DOMAIN a = 1..Len(a) /\ \A i \in 1..Len(a) : a[i] \in leaving
          /\ Len(b) \in Nat /\ DOMAIN b = 1..Len(b) /\ \A i \in 1..Len(b) : b[i] \in entering \ leaving
      BY <2>3, ListShape
    <3>2. a \in Seq(R) /\ b \in Seq(R)
      BY <1>7, <2>3, SeqMonotonic DEF IsList
    <3>3. /\ DOMAIN (a \o b) = 1..(Len(a) + Len(b))
          /\ \A i \in 1..(Len(a) + Len(b)) : (a \o b)[i] = IF i <= Len(a) THEN a[i] ELSE b[i - Len(a)]
      BY <3>2
    <3> SUFFICES ASSUME NEW i \in 1..(Len(a) + Len(b)), NEW j \in 1..(Len(a) + Len(b)), i < j
                 PROVE  TurnAt(n, (a \o b)[i]) < TurnAt(n, (a \o b)[j])
      BY <3>3 DEF InTurn
    <3>4. CASE j <= Len(a)
      <4>1. i \in 1..Len(a) /\ j \in 1..Len(a) /\ i <= Len(a)
        BY <3>1, <3>4
      <4> QED
        BY <2>1, <3>1, <3>3, <3>4, <4>1 DEF InTurn
    <3>5. CASE i > Len(a)
      <4>1. /\ i - Len(a) \in 1..Len(b) /\ j - Len(a) \in 1..Len(b) /\ i - Len(a) < j - Len(a)
            /\ ~(i <= Len(a)) /\ ~(j <= Len(a))
        BY <3>1, <3>5
      <4> QED
        BY <2>2, <3>1, <3>3, <4>1 DEF InTurn
    <3>6. CASE i <= Len(a) /\ j > Len(a)
      <4>1. i \in 1..Len(a) /\ j - Len(a) \in 1..Len(b) /\ ~(j <= Len(a))
        BY <3>1, <3>6
      <4>2. a[i] \in leaving /\ b[j - Len(a)] \in entering \ leaving
        BY <3>1, <4>1
      <4> QED
        BY <2>5, <3>3, <3>6, <4>1, <4>2
    <3> QED
      BY <3>1, <3>4, <3>5, <3>6
  <2> QED
    BY <1>6, <1>7, <1>12, <2>4, <2>6, <2>7
<1> QED
  BY <1>10, <1>11, <1>12 DEF Setting, IsHop

\* The relationships that lead on from a trail, and the trails they lead to.
GoOn(t) ==
  {r \in Around(t.at) : /\ TypeFits(graph, pat, r) /\ FarEnd(graph, r, t.at) \in graph.nodes
                        /\ r \notin Range(t.path)}

LongerBy(t, s) ==
  [i \in 1..Len(s) |-> [path |-> Append(t.path, s[i]), at |-> FarEnd(graph, s[i], t.at)]]

LEMMA ExtensionsInTurn ==
  ASSUME Setting, NEW t \in Trail
  PROVE  \E s : /\ IsList(s) /\ InTurn(t.at, s) /\ Range(s) = GoOn(t)
                /\ Extensions(graph, pat, t) = LongerBy(t, s)
<1> DEFINE n == t.at
           a == RelsAt(graph, pat.dir, n)
           A == {r \in Around(n) : TypeFits(graph, pat, r) /\ FarEnd(graph, r, n) \in graph.nodes}
           alists == [i \in DOMAIN a |-> IF a[i] \in A THEN <<a[i]>> ELSE <<>>]
           b == FlattenSeq(alists)
           B == {r \in A : ~Contains(t.path, r)}
           blists == [i \in DOMAIN b |-> IF b[i] \in B THEN <<b[i]>> ELSE <<>>]
           s == FlattenSeq(blists)
<1>1. IsList(a) /\ InTurn(n, a) /\ Range(a) = Around(n)
  BY RelsInTurn
<1>2. b = Hops(graph, pat, n)
  <2>1. \A i \in DOMAIN a : a[i] \in A <=>
          TypeFits(graph, pat, a[i]) /\ FarEnd(graph, a[i], n) \in graph.nodes
    BY <1>1 DEF Range
  <2>2. alists = [i \in DOMAIN a |->
                    IF TypeFits(graph, pat, a[i]) /\ FarEnd(graph, a[i], n) \in graph.nodes
                    THEN <<a[i]>> ELSE <<>>]
    BY <2>1
  <2> QED
    BY <2>2 DEF Hops, Select, FlatMap
<1>3. IsList(b) /\ InTurn(n, b) /\ Range(b) = A
  <2>1. alists = [i \in DOMAIN a |-> IF a[i] \in A THEN <<a[i]>> ELSE <<>>] /\ A \subseteq Around(n)
    OBVIOUS
  <2> HIDE DEF a, A, alists
  <2>2. IsList(b) /\ Range(b) = Range(a) \intersect A
    BY <1>1, <2>1, Selected
  <2>3. InTurn(n, b)
    BY <1>1, <2>1, SelectedInTurn
  <2> QED
    BY <1>1, <2>1, <2>2, <2>3
<1>4. s = Select(Hops(graph, pat, n), LAMBDA r : ~Contains(t.path, r))
  <2>1. \A i \in DOMAIN b : b[i] \in B <=> ~Contains(t.path, b[i])
    BY <1>3 DEF Range
  <2> HIDE DEF b, B
  <2>2. blists = [i \in DOMAIN b |-> IF ~Contains(t.path, b[i]) THEN <<b[i]>> ELSE <<>>]
    BY <2>1
  <2> HIDE DEF blists
  <2>3. Select(b, LAMBDA r : ~Contains(t.path, r)) = FlattenSeq(blists)
    BY <2>2 DEF Select, FlatMap
  <2> QED
    BY <1>2, <2>3
<1>5. IsList(s) /\ InTurn(n, s) /\ Range(s) = B
  <2>1. blists = [i \in DOMAIN b |-> IF b[i] \in B THEN <<b[i]>> ELSE <<>>] /\ B \subseteq A
    OBVIOUS
  <2> HIDE DEF b, A, B, blists
  <2>2. IsList(s) /\ Range(s) = Range(b) \intersect B
    BY <1>3, <2>1, Selected
  <2>3. InTurn(n, s)
    BY <1>3, <2>1, SelectedInTurn
  <2> QED
    BY <1>3, <2>1, <2>2, <2>3
<1>6. B = GoOn(t)
  BY DEF GoOn, Contains, Range
<1> HIDE DEF a, A, alists, b, B, blists, s
<1> DEFINE f == LongerBy(t, s)
           lists == [i \in DOMAIN s |-> <<f[i]>>]
<1>7. DOMAIN s = 1..Len(s) /\ Len(s) \in Nat
  BY <1>5, ListShape
<1>8. Extensions(graph, pat, t) = FlattenSeq(lists)
  <2>1. lists = [i \in DOMAIN s |-> <<[path |-> Append(t.path, s[i]), at |-> FarEnd(graph, s[i], t.at)]>>]
    BY <1>7 DEF LongerBy
  <2> QED
    BY <1>4, <2>1 DEF Extensions, Image, FlatMap
<1>9. FlattenSeq(lists) = [i \in 1..Len(s) |-> f[i]]
  <2>1. lists = [i \in 1..Len(s) |-> <<f[i]>>]
    BY <1>7
  <2> HIDE DEF f, lists
  <2> QED
    BY <1>7, <2>1, ImagedIs
<1>10. f = [i \in 1..Len(s) |-> f[i]]
  BY DEF LongerBy
<1> QED
  BY <1>5, <1>6, <1>8, <1>9, <1>10

------------------------------------------------------------------------------
\* The levels of the definition by levels, and those up to one of them together.
Root == [path |-> <<>>, at |-> start]
Level(k) == TrailsOfLength(graph, pat, start)[k]
Beyonds(s) == FlattenSeq([i \in 1..Len(s) |-> Extensions(graph, pat, s[i])])
Reported(k) == Joined([i \in 1..(pat.max - pat.min + 1) |-> Level(pat.min + i - 1)], k - pat.min + 1)

LEMMA TrailsAreTrails == Trail = TrailsFrom(graph, start)
BY DEF Trail, TrailsFrom, Node

LEMMA ExtensionsAreLonger ==
  ASSUME Setting, NEW t \in Trail
  PROVE  /\ Extensions(graph, pat, t) \in Seq(Trail)
         /\ \A x \in Range(Extensions(graph, pat, t)) : Len(x.path) = Len(t.path) + 1
<1> DEFINE e == Extensions(graph, pat, t)
<1>1. e \in Seq(Trail)
  <2>1. IsList(e) /\ Range(e) \subseteq TrailsFrom(graph, start)
    BY TrailsAreTrails, ExtensionsList DEF Setting
  <2> HIDE DEF e
  <2> QED
    BY <2>1, TrailsAreTrails, SeqMonotonic DEF IsList
<1>2. PICK s : /\ IsList(s) /\ Range(s) = GoOn(t) /\ e = LongerBy(t, s)
  BY ExtensionsInTurn
<1>3. ASSUME NEW x \in Range(e) PROVE Len(x.path) = Len(t.path) + 1
  <2>1. PICK i \in 1..Len(s) : x = [path |-> Append(t.path, s[i]), at |-> FarEnd(graph, s[i], t.at)]
    BY <1>2 DEF LongerBy, Range
  <2>2. s[i] \in DOMAIN graph.rels
    <3>1. s[i] \in GoOn(t)
      BY <1>2, ListShape
    <3> QED
      BY <3>1 DEF GoOn, Around, CandidatesAt
  <2>3. t.path \in Seq(DOMAIN graph.rels)
    BY DEF Trail
  <2> QED
    BY <2>1, <2>2, <2>3, AppendProperties
<1> QED
  BY <1>1, <1>3

LEMMA BeyondsOneMore ==
  ASSUME Setting, NEW s \in Seq(Trail), NEW t \in Trail
  PROVE  /\ Beyonds(<<>>) = <<>> /\ Beyonds(s) \in Seq(Trail)
         /\ Beyonds(s \o <<t>>) = Beyonds(s) \o Extensions(graph, pat, t)
<1> DEFINE n == Len(s)
           u == s \o <<t>>
           lists == [i \in 1..(n + 1) |-> Extensions(graph, pat, u[i])]
<1>1. /\ n \in Nat /\ Len(u) = n + 1 /\ u[n + 1] = t
      /\ \A i \in 1..n : u[i] = s[i]
      /\ \A i \in 1..(n + 1) : u[i] \in Trail
  OBVIOUS
<1>2. Beyonds(<<>>) = <<>>
  BY DEF Beyonds, FlattenSeq
<1> HIDE DEF u, n
<1>3. \A i \in 1..(n + 1) : lists[i] \in Seq(Trail)
  BY <1>1, ExtensionsAreLonger
<1>4. Beyonds(s) = Joined(lists, n)
  <2>1. [i \in 1..n |-> Extensions(graph, pat, s[i])] = [i \in 1..n |-> lists[i]]
    BY <1>1
  <2> QED
    BY <2>1 DEF Beyonds, Joined, n
<1>5. Beyonds(u) = Joined(lists, n + 1)
  <2>1. [i \in 1..(n + 1) |-> Extensions(graph, pat, u[i])] = [i \in 1..(n + 1) |-> lists[i]]
    BY <1>1
  <2> QED
    BY <1>1, <2>1 DEF Beyonds, Joined
<1>6. lists[n + 1] = Extensions(graph, pat, t)
  BY <1>1
<1> HIDE DEF lists
<1>7. Joined(lists, n) \in Seq(Trail) /\ Joined(lists, n + 1) = Joined(lists, n) \o lists[n + 1]
  BY <1>1, <1>3, JoinedOneMore
<1> QED
  BY <1>2, <1>4, <1>5, <1>6, <1>7 DEF u

LEMMA LevelSteps ==
  ASSUME Setting
  PROVE  /\ pat.min \in Nat /\ pat.max \in Nat
         /\ Level(0) = <<Root>>
         /\ \A k \in 0..pat.max : Level(k) \in Seq(Trail)
         /\ \A k \in 0..pat.max : k + 1 \in 0..pat.max => Level(k + 1) = Beyonds(Level(k))
<1> DEFINE level == TrailsOfLength(graph, pat, start)
<1>1. pat.min \in Nat /\ pat.max \in Nat
  BY DEF Setting, IsHop
<1>2. LevelsUpTo(level, pat.max, graph, pat, start)
  <2>1. level = CHOOSE g : LevelsUpTo(g, pat.max, graph, pat, start)
    BY DEF TrailsOfLength, LevelsUpTo
  <2> QED
    BY <1>1, <2>1, LevelsExist
<1>3. \A k \in 0..pat.max : Level(k) \in Seq(Trail)
  <2> TAKE k \in 0..pat.max
  <2>1. IsList(Level(k)) /\ Range(Level(k)) \subseteq Trail
    BY LevelsList, TrailsAreTrails DEF Setting, Level
  <2> QED
    BY <2>1, SeqMonotonic DEF IsList
<1> HIDE DEF level
<1>4. level = [j \in 0..pat.max |-> IF j = 0 THEN <<[path |-> <<>>, at |-> start]>>
                                   ELSE FlatMap(LAMBDA t : Extensions(graph, pat, t), level[j - 1])]
  BY <1>2 DEF LevelsUpTo
<1>5. Level(0) = <<Root>>
  <2>1. 0 \in 0..pat.max
    BY <1>1
  <2> QED
    BY <1>4, <2>1 DEF Level, Root, level
<1>6. ASSUME NEW k \in 0..pat.max, k + 1 \in 0..pat.max PROVE Level(k + 1) = Beyonds(Level(k))
  <2>1. k + 1 # 0 /\ (k + 1) - 1 = k
    BY <1>6
  <2>2. level[k + 1] = FlatMap(LAMBDA t : Extensions(graph, pat, t), level[k])
    BY <1>4, <1>6, <2>1
  <2>3. DOMAIN level[k] = 1..Len(level[k])
    BY <1>3 DEF Level, level
  <2>4. FlatMap(LAMBDA t : Extensions(graph, pat, t), level[k]) =
          FlattenSeq([i \in DOMAIN level[k] |-> Extensions(graph, pat, level[k][i])])
    BY DEF FlatMap
  <2> QED
    BY <2>2, <2>3, <2>4 DEF Level, Beyonds, level
<1> QED
  BY <1>1, <1>3, <1>5, <1>6

LEMMA LevelLengths ==
  ASSUME Setting, NEW k \in 0..pat.max
  PROVE  \A x \in Range(Level(k)) : Len(x.path) = k
<1> DEFINE S == {j \in Nat : j \in 0..pat.max => \A x \in Range(Level(j)) : Len(x.path) = j}
<1>1. /\ pat.max \in Nat /\ Level(0) = <<Root>>
      /\ \A j \in 0..pat.max : Level(j) \in Seq(Trail)
      /\ \A j \in 0..pat.max : j + 1 \in 0..pat.max => Level(j + 1) = Beyonds(Level(j))
  BY LevelSteps
<1>2. 0 \in S
  <2>1. Range(<<Root>>) = {Root} /\ Len(Root.path) = 0
    BY SmallLists DEF Root
  <2> QED
    BY <1>1, <2>1
<1>3. ASSUME NEW j \in Nat, j \in S PROVE j + 1 \in S
  <2> SUFFICES ASSUME j + 1 \in 0..pat.max, NEW x \in Range(Level(j + 1)) PROVE Len(x.path) = j + 1
    OBVIOUS
  <2> DEFINE s == Level(j)
             lists == [i \in 1..Len(s) |-> Extensions(graph, pat, s[i])]
  <2>1. j \in 0..pat.max /\ s \in Seq(Trail) /\ Level(j + 1) = FlattenSeq(lists)
    BY <1>1 DEF Beyonds
  <2>2. \A y \in Range(s) : Len(y.path) = j
    BY <1>3, <2>1
  <2> HIDE DEF s
  <2>3. IsList(s) /\ DOMAIN s = 1..Len(s)
    BY <2>1, ListOf
  <2>4. \A i \in DOMAIN s : lists[i] \in Seq(Trail) /\ IsList(lists[i])
    BY <2>1, <2>3, ExtensionsAreLonger, ListOf
  <2>5. lists = [i \in DOMAIN s |-> lists[i]]
    BY <2>3
  <2>6. PICK i \in DOMAIN s : x \in Range(Extensions(graph, pat, s[i]))
    <3>1. \A i \in DOMAIN s : lists[i] = Extensions(graph, pat, s[i])
      BY <2>3
    <3> HIDE DEF lists
    <3>2. \E i \in DOMAIN s : x \in Range(lists[i])
      BY <2>1, <2>3, <2>4, <2>5, Mapped
    <3> QED
      BY <3>1, <3>2
  <2>7. s[i] \in Trail /\ s[i] \in Range(s)
    BY <2>1 DEF Range
  <2> QED
    BY <2>2, <2>6, <2>7, ExtensionsAreLonger
<1>5. k \in Nat
  BY <1>1
<1> HIDE DEF S
<1>4. k \in S
  BY <1>2, <1>3, <1>5, Induction
<1> QED
  BY <1>4 DEF S

LEMMA ReportedSteps ==
  ASSUME Setting
  PROVE  /\ \A k \in 0..pat.max : k + 1 = pat.min \/ k < pat.min => Reported(k) = <<>>
         /\ Reported(pat.min - 1) = <<>>
         /\ \A k \in -1..pat.max : Reported(k) \in Seq(Trail)
         /\ \A k \in 0..pat.max : pat.min <= k => Reported(k) = Reported(k - 1) \o Level(k)
         /\ Trails(graph, pat, start) = Reported(pat.max)
<1> DEFINE m == pat.max - pat.min + 1
           lists == [i \in 1..m |-> Level(pat.min + i - 1)]
<1>1. /\ pat.min \in Nat /\ pat.max \in Nat
      /\ \A k \in 0..pat.max : Level(k) \in Seq(Trail)
  BY LevelSteps
<1>13. pat.min \in Nat /\ pat.max \in Nat /\ m = pat.max - pat.min + 1
  BY <1>1
<1>2. \A i \in 1..m : lists[i] \in Seq(Trail) /\ lists[i] = Level(pat.min + i - 1)
  BY <1>1
<1>3. \A k \in Int : Reported(k) = Joined(lists, k - pat.min + 1)
  BY DEF Reported
<1>4. DOMAIN lists = 1..m
  OBVIOUS
<1>5. Trails(graph, pat, start) = Joined(lists, m)
  <2> DEFINE t == [i \in 1..m |-> pat.min + i - 1]
  <2>1. [i \in DOMAIN t |-> TrailsOfLength(graph, pat, start)[t[i]]] = [i \in 1..m |-> lists[i]]
    BY DEF Level
  <2> QED
    BY <2>1 DEF Trails, FlatMap, Joined
<1> HIDE DEF lists
<1>6. ASSUME NEW k \in Int, k < pat.min PROVE Reported(k) = <<>>
  <2>1. 1..(k - pat.min + 1) = {}
    BY <1>1, <1>6
  <2>2. [i \in 1..(k - pat.min + 1) |-> lists[i]] = <<>>
    BY <2>1
  <2> QED
    BY <1>3, <2>2 DEF Joined, FlattenSeq
<1>7. ASSUME NEW n \in Nat, n + 1 <= m
      PROVE  /\ Joined(lists, n) \in Seq(Trail) /\ Joined(lists, n + 1) \in Seq(Trail)
             /\ Joined(lists, n + 1) = Joined(lists, n) \o lists[n + 1]
  <2>1. \A i \in 1..(n + 1) : lists[i] \in Seq(Trail)
    BY <1>1, <1>2, <1>7
  <2>2. Joined(lists, n) \in Seq(Trail) /\ Joined(lists, n + 1) = Joined(lists, n) \o lists[n + 1]
    BY <2>1, JoinedOneMore
  <2>3. lists[n + 1] \in Seq(Trail)
    BY <2>1
  <2> QED
    BY <2>2, <2>3, ConcatProperties
<1>8. ASSUME NEW k \in 0..pat.max, pat.min <= k
      PROVE  Reported(k) = Reported(k - 1) \o Level(k) /\ Reported(k) \in Seq(Trail)
  <2>1. k - pat.min \in Nat /\ (k - pat.min) + 1 <= m /\ (k - 1) - pat.min + 1 = k - pat.min
    BY <1>8, <1>13
  <2>2. k - pat.min + 1 \in 1..m /\ pat.min + (k - pat.min + 1) - 1 = k
    BY <1>8, <1>13
  <2>3. lists[k - pat.min + 1] = Level(k)
    BY <1>2, <2>2
  <2>4. Reported(k) = Joined(lists, k - pat.min + 1) /\ Reported(k - 1) = Joined(lists, k - pat.min)
    BY <1>3, <2>1
  <2> QED
    BY <1>7, <2>1, <2>3, <2>4
<1>9. \A k \in -1..pat.max : Reported(k) \in Seq(Trail)
  <2> TAKE k \in -1..pat.max
  <2>1. k < pat.min \/ (k \in 0..pat.max /\ pat.min <= k)
    BY <1>13
  <2>2. k \in Int
    OBVIOUS
  <2>3. <<>> \in Seq(Trail)
    BY EmptySeq
  <2> QED
    BY <1>6, <1>8, <2>1, <2>2, <2>3
<1>10. Reported(pat.max) = Joined(lists, m)
  <2>1. pat.max \in Int
    BY <1>13
  <2> QED
    BY <1>3, <1>13, <2>1
<1>11. pat.min - 1 \in Int /\ pat.min - 1 < pat.min
  BY <1>1
<1>12. \A k \in 0..pat.max : k + 1 = pat.min \/ k < pat.min => k \in Int /\ k < pat.min
  BY <1>1
<1> QED
  BY <1>5, <1>6, <1>8, <1>9, <1>10, <1>11, <1>12

------------------------------------------------------------------------------
\* The relationships f have been followed from here so far, in the order of the
\* definition by levels; what is not among them does not lead on, or is still to
\* be looked at.
TurnOf(c) == IF c[1] = 1 THEN c[2] ELSE Len(graph.prop) + c[2]

Following(f) ==
  /\ IsList(f) /\ Range(f) = {r \in seen : Beyond(r).at \in graph.nodes}
  /\ InTurn(here.at, f)
  /\ \A i \in DOMAIN f, c \in candidates : TurnAt(here.at, f[i]) < TurnOf(c)
  /\ \A r \in seen : r \in Around(here.at) /\ TypeFits(graph, pat, r) /\ r \notin Range(here.path)
  /\ \A c \in CandidatesAt(here.at) : LeadsOn(c[2]) => c \in candidates

LEMMA Turns ==
  ASSUME Setting, NEW n
  PROVE  /\ Len(graph.prop) \in Nat
         /\ \A r \in Around(n) : /\ r \in DOMAIN graph.rels /\ r \in 1..Len(graph.prop)
                                 /\ TurnAt(n, r) \in Nat
                                 /\ \E c \in CandidatesAt(n) : c[2] = r /\ TurnOf(c) = TurnAt(n, r)
         /\ \A r, s \in Around(n) : TurnAt(n, r) = TurnAt(n, s) => r = s
         /\ \A c \in CandidatesAt(n) : /\ TurnOf(c) \in Nat /\ TurnAt(n, c[2]) <= TurnOf(c)
                                       /\ c = <<c[1], c[2]>> /\ c[2] \in Around(n)
         /\ \A c, d \in CandidatesAt(n) : /\ TurnOf(c) = TurnOf(d) => c = d
                                          /\ TurnOf(c) <= TurnOf(d) <=> c[1] < d[1] \/ (c[1] = d[1] /\ c[2] <= d[2])
<1> DEFINE M == Len(graph.prop)
<1>1. M \in Nat /\ DOMAIN graph.rels \subseteq 1..M
  BY DEF Setting, IsGraph
<1>2. ASSUME NEW c \in CandidatesAt(n)
      PROVE  /\ c = <<c[1], c[2]>> /\ c[1] \in {1, 2} /\ c[2] \in DOMAIN graph.rels /\ c[2] \in 1..M
             /\ TurnOf(c) \in Nat /\ TurnAt(n, c[2]) <= TurnOf(c)
  <2>1. /\ c = <<c[1], c[2]>> /\ c[1] \in {1, 2} /\ c[2] \in DOMAIN graph.rels
        /\ c[1] = 1 => pat.dir # "IN" /\ graph.rels[c[2]].start = n
    BY DEF CandidatesAt
  <2>2. c[2] \in 1..M
    BY <1>1, <2>1
  <2> QED
    BY <1>1, <2>1, <2>2 DEF TurnOf, TurnAt
<1>3. ASSUME NEW c \in CandidatesAt(n), NEW d \in CandidatesAt(n)
      PROVE  /\ TurnOf(c) = TurnOf(d) => c = d
             /\ TurnOf(c) <= TurnOf(d) <=> c[1] < d[1] \/ (c[1] = d[1] /\ c[2] <= d[2])
  <2>1. /\ c = <<c[1], c[2]>> /\ c[1] \in {1, 2} /\ c[2] \in 1..M
        /\ d = <<d[1], d[2]>> /\ d[1] \in {1, 2} /\ d[2] \in 1..M
    BY <1>2
  <2>2. TurnOf(c) = TurnOf(d) => c[1] = d[1] /\ c[2] = d[2]
    BY <1>1, <2>1 DEF TurnOf
  <2>3. TurnOf(c) <= TurnOf(d) <=> c[1] < d[1] \/ (c[1] = d[1] /\ c[2] <= d[2])
    BY <1>1, <2>1 DEF TurnOf
  <2> QED
    BY <2>1, <2>2, <2>3
<1>4. ASSUME NEW r \in Around(n)
      PROVE  /\ r \in DOMAIN graph.rels /\ r \in 1..M /\ TurnAt(n, r) \in Nat
             /\ \E c \in CandidatesAt(n) : c[2] = r /\ TurnOf(c) = TurnAt(n, r)
  <2>1. PICK d \in CandidatesAt(n) : d[2] = r
    BY DEF Around
  <2>2. r \in DOMAIN graph.rels /\ r \in 1..M
    BY <1>2, <2>1
  <2>3. TurnAt(n, r) \in Nat
    BY <1>1, <2>2 DEF TurnAt
  <2>4. CASE pat.dir # "IN" /\ graph.rels[r].start = n
    <3>1. <<1, r>> \in CandidatesAt(n)
      BY <2>2, <2>4 DEF CandidatesAt
    <3>2. TurnOf(<<1, r>>) = TurnAt(n, r)
      BY <2>4 DEF TurnOf, TurnAt
    <3> QED
      BY <2>2, <2>3, <3>1, <3>2
  <2>5. CASE ~(pat.dir # "IN" /\ graph.rels[r].start = n)
    <3>1. d[1] = 2
      BY <2>1, <2>5 DEF CandidatesAt
    <3>2. TurnOf(d) = TurnAt(n, r)
      BY <2>1, <2>5, <3>1 DEF TurnOf, TurnAt
    <3> QED
      BY <2>1, <2>2, <2>3, <3>2
  <2> QED
    BY <2>4, <2>5
<1>5. ASSUME NEW r \in Around(n), NEW s \in Around(n), TurnAt(n, r) = TurnAt(n, s) PROVE r = s
  <2>1. r \in 1..M /\ s \in 1..M
    BY <1>4
  <2> QED
    BY <1>1, <1>5, <2>1 DEF TurnAt
<1>6. \A c \in CandidatesAt(n) : c[2] \in Around(n)
  BY DEF Around
<1> QED
  BY <1>1, <1>2, <1>3, <1>4, <1>5, <1>6

\* Relationships that come in the same order are the same list.
LEMMA InTurnAreOne ==
  ASSUME Setting, NEW n, NEW s, NEW t, IsList(s), IsList(t), InTurn(n, s), InTurn(n, t),
         Range(s) = Range(t), Range(s) \subseteq Around(n)
  PROVE  s = t
<1> DEFINE a == [i \in 1..Len(s) |-> TurnAt(n, s[i])]
           b == [i \in 1..Len(t) |-> TurnAt(n, t[i])]
<1>1. /\ Len(s) \in Nat /\ DOMAIN s = 1..Len(s) /\ Len(t) \in Nat /\ DOMAIN t = 1..Len(t)
      /\ \A i \in 1..Len(s) : s[i] \in Around(n)
      /\ \A i \in 1..Len(t) : t[i] \in Around(n)
      /\ \A i \in 1..Len(s) : \E j \in 1..Len(t) : t[j] = s[i]
      /\ \A j \in 1..Len(t) : \E i \in 1..Len(s) : s[i] = t[j]
  BY ListShape
<1>2. IsList(a) /\ IsList(b) /\ Len(a) = Len(s) /\ Len(b) = Len(t)
  BY <1>1, FunctionIsList
<1>3. Increasing(a) /\ Increasing(b)
  BY <1>1 DEF InTurn, Increasing
<1>4. Range(a) = Range(b) /\ Range(a) \subseteq Int
  <2>1. \A x \in Range(a) : x \in Range(b) /\ x \in Int
    <3> TAKE x \in Range(a)
    <3>1. PICK i \in 1..Len(s) : x = TurnAt(n, s[i])
      BY DEF Range
    <3>2. PICK j \in 1..Len(t) : t[j] = s[i]
      BY <1>1
    <3>3. b[j] = x /\ j \in DOMAIN b
      BY <3>1, <3>2
    <3>4. x \in Nat
      BY <1>1, <3>1, Turns
    <3> QED
      BY <3>3, <3>4 DEF Range
  <2>2. \A x \in Range(b) : x \in Range(a)
    <3> TAKE x \in Range(b)
    <3>1. PICK j \in 1..Len(t) : x = TurnAt(n, t[j])
      BY DEF Range
    <3>2. PICK i \in 1..Len(s) : s[i] = t[j]
      BY <1>1
    <3>3. a[i] = x /\ i \in DOMAIN a
      BY <3>1, <3>2
    <3> QED
      BY <3>3 DEF Range
  <2> QED
    BY <2>1, <2>2
<1>5. a = b
  <2> HIDE DEF a, b
  <2> QED
    BY <1>2, <1>3, <1>4, IncreasingAreOne
<1>6. Len(s) = Len(t)
  BY <1>2, <1>5
<1>7. \A i \in 1..Len(s) : TurnAt(n, s[i]) = TurnAt(n, t[i])
  <2> TAKE i \in 1..Len(s)
  <2>1. a[i] = b[i]
    BY <1>5
  <2> QED
    BY <1>6, <2>1
<1>8. \A i \in 1..Len(s) : s[i] = t[i]
  BY <1>1, <1>6, <1>7, Turns
<1>9. s = [i \in 1..Len(s) |-> s[i]] /\ t = [i \in 1..Len(t) |-> t[i]]
  BY <1>1 DEF IsList
<1> QED
  BY <1>6, <1>8, <1>9

\* When nothing is left to look at, what has been followed leads to all the
\* trails that extend this one, in order.
LEMMA FollowingEnds ==
  ASSUME Setting, TypeOK, NEW f, Following(f), candidates = {}
  PROVE  LongerBy(here, f) = Extensions(graph, pat, here)
<1>1. here \in Trail
  BY DEF TypeOK
<1>2. PICK s : /\ IsList(s) /\ InTurn(here.at, s) /\ Range(s) = GoOn(here)
               /\ Extensions(graph, pat, here) = LongerBy(here, s)
  BY <1>1, ExtensionsInTurn
<1>3. Range(f) = GoOn(here)
  <2>1. \A r : Beyond(r).at = FarEnd(graph, r, here.at)
    BY DEF Beyond
  <2>2. \A r \in Range(f) : r \in GoOn(here)
    BY <2>1 DEF Following, GoOn
  <2>3. ASSUME NEW r \in GoOn(here) PROVE r \in Range(f)
    <3>1. PICK c \in CandidatesAt(here.at) : c[2] = r
      BY DEF GoOn, Around
    <3>2. ~LeadsOn(r)
      BY <3>1 DEF Following
    <3>3. r \in seen
      BY <3>2 DEF LeadsOn, GoOn
    <3> QED
      BY <2>1, <3>3 DEF Following, GoOn
  <2> QED
    BY <2>2, <2>3
<1>4. f = s
  BY <1>2, <1>3, InTurnAreOne DEF Following, GoOn
<1> QED
  BY <1>2, <1>4

LEMMA LongerByOneMore ==
  ASSUME TypeOK, NEW f, IsList(f), Range(f) \subseteq DOMAIN graph.rels, NEW r \in DOMAIN graph.rels
  PROVE  /\ IsList(f \o <<r>>) /\ Range(f \o <<r>>) = Range(f) \union {r}
         /\ DOMAIN (f \o <<r>>) = 1..(Len(f) + 1) /\ Len(f) \in Nat /\ DOMAIN f = 1..Len(f)
         /\ (f \o <<r>>)[Len(f) + 1] = r /\ \A i \in 1..Len(f) : (f \o <<r>>)[i] = f[i]
         /\ LongerBy(here, f \o <<r>>) = LongerBy(here, f) \o <<Beyond(r)>>
<1> DEFINE g == f \o <<r>>
           b == LongerBy(here, f)
           S == {Beyond(x) : x \in DOMAIN graph.rels}
<1>1. f \in Seq(DOMAIN graph.rels)
  BY SeqMonotonic DEF IsList
<1>2. IsList(g) /\ Range(g) = Range(f) \union {r}
  BY ConcatList, SmallLists
<1>3. /\ Len(f) \in Nat /\ DOMAIN f = 1..Len(f) /\ Len(g) = Len(f) + 1 /\ DOMAIN g = 1..(Len(f) + 1)
      /\ g[Len(f) + 1] = r /\ \A i \in 1..Len(f) : g[i] = f[i]
      /\ \A i \in 1..Len(f) : f[i] \in DOMAIN graph.rels
  BY <1>1
<1> HIDE DEF g
<1>4. LongerBy(here, g) = [i \in 1..(Len(f) + 1) |-> Beyond(g[i])]
  BY <1>3 DEF LongerBy, Beyond
<1>5. b = [i \in 1..Len(f) |-> Beyond(f[i])]
  BY <1>3 DEF LongerBy, Beyond
<1> HIDE DEF b
<1>6. b \in Seq(S) /\ Len(b) = Len(f) /\ Beyond(r) \in S
  BY <1>3, <1>5
<1> HIDE DEF S
<1>7. /\ b \o <<Beyond(r)>> \in Seq(S) /\ Len(b \o <<Beyond(r)>>) = Len(f) + 1
      /\ \A i \in 1..(Len(f) + 1) : (b \o <<Beyond(r)>>)[i] = IF i <= Len(f) THEN b[i] ELSE Beyond(r)
  BY <1>3, <1>6
<1>8. b \o <<Beyond(r)>> = [i \in 1..(Len(f) + 1) |-> (b \o <<Beyond(r)>>)[i]]
  BY <1>7
<1>9. \A i \in 1..(Len(f) + 1) : (b \o <<Beyond(r)>>)[i] = Beyond(g[i])
  <2> TAKE i \in 1..(Len(f) + 1)
  <2>1. CASE i <= Len(f)
    <3>1. i \in 1..Len(f)
      BY <1>3, <2>1
    <3> QED
      BY <1>3, <1>5, <1>7, <2>1, <3>1
  <2>2. CASE ~(i <= Len(f))
    <3>1. i = Len(f) + 1
      BY <1>3, <2>2
    <3> QED
      BY <1>3, <1>7, <2>2, <3>1
  <2> QED
    BY <2>1, <2>2
<1>10. LongerBy(here, g) = b \o <<Beyond(r)>>
  BY <1>4, <1>8, <1>9
<1> QED
  BY <1>2, <1>3, <1>10 DEF b, g

------------------------------------------------------------------------------
LEMMA SameSetting ==
  ASSUME UNCHANGED problem
  PROVE  /\ UNCHANGED <<graph, pat, start>> /\ (Setting' <=> Setting)
         /\ UNCHANGED Trail
         /\ \A k : Level(k)' = Level(k)
         /\ \A k : Reported(k)' = Reported(k)
         /\ \A s : Beyonds(s)' = Beyonds(s)
         /\ \A n : CandidatesAt(n)' = CandidatesAt(n) /\ Around(n)' = Around(n)
         /\ \A n, r : TurnAt(n, r)' = TurnAt(n, r)
         /\ \A n, s : InTurn(n, s)' <=> InTurn(n, s)
         /\ \A c : TurnOf(c)' = TurnOf(c)
         /\ \A t, s : LongerBy(t, s)' = LongerBy(t, s)
<1>1. UNCHANGED <<graph, pat, start>>
  BY DEF problem
<1>2. (Setting' <=> Setting) /\ UNCHANGED Trail
  BY <1>1 DEF Setting, Trail, Node
<1>3. \A k : Level(k)' = Level(k)
  BY <1>1 DEF Level
<1>4. \A k : Reported(k)' = Reported(k)
  BY <1>1, <1>3 DEF Reported
<1>5. \A s : Beyonds(s)' = Beyonds(s)
  BY <1>1 DEF Beyonds
<1>6. \A n : CandidatesAt(n)' = CandidatesAt(n) /\ Around(n)' = Around(n)
  BY <1>1 DEF CandidatesAt, Around
<1>7. \A n, r : TurnAt(n, r)' = TurnAt(n, r)
  BY <1>1 DEF TurnAt
<1>8. \A n, s : InTurn(n, s)' <=> InTurn(n, s)
  BY <1>7 DEF InTurn
<1>9. \A c : TurnOf(c)' = TurnOf(c)
  BY <1>1 DEF TurnOf
<1>10. \A t, s : LongerBy(t, s)' = LongerBy(t, s)
  BY <1>1 DEF LongerBy
<1> QED
  BY <1>1, <1>2, <1>3, <1>4, <1>5, <1>6, <1>7, <1>8, <1>9, <1>10

LEMMA FollowingSkip ==
  ASSUME Setting, NEW f, Following(f), NEW c \in candidates, Skip(c)
  PROVE  Following(f)'
<1>1. UNCHANGED problem /\ UNCHANGED <<here, seen>> /\ candidates' = candidates \ {c} /\ ~LeadsOn(c[2])
  BY DEF Skip
<1>2. UNCHANGED <<graph, pat>>
  BY <1>1, SameSetting
<1>3. /\ \A r : Beyond(r)' = Beyond(r)
      /\ \A r : LeadsOn(r)' <=> LeadsOn(r)
  BY <1>1, <1>2 DEF Beyond, LeadsOn
<1>4. IsList(f) /\ Range(f) = {r \in seen' : Beyond(r)'.at \in graph'.nodes}
  BY <1>1, <1>2, <1>3 DEF Following
<1>5. InTurn(here.at, f)'
  BY <1>1, SameSetting DEF Following
<1>6. \A i \in DOMAIN f, d \in candidates' : TurnAt(here.at, f[i])' < TurnOf(d)'
  BY <1>1, SameSetting DEF Following
<1>7. \A r \in seen' : r \in Around(here.at)' /\ TypeFits(graph, pat, r)' /\ r \notin Range(here.path)'
  BY <1>1, <1>2, SameSetting DEF Following
<1>8. \A d \in CandidatesAt(here.at)' : LeadsOn(d[2])' => d \in candidates'
  BY <1>1, <1>3, SameSetting DEF Following
<1> QED
  BY <1>4, <1>5, <1>6, <1>7, <1>8 DEF Following

\* What is followed comes after what has been followed before.
LEMMA FollowingFollow ==
  ASSUME Setting, TypeOK, Sound, NEW f, Following(f), NEW c \in candidates, Follow(c)
  PROVE  \/ queue' = queue /\ Following(f)'
         \/ /\ queue' = Append(queue, Beyond(c[2])) /\ Following(f \o <<c[2]>>)'
            /\ Beyond(c[2]) \in Trail
            /\ LongerBy(here, f \o <<c[2]>>) = LongerBy(here, f) \o <<Beyond(c[2])>>
<1> DEFINE r == c[2]
           n == here.at
           g == f \o <<r>>
<1>1. /\ UNCHANGED problem /\ UNCHANGED here /\ candidates' = candidates \ {c}
      /\ seen' = seen \union {r} /\ LeadsOn(r) /\ IsFirst(c)
  BY DEF Follow
<1>2. UNCHANGED <<graph, pat>>
  BY <1>1, SameSetting
<1>3. candidates \subseteq CandidatesAt(n)
  BY DEF Sound
<1>4. r \in Around(n) /\ r \in DOMAIN graph.rels /\ TurnOf(c) \in Nat
  BY <1>3, Turns
<1>5. TurnAt(n, r) = TurnOf(c)
  <2>1. PICK d \in CandidatesAt(n) : d[2] = r /\ TurnOf(d) = TurnAt(n, r)
    BY <1>4, Turns
  <2>2. d \in candidates
    BY <1>1, <2>1 DEF Following
  <2>3. TurnOf(c) <= TurnOf(d)
    BY <1>1, <1>3, <2>2, Turns DEF IsFirst
  <2>4. TurnAt(n, r) <= TurnOf(c) /\ TurnOf(d) \in Nat
    BY <1>3, <2>1, Turns
  <2> QED
    BY <1>4, <2>1, <2>3, <2>4
<1>6. \A d \in candidates' : TurnAt(n, r) < TurnOf(d)
  <2> TAKE d \in candidates'
  <2>1. d \in CandidatesAt(n) /\ c \in CandidatesAt(n) /\ d # c /\ d \in candidates
    BY <1>1, <1>3
  <2>2. TurnOf(c) <= TurnOf(d) /\ TurnOf(c) # TurnOf(d) /\ TurnOf(d) \in Nat
    BY <1>1, <2>1, Turns DEF IsFirst
  <2> QED
    BY <1>4, <1>5, <2>2
<1>7. /\ \A x : Beyond(x)' = Beyond(x)
      /\ \A x : LeadsOn(x)' <=> LeadsOn(x) /\ x # r
  BY <1>1, <1>2 DEF Beyond, LeadsOn
<1>8. \A x \in seen' : x \in Around(here.at)' /\ TypeFits(graph, pat, x)' /\ x \notin Range(here.path)'
  BY <1>1, <1>2, <1>4, SameSetting DEF Following, LeadsOn
<1>9. \A d \in CandidatesAt(here.at)' : LeadsOn(d[2])' => d \in candidates'
  BY <1>1, <1>7, SameSetting DEF Following
<1>10. \A i \in DOMAIN f, d \in candidates' : TurnAt(here.at, f[i])' < TurnOf(d)'
  BY <1>1, SameSetting DEF Following
<1>11. CASE Beyond(r).at \notin graph.nodes
  <2>1. queue' = queue
    BY <1>11 DEF Follow
  <2>2. IsList(f) /\ Range(f) = {x \in seen' : Beyond(x)'.at \in graph'.nodes}
    BY <1>1, <1>2, <1>7, <1>11 DEF Following
  <2>3. InTurn(here.at, f)'
    BY <1>1, SameSetting DEF Following
  <2> QED
    BY <1>8, <1>9, <1>10, <2>1, <2>2, <2>3 DEF Following
<1>12. CASE Beyond(r).at \in graph.nodes
  <2>1. queue' = Append(queue, Beyond(r))
    BY <1>12 DEF Follow
  <2>2. Beyond(r) \in Trail
    BY <1>4, <1>12, BeyondIsLonger DEF Trail, Node
  <2>3. IsList(f) /\ Range(f) \subseteq DOMAIN graph.rels
    <3>1. \A x \in seen : x \in DOMAIN graph.rels
      BY DEF TypeOK
    <3> QED
      BY <3>1 DEF Following
  <2>4. /\ IsList(g) /\ Range(g) = Range(f) \union {r}
        /\ DOMAIN g = 1..(Len(f) + 1) /\ Len(f) \in Nat /\ DOMAIN f = 1..Len(f)
        /\ g[Len(f) + 1] = r /\ \A i \in 1..Len(f) : g[i] = f[i]
        /\ LongerBy(here, g) = LongerBy(here, f) \o <<Beyond(r)>>
    BY <1>4, <2>3, LongerByOneMore
  <2> HIDE DEF g
  <2>5. Range(g) = {x \in seen' : Beyond(x)'.at \in graph'.nodes}
    BY <1>1, <1>2, <1>7, <1>12, <2>4 DEF Following
  <2>6. InTurn(n, g)
    <3> SUFFICES ASSUME NEW i \in DOMAIN g, NEW j \in DOMAIN g, i < j
                 PROVE  TurnAt(n, g[i]) < TurnAt(n, g[j])
      BY DEF InTurn
    <3>1. i \in 1..Len(f) /\ i \in DOMAIN f /\ g[i] = f[i]
      BY <2>4
    <3>2. CASE j \in 1..Len(f)
      BY <2>4, <3>1, <3>2 DEF Following, InTurn
    <3>3. CASE j = Len(f) + 1
      BY <1>5, <2>4, <3>1, <3>3 DEF Following
    <3> QED
      BY <2>4, <3>2, <3>3
  <2>7. InTurn(here.at, g)'
    BY <1>1, <2>6, SameSetting
  <2>8. \A i \in DOMAIN g, d \in candidates' : TurnAt(here.at, g[i])' < TurnOf(d)'
    <3> TAKE i \in DOMAIN g, d \in candidates'
    <3>1. CASE i \in 1..Len(f)
      BY <1>10, <2>4, <3>1
    <3>2. CASE i = Len(f) + 1
      BY <1>1, <1>6, <2>4, <3>2, SameSetting
    <3> QED
      BY <2>4, <3>1, <3>2
  <2>9. Following(g)'
    BY <1>8, <1>9, <2>4, <2>5, <2>7, <2>8 DEF Following
  <2> QED
    BY <2>1, <2>2, <2>4, <2>9 DEF g
<1> QED
  BY <1>11, <1>12

LEMMA FollowingStarts ==
  ASSUME UNCHANGED problem, candidates' = CandidatesAt(here'.at), seen' = {}
  PROVE  Following(<<>>)' /\ LongerBy(here, <<>>)' = <<>>
<1>1. IsList(<<>>) /\ Range(<<>>) = {} /\ DOMAIN <<>> = {}
  BY SmallLists
<1>2. CandidatesAt(here.at)' = candidates'
  BY SameSetting
<1>3. Following(<<>>)'
  BY <1>1, <1>2 DEF Following, InTurn
<1> QED
  BY <1>3 DEF LongerBy

------------------------------------------------------------------------------
\* The search is in the middle of a level: done lies behind it, rest before it, and
\* behind rest in the queue is what of the next level it has found.
InLevel(done, rest, f) ==
  LET k == Len(here.path)
  IN  /\ done \in Seq(Trail) /\ rest \in Seq(Trail) /\ k <= pat.max
      /\ Level(k) = (done \o <<here>>) \o rest
      /\ results = IF pat.min <= k THEN Reported(k - 1) \o (done \o <<here>>) ELSE <<>>
      /\ IF k < pat.max
         THEN Following(f) /\ queue = (rest \o Beyonds(done)) \o LongerBy(here, f)
         ELSE queue = rest /\ candidates = {}

Begun == queue = <<Root>> /\ results = <<>> /\ candidates = {}

LevelByLevel == Begun \/ \E done, rest, f : InLevel(done, rest, f)

\* The trail h is next: done has been taken from its level, rest will be.
NextUp(h, done, rest) ==
  LET k == Len(h.path)
  IN  /\ done \in Seq(Trail) /\ rest \in Seq(Trail) /\ k <= pat.max
      /\ Level(k) = (done \o <<h>>) \o rest
      /\ results = IF pat.min <= k THEN Reported(k - 1) \o done ELSE <<>>
      /\ queue = <<h>> \o (IF k < pat.max THEN rest \o Beyonds(done) ELSE rest)

LEMMA HeadThenTail ==
  ASSUME NEW S, NEW s \in Seq(S), s # <<>>
  PROVE  s = <<Head(s)>> \o Tail(s) /\ Head(s) \in S /\ Tail(s) \in Seq(S) /\ Head(s) \in Range(s)
<1>1. Head(s) = s[1] /\ 1 \in DOMAIN s /\ Head(s) \in S /\ Tail(s) \in Seq(S)
  OBVIOUS
<1>2. s = <<Head(s)>> \o Tail(s)
  OBVIOUS
<1> QED
  BY <1>1, <1>2 DEF Range

\* A level is done when the queue holds the next.
LEMMA LevelIsDone ==
  ASSUME Setting, TypeOK, NEW done, NEW f, InLevel(done, <<>>, f), candidates = {},
         Len(here.path) < pat.max
  PROVE  queue = Level(Len(here.path) + 1)
<1> DEFINE k == Len(here.path)
<1>1. here \in Trail /\ k \in Nat
  BY Lengths DEF TypeOK
<1>2. pat.max \in Nat /\ Level(k + 1) = Beyonds(Level(k))
  <2>1. pat.max \in Nat /\ k \in 0..pat.max /\ k + 1 \in 0..pat.max
    BY <1>1, LevelSteps
  <2> QED
    BY <2>1, LevelSteps
<1>3. done \in Seq(Trail) /\ Level(k) = (done \o <<here>>) \o <<>>
  BY DEF InLevel
<1>4. done \o <<here>> \in Seq(Trail)
  BY <1>1, <1>3
<1>5. Level(k) = done \o <<here>>
  BY <1>3, <1>4, ConcatEmptySeq
<1>6. Following(f) /\ queue = (<<>> \o Beyonds(done)) \o LongerBy(here, f)
  BY DEF InLevel
<1>7. LongerBy(here, f) = Extensions(graph, pat, here)
  BY <1>6, FollowingEnds
<1>8. Beyonds(done) \in Seq(Trail) /\ Beyonds(done \o <<here>>) = Beyonds(done) \o Extensions(graph, pat, here)
  BY <1>1, <1>3, BeyondsOneMore
<1>9. <<>> \o Beyonds(done) = Beyonds(done)
  BY <1>8, ConcatEmptySeq
<1> QED
  BY <1>2, <1>5, <1>6, <1>7, <1>8, <1>9

LEMMA SomethingIsNext ==
  ASSUME Setting, TypeOK, LevelByLevel, candidates = {}, queue # <<>>
  PROVE  \E done, rest : NextUp(Head(queue), done, rest)
<1> DEFINE h == Head(queue)
<1>1. /\ pat.min \in Nat /\ pat.max \in Nat /\ Level(0) = <<Root>>
      /\ \A j \in 0..pat.max : Level(j) \in Seq(Trail)
  BY LevelSteps
<1>2. queue \in Seq(Trail) /\ h \in Trail /\ queue = <<h>> \o Tail(queue)
  BY HeadThenTail DEF TypeOK
<1>3. CASE Begun
  <2>1. h = Root /\ Len(Root.path) = 0 /\ queue = <<Root>>
    BY <1>3 DEF Begun, Root
  <2>2. <<>> \in Seq(Trail) /\ <<>> \o <<h>> = <<h>> /\ <<h>> \o <<>> = <<h>> /\ <<>> \o <<>> = <<>>
    <3>1. <<>> \in Seq(Trail) /\ <<h>> \in Seq(Trail)
      BY <1>2
    <3> QED
      BY <3>1, ConcatEmptySeq
  <2>3. Level(0) = (<<>> \o <<h>>) \o <<>>
    BY <1>1, <2>1, <2>2
  <2>4. Beyonds(<<>>) = <<>>
    BY <1>2, <2>2, BeyondsOneMore
  <2>5. queue = <<h>> \o (IF 0 < pat.max THEN <<>> \o Beyonds(<<>>) ELSE <<>>)
    BY <2>1, <2>2, <2>4
  <2>6. results = IF pat.min <= 0 THEN Reported(0 - 1) \o <<>> ELSE <<>>
    <3>1. CASE pat.min <= 0
      <4>1. Reported(0 - 1) = <<>>
        <5>1. pat.min = 0
          BY <1>1, <3>1
        <5> QED
          BY <5>1, ReportedSteps
      <4> QED
        BY <1>3, <2>2, <4>1 DEF Begun
    <3> QED
      BY <1>3, <3>1 DEF Begun
  <2>7. NextUp(h, <<>>, <<>>)
    BY <1>1, <2>1, <2>2, <2>3, <2>5, <2>6 DEF NextUp
  <2> QED
    BY <2>7
<1>4. ASSUME NEW done, NEW rest, NEW f, InLevel(done, rest, f)
      PROVE  \E d, r : NextUp(Head(queue), d, r)
  <2> DEFINE k == Len(here.path)
  <2>1. here \in Trail /\ k \in Nat /\ k <= pat.max /\ k \in 0..pat.max
    BY <1>1, <1>4, Lengths DEF TypeOK, InLevel
  <2>2. /\ done \in Seq(Trail) /\ rest \in Seq(Trail) /\ Level(k) = (done \o <<here>>) \o rest
        /\ results = IF pat.min <= k THEN Reported(k - 1) \o (done \o <<here>>) ELSE <<>>
    BY <1>4 DEF InLevel
  <2>3. done \o <<here>> \in Seq(Trail) /\ Level(k) \in Seq(Trail)
    BY <1>1, <2>1, <2>2
  <2>4. Reported(k - 1) \in Seq(Trail)
    <3>1. k - 1 \in -1..pat.max
      BY <1>1, <2>1
    <3> QED
      BY <3>1, ReportedSteps
  <2>5. CASE rest # <<>>
    <3> DEFINE d == done \o <<here>>
               r == Tail(rest)
               e == Beyonds(done) \o LongerBy(here, f)
    <3>1. /\ rest = <<Head(rest)>> \o r /\ Head(rest) \in Trail /\ r \in Seq(Trail)
          /\ Head(rest) \in Range(rest)
      BY <2>2, <2>5, HeadThenTail
    <3>2. Len(Head(rest).path) = k
      <4>1. Range(Level(k)) = Range(done \o <<here>>) \union Range(rest)
        BY <2>2, <2>3, ListOf, ConcatList
      <4> QED
        BY <2>1, <3>1, <4>1, LevelLengths
    <3>3. Level(k) = (d \o <<Head(rest)>>) \o r
      <4>1. d \in Seq(Trail) /\ <<Head(rest)>> \in Seq(Trail)
        BY <2>3, <3>1
      <4>2. (d \o <<Head(rest)>>) \o r = d \o (<<Head(rest)>> \o r)
        BY <3>1, <4>1, ConcatAssociative
      <4> QED
        BY <2>2, <3>1, <4>2
    <3>4. queue = <<Head(rest)>> \o (IF k < pat.max THEN r \o Beyonds(d) ELSE r)
      <4>1. CASE k < pat.max
        <5>1. Following(f) /\ queue = (rest \o Beyonds(done)) \o LongerBy(here, f)
          BY <1>4, <4>1 DEF InLevel
        <5>2. LongerBy(here, f) = Extensions(graph, pat, here)
          BY <5>1, FollowingEnds
        <5>3. /\ Beyonds(done) \in Seq(Trail) /\ Beyonds(d) = Beyonds(done) \o LongerBy(here, f)
              /\ LongerBy(here, f) \in Seq(Trail)
          BY <2>1, <2>2, <5>2, BeyondsOneMore, ExtensionsAreLonger
        <5> HIDE DEF d, r
        <5>4. (rest \o Beyonds(done)) \o LongerBy(here, f) = rest \o Beyonds(d)
          BY <2>2, <5>3, ConcatAssociative
        <5>5. Beyonds(d) \in Seq(Trail) /\ <<Head(rest)>> \in Seq(Trail)
          BY <3>1, <5>3, ConcatProperties
        <5>6. (<<Head(rest)>> \o r) \o Beyonds(d) = <<Head(rest)>> \o (r \o Beyonds(d))
          BY <3>1, <5>5, ConcatAssociative
        <5> QED
          BY <3>1, <4>1, <5>1, <5>4, <5>6
      <4>2. CASE ~(k < pat.max)
        <5>1. queue = rest
          BY <1>4, <4>2 DEF InLevel
        <5> QED
          BY <3>1, <4>2, <5>1
      <4> QED
        BY <4>1, <4>2
    <3> HIDE DEF d, r
    <3>5. h = Head(rest)
      <4>1. (IF k < pat.max THEN r \o Beyonds(d) ELSE r) \in Seq(Trail)
        <5>1. Beyonds(d) \in Seq(Trail)
          BY <2>1, <2>3, BeyondsOneMore DEF d
        <5> QED
          BY <3>1, <5>1, ConcatProperties
      <4>2. ASSUME NEW s \in Seq(Trail), NEW x \in Trail PROVE Head(<<x>> \o s) = x
        OBVIOUS
      <4> QED
        BY <3>1, <3>4, <4>1, <4>2
    <3>6. NextUp(h, d, r)
      <4>1. d \in Seq(Trail) /\ results = IF pat.min <= k THEN Reported(k - 1) \o d ELSE <<>>
        BY <2>2, <2>3 DEF d
      <4> QED
        BY <2>1, <3>1, <3>2, <3>3, <3>4, <3>5, <4>1 DEF NextUp
    <3> QED
      BY <3>6
  <2>6. CASE rest = <<>>
    <3>1. k < pat.max
      <4> SUFFICES ASSUME ~(k < pat.max) PROVE FALSE
        OBVIOUS
      <4> QED
        BY <1>4, <2>6 DEF InLevel
    <3>2. queue = Level(k + 1) /\ k + 1 \in 0..pat.max /\ k + 1 \in Nat /\ k + 1 <= pat.max
      BY <1>1, <1>4, <2>1, <2>6, <3>1, LevelIsDone
    <3>3. Len(h.path) = k + 1
      <4>1. h \in Range(queue)
        BY <1>2, HeadThenTail
      <4> QED
        BY <3>2, <4>1, LevelLengths
    <3> DEFINE r == Tail(queue)
    <3>4. r \in Seq(Trail) /\ <<>> \in Seq(Trail) /\ <<h>> \in Seq(Trail)
      BY <1>2, HeadThenTail
    <3>5. <<>> \o <<h>> = <<h>> /\ Beyonds(<<>>) = <<>> /\ r \o <<>> = r
      BY <1>2, <3>4, ConcatEmptySeq, BeyondsOneMore
    <3>6. results = IF pat.min <= k + 1 THEN Reported((k + 1) - 1) \o <<>> ELSE <<>>
      <4>1. (k + 1) - 1 = k /\ Reported(k) \in Seq(Trail)
        <5>1. k \in -1..pat.max
          BY <1>1, <2>1
        <5> QED
          BY <2>1, <5>1, ReportedSteps
      <4>2. Reported(k) \o <<>> = Reported(k)
        BY <4>1, ConcatEmptySeq
      <4>3. CASE pat.min <= k
        <5>1. Reported(k) = Reported(k - 1) \o Level(k)
          BY <2>1, <4>3, ReportedSteps
        <5>2. Level(k) = done \o <<here>>
          BY <2>2, <2>3, <2>6, ConcatEmptySeq
        <5>3. pat.min <= k + 1
          BY <1>1, <2>1, <4>3
        <5> QED
          BY <2>2, <4>1, <4>2, <4>3, <5>1, <5>2, <5>3
      <4>4. CASE pat.min = k + 1
        <5>1. Reported(k) = <<>>
          BY <2>1, <4>4, ReportedSteps
        <5>2. ~(pat.min <= k) /\ pat.min <= k + 1
          BY <1>1, <2>1, <4>4
        <5> QED
          BY <2>2, <4>1, <4>2, <5>1, <5>2
      <4>5. CASE ~(pat.min <= k + 1)
        <5>1. ~(pat.min <= k)
          BY <1>1, <2>1, <4>5
        <5> QED
          BY <2>2, <4>5, <5>1
      <4> QED
        BY <1>1, <2>1, <4>3, <4>4, <4>5
    <3> HIDE DEF r
    <3>7. NextUp(h, <<>>, r)
      <4>1. Level(k + 1) = (<<>> \o <<h>>) \o r
        BY <1>2, <3>2, <3>5 DEF r
      <4>2. queue = <<h>> \o (IF k + 1 < pat.max THEN r \o Beyonds(<<>>) ELSE r)
        BY <1>2, <3>5 DEF r
      <4> QED
        BY <3>2, <3>3, <3>4, <3>6, <4>1, <4>2 DEF NextUp
    <3> QED
      BY <3>7
  <2> QED
    BY <2>5, <2>6
<1> QED
  BY <1>3, <1>4 DEF LevelByLevel

LEMMA InLevelInit == Init => Setting /\ LevelByLevel
<1> SUFFICES ASSUME Init PROVE Setting /\ LevelByLevel
  OBVIOUS
<1>1. Setting
  BY GraphsAssumption, HopPatsAssumption DEF Init, Setting
<1>2. Begun
  BY DEF Init, Begun, Root
<1> QED
  BY <1>1, <1>2 DEF LevelByLevel

LEMMA PopKeepsLevels ==
  ASSUME Setting, TypeOK, LevelByLevel, Pop
  PROVE  LevelByLevel'
<1>1. /\ candidates = {} /\ queue # <<>> /\ here' = Head(queue) /\ queue' = Tail(queue)
      /\ results' = IF Len(here'.path) >= pat.min THEN Append(results, here') ELSE results
      /\ candidates' = IF Len(here'.path) < pat.max THEN CandidatesAt(here'.at) ELSE {}
      /\ seen' = {} /\ UNCHANGED problem
  BY DEF Pop
<1>11. PICK h, k : h = Head(queue) /\ k = Len(h.path)
  OBVIOUS
<1>2. PICK done, rest : NextUp(h, done, rest)
  BY <1>1, <1>11, SomethingIsNext
<1>3. /\ done \in Seq(Trail) /\ rest \in Seq(Trail) /\ k <= pat.max
      /\ Level(k) = (done \o <<h>>) \o rest
      /\ results = IF pat.min <= k THEN Reported(k - 1) \o done ELSE <<>>
      /\ queue = <<h>> \o (IF k < pat.max THEN rest \o Beyonds(done) ELSE rest)
  BY <1>2, <1>11 DEF NextUp
<1>4. queue \in Seq(Trail) /\ h \in Trail /\ k \in Nat /\ pat.min \in Nat /\ pat.max \in Nat
  <2>1. queue \in Seq(Trail)
    BY DEF TypeOK
  <2>2. h \in Trail
    BY <1>1, <1>11, <2>1, HeadThenTail
  <2>3. k \in Nat
    BY <1>11, <2>2 DEF Trail
  <2> QED
    BY <2>1, <2>2, <2>3, LevelSteps
<1>5. queue' = IF k < pat.max THEN rest \o Beyonds(done) ELSE rest
  <2>1. (IF k < pat.max THEN rest \o Beyonds(done) ELSE rest) \in Seq(Trail)
    <3>1. Beyonds(done) \in Seq(Trail)
      BY <1>3, <1>4, BeyondsOneMore
    <3> QED
      BY <1>3, <3>1, ConcatProperties
  <2>2. ASSUME NEW s \in Seq(Trail), NEW x \in Trail PROVE Tail(<<x>> \o s) = s
    OBVIOUS
  <2> QED
    BY <1>1, <1>3, <1>4, <1>11, <2>1, <2>2
<1>6. results' = IF pat.min <= k THEN Reported(k - 1) \o (done \o <<h>>) ELSE <<>>
  <2>1. CASE pat.min <= k
    <3>1. Reported(k - 1) \in Seq(Trail)
      <4>1. k - 1 \in -1..pat.max
        BY <1>3, <1>4
      <4> QED
        BY <4>1, ReportedSteps
    <3>2. results \in Seq(Trail) /\ results = Reported(k - 1) \o done
      BY <1>3, <2>1 DEF TypeOK
    <3>3. results' = Append(results, h)
      BY <1>1, <1>4, <1>11, <2>1
    <3>4. Append(results, h) = results \o <<h>>
      BY <1>4, <3>2, AppendIsConcat
    <3>5. <<h>> \in Seq(Trail)
      BY <1>4
    <3>6. (Reported(k - 1) \o done) \o <<h>> = Reported(k - 1) \o (done \o <<h>>)
      <4>1. done \in Seq(Trail)
        BY <1>3
      <4> QED
        BY ONLY <3>1, <3>5, <4>1, ConcatAssociative
    <3> QED
      BY <2>1, <3>2, <3>3, <3>4, <3>6
  <2>2. CASE ~(pat.min <= k)
    BY <1>1, <1>3, <1>4, <1>11, <2>2
  <2> QED
    BY <2>1, <2>2
<1>7. /\ Trail' = Trail /\ pat' = pat /\ Level(k)' = Level(k)
      /\ Reported(k - 1)' = Reported(k - 1) /\ Beyonds(done)' = Beyonds(done)
  BY <1>1, SameSetting
<1>8. here' = h /\ Len(here'.path) = k
  BY <1>1, <1>11
<1>9. CASE k < pat.max
  <2>1. Following(<<>>)' /\ LongerBy(here, <<>>)' = <<>>
    BY <1>1, <1>8, <1>9, FollowingStarts
  <2>2. queue' = (rest \o Beyonds(done)) \o <<>>
    <3>1. rest \o Beyonds(done) \in Seq(Trail)
      BY <1>3, <1>4, BeyondsOneMore, ConcatProperties
    <3> QED
      BY <1>5, <1>9, <3>1, ConcatEmptySeq
  <2>3. InLevel(done, rest, <<>>)'
    BY <1>1, <1>3, <1>6, <1>7, <1>8, <1>9, <2>1, <2>2 DEF InLevel
  <2> QED
    BY <2>3 DEF LevelByLevel
<1>10. CASE ~(k < pat.max)
  <2>1. queue' = rest /\ candidates' = {}
    BY <1>1, <1>5, <1>8, <1>10
  <2>2. InLevel(done, rest, <<>>)'
    BY <1>3, <1>6, <1>7, <1>8, <1>10, <2>1 DEF InLevel
  <2> QED
    BY <2>2 DEF LevelByLevel
<1> QED
  BY <1>9, <1>10

\* While there is something to look at, the search is in the middle of a level
\* that is not the last.
LEMMA LookingAround ==
  ASSUME Setting, TypeOK, Sound, LevelByLevel, NEW c \in candidates
  PROVE  \E done, rest, f : /\ InLevel(done, rest, f) /\ Len(here.path) < pat.max /\ Following(f)
                            /\ queue = (rest \o Beyonds(done)) \o LongerBy(here, f)
                            /\ rest \o Beyonds(done) \in Seq(Trail)
<1>1. Len(here.path) < pat.max
  BY DEF Sound
<1>2. PICK done, rest, f : InLevel(done, rest, f)
  BY DEF LevelByLevel, Begun
<1>3. Following(f) /\ queue = (rest \o Beyonds(done)) \o LongerBy(here, f)
  BY <1>1, <1>2 DEF InLevel
<1>4. rest \o Beyonds(done) \in Seq(Trail)
  <2>1. done \in Seq(Trail) /\ rest \in Seq(Trail) /\ here \in Trail
    BY <1>2 DEF InLevel, TypeOK
  <2> QED
    BY <2>1, BeyondsOneMore, ConcatProperties
<1> QED
  BY <1>1, <1>2, <1>3, <1>4

LEMMA LevelsByLevelNext ==
  Setting /\ TypeOK /\ Sound /\ LevelByLevel /\ [Next]_vars => Setting' /\ LevelByLevel'
<1> SUFFICES ASSUME Setting, TypeOK, Sound, LevelByLevel, [Next]_vars PROVE Setting' /\ LevelByLevel'
  OBVIOUS
<1>1. UNCHANGED problem
  BY DEF Next, Pop, Skip, Follow, vars
<1>2. Setting'
  BY <1>1, SameSetting
<1>3. ASSUME Pop PROVE LevelByLevel'
  BY <1>3, PopKeepsLevels
<1>4. ASSUME NEW done, NEW rest, NEW f, NEW g, NEW q, InLevel(done, rest, f), Len(here.path) < pat.max,
             UNCHANGED <<here, results>>, Following(g)', queue' = q,
             q = (rest \o Beyonds(done)) \o LongerBy(here, g)
      PROVE  LevelByLevel'
  <2>1. /\ Trail' = Trail /\ pat' = pat /\ Level(Len(here.path))' = Level(Len(here.path))
        /\ Reported(Len(here.path) - 1)' = Reported(Len(here.path) - 1)
        /\ Beyonds(done)' = Beyonds(done) /\ LongerBy(here, g)' = LongerBy(here, g)
    BY <1>1, <1>4, SameSetting
  <2>2. InLevel(done, rest, g)'
    BY <1>4, <2>1 DEF InLevel
  <2> QED
    BY <2>2 DEF LevelByLevel
<1>5. ASSUME NEW c \in candidates, Skip(c) PROVE LevelByLevel'
  <2>1. PICK done, rest, f : /\ InLevel(done, rest, f) /\ Len(here.path) < pat.max /\ Following(f)
                             /\ queue = (rest \o Beyonds(done)) \o LongerBy(here, f)
    BY LookingAround
  <2>2. Following(f)'
    BY <1>5, <2>1, FollowingSkip
  <2>3. UNCHANGED <<here, results, queue>>
    BY <1>5 DEF Skip
  <2> QED
    BY <1>4, <2>1, <2>2, <2>3
<1>6. ASSUME NEW c \in candidates, Follow(c) PROVE LevelByLevel'
  <2>1. PICK done, rest, f : /\ InLevel(done, rest, f) /\ Len(here.path) < pat.max /\ Following(f)
                             /\ queue = (rest \o Beyonds(done)) \o LongerBy(here, f)
                             /\ rest \o Beyonds(done) \in Seq(Trail)
    BY LookingAround
  <2>2. UNCHANGED <<here, results>>
    BY <1>6 DEF Follow
  <2>3. CASE queue' = queue /\ Following(f)'
    BY <1>4, <2>1, <2>2, <2>3
  <2>4. CASE /\ queue' = Append(queue, Beyond(c[2])) /\ Following(f \o <<c[2]>>)'
             /\ Beyond(c[2]) \in Trail
             /\ LongerBy(here, f \o <<c[2]>>) = LongerBy(here, f) \o <<Beyond(c[2])>>
    <3> DEFINE g == f \o <<c[2]>>
               b == rest \o Beyonds(done)
               e == LongerBy(here, f)
    <3>1. e \in Seq(Trail) /\ b \in Seq(Trail) /\ queue = b \o e
      <4>1. /\ IsList(f) /\ \A i \in 1..Len(f) : f[i] \in DOMAIN graph.rels /\ Beyond(f[i]).at \in graph.nodes
        <5>1. IsList(f) /\ Range(f) = {r \in seen : Beyond(r).at \in graph.nodes} /\ seen \subseteq DOMAIN graph.rels
          BY <2>1 DEF Following, TypeOK
        <5> QED
          BY <5>1, ListShape
      <4>2. e = [i \in 1..Len(f) |-> Beyond(f[i])] /\ Len(f) \in Nat
        BY <4>1, ListShape DEF LongerBy, Beyond
      <4>3. \A i \in 1..Len(f) : Beyond(f[i]) \in Trail
        BY <4>1, BeyondIsLonger DEF Trail, Node
      <4> HIDE DEF e
      <4> QED
        BY <2>1, <4>2, <4>3 DEF e
    <3>2. queue' = queue \o <<Beyond(c[2])>> /\ <<Beyond(c[2])>> \in Seq(Trail)
      <4>1. queue \in Seq(Trail)
        BY DEF TypeOK
      <4> QED
        BY <2>4, <4>1, AppendIsConcat
    <3> HIDE DEF b, e
    <3>3. (b \o e) \o <<Beyond(c[2])>> = b \o (e \o <<Beyond(c[2])>>)
      BY <3>1, <3>2, ConcatAssociative
    <3>4. queue' = b \o LongerBy(here, g)
      BY <2>4, <3>1, <3>2, <3>3 DEF e
    <3> HIDE DEF g
    <3>5. Following(g)' /\ queue' = (rest \o Beyonds(done)) \o LongerBy(here, g)
      BY <2>4, <3>4 DEF b, g
    <3> QED
      BY <1>4, <2>1, <2>2, <3>5
  <2> QED
    BY <1>6, <2>1, <2>3, <2>4, FollowingFollow
<1>7. ASSUME UNCHANGED vars PROVE LevelByLevel'
  <2>1. UNCHANGED <<problem, queue, results, here, candidates, seen>> /\ UNCHANGED <<graph, pat, start>>
    BY <1>7 DEF vars, problem
  <2>2. Begun' <=> Begun
    BY <2>1 DEF Begun, Root
  <2>3. \A f : Following(f)' <=> Following(f)
    BY <2>1 DEF Following, Beyond, InTurn, TurnAt, TurnOf, Around, CandidatesAt, LeadsOn
  <2>4. ASSUME NEW done, NEW rest, NEW f, InLevel(done, rest, f) PROVE InLevel(done, rest, f)'
    <3>1. /\ UNCHANGED Trail
          /\ Level(Len(here.path))' = Level(Len(here.path))
          /\ Reported(Len(here.path) - 1)' = Reported(Len(here.path) - 1)
          /\ Beyonds(done)' = Beyonds(done) /\ LongerBy(here, f)' = LongerBy(here, f)
      BY <2>1, SameSetting
    <3>2. Following(f)' <=> Following(f)
      BY <2>3
    <3> QED
      BY <2>1, <2>4, <3>1, <3>2 DEF InLevel
  <2> QED
    BY <2>2, <2>4 DEF LevelByLevel
<1> QED
  BY <1>2, <1>3, <1>5, <1>6, <1>7 DEF Next

\* When a level is empty, so are all that follow it.
LEMMA NothingFurther ==
  ASSUME Setting, NEW k \in 0..pat.max, k < pat.max, Level(k + 1) = <<>>
  PROVE  \A j \in Nat : k + 1 + j <= pat.max => Level(k + 1 + j) = <<>>
<1> DEFINE S == {j \in Nat : k + 1 + j <= pat.max => Level(k + 1 + j) = <<>>}
<1>1. pat.max \in Nat /\ Beyonds(<<>>) = <<>>
  BY LevelSteps DEF Beyonds, FlattenSeq
<1>2. 0 \in S
  OBVIOUS
<1>3. ASSUME NEW j \in Nat, j \in S PROVE j + 1 \in S
  <2> SUFFICES ASSUME k + 1 + (j + 1) <= pat.max PROVE Level(k + 1 + (j + 1)) = <<>>
    OBVIOUS
  <2> DEFINE n == k + 1 + j
  <2>1. n \in 0..pat.max /\ n + 1 \in 0..pat.max /\ n + 1 = k + 1 + (j + 1) /\ n <= pat.max
    BY <1>1
  <2>2. Level(n) = <<>>
    BY <1>3, <2>1
  <2> HIDE DEF n
  <2>3. Level(n + 1) = Beyonds(Level(n))
    BY <2>1, LevelSteps
  <2> QED
    BY <1>1, <2>1, <2>2, <2>3
<1> HIDE DEF S
<1>4. \A j \in Nat : j \in S
  BY <1>2, <1>3, Induction
<1> QED
  BY <1>4 DEF S

LEMMA NothingMore ==
  ASSUME Setting, NEW k \in 0..pat.max, k < pat.max, Level(k + 1) = <<>>
  PROVE  Reported(pat.max) = Reported(k)
<1> DEFINE S == {j \in Nat : k + j <= pat.max => Reported(k + j) = Reported(k)}
<1>1. pat.max \in Nat /\ pat.min \in Nat
  BY LevelSteps
<1>2. 0 \in S
  OBVIOUS
<1>3. ASSUME NEW j \in Nat, j \in S PROVE j + 1 \in S
  <2> SUFFICES ASSUME k + (j + 1) <= pat.max PROVE Reported(k + (j + 1)) = Reported(k)
    OBVIOUS
  <2> DEFINE n == k + j
  <2>1. /\ n \in 0..pat.max /\ n + 1 \in 0..pat.max /\ n + 1 = k + (j + 1) /\ n <= pat.max
        /\ n + 1 = k + 1 + j /\ (n + 1) - 1 = n /\ n \in -1..pat.max
    BY <1>1
  <2>2. Reported(n) = Reported(k)
    BY <1>3, <2>1
  <2>3. Level(n + 1) = <<>>
    BY <2>1, NothingFurther
  <2> HIDE DEF n
  <2>4. Reported(n) \in Seq(Trail)
    BY <2>1, ReportedSteps
  <2>5. CASE pat.min <= n + 1
    <3>1. Reported(n + 1) = Reported(n) \o <<>>
      BY <2>1, <2>3, <2>5, ReportedSteps
    <3> QED
      BY <2>1, <2>2, <2>4, <3>1, ConcatEmptySeq
  <2>6. CASE n + 1 < pat.min
    <3>1. n < pat.min
      BY <1>1, <2>1, <2>6
    <3>2. Reported(n + 1) = <<>> /\ Reported(n) = <<>>
      BY <2>1, <2>6, <3>1, ReportedSteps
    <3> QED
      BY <2>1, <2>2, <3>2
  <2> QED
    BY <1>1, <2>1, <2>5, <2>6
<1> HIDE DEF S
<1>4. \A j \in Nat : j \in S
  BY <1>2, <1>3, Induction
<1>5. pat.max - k \in Nat /\ k + (pat.max - k) = pat.max
  BY <1>1
<1> QED
  BY <1>1, <1>4, <1>5 DEF S

LEMMA EndOfTheSearch ==
  ASSUME Setting, TypeOK, LevelByLevel, Ended
  PROVE  results = Trails(graph, pat, start)
<1>1. queue = <<>> /\ candidates = {}
  BY DEF Ended
<1>2. PICK done, rest, f : InLevel(done, rest, f)
  BY <1>1 DEF LevelByLevel, Begun
<1> DEFINE k == Len(here.path)
<1>3. here \in Trail /\ k \in Nat /\ pat.max \in Nat /\ pat.min \in Nat /\ k \in 0..pat.max
  BY <1>2, Lengths, LevelSteps DEF TypeOK, InLevel
<1>4. /\ done \in Seq(Trail) /\ rest \in Seq(Trail) /\ Level(k) = (done \o <<here>>) \o rest
      /\ results = IF pat.min <= k THEN Reported(k - 1) \o (done \o <<here>>) ELSE <<>>
  BY <1>2 DEF InLevel
<1>5. rest = <<>>
  <2>1. CASE k < pat.max
    <3>1. Following(f) /\ <<>> = (rest \o Beyonds(done)) \o LongerBy(here, f)
      BY <1>1, <1>2, <2>1 DEF InLevel
    <3>2. LongerBy(here, f) \in Seq(Trail)
      BY <1>1, <1>3, <3>1, FollowingEnds, ExtensionsAreLonger
    <3>3. Beyonds(done) \in Seq(Trail)
      BY <1>3, <1>4, BeyondsOneMore
    <3>4. rest \o Beyonds(done) \in Seq(Trail)
      BY <1>4, <3>3, ConcatProperties
    <3>5. rest \o Beyonds(done) = <<>>
      <4>1. ASSUME NEW a \in Seq(Trail), NEW b \in Seq(Trail), <<>> = a \o b PROVE a = <<>>
        <5>1. a \o b = <<>>
          BY <4>1
        <5>2. (a \o b = <<>>) <=> (a = <<>> /\ b = <<>>)
          BY ConcatEqualIffEmpty
        <5> QED
          BY <5>1, <5>2
      <4> QED
        BY <3>1, <3>2, <3>4, <4>1
    <3> QED
      BY <1>4, <3>3, <3>5, ConcatEqualIffEmpty
  <2>2. CASE ~(k < pat.max)
    BY <1>1, <1>2, <2>2 DEF InLevel
  <2> QED
    BY <2>1, <2>2
<1>6. results = Reported(k)
  <2>1. CASE pat.min <= k
    <3>1. done \o <<here>> \in Seq(Trail)
      BY <1>3, <1>4
    <3>2. Level(k) = done \o <<here>>
      BY <1>4, <1>5, <3>1, ConcatEmptySeq
    <3> QED
      BY <1>3, <1>4, <2>1, <3>2, ReportedSteps
  <2>2. CASE ~(pat.min <= k)
    <3>1. k < pat.min
      BY <1>3, <2>2
    <3> QED
      BY <1>3, <1>4, <2>2, <3>1, ReportedSteps
  <2> QED
    BY <2>1, <2>2
<1>7. Reported(pat.max) = Reported(k)
  <2>1. CASE k < pat.max
    <3>1. Level(k + 1) = <<>>
      BY <1>1, <1>2, <1>5, <2>1, LevelIsDone
    <3> QED
      BY <1>3, <2>1, <3>1, NothingMore
  <2>2. CASE ~(k < pat.max)
    <3>1. k = pat.max
      BY <1>3, <2>2
    <3> QED
      BY <3>1
  <2> QED
    BY <2>1, <2>2
<1> QED
  BY <1>6, <1>7, ReportedSteps

\* The search and the definition by levels that pattern matching is written with
\* give the same list, for every graph, pattern and node.
THEOREM SearchIsByLevels == Spec => []IsTrailsAtTheEnd
<1> DEFINE Inv == SearchInv /\ Setting /\ LevelByLevel
<1>1. Init => Setting /\ LevelByLevel
  BY InLevelInit
<1>2. SearchInv /\ Setting /\ LevelByLevel /\ [Next]_vars => Setting' /\ LevelByLevel'
  BY LevelsByLevelNext DEF SearchInv
<1>3. SearchInv /\ Setting /\ LevelByLevel => IsTrailsAtTheEnd
  BY EndOfTheSearch DEF SearchInv, IsTrailsAtTheEnd
<1> QED
  BY <1>1, <1>2, <1>3, SearchInvariant, PTL DEF Spec
==============================================================================
