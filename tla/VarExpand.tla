------------------------------ MODULE VarExpand ------------------------------
(****************************************************************************)
(* The breadth-first search behind a variable-length relationship           *)
(* (_var_expand in cypherast/executor/engine.py): the loop over the queue   *)
(* and in it the loop over the relationships at the node it has reached.    *)
(* A queue entry is a trail: its depth is the length of the path, the set   *)
(* of visited relationships is the set of those on it.                      *)
(****************************************************************************)
EXTENDS PathMatch, FiniteSets

CONSTANTS Graphs,    \* the graphs the search may run on
          HopPats,   \* the relationship patterns it may be asked for
          Starts     \* the node objects it may start from, live or not

ASSUME GraphsAssumption  == \A g \in Graphs : IsGraph(g)
ASSUME HopPatsAssumption == \A p \in HopPats : IsHop(p) /\ p.varlen

VARIABLES graph, pat, start,   \* what is searched: fixed by Init
          queue,               \* q
          results,             \* results, as trails
          here,                \* the trail taken from the queue last
          candidates,          \* the relationships there, still to be looked at
          seen                 \* seen_step

problem == <<graph, pat, start>>
vars == <<problem, queue, results, here, candidates, seen>>

Init ==
  /\ graph \in Graphs
  /\ pat \in HopPats
  /\ start \in Starts
  /\ queue = <<[path |-> <<>>, at |-> start]>>
  /\ results = <<>>
  /\ here = [path |-> <<>>, at |-> start]
  /\ candidates = {}
  /\ seen = {}

\* out_rels(n) and in_rels(n), as far as the direction asks for them, each with
\* the list it comes from.
CandidatesAt(n) ==
  {c \in {1, 2} \X DOMAIN graph.rels :
     \/ c[1] = 1 /\ pat.dir # "IN" /\ graph.rels[c[2]].start = n
     \/ c[1] = 2 /\ pat.dir # "OUT" /\ graph.rels[c[2]].end = n}

PopOffByOne ==
  /\ candidates = {} /\ queue # <<>>
  /\ here' = Head(queue) /\ queue' = Tail(queue)
  /\ results' = IF Len(here'.path) > pat.min THEN Append(results, here') ELSE results
  /\ candidates' = IF Len(here'.path) < pat.max THEN CandidatesAt(here'.at) ELSE {}
  /\ seen' = {}
  /\ UNCHANGED problem

PopAfterContinue ==
  /\ candidates = {} /\ queue # <<>>
  /\ here' = Head(queue)
  /\ queue' = IF Len(here'.path) < pat.max THEN Tail(queue) ELSE queue
  /\ results' = IF Len(here'.path) >= pat.min THEN Append(results, here') ELSE results
  /\ candidates' = IF Len(here'.path) < pat.max THEN CandidatesAt(here'.at) ELSE {}
  /\ seen' = {}
  /\ UNCHANGED problem

\* Take the first trail, report it if it is long enough, and look at what
\* leads on from it if it is not too long.
Pop ==
  /\ candidates = {} /\ queue # <<>>
  /\ here' = Head(queue) /\ queue' = Tail(queue)
  /\ results' = IF Len(here'.path) >= pat.min THEN Append(results, here') ELSE results
  /\ candidates' = IF Len(here'.path) < pat.max THEN CandidatesAt(here'.at) ELSE {}
  /\ seen' = {}
  /\ UNCHANGED problem

\* The candidate whose turn it is: the lists one after the other, each in the
\* order of creation.
IsFirst(c) == \A d \in candidates : c[1] < d[1] \/ (c[1] = d[1] /\ c[2] <= d[2])

LeadsOnRevisiting(r) == r \notin seen /\ TypeFits(graph, pat, r)
LeadsOnTwice(r) == r \notin Range(here.path) /\ TypeFits(graph, pat, r)

\* No relationship twice on a trail, nor twice from one node, as an undirected
\* self-loop would be.
LeadsOn(r) == r \notin Range(here.path) /\ r \notin seen /\ TypeFits(graph, pat, r)

Skip(c) ==
  /\ IsFirst(c) /\ ~LeadsOn(c[2])
  /\ candidates' = candidates \ {c}
  /\ UNCHANGED <<problem, queue, results, here, seen>>

Beyond(r) == [path |-> Append(here.path, r), at |-> FarEnd(graph, r, here.at)]

FollowToTheDead(c) ==
  /\ IsFirst(c) /\ LeadsOn(c[2])
  /\ candidates' = candidates \ {c} /\ seen' = seen \union {c[2]}
  /\ queue' = Append(queue, Beyond(c[2]))
  /\ UNCHANGED <<problem, results, here>>

FollowDepthFirst(c) ==
  /\ IsFirst(c) /\ LeadsOn(c[2])
  /\ candidates' = candidates \ {c} /\ seen' = seen \union {c[2]}
  /\ queue' = IF Beyond(c[2]).at \in graph.nodes THEN <<Beyond(c[2])>> \o queue ELSE queue
  /\ UNCHANGED <<problem, results, here>>

\* A trail one hop longer goes to the end of the queue, if it ends at a live
\* node.
Follow(c) ==
  /\ IsFirst(c) /\ LeadsOn(c[2])
  /\ candidates' = candidates \ {c} /\ seen' = seen \union {c[2]}
  /\ queue' = IF Beyond(c[2]).at \in graph.nodes THEN Append(queue, Beyond(c[2])) ELSE queue
  /\ UNCHANGED <<problem, results, here>>

Next == Pop \/ \E c \in candidates : Skip(c) \/ Follow(c)

Spec == Init /\ [][Next]_vars /\ WF_vars(Next)

Ended == queue = <<>> /\ candidates = {}

------------------------------------------------------------------------------
\* What a trail is, without a search: relationships, all different, that lead
\* in the direction of the pattern through live nodes.
Joins(dir, r, a, b) ==
  \/ dir # "IN" /\ graph.rels[r].start = a /\ graph.rels[r].end = b
  \/ dir # "OUT" /\ graph.rels[r].start = b /\ graph.rels[r].end = a

Node == graph.nodes \union {start}

\* The relationships p are a trail that passes through the nodes via.
IsTrailThrough(p, via) ==
  /\ \A i, j \in DOMAIN p : p[i] = p[j] => i = j
  /\ \A i \in DOMAIN p : TypeFits(graph, pat, p[i])
  /\ via[0] = start
  /\ \A i \in DOMAIN p : Joins(pat.dir, p[i], via[i - 1], via[i]) /\ via[i] \in graph.nodes

IsTrailTo(p, n) ==
  \E via \in [0..Len(p) -> Node] : IsTrailThrough(p, via) /\ via[Len(p)] = n

Paths == UNION {[1..k -> DOMAIN graph.rels] : k \in pat.min..pat.max}

Wanted == {t \in [path : Paths, at : Node] : IsTrailTo(t.path, t.at)}

\* Type invariant: the search holds trails of entities of the graph.
Trail == [path : Seq(DOMAIN graph.rels), at : Node]
TypeOK ==
  /\ queue \in Seq(Trail) /\ results \in Seq(Trail) /\ here \in Trail
  /\ candidates \subseteq {1, 2} \X DOMAIN graph.rels
  /\ seen \subseteq DOMAIN graph.rels

\* Every path the search reports is a trail of the wanted length and direction
\* that ends at the node reported with it.
ResultsAreTrails == \A i \in DOMAIN results : results[i] \in Wanted

\* The search reports shorter trails first and none twice.
ShortestFirstAndOnce ==
  \A i, j \in DOMAIN results :
    i < j => /\ Len(results[i].path) <= Len(results[j].path)
             /\ results[i] # results[j]

\* When the search ends every wanted trail has been reported.
CompleteAtTheEnd == Ended => Wanted \subseteq Range(results)

\* The search and the level by level definition that pattern matching uses give
\* the same list.
IsTrailsAtTheEnd == Ended => results = Trails(graph, pat, start)

\* The search ends, on cyclic graphs too.
Terminates == <>Ended
==============================================================================
