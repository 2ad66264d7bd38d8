------------------------------ MODULE PathMatch ------------------------------
(****************************************************************************)
(* Pattern matching of the executor (cypherast/executor/engine.py), as      *)
(* operators on a graph record                                              *)
(*                                                                          *)
(*   [nodes |-> live nodes, labels |-> node object -> labels,               *)
(*    rels |-> id -> [type, start, end], prop |-> id -> value or Null]      *)
(*                                                                          *)
(* The traversal of the code is recursive, depth first; extending all       *)
(* partial rows hop by hop, in order, gives the same rows in the same       *)
(* order, and that is how it is written here.  Entities have one property   *)
(* key, expected values are literals, and lists of nodes come in creation   *)
(* order, which is the order of the dictionary of nodes and, for fewer than *)
(* eight identifiers, that of CPython's label sets.                         *)
(****************************************************************************)
EXTENDS Integers, SequencesExt

CONSTANTS Null,  \* the value null
          NoFilter    \* "no property filter" in a pattern

NoVar == ""      \* an anonymous element of a pattern

\* Values that a row binds.
NodeRef(n)   == [node |-> n]
RelRef(r)    == [rel |-> r]
TrailRef(p)  == [trail |-> p]
PathRef(s)   == [path |-> s]
NullRef      == [null |-> Null]

IsNode(v)  == "node" \in DOMAIN v
IsRel(v)   == "rel" \in DOMAIN v
IsTrail(v) == "trail" \in DOMAIN v

\* The entities a value stands for.
EntitiesOf(v) ==
  IF IsNode(v) THEN {v.node}
  ELSE IF IsRel(v) THEN {v.rel}
  ELSE IF IsTrail(v) THEN Range(v.trail) ELSE {}

Bound(row, var) == var \in DOMAIN row

\* {**row, var: value}
Assign(row, var, v) ==
  [x \in DOMAIN row \union {var} |-> IF x = var THEN v ELSE row[x]]

\* F of every element of s, one after the other.  (Choosing from one element
\* makes TLC evaluate s, and the lists, once, also when it looks whether a step
\* is enabled.)
FlatMap(F(_), s) ==
  CHOOSE all \in {FlattenSeq(lists) : lists \in {[i \in DOMAIN t |-> F(t[i])] : t \in {s}}} :
    TRUE

\* F of every element.
Image(F(_), s) == FlatMap(LAMBDA x : <<F(x)>>, s)

\* The elements that pass the test, in order.
Select(s, Test(_)) == FlatMap(LAMBDA x : IF Test(x) THEN <<x>> ELSE <<>>, s)

\* A set of identifiers in creation order.
InOrder(S) ==
  IF S = {} THEN <<>> ELSE Select([i \in 1..Max(S) |-> i], LAMBDA i : i \in S)

------------------------------------------------------------------------------
\* Pattern elements:
\*   node [var, labels, prop], relationship [var, types, dir, prop, varlen, min, max],
\*   path [var, nodes, hops] where hops[i] leads from nodes[i] to nodes[i + 1].

\* What the parser and the store let through: a path leads from each node to the
\* next, a hop has a direction and, for a variable length, its bounds; entities
\* are numbered in the order of creation.
IsHop(pat) ==
  /\ pat.dir \in {"OUT", "IN", "BOTH"}
  /\ pat.varlen => pat.min \in Nat /\ pat.max \in Nat

IsPathPattern(path) ==
  /\ path.hops \in Seq(Range(path.hops))
  /\ path.nodes \in Seq(Range(path.nodes))
  /\ Len(path.nodes) = Len(path.hops) + 1
  /\ \A hop \in Range(path.hops) : IsHop(hop)

IsPattern(pattern) ==
  /\ pattern \in Seq(Range(pattern))
  /\ \A path \in Range(pattern) : IsPathPattern(path)

IsGraph(G) ==
  /\ G.prop \in Seq(Range(G.prop))
  /\ G.nodes \union DOMAIN G.rels \subseteq DOMAIN G.prop

NodeMatchesExactly(G, pat, n) ==
  /\ pat.labels = G.labels[n]
  /\ pat.prop = NoFilter \/ (pat.prop # Null /\ G.prop[n] = pat.prop)

NodeMatches(G, pat, n) ==
  /\ pat.labels \subseteq G.labels[n]
  /\ pat.prop = NoFilter \/ (pat.prop # Null /\ G.prop[n] = pat.prop)

CandidatesOnTheHeap(G, pat, row) ==
  IF Bound(row, pat.var) /\ IsNode(row[pat.var])
  THEN Select(<<row[pat.var].node>>, LAMBDA n : NodeMatches(G, pat, n))
  ELSE IF Bound(row, pat.var) THEN <<>>
  ELSE Select(InOrder(DOMAIN G.labels), LAMBDA n : NodeMatches(G, pat, n))

\* A bound variable is the only candidate, without asking whether its node is
\* still in the graph.
CandidateNodes(G, pat, row) ==
  IF Bound(row, pat.var) /\ IsNode(row[pat.var])
  THEN Select(<<row[pat.var].node>>, LAMBDA n : NodeMatches(G, pat, n))
  ELSE IF Bound(row, pat.var) THEN <<>>
  ELSE Select(InOrder(G.nodes), LAMBDA n : NodeMatches(G, pat, n))

\* Relationships at n in the direction of the pattern: outgoing before
\* incoming, and an undirected self-loop once.
RelsAt(G, dir, n) ==
  LET leaving  == {r \in DOMAIN G.rels : G.rels[r].start = n}
      entering == {r \in DOMAIN G.rels : G.rels[r].end = n}
  IN  CASE dir = "OUT"  -> InOrder(leaving)
        [] dir = "IN"   -> InOrder(entering)
        [] dir = "BOTH" -> InOrder(leaving) \o InOrder(entering \ leaving)

FarEnd(G, r, n) == IF G.rels[r].start = n THEN G.rels[r].end ELSE G.rels[r].start

TypeFits(G, pat, r) == pat.types = {} \/ G.rels[r].type \in pat.types

\* One hop: the far end has to be live.
Hops(G, pat, n) ==
  Select(RelsAt(G, pat.dir, n),
            LAMBDA r : TypeFits(G, pat, r) /\ FarEnd(G, r, n) \in G.nodes)

\* Trails that extend a trail by one hop, no relationship twice.
Extensions(G, pat, t) ==
  Image(LAMBDA r : [path |-> Append(t.path, r), at |-> FarEnd(G, r, t.at)],
        Select(Hops(G, pat, t.at), LAMBDA r : ~Contains(t.path, r)))

\* All trails of a variable-length pattern, shortest first.
TrailsOfLength(G, pat, n) ==
  LET level[k \in 0..pat.max] ==
        IF k = 0 THEN <<[path |-> <<>>, at |-> n]>>
        ELSE FlatMap(LAMBDA t : Extensions(G, pat, t), level[k - 1])
  IN  level

Trails(G, pat, n) ==
  LET level == TrailsOfLength(G, pat, n)
  IN  FlatMap(LAMBDA k : level[k], [i \in 1..(pat.max - pat.min + 1) |-> pat.min + i - 1])

RelFitsLikeANode(G, pat, r) ==
  pat.prop = NoFilter \/ (pat.prop # Null /\ G.prop[r] = pat.prop)

\* The property filter of a fixed hop is compared, null with a missing property
\* too; a variable-length hop has its filter ignored.
RelFits(G, pat, r) == pat.prop = NoFilter \/ G.prop[r] = pat.prop

CandidateRels(G, pat, n) ==
  IF pat.varlen
  THEN Image(LAMBDA t : [value |-> TrailRef(t.path), at |-> t.at], Trails(G, pat, n))
  ELSE Image(LAMBDA r : [value |-> RelRef(r), at |-> FarEnd(G, r, n)],
             Select(Hops(G, pat, n), LAMBDA r : RelFits(G, pat, r)))

\* A variable that is bound already must be bound to the very same entity; a
\* list of relationships is never the same list.
Bind(row, var, v) ==
  IF var = NoVar THEN <<row>>
  ELSE IF ~Bound(row, var) THEN <<Assign(row, var, v)>>
  ELSE IF row[var] = v /\ ~IsTrail(v) THEN <<row>> ELSE <<>>

BindEach(rows, var, v) == FlatMap(LAMBDA row : Bind(row, var, v), rows)

\* A partial match: its row, the node it has reached, the path so far.
AtNode(rows, n, acc) ==
  Image(LAMBDA row : [row |-> row, at |-> n, acc |-> acc], rows)

ExtendByHop(G, rp, np, m) ==
  LET reached(c) ==
        IF ~NodeMatches(G, np, c.at) THEN <<>>
        ELSE BindEach(Bind(m.row, rp.var, c.value), np.var, NodeRef(c.at))
  IN  FlatMap(LAMBDA c : AtNode(reached(c), c.at, m.acc \o <<c.value, NodeRef(c.at)>>),
              CandidateRels(G, rp, m.at))

StartsOf(G, pat, row) ==
  FlatMap(LAMBDA n : AtNode(Bind(row, pat.var, NodeRef(n)), n, <<NodeRef(n)>>),
          CandidateNodes(G, pat, row))

MatchPath(G, path, row) ==
  LET partial[k \in 0..Len(path.hops)] ==
        IF k = 0 THEN StartsOf(G, path.nodes[1], row)
        ELSE FlatMap(LAMBDA m : ExtendByHop(G, path.hops[k], path.nodes[k + 1], m),
                     partial[k - 1])
  IN  Image(LAMBDA m : IF path.var = NoVar THEN m.row
                       ELSE Assign(m.row, path.var, PathRef(m.acc)),
            partial[Len(path.hops)])

\* The paths of a pattern one after the other, each from the rows of the last.
MatchPattern(G, pattern, row) ==
  LET after[k \in 0..Len(pattern)] ==
        IF k = 0 THEN <<row>>
        ELSE FlatMap(LAMBDA r : MatchPath(G, pattern[k], r), after[k - 1])
  IN  after[Len(pattern)]

PatternVars(pattern) ==
  (UNION {{pattern[i].var} \union {pattern[i].nodes[j].var : j \in DOMAIN pattern[i].nodes}
                           \union {pattern[i].hops[j].var : j \in DOMAIN pattern[i].hops}
            : i \in DOMAIN pattern}) \ {NoVar}

\* WHERE: no condition, or var.key = value; a comparison with null is not true.
Holds(G, where, row) ==
  \/ where = NoFilter
  \/ /\ IsNode(row[where.var])
     /\ G.prop[row[where.var].node] = where.value
     /\ where.value # Null

MatchRowWhereAfter(G, clause, row) ==
  LET found == MatchPattern(G, clause.pattern, row)
      kept  == Select(found, LAMBDA r : Holds(G, clause.where, r))
      new   == PatternVars(clause.pattern) \ DOMAIN row
  IN  IF found = <<>> /\ clause.optional
      THEN <<[x \in DOMAIN row \union new |-> IF x \in new THEN NullRef ELSE row[x]]>>
      ELSE kept

\* MATCH of one row.  OPTIONAL MATCH keeps the row, with nulls for what the
\* pattern would have bound, when no match survives the condition.
MatchRow(G, clause, row) ==
  LET kept == Select(MatchPattern(G, clause.pattern, row),
                        LAMBDA r : Holds(G, clause.where, r))
      new  == PatternVars(clause.pattern) \ DOMAIN row
  IN  IF kept = <<>> /\ clause.optional
      THEN <<[x \in DOMAIN row \union new |-> IF x \in new THEN NullRef ELSE row[x]]>>
      ELSE kept
==============================================================================
