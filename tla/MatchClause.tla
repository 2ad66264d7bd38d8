----------------------------- MODULE MatchClause -----------------------------
(****************************************************************************)
(* MATCH and OPTIONAL MATCH as clauses (_match in cypherast/executor/       *)
(* engine.py): the rows that came in are matched one by one.                *)
(****************************************************************************)
EXTENDS PathMatch, FiniteSets

CONSTANTS Graphs,    \* the graphs the clause may run on
          Clauses,   \* the clauses: [pattern, where, optional]
          Inputs     \* the lists of rows that may come in

\* Node objects keep their labels when they are deleted, and a relationship that
\* is left dangling, or a row, may still hold one.
HasNodeObjects(G) ==
  /\ G.nodes \subseteq DOMAIN G.labels
  /\ \A r \in DOMAIN G.rels : {G.rels[r].start, G.rels[r].end} \subseteq DOMAIN G.labels

IsRowOver(row) ==
  /\ row = [x \in DOMAIN row |-> row[x]] /\ NoVar \notin DOMAIN row
  /\ \A x \in DOMAIN row : IsNode(row[x]) =>
       \A g \in Graphs : row[x].node \in DOMAIN g.labels

ASSUME GraphsAssumption  == \A g \in Graphs : IsGraph(g) /\ HasNodeObjects(g)
ASSUME ClausesAssumption == \A c \in Clauses : IsPattern(c.pattern)
ASSUME InputsAssumption  ==
  \A i \in Inputs : i \in Seq(Range(i)) /\ \A row \in Range(i) : IsRowOver(row)

VARIABLES graph, clause, input,   \* what is executed: fixed by Init
          todo,                   \* rows not matched yet
          out                     \* rows found so far

vars == <<graph, clause, input, todo, out>>

Init ==
  /\ graph \in Graphs
  /\ clause \in Clauses
  /\ input \in Inputs
  /\ todo = input
  /\ out = <<>>

MatchNextRow ==
  /\ todo # <<>>
  /\ out' = out \o MatchRow(graph, clause, Head(todo))
  /\ todo' = Tail(todo)
  /\ UNCHANGED <<graph, clause, input>>

Next == MatchNextRow

Spec == Init /\ [][Next]_vars

------------------------------------------------------------------------------
\* What a match is, without a traversal.  A path of the graph is a choice of a
\* node for every node pattern and of a relationship, or a trail, for every hop.
Joins(dir, r, a, b) ==
  \/ dir # "IN" /\ graph.rels[r].start = a /\ graph.rels[r].end = b
  \/ dir # "OUT" /\ graph.rels[r].start = b /\ graph.rels[r].end = a

Leads(hop, p, a, b) ==
  /\ \A i, j \in DOMAIN p : p[i] = p[j] => i = j
  /\ \A i \in DOMAIN p : hop.types = {} \/ graph.rels[p[i]].type \in hop.types
  /\ \E via \in [0..Len(p) -> DOMAIN graph.labels] :
       /\ via[0] = a /\ via[Len(p)] = b
       /\ \A i \in DOMAIN p : /\ Joins(hop.dir, p[i], via[i - 1], via[i])
                              /\ via[i] \in graph.nodes

Connections(hop, a, b) ==
  IF hop.varlen
  THEN {TrailRef(p) : p \in {q \in UNION {[1..k -> DOMAIN graph.rels] : k \in hop.min..hop.max} :
                               Leads(hop, q, a, b)}}
  ELSE {RelRef(r) : r \in {q \in DOMAIN graph.rels :
                             Leads(hop, <<q>>, a, b) /\ hop.prop \in {NoFilter, graph.prop[q]}}}

NodeFits(np, n) ==
  /\ np.labels \subseteq graph.labels[n]
  /\ np.prop = NoFilter \/ (np.prop = graph.prop[n] /\ np.prop # Null)

PathsThatFit(path) ==
  LET k == Len(path.hops)
      nodeLists == {ns \in [1..(k + 1) -> DOMAIN graph.labels] :
                      \A i \in 1..(k + 1) : NodeFits(path.nodes[i], ns[i])}
      links(ns) == UNION {Connections(path.hops[i], ns[i], ns[i + 1]) : i \in 1..k}
  IN  UNION {{[ns |-> ns, hs |-> hs] :
                hs \in {h \in [1..k -> links(ns)] :
                          \A i \in 1..k : h[i] \in Connections(path.hops[i], ns[i], ns[i + 1])}}
               : ns \in nodeLists}

\* A named path: its nodes and what connects them, in turn.
PathOf(p) ==
  PathRef([i \in 1..(2 * Len(p.hs) + 1) |->
             IF i % 2 = 1 THEN NodeRef(p.ns[(i + 1) \div 2]) ELSE p.hs[i \div 2]])

\* The name of a path is given its value anew, bound or not.
PathNames == {clause.pattern[i].var : i \in DOMAIN clause.pattern} \ {NoVar}

\* The variables that a choice of one path per path pattern gives values to.
Bindings(chosen) ==
  {b \in UNION {{<<clause.pattern[i].var, PathOf(chosen[i])>>}
                  \union {<<clause.pattern[i].nodes[j].var, NodeRef(chosen[i].ns[j])>> :
                     j \in DOMAIN chosen[i].ns}
                  \union {<<clause.pattern[i].hops[j].var, chosen[i].hs[j]>> :
                            j \in DOMAIN chosen[i].hs}
                : i \in DOMAIN clause.pattern} : b[1] # NoVar}

\* The relationship patterns of a name, and the names that paths before the i-th
\* give values to.
HopsNamed(x) ==
  UNION {{<<i, j>> : j \in {k \in DOMAIN clause.pattern[i].hops : clause.pattern[i].hops[k].var = x}}
           : i \in DOMAIN clause.pattern}

NamedBefore(i) == PatternVars(SubSeq(clause.pattern, 1, i - 1))

\* A variable stands for one entity, also when the row has bound it, and for a
\* list of relationships only once.  Only a path that starts where something is
\* bound already may start at a dead node.
Agrees(chosen, row) ==
  LET all == Bindings(chosen) \union {<<x, row[x]>> : x \in DOMAIN row \ PathNames}
  IN  /\ \A a, b \in all : a[1] = b[1] => a[2] = b[2]
      /\ \A b \in Bindings(chosen) : IsTrail(b[2]) =>
           b[1] \notin DOMAIN row /\ \A h, g \in HopsNamed(b[1]) : h = g
      /\ \A i \in DOMAIN clause.pattern :
           \/ chosen[i].ns[1] \in graph.nodes
           \/ clause.pattern[i].nodes[1].var \in DOMAIN row \union NamedBefore(i)

RowOf(chosen, row) ==
  LET b == Bindings(chosen)
  IN  [x \in DOMAIN row \union {p[1] : p \in b} |->
         IF x \in DOMAIN row \ PathNames THEN row[x] ELSE (CHOOSE p \in b : p[1] = x)[2]]

Matches(row) ==
  {c \in [DOMAIN clause.pattern ->
            UNION {PathsThatFit(clause.pattern[i]) : i \in DOMAIN clause.pattern}] :
     /\ \A i \in DOMAIN clause.pattern : c[i] \in PathsThatFit(clause.pattern[i])
     /\ Agrees(c, row)
     /\ Holds(graph, clause.where, RowOf(c, row))}

\* A row that OPTIONAL MATCH finds nothing for.
Unmatched(row) ==
  [x \in DOMAIN row \union PatternVars(clause.pattern) |->
     IF x \in DOMAIN row THEN row[x] ELSE NullRef]

Done == {j \in DOMAIN input : j <= Len(input) - Len(todo)}

Occurrences(row) == Cardinality({i \in DOMAIN out : out[i] = row})

\* MATCH yields one row for every way to map the pattern into the graph that
\* agrees with the row that came in and satisfies WHERE: none is missed, none
\* invented, none given twice.
RowsAreTheMatches ==
  LET matches == [j \in Done |-> Matches(input[j])]
      found   == UNION {{[by |-> <<j, c>>, row |-> RowOf(c, input[j])] : c \in matches[j]} :
                          j \in Done}
      missed  == {[by |-> <<j>>, row |-> Unmatched(input[j])] :
                    j \in {i \in Done : clause.optional /\ matches[i] = {}}}
      wanted  == found \union missed
  IN  /\ {w.row : w \in wanted} = Range(out)
      /\ \A row \in Range(out) : Occurrences(row) = Cardinality({w \in wanted : w.row = row})

\* OPTIONAL MATCH loses no row: something comes out of each, and carries it, but
\* for what the name of a path meant before.
OptionalKeepsEveryRow ==
  clause.optional =>
    \A j \in Done : \E i \in DOMAIN out :
      \A x \in DOMAIN input[j] \ PathNames : x \in DOMAIN out[i] /\ out[i][x] = input[j][x]

\* The README says that what the executor does not support raises an error and
\* is never silently ignored.  If so, a property filter on a variable-length
\* relationship is either applied to the relationships of the trail or refused,
\* and no row comes out with a relationship that does not fit it.
FiltersAreNotIgnored ==
  \A i \in DOMAIN out, j \in DOMAIN clause.pattern :
    \A k \in DOMAIN clause.pattern[j].hops :
      LET hop == clause.pattern[j].hops[k]
      IN  hop.varlen /\ hop.var # NoVar /\ hop.prop # NoFilter =>
            \A r \in Range(out[i][hop.var].trail) : graph.prop[r] = hop.prop
==============================================================================
