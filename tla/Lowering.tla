------------------------------ MODULE Lowering ------------------------------
(***************************************************************************)
(* lower_to_core (dialects/lower.py): what a dialect adds to the language  *)
(* is rewritten into the core that the executor and the planner take, or   *)
(* refused with CG1702.                                                    *)
(***************************************************************************)
EXTENDS Trees

(* What stands for a node that raises CG1702. *)
Rejected == Node("CG1702", <<>>, <<>>)

(* _is_variable_length *)
IsVariableLength(rel) ==
    \E field \in {"variable_length", "min_hops", "max_hops", "memgraph_quantifier"} :
        IsThere(Arg(rel, field))

(* _reject_unsupported_surface *)
UnsupportedSurface(node) ==
    \/ node.t \in {"Search", "LoadCsv", "AdminStatement", "WhenQuery"}
    \/ /\ node.t = "RelationshipPattern"
       /\ \/ Arg(node, "memgraph_quantifier").v = <<"wShortest">>
          \/ IsThere(Arg(node, "where")) /\ IsVariableLength(node)

(* What is left where the rewrites do not reach. *)
Residual(node) ==
    \/ node.t \in {"NodePattern", "RelationshipPattern"} /\ IsThere(Arg(node, "where"))
    \/ node.t \in {"Let", "CG1702"}

-----------------------------------------------------------------------------
(* A bug: the WHERE of a clause is taken for a predicate. *)
PredicateUnopened(where) == where

(* Predicates.  The WHERE of a pattern element is bare, that of a clause is *)
(* a Where.                                                                *)
PredicateOf(where) == IF where.t = "Where" THEN Arg(where, "this") ELSE where
Present(nodes) == SelectSeq(nodes, IsThere)
WhereOf(predicates) ==
    IF predicates = <<>> THEN None
    ELSE Make("Where", [this |-> FoldLeft(LAMBDA p, q : Make("And", [this |-> p, expression |-> q]),
                                          Head(predicates), Tail(predicates))])

(* The nodes and relationships of a pattern itself; those of a shortest    *)
(* path or a quantified one belong to the search.                          *)
IsElement(node) == node.t \in {"NodePattern", "RelationshipPattern"}
ElementsOf(path) == IF path.t = "PathPattern" THEN SelectSeq(Arg(path, "elements").c, IsElement)
                    ELSE <<>>
PatternElements(pattern) ==
    IF pattern.t = "Pattern"
    THEN FlattenSeq([k \in DOMAIN Arg(pattern, "paths").c |-> ElementsOf(Arg(pattern, "paths").c[k])])
    ELSE ElementsOf(pattern)

WithoutWhere(node) == IF IsElement(node) THEN SetArg(node, "where", None) ELSE node
Bare(path) ==
    IF path.t # "PathPattern" THEN path
    ELSE SetArg(path, "elements", ListOf([k \in DOMAIN Arg(path, "elements").c |->
                                            WithoutWhere(Arg(path, "elements").c[k])]))

(* _hoisted_predicates: the own WHERE first, then those of the elements.   *)
Hoisted(node) ==
    LET pattern == Arg(node, "pattern")
        elements == PatternElements(pattern)
        inline == [k \in DOMAIN elements |-> PredicateOf(Arg(elements[k], "where"))]
        bare == IF pattern.t = "Pattern"
                THEN SetArg(pattern, "paths", ListOf([k \in DOMAIN Arg(pattern, "paths").c |->
                                                        Bare(Arg(pattern, "paths").c[k])]))
                ELSE Bare(pattern)
    IN  SetArg(SetArg(node, "pattern", bare), "where",
               WhereOf(Present(<<PredicateOf(Arg(node, "where"))>> \o inline)))

-----------------------------------------------------------------------------
(* Clauses. *)

ReferencedNames(expr) == {n.v : n \in FindAll(expr, {"Identifier"})}

(* FILTER (n WHERE ...) becomes WITH * WHERE ..., if it is about n.        *)
FilterAsWith(filter) ==
    LET items == Arg(filter, "items").c
        predicates == [k \in DOMAIN items |-> Arg(items[k], "predicate")]
        AboutItsOwn(item) == Arg(item, "variable").v \in ReferencedNames(Arg(item, "predicate"))
    IN  IF \E k \in DOMAIN items : IsThere(predicates[k]) /\ ~AboutItsOwn(items[k]) THEN Rejected
        ELSE Make("With", [expressions |-> ListOf(<<Node("Star", <<>>, <<>>)>>),
                           where |-> WhereOf(Present(predicates))])

(* A bug: one WITH for all the names. *)
LetAsOneWith(clause) ==
    IF clause.t # "Let" THEN <<clause>>
    ELSE <<Make("With", [expressions |-> ListOf(<<Node("Star", <<>>, <<>>)>> \o Arg(clause, "items").c)])>>

(* LET a = ..., b = ...: a WITH for each, so that b may use a.             *)
LetAsWiths(clause) ==
    IF clause.t # "Let" THEN <<clause>>
    ELSE [k \in DOMAIN Arg(clause, "items").c |->
            Make("With", [expressions |-> ListOf(<<Node("Star", <<>>, <<>>),
                                                   Arg(clause, "items").c[k]>>)])]

(* The statistical aggregates are left out. *)
AGGREGATES == {"count", "sum", "avg", "min", "max", "collect"}
IsAggregation(item) == Calls(item, AGGREGATES)

(* GROUP BY says nothing new when its keys are just the items that do not   *)
(* aggregate, by their expressions or their aliases.                       *)
GroupingIsImplied(clause) ==
    LET items == Arg(clause, "expressions").c
        grouping == SelectSeq(items, LAMBDA item : ~IsAggregation(item))
        Stands(item, key) == key = Unaliased(item) \/ (item.t = "Alias" /\ key = Arg(item, "alias"))
        Without(left, key) ==
            LET places == {k \in DOMAIN left : Stands(left[k], key)}
            IN  IF left = <<Rejected>> \/ places = {} THEN <<Rejected>>
                ELSE RemoveAt(left, CHOOSE k \in places : \A j \in places : k <= j)
    IN  /\ \A k \in DOMAIN items : items[k].t # "Star"
        /\ Len(grouping) < Len(items)
        /\ FoldLeft(Without, grouping, Arg(Arg(clause, "group_by"), "expressions").c) = <<>>

(* _lower_node, on a node whose children are done.                         *)
LowerNode(node) ==
    CASE node.t = "For" -> Make("Unwind", [expression |-> Arg(node, "expression"),
                                           alias |-> Arg(node, "alias")])
      [] node.t = "Query" ->
            SetArg(node, "clauses", ListOf(FlattenSeq([k \in DOMAIN Arg(node, "clauses").c |->
                                                        LetAsWiths(Arg(node, "clauses").c[k])])))
      [] node.t = "Filter" -> FilterAsWith(node)
      [] node.t \in {"Match", "PatternComprehension"} -> Hoisted(node)
      [] node.t = "RelationshipPattern" /\ Arg(node, "memgraph_quantifier").v = <<"bfs">> ->
            SetArg(SetArg(SetArg(node, "memgraph_quantifier", None), "memgraph_weight_expr", None),
                   "memgraph_total_weight", None)
      [] node.t = "CallSubquery" ->
            SetArg(SetArg(node, "in_transactions", None), "transaction_rows", None)
      [] node.t \in {"Return", "With"} /\ IsThere(Arg(node, "group_by")) ->
            IF GroupingIsImplied(node) THEN SetArg(node, "group_by", None) ELSE Rejected
      [] OTHER -> node

RECURSIVE LowerEach(_)
LowerEach(node) ==
    LET below == <<>> \o [k \in DOMAIN node.c |-> LowerEach(node.c[k])]
    IN  IF node.t = "tuple" THEN node ELSE LowerNode([node EXCEPT !.c = below])

(* lower_to_core: the core tree, or Rejected.                              *)
Lowered(tree) ==
    LET core == LowerEach(tree)
    IN  IF \E node \in Walk(tree) : UnsupportedSurface(node) THEN Rejected
        ELSE IF \E node \in Walk(core) : Residual(node) THEN Rejected
        ELSE core
=============================================================================
