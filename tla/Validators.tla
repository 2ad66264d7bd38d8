----------------------------- MODULE Validators -----------------------------
(***************************************************************************)
(* The checks of what a target dialect supports (dialects/validate/), each *)
(* under the name of the capability that calls for it, on the trees of     *)
(* Ast.  Left out: the signatures of functions, the comparability of       *)
(* types, and the checks against a schema.                                 *)
(***************************************************************************)
EXTENDS Scoping, Optimizer

(* The nodes of some types in the order walk() meets them.                 *)
RECURSIVE InWalkOrder(_, _)
InWalkOrder(node, types) ==
    IF node.t \in {"name", "None", "tuple"} THEN <<>>
    ELSE (IF node.t \in types THEN <<node>> ELSE <<>>)
             \o FlattenSeq([k \in DOMAIN node.c |-> InWalkOrder(node.c[k], types)])

Operands(node) == {Arg(node, "this"), Arg(node, "expression")}
IsName(node, names) == node.t = "Identifier" /\ node.v \in names
Columns(clause) == {Unaliased(item) : item \in Range(ItemsOf(clause))}

(* The queries the checks that follow the clauses look at: the root, or    *)
(* all there are in what else the root is.                                 *)
RootQueries(tree) == IF Inner(tree).t = "Query" THEN {Inner(tree)} ELSE FindAll(tree, {"Query"})
Branches(tree) == IF Inner(tree).t \in {"Query", "Union"} THEN RootQueries(tree) ELSE {}

-----------------------------------------------------------------------------
(* Types of nodes a target may lack: validate_capabilities,                *)
(* read_surface.py, opencypher/clauses.py, cypher25.py.                    *)
LackedReads ==
    [allow_map_projection |-> {"MapProjection"}, allow_count_subquery |-> {"CountSubquery"},
     allow_write_clauses |-> {"Create", "Merge", "Set", "Delete", "Remove", "Foreach", "LoadCsv",
                              "AdminStatement"},
     allow_parameters |-> {"Parameter"}]
LackedClauses ==
    [reject_call_subquery |-> {"CallSubquery"}, reject_gql_nodes |-> {"Next", "Insert", "Use"}]
LackedOfCypher25 ==
    [allow_filter_clause |-> {"Filter"}, allow_let_clause |-> {"Let"},
     allow_search_clause |-> {"Search"}, allow_when_query |-> {"WhenQuery"},
     allow_for_clause |-> {"For"}, allow_load_csv |-> {"LoadCsv"},
     allow_admin_ddl |-> {"AdminStatement"}]
LackedTypes ==
    [allow_list_comprehension |-> {"ListComprehension"},
     allow_pattern_comprehension |-> {"PatternComprehension"},
     reject_quantified_path |-> {"QuantifiedPath"}]
        @@ LackedReads @@ LackedClauses @@ LackedOfCypher25

(* Arguments a node of some type may not have.                             *)
LackedArgumentsOfCypher25 ==
    [allow_group_by_subclause |-> <<{"With", "Return"}, "group_by">>,
     allow_call_variable_import |-> <<{"CallSubquery"}, "variables">>,
     allow_optional_call |-> <<{"CallSubquery"}, "optional">>,
     allow_call_in_transactions |-> <<{"CallSubquery"}, "in_transactions">>,
     allow_inline_pattern_where |-> <<{"NodePattern", "RelationshipPattern"}, "where">>,
     allow_memgraph_rel_quantifiers |-> <<{"RelationshipPattern"}, "memgraph_quantifier">>]
LackedArguments ==
    [allow_nulls_order_modifiers |-> <<{"Ordered"}, "nulls">>,
     reject_using_hints |-> <<{"Match"}, "hints">>] @@ LackedArgumentsOfCypher25

IsCall(expr, functions) == expr.t = "FunctionCall" /\ Calls(expr, functions)
IdAsString(node, function) ==
    \/ /\ node.t \in {"Contains", "StartsWith", "EndsWith"}
       /\ IsCall(Arg(node, "this"), {function})
    \/ /\ node.t \in {"EQ", "NEQ"}
       /\ \E x \in Operands(node), y \in Operands(node) : IsCall(x, {function}) /\ y.t = "String"

-----------------------------------------------------------------------------
(* Aggregates: aggregates.py, mixed_aggregate.py. *)

IsProjection(node) == node.t \in {"With", "Return"}
FirstAggregates == {"count", "sum", "avg", "min", "max", "collect"}
CollectsDistinct(expr) == IsCall(expr, {"collect"}) /\ IsThere(Arg(expr, "distinct"))

DistinctWithAggregate(clause) ==
    IsThere(Arg(clause, "distinct")) /\ \E expr \in Columns(clause) : IsCall(expr, FirstAggregates)
TooManyCollects(clause) ==
    Cardinality({k \in DOMAIN ItemsOf(clause) : CollectsDistinct(Unaliased(ItemsOf(clause)[k]))})
        > Caps.max_collect_distinct_per_clause
CollectWithOthers(clause) ==
    /\ \E expr \in Columns(clause) : CollectsDistinct(expr)
    /\ \E expr \in Columns(clause) : IsCall(expr, FirstAggregates) /\ ~CollectsDistinct(expr)

AllAggregates == FirstAggregates \cup {"stdev", "stdevP", "percentileCont", "percentileDisc"}
(* What an expression is made of but for the arguments of its aggregates.  *)
RECURSIVE AroundAggregates(_)
AroundAggregates(expr) ==
    IF expr.t \in {"name", "None", "tuple"} THEN {}
    ELSE {expr} \cup IF IsCall(expr, AllAggregates) THEN {}
                     ELSE UNION {AroundAggregates(child) : child \in Range(expr.c)}
MixesAggregate(clause) ==
    \E expr \in Columns(clause) :
        /\ \E n \in AroundAggregates(expr) : IsCall(n, AllAggregates)
        /\ \E n \in AroundAggregates(expr) : n.t = "Identifier"

-----------------------------------------------------------------------------
(* Shapes of a single node.                                                *)
HasManyLabels(node) ==
    /\ node.t = "NodePattern" /\ IsThere(Arg(node, "labels"))
    /\ \/ Len(Arg(Arg(node, "labels"), "labels").c) > 1
       \/ "|" \in Range(Arg(Arg(node, "labels"), "expression").v)
IsExcludedClause(node) ==
    node.t = "Foreach" \/ (node.t = "Merge" /\ Arg(node, "actions").c # <<>>)
IsUndirected(node) == node.t = "RelationshipPattern" /\ Arg(node, "direction").v = <<"BOTH">>
BindsVariableLength(node) ==
    /\ node.t = "RelationshipPattern"
    /\ IsThere(Arg(node, "variable")) /\ IsThere(Arg(node, "variable_length"))
IsTooLong(node) ==
    /\ node.t = "RelationshipPattern" /\ IsThere(Arg(node, "variable_length"))
    /\ IF IsThere(Arg(node, "max_hops"))
       THEN /\ Caps.max_var_length_hops # 0
            /\ ValueOf(Arg(node, "max_hops").v, 10) > Caps.max_var_length_hops
       ELSE ~Caps.allow_unbounded_var_length

RefusedNode(flag, node) ==
    CASE flag = "allow_exists_subquery" ->
            node.t = "PatternPredicate" /\ Arg(node, "pattern").t \in {"Query", "Union", "Cypher"}
      [] flag = "allow_multi_label_nodes" -> HasManyLabels(node)
      [] flag = "allow_label_expressions" ->
            /\ node.t = "LabelExpression"
            /\ {"!", "&", "%"} \cap Range(Arg(node, "expression").v) # {}
      [] flag = "reject_excluded_clauses" -> IsExcludedClause(node)
      [] flag = "reject_undirected_patterns" -> IsUndirected(node)
      [] flag = "reject_var_length_binding" -> BindsVariableLength(node)
      [] flag = "allow_exists_function" -> IsCall(node, {"exists"})
      [] flag = "allow_id_in_string_predicates" -> IdAsString(node, "id")
      [] flag = "allow_element_id_in_string_predicates" -> IdAsString(node, "elementid")
      [] flag = "max_var_length_hops" -> IsTooLong(node)
      [] flag = "allow_distinct_with_aggregate" -> IsProjection(node) /\ DistinctWithAggregate(node)
      [] flag = "max_collect_distinct_per_clause" -> IsProjection(node) /\ TooManyCollects(node)
      [] flag = "allow_collect_distinct_with_other_aggregates" ->
            IsProjection(node) /\ CollectWithOthers(node)
      [] flag = "allow_mixed_aggregate_projection" -> IsProjection(node) /\ MixesAggregate(node)

-----------------------------------------------------------------------------
(* unlabelled.py: a node has a label where it is first named.              *)

Labelled(node) == IsThere(Arg(node, "labels"))
NamesLabelled(nodes) == NamesOf({node \in Range(nodes) : Labelled(node)})
NewAndUnlabelled(nodes, labelled) ==
    \E k \in DOMAIN nodes :
        /\ ~Labelled(nodes[k])
        /\ \/ NamesOf({nodes[k]}) = {}
           \/ ~(NamesOf({nodes[k]}) \subseteq labelled \cup NamesLabelled(SubSeq(nodes, 1, k - 1)))

CollectsNodes(expr, labelled) ==
    /\ IsCall(expr, {"collect"}) /\ Len(Arg(expr, "expressions").c) = 1
    /\ IsName(Arg(expr, "expressions").c[1], labelled)
AliasesWhere(clause, Test(_)) ==
    UNION {AliasName(item) : item \in {item \in Range(ItemsOf(clause)) : Test(item)}}

ClauseNodes(clause) == InWalkOrder(Arg(clause, "pattern"), {"NodePattern"})

(* The names known to be labelled, and those of lists of such nodes.       *)
LabelledAfter(clause, labelled, lists) ==
    CASE clause.t = "Match" -> labelled \cup NamesLabelled(ClauseNodes(clause))
      [] clause.t = "With" /\ ~HasStar(clause) ->
            AliasesWhere(clause, LAMBDA item : IsName(Unaliased(item), labelled))
      [] clause.t = "Unwind" /\ \/ IsName(Arg(clause, "expression"), lists)
                                \/ CollectsNodes(Arg(clause, "expression"), labelled) ->
            labelled \cup {Arg(clause, "alias").v}
      [] OTHER -> labelled
ListsAfter(clause, labelled, lists) ==
    IF clause.t = "With" /\ ~HasStar(clause)
    THEN AliasesWhere(clause, LAMBDA item :
             \/ CollectsNodes(Unaliased(item), labelled)
             \/ IsName(item, lists)
             \/ item.t = "Alias" /\ IsName(Unaliased(item), lists \ labelled))
    ELSE lists

RECURSIVE UnlabelledIn(_, _, _)
UnlabelledIn(clauses, labelled, lists) ==
    /\ clauses # <<>>
    /\ \/ Head(clauses).t = "Match" /\ NewAndUnlabelled(ClauseNodes(Head(clauses)), labelled)
       \/ \E l \in {LabelledAfter(Head(clauses), labelled, lists)},
             m \in {ListsAfter(Head(clauses), labelled, lists)} : UnlabelledIn(Tail(clauses), l, m)

Unlabelled(tree) ==
    UnlabelledIn(IF Inner(tree).t = "Query" THEN Arg(Inner(tree), "clauses").c
                 ELSE InWalkOrder(tree, {"Match"}), {}, {})

-----------------------------------------------------------------------------
(* cartesian.py: patterns with no name in common, in one MATCH or in       *)
(* MATCHes that follow each other.                                         *)

PathsOfMatch(clause) ==
    SelectSeq(Arg(Arg(clause, "pattern"), "paths").c, LAMBDA path : path.t = "PathPattern")
NamesInPaths(paths) == UNION {NamesOf(Elements(path)) : path \in Range(paths)}

DisjointPaths(clause) ==
    LET paths == PathsOfMatch(clause)
    IN  \E k \in 2..Len(paths) :
            NamesOf(Elements(paths[k])) \cap NamesInPaths(SubSeq(paths, 1, k - 1)) = {}

DisjointMatches(query) ==
    LET Step(s, clause) ==
            LET here == NamesInPaths(PathsOfMatch(clause))
            IN  CASE clause.t = "Match" /\ ~IsThere(Arg(clause, "optional")) ->
                        [after |-> TRUE, names |-> s.names \cup here,
                         bad |-> s.bad \/ (s.after /\ here # {} /\ here \cap s.names = {})]
                  [] clause.t \in {"With", "Unwind", "Create", "Merge", "Set", "Delete", "Remove"} ->
                        [s EXCEPT !.after = FALSE, !.names = {}]
                  [] OTHER -> s
    IN  FoldLeft(Step, [after |-> FALSE, names |-> {}, bad |-> FALSE], Arg(query, "clauses").c).bad

Cartesian(tree) ==
    \/ \E clause \in FindAll(tree, {"Match"}) : DisjointPaths(clause)
    \/ \E query \in RootQueries(tree) : DisjointMatches(query)

-----------------------------------------------------------------------------
(* list_ops.py *)

ListFunctions == {"collect", "keys", "labels", "nodes", "relationships", "range", "split"}

RECURSIVE ListProducing(_, _)
ListProducing(expr, lists) ==
    \/ expr.t \in {"List", "ListComprehension"} \/ IsName(expr, lists)
    \/ IsCall(expr, ListFunctions \cup {"tail"})
    \/ expr.t = "Add" /\ \E x \in Operands(expr) : ListProducing(x, lists)

(* Only collect() makes a list of what it aggregates.                      *)
AggregatedList(expr, lists) == IsCall(expr, {"collect"}) \/ IsName(expr, lists)
RECURSIVE MadeOfAggregatedLists(_, _)
MadeOfAggregatedLists(expr, lists) ==
    \/ AggregatedList(expr, lists)
    \/ expr.t = "Add" /\ \E x \in Operands(expr) : MadeOfAggregatedLists(x, lists)

(* The aliases that name a list after a projection, one after the other.   *)
Noting(clause, lists, IsList(_, _)) ==
    FoldLeft(LAMBDA names, item :
                 IF item.t # "Alias" THEN names
                 ELSE IF IsList(Unaliased(item), names) THEN names \cup AliasName(item)
                 ELSE names \ AliasName(item),
             lists, ItemsOf(clause))

(* Where a clause has expressions the check looks into.                    *)
LookedInto(clause) ==
    CASE clause.t \in {"With", "Return"} ->
            Columns(clause) \cup {Arg(clause, "order"), Arg(clause, "skip"), Arg(clause, "limit")}
                \cup (IF clause.t = "With" THEN {Arg(clause, "where")} ELSE {})
      [] clause.t = "Match" -> {Arg(clause, "where")}
      [] clause.t = "Unwind" -> {Arg(clause, "expression")}
      [] clause.t = "Set" -> Range(Arg(clause, "items").c)
      [] OTHER -> {}
AddsLists(node, lists) ==
    \E add \in FindAll(node, {"Add"}) : \E x \in Operands(add) : ListProducing(x, lists)

Scanned(query, Refuses(_, _), Note(_, _)) ==
    FoldLeft(LAMBDA s, clause : [lists |-> Note(clause, s.lists), bad |-> s.bad \/ Refuses(clause, s.lists)],
             [lists |-> {}, bad |-> FALSE], Arg(query, "clauses").c).bad

ListConcat(tree) ==
    IF Inner(tree).t \in {"Query", "Union"}
    THEN \E query \in Branches(tree) :
            Scanned(query,
                    LAMBDA clause, lists : \E node \in LookedInto(clause) : AddsLists(node, lists),
                    LAMBDA clause, lists : IF clause.t = "With" THEN Noting(clause, lists, ListProducing)
                                           ELSE lists)
    ELSE AddsLists(tree, {})

AggregateListOps(tree) ==
    \E query \in FindAll(tree, {"Query"}) :
        Scanned(query,
                LAMBDA clause, lists :
                    \/ \E add \in FindAll(clause, {"Add"}) :
                           \E x \in Operands(add) : AggregatedList(x, lists)
                    \/ \E n \in FindAll(clause, {"ListComprehension"}) :
                           AggregatedList(Arg(n, "source"), lists),
                LAMBDA clause, lists :
                    IF clause.t \in {"With", "Return"}
                    THEN Noting(clause, lists, MadeOfAggregatedLists) ELSE lists)

NodeInList(tree) ==
    \E n \in FindAll(tree, {"In"}) :
        /\ IsName(Arg(n, "this"), NamesOf(FindAll(tree, {"NodePattern"})))
        /\ \/ Arg(n, "expression").t \in {"List", "ListComprehension", "ListSubscript", "Identifier"}
           \/ IsCall(Arg(n, "expression"), ListFunctions)

-----------------------------------------------------------------------------
(* optional_scalar.py: a name an OPTIONAL MATCH may leave null is used in a *)
(* function that does not take null, with no test that it is not.           *)

(* The calls of a tree, each with the names the CASEs around it test.      *)
RECURSIVE CallsUnder(_, _)
CallsUnder(node, tested) ==
    LET arms == IF node.t = "Case" THEN Range(Arg(node, "ifs").c) ELSE {}
        tests == {Arg(arm, "key") : arm \in arms}
        names == {Arg(test, "this").v : test \in {test \in tests :
                     test.t = "IsNull" /\ ~IsThere(Arg(test, "not_")) /\ Arg(test, "this").t = "Identifier"}}
    IN  IF node.t \in {"name", "None", "tuple"} THEN {}
        ELSE (IF node.t = "FunctionCall" THEN {<<node, tested>>} ELSE {})
                 \cup UNION {CallsUnder(child, tested \cup names) : child \in Range(node.c)}

(* The parts of a predicate that no OR or XOR makes optional.              *)
RECURSIVE Required(_)
Required(node) ==
    IF node.t \in {"name", "None", "tuple", "Or", "Xor"} THEN {}
    ELSE {node} \cup UNION {Required(child) : child \in Range(node.c)}
RequiredNotNull(tree, name) ==
    \E where \in FindAll(tree, {"Where"}) : \E test \in Required(where) : TestsNotNull(test, name)

UnguardedOptionalScalar(tree) ==
    \E names \in {OptionalNames(tree)}, use \in CallsUnder(tree, {}) :
        /\ Calls(use[1], Caps.optional_risky_functions)
        /\ \E n \in FindAll(use[1], {"Identifier"}) :
               n.v \in names \ use[2] /\ ~RequiredNotNull(tree, n.v)

-----------------------------------------------------------------------------
(* case_arms.py: the results of a CASE are of one shape.                   *)

ScalarFunctions ==
    {"abs", "acos", "asin", "atan", "atan2", "avg", "ceil", "char_length", "character_length", "cos",
     "cot", "count", "degrees", "distance", "e", "elementid", "endnode", "exists", "exp", "floor",
     "haversin", "id", "isEmpty", "isNaN", "lTrim", "left", "length", "log", "log10", "normalize",
     "percentileCont", "percentileDisc", "pi", "rTrim", "radians", "rand", "randomUUID", "replace",
     "right", "round", "shortestPath", "sign", "sin", "size", "sqrt", "startnode", "stdev", "stdevP",
     "substring", "sum", "tan", "timestamp", "toBoolean", "toBooleanOrNull", "toFloat",
     "toFloatOrNull", "tointeger", "toIntegerOrNull", "toLower", "toString", "toStringOrNull",
     "toUpper", "trim", "type", "valueType"}

ArmKind(expr, lists, maps) ==
    CASE expr.t \in {"None", "Null"} -> "null"
      [] expr.t = "List" -> "list_lit"
      [] expr.t = "Map" -> "map_lit"
      [] expr.t = "MapProjection" -> "map"
      [] IsCall(expr, ListFunctions \cup {"tail", "toStringList", "allShortestPaths"}) -> "list"
      [] IsCall(expr, {"properties"}) -> "map"
      [] IsCall(expr, ScalarFunctions) -> "scalar"
      [] IsName(expr, lists) -> "list"
      [] IsName(expr, maps) -> "map"
      [] expr.t \in {"Integer", "Float", "String", "Boolean", "Property", "Parameter"} -> "scalar"
      [] OTHER -> "unknown"

Compatible(x, y) == x = y \/ {x, y} \cap {"null", "unknown"} # {}
MismatchedArms(case, s) ==
    LET arms == {Arg(arm, "value") : arm \in Range(Arg(case, "ifs").c)} \cup {Arg(case, "default")}
    IN  \E x \in arms, y \in arms : ~Compatible(ArmKind(x, s.lists, s.maps), ArmKind(y, s.lists, s.maps))

ShapesAfter(clause, s) ==
    LET Note(sets, item) ==
            LET kind == ArmKind(Unaliased(item), sets.lists, sets.maps)
            IN  CASE item.t = "Alias" /\ kind \in {"list", "list_lit"} ->
                        [sets EXCEPT !.lists = @ \cup AliasName(item), !.maps = @ \ AliasName(item)]
                  [] item.t = "Alias" /\ kind \in {"map", "map_lit"} ->
                        [sets EXCEPT !.lists = @ \ AliasName(item), !.maps = @ \cup AliasName(item)]
                  [] OTHER -> sets
    IN  CASE clause.t = "With" ->
                FoldLeft(Note, IF HasStar(clause) THEN s ELSE [s EXCEPT !.lists = {}, !.maps = {}],
                         ItemsOf(clause))
          [] clause.t = "Unwind" ->
                [s EXCEPT !.lists = @ \ {Arg(clause, "alias").v}, !.maps = @ \ {Arg(clause, "alias").v}]
          [] OTHER -> s

RECURSIVE MismatchedIn(_)
MismatchedIn(node) ==
    LET none == [lists |-> {}, maps |-> {}, bad |-> FALSE]
        Bad(part, s) == \E case \in FindAll(part, {"Case"}) : MismatchedArms(case, s)
    IN  CASE node.t = "Cypher" -> MismatchedIn(Arg(node, "this"))
          [] node.t = "Union" -> \E part \in Operands(node) : MismatchedIn(part)
          [] node.t = "Query" ->
                FoldLeft(LAMBDA s, clause : ShapesAfter(clause, [s EXCEPT !.bad = @ \/ Bad(clause, s)]),
                         none, Arg(node, "clauses").c).bad
          [] OTHER -> Bad(node, none)

-----------------------------------------------------------------------------
(* union_columns.py *)

ColumnNames(clause) ==
    [k \in DOMAIN ItemsOf(clause) |->
        LET item == ItemsOf(clause)[k]
        IN  CASE item.t = "Alias" -> Arg(item, "alias").v
              [] item.t = "Identifier" -> item.v
              [] item.t = "Property" /\ Arg(item, "this").t = "Identifier" ->
                    Arg(item, "this").v \o <<".">> \o Arg(item, "name").v
              [] OTHER -> <<"col">> \o Numeral(k - 1)]
RECURSIVE BranchColumns(_)
BranchColumns(node) ==
    LET returns == SelectSeq(Arg(node, "clauses").c, LAMBDA clause : clause.t = "Return")
    IN  CASE node.t = "Cypher" -> BranchColumns(Arg(node, "this"))
          [] node.t = "Union" -> UNION {BranchColumns(branch) : branch \in Operands(node)}
          [] node.t = "Query" /\ returns # <<>> -> {ColumnNames(returns[Len(returns)])}
          [] OTHER -> {}
UnionColumnsDiffer(tree) ==
    \E union \in IF Inner(tree).t = "Union" THEN {Inner(tree)} ELSE FindAll(tree, {"Union"}) :
        Cardinality(BranchColumns(union)) > 1

-----------------------------------------------------------------------------
(* pattern_predicates.py: a pattern used as a predicate names nothing new. *)

NewNamesInPredicates(query) ==
    LET Step(s, clause) ==
            LET within == s.scope \cup NamesOf(Elements(Arg(clause, "pattern")))
                where == IF clause.t = "Match" THEN Arg(clause, "where") ELSE None
            IN  CASE clause.t \in {"Match", "Create", "Merge"} ->
                        [scope |-> within,
                         bad |-> s.bad \/ \E n \in FindAll(where, {"PatternPredicate"}) :
                                              ~(NamesOf(Elements(n)) \subseteq within)]
                  [] clause.t = "With" -> [s EXCEPT !.scope = AliasNames(ItemsOf(clause))]
                  [] clause.t = "Unwind" -> [s EXCEPT !.scope = @ \cup {Arg(clause, "alias").v}]
                  [] OTHER -> s
    IN  FoldLeft(Step, [scope |-> {}, bad |-> FALSE], Arg(query, "clauses").c).bad

-----------------------------------------------------------------------------
(* validate_capabilities: what a target that supports nothing optional has *)
(* to refuse in a tree.  A target refuses what it lacks of these.          *)
TreeFlags ==
    {"require_labelled_nodes", "allow_cartesian_match_paths", "allow_list_concat",
     "allow_list_ops_on_aggregates", "allow_node_in_list_membership",
     "allow_unguarded_optional_scalar_use", "allow_mismatched_case_arms",
     "require_matching_union_columns", "check_undefined_variables",
     "pattern_predicate_introduces_bindings"}
RefusedTree(flag, tree) ==
    CASE flag = "require_labelled_nodes" -> Unlabelled(tree)
      [] flag = "allow_cartesian_match_paths" -> Cartesian(tree)
      [] flag = "allow_list_concat" -> ListConcat(tree)
      [] flag = "allow_list_ops_on_aggregates" -> AggregateListOps(tree)
      [] flag = "allow_node_in_list_membership" -> NodeInList(tree)
      [] flag = "allow_unguarded_optional_scalar_use" -> UnguardedOptionalScalar(tree)
      [] flag = "allow_mismatched_case_arms" -> MismatchedIn(tree)
      [] flag = "require_matching_union_columns" -> UnionColumnsDiffer(tree)
      [] flag = "check_undefined_variables" -> UndefinedNames(tree) # {}
      [] flag = "pattern_predicate_introduces_bindings" ->
            \E query \in Branches(tree) : NewNamesInPredicates(query)

NodeFlags ==
    {"allow_exists_subquery", "allow_multi_label_nodes", "allow_label_expressions",
     "reject_excluded_clauses", "reject_undirected_patterns", "reject_var_length_binding",
     "allow_exists_function", "allow_id_in_string_predicates",
     "allow_element_id_in_string_predicates", "max_var_length_hops", "allow_distinct_with_aggregate",
     "max_collect_distinct_per_clause", "allow_collect_distinct_with_other_aggregates",
     "allow_mixed_aggregate_projection"}

Flags == DOMAIN LackedTypes \cup DOMAIN LackedArguments \cup NodeFlags \cup TreeFlags

(* Whether a tree made of some nodes has to be refused for a capability.   *)
Violates(flag, tree, nodes) ==
    CASE flag \in DOMAIN LackedTypes -> \E node \in nodes : node.t \in LackedTypes[flag]
      [] flag \in DOMAIN LackedArguments ->
            \E node \in nodes : /\ node.t \in LackedArguments[flag][1]
                               /\ IsThere(Arg(node, LackedArguments[flag][2]))
      [] flag \in NodeFlags -> \E node \in nodes : RefusedNode(flag, node)
      [] flag \in TreeFlags -> RefusedTree(flag, tree)

Violations(tree) ==
    UNION {{flag \in Flags : Violates(flag, tree, nodes)} : nodes \in {Walk(tree)}}
=============================================================================
