------------------------------ MODULE Optimizer ------------------------------
(***************************************************************************)
(* The rewrite rules of optimize() (optimizer/) and the rewrites a         *)
(* dialect's capabilities call for (dialects/transforms/), on the trees of *)
(* Ast.  Left out: ensure_labelled_nodes, which guesses labels, and what       *)
(* qualify leaves unnamed for its sake.                                    *)
(***************************************************************************)
EXTENDS Trees
CONSTANT Caps           \* the capabilities of the target dialect

(* constraint_rules, apply_capabilities: the rewrites a target asks for, in *)
(* their order.  The bounds are 0 where there is none.                     *)
ConstraintRules(caps) ==
    LET asked ==
            [bound_variable_length |->
                 /\ caps.rewrite_var_length_bounds
                 /\ caps.max_var_length_hops # 0 \/ ~caps.allow_unbounded_var_length,
             split_multi_path_match |->
                 ~caps.allow_cartesian_match_paths /\ caps.rewrite_cartesian_match_paths,
             drop_distinct_beside_aggregate |->
                 ~caps.allow_distinct_with_aggregate /\ caps.rewrite_distinct_beside_aggregate,
             cap_collect_distinct |->
                 caps.rewrite_collect_distinct_cap /\ caps.max_collect_distinct_per_clause # 0,
             strip_nulls_order_modifiers |-> ~caps.allow_nulls_order_modifiers,
             guard_optional_scalar_use |-> caps.rewrite_unguarded_optional_scalar_use]
    IN  SelectSeq(<<"bound_variable_length", "split_multi_path_match",
                    "drop_distinct_beside_aggregate", "cap_collect_distinct",
                    "strip_nulls_order_modifiers", "guard_optional_scalar_use">>,
                  LAMBDA rule : asked[rule])

RULES == <<"qualify", "canonicalize_patterns", "simplify", "pushdown_predicates", "annotate_types">>
OPTIONAL_RULES == <<"merge_match_chains">>

-----------------------------------------------------------------------------
(* qualify *)

GeneratedName(prefix, number) == <<"_", prefix, "_">> \o Numeral(number)

(* The nodes and relationships that get a name: those without one, but a   *)
(* relationship only if it asks for a type or properties.                  *)
Anonymous(node) ==
    /\ node.t \in {"NodePattern", "RelationshipPattern"} /\ ~IsThere(Arg(node, "variable"))
    /\ node.t = "RelationshipPattern" =>
           /\ ~IsThere(Arg(node, "variable_length"))
           /\ Arg(node, "types").c # <<>> \/ IsThere(Arg(node, "properties"))

(* Patterns used as predicates keep their anonymous elements.  The numbers *)
(* are given out children first.                                           *)
RECURSIVE Qualified(_, _)
Qualified(node, counts) ==
    LET below == FoldLeft(LAMBDA acc, child : LET q == Qualified(child, acc.counts)
                                              IN  [c |-> Append(acc.c, q.node), counts |-> q.counts],
                          [c |-> <<>>, counts |-> counts], node.c)
        here == [node EXCEPT !.c = below.c]
        prefix == IF node.t = "NodePattern" THEN "n" ELSE "r"
        number == below.counts[prefix] + 1
    IN  IF node.t \in {"tuple", "PatternPredicate"} THEN [node |-> node, counts |-> counts]
        ELSE IF ~Anonymous(here) THEN [node |-> here, counts |-> below.counts]
        ELSE [node |-> SetArg(here, "variable", Identifier(GeneratedName(prefix, number))),
              counts |-> [below.counts EXCEPT ![prefix] = number]]

-----------------------------------------------------------------------------
(* A bug: any direction is turned round, not only that of an incoming one. *)
CanonicalPathEitherWay(path) ==
    LET e == Arg(path, "elements").c
        opposite == [INCOMING |-> <<"OUTGOING">>, OUTGOING |-> <<"INCOMING">>]
    IN  IF Len(e) = 3 /\ e[2].t = "RelationshipPattern" /\ Arg(e[2], "direction").v # <<"BOTH">>
        THEN SetArg(path, "elements",
                    ListOf(<<e[3], SetArg(e[2], "direction", Name(opposite[Arg(e[2], "direction").v[1]])),
                             e[1]>>))
        ELSE path

(* canonicalize_patterns: one incoming relationship is read from its start. *)
CanonicalPath(path) ==
    LET e == Arg(path, "elements").c
    IN  IF Len(e) = 3 /\ e[2].t = "RelationshipPattern" /\ Arg(e[2], "direction").v = <<"INCOMING">>
        THEN SetArg(path, "elements",
                    ListOf(<<e[3], SetArg(e[2], "direction", Name(<<"OUTGOING">>)), e[1]>>))
        ELSE path

-----------------------------------------------------------------------------
(* simplify *)

BooleanNode(b) == Node("Boolean", <<IF b THEN "true" ELSE "false">>, <<>>)
IntegerNode(n) == Node("Integer", Numeral(n), <<>>)
IsBoolean(node, b) == node.t = "Boolean" /\ (node.v \in {<<"true">>, <<"TRUE">>}) = b
IsNullNode(node) == node.t = "Null"
Literals == {"Integer", "Float", "String", "Boolean"}

Simplified(node) ==
    LET x == Arg(node, "this")
        y == Arg(node, "expression")
        numbers == x.t = "Integer" /\ y.t = "Integer"
        m == ValueOf(x.v, 10)
        n == ValueOf(y.v, 10)
        null == Node("Null", <<>>, <<>>)
    IN
    CASE node.t = "Not" /\ x.t = "Boolean" -> BooleanNode(IsBoolean(x, FALSE))
      [] node.t = "Not" /\ IsNullNode(x) -> null
      [] node.t = "And" /\ (IsBoolean(x, FALSE) \/ IsBoolean(y, FALSE)) -> BooleanNode(FALSE)
      [] node.t = "And" /\ IsBoolean(x, TRUE) -> y
      [] node.t = "And" /\ ~IsBoolean(x, TRUE) /\ IsBoolean(y, TRUE) -> x
      [] node.t = "And" /\ IsNullNode(x) /\ IsNullNode(y) -> null
      [] node.t = "Or" /\ (IsBoolean(x, TRUE) \/ IsBoolean(y, TRUE)) -> BooleanNode(TRUE)
      [] node.t = "Or" /\ IsBoolean(x, FALSE) /\ ~IsBoolean(y, TRUE) -> y
      [] node.t = "Or" /\ x.t # "Boolean" /\ IsBoolean(y, FALSE) -> x
      [] node.t = "Add" /\ numbers -> IntegerNode(m + n)
      [] node.t = "Add" /\ ~numbers /\ {x.t, y.t} \cap {"List", "ListComprehension"} = {}
                        /\ (IsNullNode(x) \/ IsNullNode(y)) -> null
      [] node.t = "Mul" /\ numbers -> IntegerNode(m * n)
      [] node.t = "EQ" /\ (IsNullNode(x) \/ IsNullNode(y)) -> null
      [] node.t = "EQ" /\ numbers -> BooleanNode(m = n)
      [] node.t = "IsNull" /\ IsNullNode(x) -> BooleanNode(~IsThere(Arg(node, "not_")))
      [] node.t = "IsNull" /\ x.t \in Literals -> BooleanNode(IsThere(Arg(node, "not_")))
      [] OTHER -> node

-----------------------------------------------------------------------------
(* pushdown_predicates *)

(* _inject_prop: the pattern with the property asked of the first node of  *)
(* that name, or the pattern as it is when that node already asks for it.  *)
EntriesOf(element) == IF Arg(element, "properties").t = "Map"
                    THEN Arg(Arg(element, "properties"), "entries").c ELSE <<>>
VariableOf(element) == IF element.t = "NodePattern" THEN Arg(element, "variable") ELSE None
Inject(pattern, variable, key, literal) ==
    LET paths == Arg(pattern, "paths").c
        Places == {x \in UNION {{p} \X DOMAIN Arg(paths[p], "elements").c : p \in DOMAIN paths} :
                      VariableOf(Arg(paths[x[1]], "elements").c[x[2]]) = variable}
        first == CHOOSE x \in Places :
                     \A y \in Places : x[1] < y[1] \/ (x[1] = y[1] /\ x[2] <= y[2])
        elements == Arg(paths[first[1]], "elements").c
        element == elements[first[2]]
        asking == SetArg(element, "properties",
                         Make("Map", [entries |-> ListOf(Append(EntriesOf(element),
                             Make("tuple", [key |-> key, value |-> literal])))]))
    IN  IF Places = {} THEN pattern
        ELSE IF \E k \in DOMAIN EntriesOf(element) : Arg(EntriesOf(element)[k], "key").v = key.v
        THEN pattern
        ELSE SetArg(pattern, "paths",
               ListOf([paths EXCEPT ![first[1]] =
                   SetArg(@, "elements", ListOf([elements EXCEPT ![first[2]] = asking]))]))

(* _try_fold: what is left of a predicate, and the pattern it went into.   *)
RECURSIVE Fold(_, _)
Fold(pred, pattern) ==
    LET left == Fold(Arg(pred, "this"), pattern)
        right == Fold(Arg(pred, "expression"), left.pattern)
        property == Arg(pred, "this")
        injected == Inject(pattern, Arg(property, "this"), Arg(property, "name"), Arg(pred, "expression"))
    IN  IF pred.t = "And"
        THEN [pattern |-> right.pattern,
              rest |-> IF ~IsThere(left.rest) THEN right.rest
                       ELSE IF ~IsThere(right.rest) THEN left.rest
                       ELSE Make("And", [this |-> left.rest, expression |-> right.rest])]
        ELSE IF /\ pred.t = "EQ" /\ property.t = "Property" /\ Arg(property, "this").t = "Identifier"
                /\ Arg(pred, "expression").t \in Literals /\ injected # pattern
        THEN [pattern |-> injected, rest |-> None]
        ELSE [pattern |-> pattern, rest |-> pred]

PushedDown(match) ==
    LET folded == Fold(Arg(Arg(match, "where"), "this"), Arg(match, "pattern"))
    IN  IF ~IsThere(Arg(match, "where")) THEN match
        ELSE SetArg(SetArg(match, "pattern", folded.pattern), "where",
                    IF IsThere(folded.rest) THEN Make("Where", [this |-> folded.rest]) ELSE None)

-----------------------------------------------------------------------------
(* merge_match_chains: two plain MATCHes of one path each become one when   *)
(* the second path starts where the first ends.                            *)
PlainMatch(clause) ==
    clause.t = "Match" /\ ~IsThere(Arg(clause, "optional")) /\ ~IsThere(Arg(clause, "where"))
OnlyPath(clause) == Arg(Arg(clause, "pattern"), "paths").c[1]

Continues(first, second) ==
    LET left == Arg(OnlyPath(first), "elements").c
        right == Arg(OnlyPath(second), "elements").c
    IN  /\ PlainMatch(first) /\ PlainMatch(second)
        /\ Len(Arg(Arg(first, "pattern"), "paths").c) = 1
        /\ Len(Arg(Arg(second, "pattern"), "paths").c) = 1
        /\ {OnlyPath(first).t, OnlyPath(second).t} = {"PathPattern"}
        /\ IsThere(VariableOf(Head(right))) /\ VariableOf(left[Len(left)]) = VariableOf(Head(right))

(* A bug: the stitched path has no name. *)
StitchedUnnamed(first, second) ==
    Make("Match",
      [pattern |-> Make("Pattern", [paths |-> ListOf(<<
          Make("PathPattern",
               [elements |-> ListOf(Arg(OnlyPath(first), "elements").c
                                        \o Tail(Arg(OnlyPath(second), "elements").c))])>>)])])

Stitched(first, second) ==
    LET path == OnlyPath(first)
    IN  Make("Match",
          [pattern |-> Make("Pattern", [paths |-> ListOf(<<
              Make("PathPattern",
                   [variable |-> Arg(path, "variable"),
                    elements |-> ListOf(Arg(path, "elements").c
                                            \o Tail(Arg(OnlyPath(second), "elements").c))])>>)])])

RECURSIVE MergedClauses(_)
MergedClauses(clauses) ==
    IF Len(clauses) < 2 THEN clauses
    ELSE IF Continues(clauses[1], clauses[2])
    THEN <<Stitched(clauses[1], clauses[2])>> \o MergedClauses(SubSeq(clauses, 3, Len(clauses)))
    ELSE <<clauses[1]>> \o MergedClauses(Tail(clauses))

-----------------------------------------------------------------------------
(* The rewrites for capabilities. *)

(* A bug: WHERE stays with the first path. *)
SplitWhereFirst(clause) ==
    LET paths == Arg(Arg(clause, "pattern"), "paths").c
    IN  IF clause.t = "Match" /\ Len(paths) > 1
        THEN [k \in DOMAIN paths |->
                Make("Match", [optional |-> Arg(clause, "optional"),
                               pattern |-> Make("Pattern", [paths |-> ListOf(<<paths[k]>>)]),
                               where |-> IF k = 1 THEN Arg(clause, "where") ELSE None])]
        ELSE <<clause>>

(* split_multi_path_match: a MATCH for each path, WHERE with the last.     *)
Split(clause) ==
    LET paths == Arg(Arg(clause, "pattern"), "paths").c
    IN  IF clause.t = "Match" /\ Len(paths) > 1
        THEN [k \in DOMAIN paths |->
                Make("Match", [optional |-> Arg(clause, "optional"),
                               pattern |-> Make("Pattern", [paths |-> ListOf(<<paths[k]>>)]),
                               where |-> IF k = Len(paths) THEN Arg(clause, "where") ELSE None])]
        ELSE <<clause>>

(* bound_variable_length; where the target names no bound, it is 5.         *)
MaxHops == IF Caps.max_var_length_hops = 0 THEN 5 ELSE Caps.max_var_length_hops
(* A bug: one hop more than the target takes is let through. *)
BoundedLoosely(rel) ==
    LET high == Arg(rel, "max_hops")
        capped == IF IF IsThere(high) THEN ValueOf(high.v, 10) > MaxHops + 1
                     ELSE ~Caps.allow_unbounded_var_length
                  THEN SetArg(rel, "max_hops", Name(Numeral(MaxHops))) ELSE rel
    IN  IF ~IsThere(Arg(rel, "variable_length")) THEN rel
        ELSE IF IsThere(Arg(rel, "min_hops")) THEN capped
        ELSE SetArg(capped, "min_hops", Name(Numeral(0)))

Bounded(rel) ==
    LET high == Arg(rel, "max_hops")
        capped == IF IF IsThere(high) THEN ValueOf(high.v, 10) > MaxHops
                     ELSE ~Caps.allow_unbounded_var_length
                  THEN SetArg(rel, "max_hops", Name(Numeral(MaxHops))) ELSE rel
    IN  IF ~IsThere(Arg(rel, "variable_length")) THEN rel
        ELSE IF IsThere(Arg(rel, "min_hops")) THEN capped
        ELSE SetArg(capped, "min_hops", Name(Numeral(0)))

(* drop_distinct_beside_aggregate *)
WithoutDistinct(clause) ==
    IF \E k \in DOMAIN Arg(clause, "expressions").c :
           Calls(Arg(clause, "expressions").c[k], {"count", "sum", "avg", "min", "max", "collect"})
    THEN SetArg(clause, "distinct", None) ELSE clause

(* The items of a projection, rewritten one by one under their aliases.    *)
SetItems(clause, F(_)) ==
    LET items == Arg(clause, "expressions").c
    IN  SetArg(clause, "expressions", ListOf([k \in DOMAIN items |-> F(k)]))
Realiased(item, expression) ==
    IF item.t = "Alias" THEN SetArg(item, "this", expression) ELSE expression

(* cap_collect_distinct: the first few stay, the others only count.        *)
Capped(clause) ==
    LET items == Arg(clause, "expressions").c
        Collects(item) == Calls(item, {"collect"}) /\ IsThere(Arg(Unaliased(item), "distinct"))
        Before(k) == Len(SelectSeq(SubSeq(items, 1, k), Collects))
    IN  SetItems(clause, LAMBDA k :
            IF Collects(items[k]) /\ Before(k) > Caps.max_collect_distinct_per_clause
            THEN Realiased(items[k], SetArg(Unaliased(items[k]), "name", Name(<<"count">>)))
            ELSE items[k])

(* guard_optional_scalar_use.  The names an OPTIONAL MATCH may leave null,  *)
(* in a query that is no union.                                            *)
PatternNames(pattern) ==
    {Arg(n, "variable").v : n \in {n \in FindAll(pattern, {"NodePattern", "RelationshipPattern"}) :
                                     IsThere(Arg(n, "variable"))}}
OptionalNames(tree) ==
    LET query == IF tree.t = "Cypher" THEN Arg(tree, "this") ELSE tree
        Project(clause, names) ==
            {IF item.t = "Alias" THEN Arg(item, "alias").v ELSE item.v :
                item \in {item \in Range(Arg(clause, "expressions").c) :
                            item.t \in {"Alias", "Identifier"} /\ Unaliased(item).t = "Identifier"
                                /\ Unaliased(item).v \in names}}
        Bound(clause) ==
            {IF item.t = "Alias" THEN Arg(item, "alias").v ELSE item.v :
                item \in {item \in Range(Arg(clause, "expressions").c) :
                            item.t \in {"Alias", "Identifier"}}}
        Step(s, clause) ==
            LET here == PatternNames(Arg(clause, "pattern"))
            IN  CASE clause.t = "Match" ->
                        [bound |-> s.bound \cup here,
                         optional |-> IF IsThere(Arg(clause, "optional"))
                                      THEN s.optional \cup (here \ s.bound) ELSE s.optional \ here]
                  [] clause.t = "With" ->
                        [bound |-> Bound(clause), optional |-> Project(clause, s.optional)]
                  [] OTHER -> s
    IN  IF query.t = "Query"
        THEN FoldLeft(Step, [bound |-> {}, optional |-> {}], Arg(query, "clauses").c).optional
        ELSE {}

(* An expression that tests a name for null already.                       *)
IsNamed(node, name) == node.t = "Identifier" /\ node.v = name
TestsNotNull(test, name) ==
    /\ test.t = "IsNull" /\ IsThere(Arg(test, "not_"))
    /\ \/ IsNamed(Arg(test, "this"), name)
       \/ /\ Calls(Arg(test, "this"), {"id", "elementid"})
          /\ \E arg \in Range(Arg(Arg(test, "this"), "expressions").c) : IsNamed(arg, name)
TestsNull(test, name) ==
    test.t = "IsNull" /\ ~IsThere(Arg(test, "not_")) /\ IsNamed(Arg(test, "this"), name)
Guards(expr, name) ==
    \/ \E test \in FindAll(expr, {"IsNull"}) : TestsNotNull(test, name)
    \/ \E case \in FindAll(expr, {"Case"}) : \E arm \in Range(Arg(case, "ifs").c) :
           TestsNull(Arg(arm, "key"), name)

Guarded(clause, optional) ==
    LET items == Arg(clause, "expressions").c
        Risky(item) ==
            {n.v : n \in {n \in UNION {Walk(call) : call \in {call \in FindAll(item, {"FunctionCall"}) :
                                          Calls(call, Caps.optional_risky_functions)}} :
                             n.t = "Identifier" /\ n.v \in optional}}
        Arm(name) == Make("tuple", [key |-> Make("IsNull", [this |-> Identifier(name)]),
                                    value |-> Node("Null", <<>>, <<>>)])
        arms(item) == LET names == SetToSeq(Risky(item)) IN [k \in DOMAIN names |-> Arm(names[k])]
    IN  SetItems(clause, LAMBDA k :
            IF \A name \in Risky(items[k]) : Guards(items[k], name) THEN items[k]
            ELSE Realiased(items[k], Make("Case", [ifs |-> ListOf(arms(items[k])),
                                                   default |-> Unaliased(items[k])])))

-----------------------------------------------------------------------------
(* Rules on whole trees. *)

(* What a rule makes of one node, whose children it has done already.      *)
Rewritten(rule, node, optional) ==
    CASE rule = "canonicalize_patterns" /\ node.t = "PathPattern" -> CanonicalPath(node)
      [] rule = "simplify" /\ node.t \in {"Not", "IsNull", "And", "Or", "Add", "Mul", "EQ"} ->
            Simplified(node)
      [] rule = "pushdown_predicates" /\ node.t = "Match" -> PushedDown(node)
      [] rule = "merge_match_chains" /\ node.t = "Query" ->
            SetArg(node, "clauses", ListOf(MergedClauses(Arg(node, "clauses").c)))
      [] rule = "split_multi_path_match" /\ node.t = "Query" ->
            SetArg(node, "clauses", ListOf(FlattenSeq([k \in DOMAIN Arg(node, "clauses").c |->
                                                        Split(Arg(node, "clauses").c[k])])))
      [] rule = "bound_variable_length" /\ node.t = "RelationshipPattern" -> Bounded(node)
      [] rule = "drop_distinct_beside_aggregate" /\ node.t \in {"With", "Return"} ->
            WithoutDistinct(node)
      [] rule = "cap_collect_distinct" /\ node.t \in {"With", "Return"} -> Capped(node)
      [] rule = "strip_nulls_order_modifiers" /\ node.t = "Ordered" -> SetArg(node, "nulls", None)
      [] rule = "guard_optional_scalar_use" /\ node.t \in {"With", "Return"} -> Guarded(node, optional)
      [] OTHER -> node

(* AstNode.transform: children first; like walk, it does not look into      *)
(* pairs.  <<>> \o s is s with its items computed once.                    *)
RECURSIVE Transformed(_, _, _)
Transformed(rule, node, optional) ==
    LET below == <<>> \o [k \in DOMAIN node.c |-> Transformed(rule, node.c[k], optional)]
    IN  IF node.t = "tuple" THEN node
        ELSE Rewritten(rule, [node EXCEPT !.c = below], optional)

(* Rule.__call__.  annotate_types sets the types of nodes, no argument.    *)
Apply(rule, tree) ==
    CASE rule = "qualify" -> Qualified(tree, [n |-> 0, r |-> 0]).node
      [] rule = "annotate_types" -> tree
      [] OTHER -> Transformed(rule, tree, OptionalNames(tree))

(* RuleSet.apply: the rules in their order.                                *)
ApplyAll(rules, tree) == FoldLeft(LAMBDA t, rule : Apply(rule, t), tree, rules)
=============================================================================
