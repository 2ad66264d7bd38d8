------------------------------- MODULE Scoping -------------------------------
(***************************************************************************)
(* The check for undefined variables (dialects/validate/undefined_vars.py), *)
(* CG1201: which names a clause may use, and which it leaves for the next. *)
(***************************************************************************)
EXTENDS Trees

(* _alias_name *)
AliasName(item) == CASE item.t = "Alias" -> {Arg(item, "alias").v}
                     [] item.t = "Identifier" -> {item.v} [] OTHER -> {}
AliasNames(items) == UNION {AliasName(item) : item \in Range(items)}

NamesOf(nodes) == {Arg(n, "variable").v : n \in {n \in nodes : Arg(n, "variable").t = "Identifier"}}
Elements(node) == FindAll(node, {"NodePattern", "RelationshipPattern"})

(* _local_binders: the names bound anywhere inside an expression, which are *)
(* then nowhere in it asked for.                                           *)
LocalBinders(node) ==
    LET comprehensions == FindAll(node, {"ListComprehension", "PatternComprehension", "Quantifier",
                                         "ListLambda"})
        patterns == FindAll(node, {"PatternPredicate"})
                        \cup {Arg(n, "pattern") : n \in FindAll(node, {"PatternComprehension"})}
    IN  UNION {NamesOf(Elements(p)) : p \in patterns} \cup NamesOf(comprehensions)
            \cup {Arg(n, "accumulator").v : n \in FindAll(node, {"ListLambda"})}

(* _refs: the names an expression uses, but for the argument of a function *)
(* of that name.                                                           *)
RECURSIVE Refs(_)
Refs(node) ==
    CASE node.t \in {"tuple", "name", "None"} -> {}
      [] node.t = "Identifier" -> {node.v}
      [] node.t = "FunctionCall" ->
            UNION {Refs(arg) : arg \in Range(Arg(node, "expressions").c)
                                         \ {Identifier(Arg(node, "name").v)}}
      [] OTHER -> UNION {Refs(child) : child \in Range(node.c)}
FreeNames(node) == Refs(node) \ LocalBinders(node)

PatternScope(pattern) == NamesOf(Elements(pattern)) \cup NamesOf(FindAll(pattern, {"PathPattern"}))
Trailing(clause) == Refs(Arg(clause, "order")) \cup Refs(Arg(clause, "skip")) \cup Refs(Arg(clause, "limit"))
ItemsOf(clause) == Arg(clause, "expressions").c
(* A bug: a WITH never ends a scope. *)
AlwaysStar(clause) == TRUE
HasStar(clause) == \E k \in DOMAIN ItemsOf(clause) : ItemsOf(clause)[k].t = "Star"
ItemNames(clause) == UNION {FreeNames(Unaliased(item)) : item \in Range(ItemsOf(clause))}

Inner(query) == IF query.t = "Cypher" THEN Arg(query, "this") ELSE query
RECURSIVE Exported(_)
Exported(query) ==
    LET returns == SelectSeq(Arg(query, "clauses").c, LAMBDA clause : clause.t = "Return")
    IN  CASE query.t = "Cypher" -> Exported(Arg(query, "this"))
          [] query.t = "Union" -> Exported(Arg(query, "this")) \cup Exported(Arg(query, "expression"))
          [] query.t = "Query" /\ returns # <<>> -> AliasNames(ItemsOf(returns[Len(returns)]))
          [] OTHER -> {}

(* The names a clause uses of those it may not, and the scope it leaves.   *)
RECURSIVE Checked(_, _, _)
Visited(clause, s) ==
    LET asked == CASE clause.t \in {"Match", "Create", "Merge"} -> PatternScope(Arg(clause, "pattern"))
                   [] OTHER -> {}
        projected == (IF HasStar(clause) THEN s.scope ELSE {}) \cup AliasNames(ItemsOf(clause))
        yielded == IF IsThere(Arg(clause, "yield_")) THEN AliasNames(ItemsOf(Arg(clause, "yield_"))) ELSE {}
        inner == Inner(Arg(clause, "query"))
        branches == IF inner.t = "Query" THEN {inner} ELSE FindAll(inner, {"Query"})
        imported == CASE Arg(clause, "variables").t = "Star" -> s.scope
                      [] Arg(clause, "variables").t = "list" ->
                            {n.v : n \in Range(Arg(clause, "variables").c)} \cap s.scope
                      [] OTHER -> {}
    IN
    CASE clause.t = "Match" ->
            [s EXCEPT !.scope = @ \cup asked,
                      !.bad = @ \cup (FreeNames(Arg(clause, "where")) \ (s.scope \cup asked))]
      [] clause.t \in {"Create", "Merge"} -> [s EXCEPT !.scope = @ \cup asked]
      [] clause.t = "With" ->
            [scope |-> projected, enclosing |-> {},
             bad |-> s.bad \cup (ItemNames(clause) \ (s.scope \cup s.enclosing))
                         \cup ((FreeNames(Arg(clause, "where")) \cup Trailing(clause)) \ projected)]
      [] clause.t = "Unwind" ->
            [s EXCEPT !.scope = @ \cup {Arg(clause, "alias").v},
                      !.bad = @ \cup (Refs(Arg(clause, "expression")) \ s.scope)]
      [] clause.t = "CallProcedure" ->
            [s EXCEPT !.scope = @ \cup yielded,
                      !.bad = @ \cup (Refs(Arg(clause, "expressions")) \ s.scope)
                                \cup (Refs(Arg(clause, "where")) \ (s.scope \cup yielded))]
      [] clause.t = "CallSubquery" ->
            [s EXCEPT !.scope = @ \cup Exported(Arg(clause, "query")),
                      !.bad = @ \cup UNION {Checked(branch, imported, s.scope) : branch \in branches}]
      [] clause.t \in {"Set", "Remove"} -> [s EXCEPT !.bad = @ \cup (Refs(Arg(clause, "items")) \ s.scope)]
      [] clause.t = "Delete" -> [s EXCEPT !.bad = @ \cup (Refs(Arg(clause, "expressions")) \ s.scope)]
      [] clause.t = "Return" ->
            [s EXCEPT !.bad = @ \cup (ItemNames(clause) \ s.scope)
                                \cup (Trailing(clause) \ (s.scope \cup AliasNames(ItemsOf(clause))))]
      [] OTHER -> s

(* _check_query: the undefined names of a query.                           *)
Checked(query, initial, enclosing) ==
    FoldLeft(LAMBDA s, clause : Visited(clause, s),
             [scope |-> initial, enclosing |-> enclosing, bad |-> {}], Arg(query, "clauses").c).bad

UndefinedNames(tree) ==
    LET root == Inner(tree)
    IN  UNION {Checked(query, {}, {}) : query \in IF root.t = "Query" THEN {root}
                                                   ELSE IF root.t = "Union" THEN FindAll(root, {"Query"})
                                                   ELSE {}}
=============================================================================
