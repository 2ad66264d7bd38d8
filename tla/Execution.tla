----------------------------- MODULE Execution -----------------------------
(***************************************************************************)
(* The reading clauses of the executor (executor/engine.py) on syntax      *)
(* trees: what run_query answers.  The modules MatchClause and Projection  *)
(* take the same clauses step by step; this one is their meaning, for      *)
(* comparing two trees.  An answer is a sequence of rows or an exception.  *)
(***************************************************************************)
EXTENDS Evaluation, Trees, Renderer

-----------------------------------------------------------------------------
(* Rows of values. *)

(* Every row through F, which gives a sequence of rows or of exceptions.   *)
EachRow(F(_), rows) ==
    Joined([k \in DOMAIN rows |-> IF Failed(rows[k]) THEN <<rows[k]>> ELSE F(rows[k].row)])
Row(row) == [row |-> row]
Raises(rows) == \E k \in DOMAIN rows : Failed(rows[k])

(* What is left of a match or a row by a test: itself, nothing, or the     *)
(* exception of the test.                                                  *)
KeptBy(test, thing) == IF Failed(test) THEN <<test>> ELSE IF IsTrue(test) THEN <<thing>> ELSE <<>>
RowsThat(where, rows, G) ==
    Joined([k \in DOMAIN rows |-> IF Failed(rows[k]) THEN <<rows[k]>>
                                  ELSE KeptBy(TestOf(where, rows[k].row, G), Row(rows[k].row))])

(* _proj_name: an expression without a name is named by its text.          *)
NameOfItem(item) ==
    CASE item.t = "Alias" -> Arg(item, "alias").v
      [] item.t = "Identifier" -> item.v
      [] item.t = "Property" /\ Arg(item, "this").t = "Identifier" ->
            Arg(item, "this").v \o <<".">> \o Arg(item, "name").v
      [] item.t = "Property" -> Arg(item, "name").v
      [] item.t = "FunctionCall" -> Arg(item, "name").v
      [] OTHER -> Render(item, "none")

(* What DISTINCT and grouping compare: numbers and strings are left as     *)
(* they are, the rest is frozen into tuples.                               *)
Frozen(value) ==
    IF Is("str", value) \/ Is("frozen", value) THEN value
    ELSE IF IsNumber(value) THEN IntValue(NumberOf(value)) ELSE [frozen |-> value]
KeptKey(value) == IF IsNumber(value) THEN value ELSE Frozen(value)

FirstOfEach(s, Key(_)) ==
    FoldLeft(LAMBDA kept, x : IF \E k \in DOMAIN kept : Key(kept[k]) = Key(x) THEN kept
                              ELSE Append(kept, x),
             <<>>, s)

-----------------------------------------------------------------------------
(* Aggregates. *)

(* avg gives a float and is left out. *)
AGGREGATE_FUNCTIONS == {"count", "sum", "min", "max", "collect"}
IsAggregate(item) == Calls(item, AGGREGATE_FUNCTIONS)
Aggregates(clause) == \E k \in DOMAIN Arg(clause, "expressions").c :
                          IsAggregate(Arg(clause, "expressions").c[k])

AggregateOf(name, all, vals) ==
    LET numbers == <<>> \o [k \in DOMAIN vals |-> NumberOf(vals[k])]
    IN  Strict(all,
               CASE name = "count" -> IntValue(Len(vals))
                 [] name = "collect" -> ListValue(vals)
                 [] vals = <<>> -> NullRef
                 [] \E k \in DOMAIN vals : ~IsNumber(vals[k]) -> Raised("TypeError")
                 [] name = "sum" -> IntValue(FoldLeft(LAMBDA m, n : m + n, 0, numbers))
                 [] name = "min" -> IntValue(Min(Range(numbers)))
                 [] name = "max" -> IntValue(Max(Range(numbers))))
Counted(values, distinct) ==
    LET some == SelectSeq(values, LAMBDA v : ~IsNullValue(v))
    IN  IF distinct THEN FirstOfEach(some, Frozen) ELSE some
OfCall(call, all) ==
    AggregateOf(Arg(call, "name").v[1], all, Counted(all, IsThere(Arg(call, "distinct"))))
Aggregated(item, rows, G) ==
    LET call == Unaliased(item)
        argument == Arg(call, "expressions").c
    IN  IF Calls(item, {"count"}) /\ argument # <<>> /\ argument[1].t = "Star" THEN IntValue(Len(rows))
        ELSE OfCall(call, <<>> \o [k \in DOMAIN rows |-> Eval(argument[1], rows[k], G)])

(* _aggregate_return: a row for each combination of the other items, which *)
(* come out frozen.                                                        *)
NewRow(names, values) ==
    Strict(values, Row(FoldLeft(LAMBDA row, k : (names[k] :> values[k]) @@ row,
                                <<>>, [k \in DOMAIN names |-> k])))
NamesOfItems(items) == <<>> \o [k \in DOMAIN items |-> NameOfItem(items[k])]
(* The column of an item, from the first row of its group or from all.     *)
GroupItem(items, i, values, rows, G) ==
    IF IsAggregate(items[i]) THEN Aggregated(items[i], rows, G)
    ELSE KeptKey(values[Len(SelectSeq(SubSeq(items, 1, i), LAMBDA x : ~IsAggregate(x)))])
GroupRow(items, names, values, rows, G) ==
    NewRow(names, <<>> \o [i \in DOMAIN items |-> GroupItem(items, i, values, rows, G)])
FrozenKey(r) == <<>> \o [k \in DOMAIN r.values |-> Frozen(r.values[k])]
Fellows(r, keyed) == SelectSeq(keyed, LAMBDA s : FrozenKey(s) = FrozenKey(r))
RowsOf(keyed) == <<>> \o [k \in DOMAIN keyed |-> keyed[k].row]
EachGroup(items, names, firsts, keyed, G) ==
    <<>> \o [g \in DOMAIN firsts |->
        GroupRow(items, names, firsts[g].values, RowsOf(Fellows(firsts[g], keyed)), G)]
GroupsOf(items, names, keyed, G) ==
    LET failed == SelectSeq(keyed, LAMBDA r : \E k \in DOMAIN r.values : Failed(r.values[k]))
    IN  IF failed # <<>> THEN <<Strict(failed[1].values, NullRef)>>
        ELSE EachGroup(items, names, FirstOfEach(keyed, FrozenKey), keyed, G)
Groups(items, names, rows, G) ==
    LET others == SelectSeq(items, LAMBDA i : ~IsAggregate(i))
    IN  GroupsOf(items, names, <<>> \o [k \in DOMAIN rows |-> [row |-> rows[k].row,
                                                 values |-> EvalAll(others, rows[k].row, G)]], G)

-----------------------------------------------------------------------------
(* Clauses: each takes rows to rows. *)

Variables(pattern) ==
    {Arg(n, "variable").v : n \in {n \in FindAll(pattern, {"NodePattern", "RelationshipPattern",
                                                           "PathPattern"}) :
                                     IsThere(Arg(n, "variable"))}}

OrNulls(kept, clause, row) ==
    IF kept = <<>> /\ IsThere(Arg(clause, "optional"))
    THEN <<Row(row @@ [x \in Variables(Arg(clause, "pattern")) |-> NullRef])>> ELSE kept
MatchedRow(clause, row, G) ==
    OrNulls(RowsThat(Arg(clause, "where"), Matches(Arg(Arg(clause, "pattern"), "paths").c, row, G), G),
            clause, row)
Matched(clause, rows, G) ==
    Joined([k \in DOMAIN rows |-> MatchedRow(clause, rows[k].row, G)])

(* UNWIND: a row for each item of a list; a value is a list of itself.     *)
ItemRows(value, row, name) ==
    LET items == IF Is("list", value) THEN value.list ELSE <<value>>
    IN  IF Failed(value) THEN <<value>> ELSE IF IsNullValue(value) THEN <<>>
        ELSE <<>> \o [k \in DOMAIN items |-> Row(Assign(row, name, items[k]))]
Unwound(clause, rows, G) ==
    Joined([k \in DOMAIN rows |-> ItemRows(Eval(Arg(clause, "expression"), rows[k].row, G), rows[k].row,
                                           Arg(clause, "alias").v)])

(* The row that the items of a projection make of a row; the names of later *)
(* ones win.                                                               *)
Column(item, name, value, row) ==
    IF item.t = "Star" THEN Row(row) ELSE IF Failed(value) THEN value ELSE Row(name :> value)
Merged(parts) == Strict(parts, Row(FoldLeft(LAMBDA row, part : part.row @@ row, <<>>, parts)))
ProjectedRow(items, names, row, G) ==
    Merged(<<>> \o [k \in DOMAIN items |->
                     Column(items[k], names[k], Eval(items[k], row, G), row)])

(* _order_paired by one key, in a stable order.                            *)
OrderNumber(value) ==
    CASE IsNumber(value) -> NumberOf(value) [] Is("node", value) -> value.node
      [] Is("rel", value) -> value.rel [] OTHER -> 0
OrderedBy(pairs, key, by) ==
    LET desc == IsThere(Arg(key, "desc"))
        nullsFirst == \/ Arg(key, "nulls").v = <<"FIRST">>
                      \/ ~IsThere(Arg(key, "nulls")) /\ desc
        Before(i, j) == LET m == OrderNumber(by[i])  n == OrderNumber(by[j])
                        IN  \/ m # n /\ (m < n) # desc
                            \/ m = n /\ i < j
        rest == {k \in DOMAIN pairs : ~IsNullValue(by[k])}
        nulls == SelectSeq([k \in DOMAIN pairs |-> k], LAMBDA k : IsNullValue(by[k]))
        sorted == [p \in 1..Cardinality(rest) |->
                     CHOOSE i \in rest : Cardinality({j \in rest : Before(j, i)}) = p - 1]
        order == IF nullsFirst THEN nulls \o sorted ELSE sorted \o nulls
    IN  IF \E k \in DOMAIN by : Failed(by[k]) THEN <<Strict(by, NullRef)>>
        ELSE <<>> \o [p \in DOMAIN order |-> pairs[order[p]]]
Ordered(pairs, key, G) ==
    IF Raises(pairs) THEN pairs
    ELSE OrderedBy(pairs, key, <<>> \o [k \in DOMAIN pairs |->
                                  Eval(Arg(key, "this"), pairs[k].new @@ pairs[k].old, G)])

CountIn(clause, G) == NumberOf(Eval(Arg(clause, "this"), <<>>, G))

(* _project after its items: DISTINCT, the WHERE of a WITH, ORDER BY, SKIP *)
(* and LIMIT, of pairs of an old row and a new one.                        *)
Distinct(clause, pairs) ==
    IF IsThere(Arg(clause, "distinct")) /\ ~Raises(pairs)
    THEN FirstOfEach(pairs, LAMBDA p : [x \in DOMAIN p.new |-> Frozen(p.new[x])]) ELSE pairs
Filtered(where, pairs, G) ==
    Joined([k \in DOMAIN pairs |-> IF Failed(pairs[k]) THEN <<pairs[k]>>
                                   ELSE KeptBy(TestOf(where, pairs[k].new, G), pairs[k])])
RECURSIVE SortedBy(_, _, _)
SortedBy(keys, pairs, G) ==
    IF keys = <<>> THEN pairs ELSE SortedBy(Front(keys), Ordered(pairs, Last(keys), G), G)
Sorted(clause, pairs, G) ==
    IF IsThere(Arg(clause, "order")) THEN SortedBy(Arg(Arg(clause, "order"), "expressions").c, pairs, G)
    ELSE pairs
Skipped(clause, pairs, G) ==
    IF IsThere(Arg(clause, "skip")) THEN SubSeq(pairs, CountIn(Arg(clause, "skip"), G) + 1, Len(pairs))
    ELSE pairs
Limited(clause, pairs, G) ==
    IF IsThere(Arg(clause, "limit"))
    THEN SubSeq(pairs, 1, Min({CountIn(Arg(clause, "limit"), G), Len(pairs)}))
    ELSE pairs
NewRows(pairs) ==
    <<>> \o [k \in DOMAIN pairs |-> IF Failed(pairs[k]) THEN pairs[k] ELSE Row(pairs[k].new)]
Portion(clause, pairs, G) ==
    IF Raises(pairs) THEN pairs ELSE Limited(clause, Skipped(clause, pairs, G), G)
Finished(clause, where, pairs, G) ==
    NewRows(Portion(clause, Sorted(clause, Filtered(where, Distinct(clause, pairs), G), G), G))

(* WITH and RETURN.  The WHERE of a WITH that aggregates comes last.       *)
PairsOf(rows, news) ==
    <<>> \o [k \in DOMAIN news |-> IF Failed(news[k]) THEN news[k]
                                   ELSE [old |-> rows[k].row, new |-> news[k].row]]
Alone(news) == PairsOf(news, news)
MadeRows(clause, names, first, last, rows, G) ==
    LET items == Arg(clause, "expressions").c IN
    IF Raises(rows) THEN rows
    ELSE RowsThat(last,
                  Finished(clause, first,
                           OrItsFailure(IF Aggregates(clause) THEN Alone(Groups(items, names, rows, G))
                                        ELSE PairsOf(rows, <<>> \o [k \in DOMAIN rows |->
                                                              ProjectedRow(items, names, rows[k].row, G)])), G), G)
ProjectedRows(clause, names, rows, G) ==
    LET where == IF clause.t = "With" THEN Arg(clause, "where") ELSE None
        aggregates == Aggregates(clause)
    IN  MadeRows(clause, names, IF aggregates THEN None ELSE where, IF aggregates THEN where ELSE None, rows, G)

(* run_query.  The answer is the rows of RETURN, by the position of their  *)
(* columns; those of RETURN * have no order but names.  CALL { } runs its  *)
(* query and keeps its own rows.                                           *)
ByPosition(clause, names, rows) ==
    IF \E item \in Range(Arg(clause, "expressions").c) : item.t = "Star" THEN rows
    ELSE [k \in DOMAIN rows |-> [i \in DOMAIN names |-> rows[k].row[names[i]]]]

RECURSIVE RunClauses(_, _, _)
Start == [rows |-> <<Row(<<>>)>>, result |-> <<>>]
InnerQuery(query) == IF query.t = "Cypher" THEN Arg(query, "this") ELSE query
Projects(clause, names, state, made) ==
    IF clause.t = "With" \/ Raises(made) THEN [state EXCEPT !.rows = made]
    ELSE [rows |-> <<>>, result |-> ByPosition(clause, names, made)]
Project(clause, names, state, G) ==
    Projects(clause, names, state, ProjectedRows(clause, names, state.rows, G))
AfterCall(state, ran) == IF Raises(ran.rows) THEN [state EXCEPT !.rows = ran.rows] ELSE state
RunClause(clause, state, G) ==
    CASE clause.t = "Match" -> [state EXCEPT !.rows = Matched(clause, @, G)]
      [] clause.t = "Unwind" -> [state EXCEPT !.rows = Unwound(clause, @, G)]
      [] clause.t \in {"With", "Return"} ->
            Project(clause, NamesOfItems(Arg(clause, "expressions").c), state, G)
      [] clause.t = "CallSubquery" ->
            IF InnerQuery(Arg(clause, "query")).t # "Query" THEN state
            ELSE AfterCall(state, RunClauses(Arg(InnerQuery(Arg(clause, "query")), "clauses").c, Start, G))
      [] OTHER -> [state EXCEPT !.rows = <<Raised("CG1702")>>]

(* The clauses in their order, until one raises.                           *)
RunClauses(clauses, state, G) ==
    IF clauses = <<>> \/ Raises(state.rows) THEN state
    ELSE RunClauses(Tail(clauses), RunClause(Head(clauses), state, G), G)

Answered(end) == IF Raises(end.rows) THEN SelectSeq(end.rows, Failed)[1] ELSE [answer |-> end.result]
RunQuery(query, G) == Answered(RunClauses(Arg(query, "clauses").c, Start, G))

(* run_union, and execute on what lowering left.                           *)
Both(left, right, distinct) ==
    LET Key(row) == [k \in DOMAIN row |-> Frozen(row[k])]
    IN  Strict(<<left, right>>,
               [answer |-> IF distinct THEN FirstOfEach(left.answer \o right.answer, Key)
                           ELSE left.answer \o right.answer])
RECURSIVE Run(_, _)
Run(tree, G) ==
    LET query == InnerQuery(tree)
    IN  CASE query.t = "Query" -> RunQuery(query, G)
          [] query.t = "Union" ->
                Both(Run(Arg(query, "this"), G), Run(Arg(query, "expression"), G),
                     IsThere(Arg(query, "distinct")))
          [] OTHER -> Raised("CG1702")
=============================================================================
