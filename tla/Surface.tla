------------------------------- MODULE Surface -------------------------------
(***************************************************************************)
(* What the clauses that lowering rewrites mean by themselves: LET, FILTER, *)
(* FOR, predicates inside patterns and GROUP BY, clause by clause, without *)
(* rewriting anything.                                                     *)
(***************************************************************************)
EXTENDS Execution

Keeping(test, rows, G) ==
    EachRow(LAMBDA row : LET truth == Eval(test, row, G)
                         IN  IF Failed(truth) THEN <<truth>> ELSE IF IsTrue(truth) THEN <<Row(row)>> ELSE <<>>,
            rows)
KeepingAll(tests, rows, G) == FoldLeft(LAMBDA kept, test : Keeping(test, kept, G), rows, tests)

(* A match is kept when the clause and every element of the pattern agree.  *)
InlineTests(pattern) ==
    LET elements == FlatMap(LAMBDA path : Arg(path, "elements").c, Arg(pattern, "paths").c)
    IN  [k \in DOMAIN elements |-> IF elements[k].t \in {"NodePattern", "RelationshipPattern"}
                                   THEN Arg(elements[k], "where") ELSE None]
Test(where) == IF where.t = "Where" THEN Arg(where, "this") ELSE where
MatchMeans(clause, rows, G) ==
    LET wheres == SelectSeq(<<Arg(clause, "where")>> \o InlineTests(Arg(clause, "pattern")), IsThere)
        tests == [k \in DOMAIN wheres |-> Test(wheres[k])]
        nulls == [x \in Variables(Arg(clause, "pattern")) |-> NullRef]
    IN  EachRow(LAMBDA row :
            LET kept == KeepingAll(tests, Matches(Arg(Arg(clause, "pattern"), "paths").c, row, G), G)
            IN  IF kept = <<>> /\ IsThere(Arg(clause, "optional")) THEN <<Row(row @@ nulls)>> ELSE kept,
            rows)

(* LET: one name after the other, each seen by the next.                   *)
LetMeans(items, rows, G) ==
    FoldLeft(LAMBDA all, item :
                 EachRow(LAMBDA row : LET value == Eval(Arg(item, "this"), row, G)
                                      IN  IF Failed(value) THEN <<value>>
                                          ELSE <<Row(Assign(row, Arg(item, "alias").v, value))>>,
                         all),
             rows, items)

(* FOR x IN list: a row for each item.                                     *)
ForMeans(clause, rows, G) ==
    EachRow(LAMBDA row :
        LET value == Eval(Arg(clause, "expression"), row, G)
            items == IF Is("list", value) THEN value.list ELSE <<value>>
        IN  IF Failed(value) THEN <<value>> ELSE IF IsNullValue(value) THEN <<>>
            ELSE [k \in DOMAIN items |-> Row(Assign(row, Arg(clause, "alias").v, items[k]))],
        rows)

(* GROUP BY: a row for each combination of the keys; an item that does not  *)
(* aggregate is taken from any row of the group.                           *)
KeyMeans(clause, key) ==
    LET items == Range(Arg(clause, "expressions").c)
        named == {item \in items : item.t = "Alias" /\ Arg(item, "alias") = key}
    IN  IF named = {} THEN key ELSE Unaliased(CHOOSE item \in named : TRUE)
GroupByMeans(clause, rows, G) ==
    LET items == Arg(clause, "expressions").c
        keys == Arg(Arg(clause, "group_by"), "expressions").c
        KeyOfRow(r) == [k \in DOMAIN keys |-> Frozen(Eval(KeyMeans(clause, keys[k]), r.row, G))]
        firsts == FirstOfEach(rows, KeyOfRow)
        RowsLike(r) == LET same == SelectSeq(rows, LAMBDA s : KeyOfRow(s) = KeyOfRow(r))
                      IN  [k \in DOMAIN same |-> same[k].row]
    IN  IF Raises(rows) THEN rows
        ELSE [g \in DOMAIN firsts |->
                Row(FoldLeft(LAMBDA new, item :
                        (NameOfItem(item) :> IF IsAggregate(item) THEN Aggregated(item, RowsLike(firsts[g]), G)
                                             ELSE KeptKey(Eval(item, firsts[g].row, G))) @@ new,
                    <<>>, items))]

ClauseMeans(clause, state, G) ==
    CASE clause.t = "Match" -> [state EXCEPT !.rows = MatchMeans(clause, @, G)]
      [] clause.t = "Let" -> [state EXCEPT !.rows = LetMeans(Arg(clause, "items").c, @, G)]
      [] clause.t = "For" -> [state EXCEPT !.rows = ForMeans(clause, @, G)]
      [] clause.t = "Filter" ->
            [state EXCEPT !.rows =
                KeepingAll([k \in DOMAIN Arg(clause, "items").c |->
                              Arg(Arg(clause, "items").c[k], "predicate")], @, G)]
      [] clause.t = "Return" /\ IsThere(Arg(clause, "group_by")) ->
            Projects(clause, NamesOfItems(Arg(clause, "expressions").c), state,
                     GroupByMeans(clause, state.rows, G))
      [] OTHER -> RunClause(clause, state, G)

QueryMeans(tree, G) ==
    Answered(FoldLeft(LAMBDA s, clause : IF Raises(s.rows) THEN s ELSE ClauseMeans(clause, s, G),
                      Start, Arg(Arg(tree, "this"), "clauses").c))
=============================================================================
