---------------------------- MODULE MCProjection -----------------------------
(* Short pipelines over tables of two columns. *)
EXTENDS Projection

Var(as, v)   == [as |-> as, from |-> "var", var |-> v]
Star         == [from |-> "star"]
Agg(as, fn, v, distinct) ==
  [as |-> as, from |-> "agg", fn |-> fn, var |-> v, distinct |-> distinct]
Asc(v)       == [var |-> v, desc |-> FALSE, nulls |-> "none"]
Desc(v)      == [var |-> v, desc |-> TRUE, nulls |-> "none"]
Is(v, value) == [var |-> v, value |-> value]

Shape(op, items) ==
  [op |-> op, items |-> items, distinct |-> FALSE, where |-> NoFilter, order |-> <<>>,
   skip |-> NoFilter, limit |-> NoFilter]
With(items)   == Shape("WITH", items)
Return(items) == Shape("RETURN", items)

a == Var("a", "a")
b == Var("b", "b")

TablesOf(n, as, bs) == UNION {[1..k -> {("a" :> x) @@ ("b" :> y) : x \in as, y \in bs}] : k \in 0..n}

Withs ==
  {[With(<<a>>) EXCEPT !.distinct = TRUE, !.order = <<Desc("b")>>],
   [With(<<a, b>>) EXCEPT !.order = <<Desc("a"), Asc("b")>>, !.skip = 1],
   [With(<<Var("b", "a"), Var("a", "b")>>) EXCEPT
      !.where = Is("a", Number(1)), !.order = <<[Desc("b") EXCEPT !.nulls = "LAST"]>>, !.limit = 2],
   [With(<<Star>>) EXCEPT !.skip = 1, !.limit = -1],
   [With(<<a, Agg("b", "count", EveryRow, FALSE)>>) EXCEPT !.where = Is("b", Number(1)), !.limit = 2],
   [With(<<b>>) EXCEPT !.where = Is("a", Number(2))],
   [op |-> "UNWIND", var |-> "a", as |-> "b"],
   [op |-> "CALL", answer |-> <<"l" :> Number(1), "l" :> Number(2)>>, yield |-> "l", as |-> "b",
    where |-> Is("a", Number(1))],
   [op |-> "CALL", answer |-> <<>>, yield |-> "l", as |-> "a", where |-> NoFilter]}

Returns ==
  {[Return(<<a, b>>) EXCEPT !.order = <<Asc("b"), Desc("a")>>, !.skip = 1, !.limit = 1],
   [Return(<<b>>) EXCEPT !.distinct = TRUE],
   [Return(<<Var("k", "b"), Agg("n", "count", "a", TRUE)>>) EXCEPT !.order = <<Desc("k"), Asc("n")>>],
   Return(<<Agg("s", "sum", "a", FALSE)>>),
   [Return(<<[as |-> "c", from |-> "const", value |-> Number(0)], a>>) EXCEPT
      !.order = <<[Asc("a") EXCEPT !.nulls = "FIRST"]>>, !.skip = -2, !.limit = 1]}

Alone(reads, clauses) == <<[reads |-> reads, clauses |-> clauses, distinct |-> FALSE]>>

\* A list that an aggregate has made and UNWIND takes apart again.
Collected == With(<<b, Agg("a", "collect", "a", FALSE)>>)

MCTables ==
  [numbers |-> TablesOf(3, {NullRef, Number(1), Number(2)}, {Number(1), Number(2)}),
   mixed   |-> TablesOf(3, {NullRef, Number(1), NodeRef(1)}, {NullRef, Number(1)}),
   nodes   |-> TablesOf(3, {NullRef, NodeRef(1), NodeRef(2)}, {Number(1)}),
   short   |-> TablesOf(2, {NullRef, Number(1)}, {Number(1)})]

\* Three operands, with and without ALL.
MCUnions ==
  LET operand(distinct) == [reads |-> "short", clauses |-> <<Return(<<a>>)>>, distinct |-> distinct]
  IN  {<<operand(FALSE), operand(d), operand(e)>> : d \in BOOLEAN, e \in BOOLEAN}

MCQueries ==
  {Alone("numbers", <<v, w, r>>) : v \in Withs, w \in Withs, r \in Returns}
  \union {Alone("mixed", <<Collected, [op |-> "UNWIND", var |-> "a", as |-> "a"], r>>) : r \in Returns}
  \union MCUnions

\* Grouping by a node or null, ordered by the key.
MCGrouped ==
  {Alone("nodes", <<[Return(<<a, Agg("n", "count", EveryRow, FALSE)>>) EXCEPT
                 !.order = <<[Asc("a") EXCEPT !.nulls = n]>>]>>) : n \in {"FIRST", "LAST"}}
==============================================================================
