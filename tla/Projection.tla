------------------------------ MODULE Projection ------------------------------
(****************************************************************************)
(* The clauses that reshape rows (cypherast/executor/engine.py): WITH and   *)
(* RETURN with DISTINCT, WHERE, ORDER BY, SKIP, LIMIT and aggregates,       *)
(* UNWIND, CALL, and UNION.  A query is a sequence of parts, the operands   *)
(* of its UNIONs; a part begins with the rows that its MATCH clauses have   *)
(* given.  A clause goes through the stages that _project runs in a row,    *)
(* one per step, and one pass per key of ORDER BY.                          *)
(*                                                                          *)
(* Expressions are variables, constants and aggregates of a variable, and   *)
(* conditions compare a variable with a value.                              *)
(****************************************************************************)
EXTENDS PathMatch

CONSTANTS Queries,  \* sequences of parts [reads, clauses, distinct]
          Tables    \* what the MATCH clauses of a part can give: for each of
                    \* the names that parts have in "reads", a set of rows

\* What the parser and MATCH let through: SKIP and LIMIT are integers, and a table
\* holds no lists of lists.  (Lists of lists come about by collect.)
IsFlat(v) ==
  "list" \in DOMAIN v =>
    /\ v.list \in Seq(Range(v.list))
    /\ \A w \in Range(v.list) : "list" \notin DOMAIN w

EveryRow == "*"     \* the argument of count(*)

IsItem(item) ==
  /\ item.from \in {"star", "var", "const", "agg"}
  /\ item.from = "agg" => /\ item.fn \in {"count", "collect", "sum"}
                          /\ item.var = EveryRow => item.fn = "count"
  /\ item.from = "const" => IsFlat(item.value)

IsClause(c) ==
  /\ c.op \in {"WITH", "RETURN", "UNWIND", "CALL"}
  /\ c.op \in {"WITH", "RETURN"} =>
       /\ c.items \in Seq(Range(c.items)) /\ \A item \in Range(c.items) : IsItem(item)
       /\ c.order \in Seq(Range(c.order))
       /\ c.skip \in Int \union {NoFilter} /\ c.limit \in Int \union {NoFilter}
  /\ c.op = "CALL" =>
       /\ c.answer \in Seq(Range(c.answer))
       /\ \A row \in Range(c.answer), x \in {c.yield} : Bound(row, x) => IsFlat(row[x])

IsPart(p) ==
  /\ p.clauses \in Seq(Range(p.clauses)) /\ \A c \in Range(p.clauses) : IsClause(c)
  /\ \A t \in Tables[p.reads] :
       t \in Seq(Range(t)) /\ \A row \in Range(t) : \A x \in DOMAIN row : IsFlat(row[x])

ASSUME QueriesAssumption ==
  \A query \in Queries : query \in Seq(Range(query)) /\ \A p \in Range(query) : IsPart(p)

VARIABLES parts,  \* the parts left, the one that runs first
          union,  \* the result rows of the parts that have run
          todo,   \* the clauses left of the part, the one that runs first
          rows,   \* the rows that clause is given
          phase,  \* how far it is
          pairs,  \* its rows, before and after the projection
          keys,   \* the keys that ORDER BY still has to sort by
          table   \* the result rows of the part

pvars == <<parts, union, todo, rows, phase, pairs, keys, table>>

part   == Head(parts)
clause == Head(todo)

EmptyRow == [x \in {} |-> NullRef]

------------------------------------------------------------------------------
\* Values: those of rows, numbers, lists, and the tuples that _freeze makes of
\* everything but numbers.  What is frozen already it takes for a number.
Number(i) == [number |-> i]
List(s)   == [list |-> s]

IsNull(v)   == v = NullRef
IsNumber(v) == "number" \in DOMAIN v
HoldsList(v)   == "list" \in DOMAIN v
IsFrozen(v) == "frozen" \in DOMAIN v

FreezeAtom(v) == IF IsNumber(v) \/ IsFrozen(v) THEN v ELSE [frozen |-> v]

Freeze(v) ==
  IF HoldsList(v) THEN [frozen |-> List([i \in DOMAIN v.list |-> FreezeAtom(v.list[i])])]
  ELSE FreezeAtom(v)

FreezeRow(row) == [x \in DOMAIN row |-> Freeze(row[x])]

\* Python's s[n:] and s[:n]: a negative bound counts from the end.
Bounded(s, n) == IF n < 0 THEN Max({Len(s) + n, 0}) ELSE Min({n, Len(s)})

LimitThenSkip(s, skip, limit) ==
  LET page == IF limit = NoFilter THEN s ELSE SubSeq(s, 1, Bounded(s, limit))
  IN  IF skip = NoFilter THEN page ELSE SubSeq(page, Bounded(page, skip) + 1, Len(page))

SkipThenLimit(s, skip, limit) ==
  LET page == IF skip = NoFilter THEN s ELSE SubSeq(s, Bounded(s, skip) + 1, Len(s))
  IN  IF limit = NoFilter THEN page ELSE SubSeq(page, 1, Bounded(page, limit))

\* What Python sorts by.  Tuples do not compare with numbers, and the tuple of
\* a null comes after those of nodes.
Comparable(v, w) == IsFrozen(v) = IsFrozen(w)

OrderOf(v) == IF IsNumber(v) THEN v.number ELSE v.node

Less(v, w) ==
  IF IsFrozen(v)
  THEN ~IsNull(v.frozen) /\ (IsNull(w.frozen) \/ OrderOf(v.frozen) < OrderOf(w.frozen))
  ELSE OrderOf(v) < OrderOf(w)

\* The elements of s whose key, at the same index of key, none before them has.
Uniq(s, key) ==
  LET kept[k \in 0..Len(s)] ==
        IF k = 0 THEN <<>>
        ELSE LET out == kept[k - 1]
             IN  IF \E n \in DOMAIN out : key[out[n]] = key[k] THEN out ELSE Append(out, k)
  IN  [n \in DOMAIN kept[Len(s)] |-> s[kept[Len(s)][n]]]

FreezeAll(s) == [i \in DOMAIN s |-> Freeze(s[i])]

------------------------------------------------------------------------------
\* Expressions: [as, from |-> "var", var], [as, from |-> "const", value],
\* [as, from |-> "agg", fn, var, distinct] and [from |-> "star"].
IsAgg(item)        == item.from = "agg"
Aggregates(c)      == \E i \in DOMAIN c.items : IsAgg(c.items[i])
NeedsVar(item)     == item.from = "var" \/ (IsAgg(item) /\ item.var # EveryRow)
Known(item, row)   == NeedsVar(item) => Bound(row, item.var)
Value(item, row)   == IF item.from = "var" THEN row[item.var] ELSE item.value

\* {**row, **new}, and {var: value}
Updated(row, new) ==
  [x \in DOMAIN row \union DOMAIN new |-> IF x \in DOMAIN new THEN new[x] ELSE row[x]]

Cell(var, v) == [x \in {var} |-> v]

\* A row that its pieces fill one after the other, later ones over earlier ones.
Filled(pieces) ==
  LET new[k \in 0..Len(pieces)] == IF k = 0 THEN EmptyRow ELSE Updated(new[k - 1], pieces[k])
  IN  new[Len(pieces)]

ProjectRow(items, row) ==
  Filled([k \in DOMAIN items |-> IF items[k].from = "star" THEN row
                                 ELSE Cell(items[k].as, Value(items[k], row))])

ArgumentsWithNulls(item, group) ==
  LET all == [i \in DOMAIN group |-> group[i][item.var]]
  IN  IF item.distinct THEN Uniq(all, FreezeAll(all)) ELSE all

\* The values of an aggregate's argument over the rows of a group.
Arguments(item, group) ==
  LET all   == [i \in DOMAIN group |-> group[i][item.var]]
      known == Select(all, LAMBDA v : ~IsNull(v))
  IN  IF item.distinct THEN Uniq(known, FreezeAll(known)) ELSE known

SumOf(vals) == FoldLeft(LAMBDA sum, v : sum + v.number, 0, vals)

Summable(vals) == \A i \in DOMAIN vals : IsNumber(vals[i])

Aggregate(item, group) ==
  IF item.var = EveryRow THEN Number(Len(group))
  ELSE LET vals == Arguments(item, group)
       IN  CASE item.fn = "count"   -> Number(Len(vals))
             [] item.fn = "collect" -> List(vals)
             [] item.fn = "sum"     -> IF vals = <<>> THEN NullRef ELSE Number(SumOf(vals))

GroupKey(items, row) ==
  LET keyItems == Select(items, LAMBDA item : ~IsAgg(item))
  IN  [i \in DOMAIN keyItems |-> Freeze(Value(keyItems[i], row))]

\* The row of a group: where the code has no aggregate it puts the frozen key.
GroupRow(items, group) ==
  Filled([k \in DOMAIN items |->
            Cell(items[k].as, IF IsAgg(items[k]) THEN Aggregate(items[k], group)
                              ELSE Freeze(Value(items[k], Head(group))))])

GroupsOf(items, given) ==
  LET first == Uniq(given, [i \in DOMAIN given |-> GroupKey(items, given[i])])
  IN  [g \in DOMAIN first |->
         Select(given, LAMBDA row : GroupKey(items, row) = GroupKey(items, first[g]))]

\* WHERE: var = value, and a comparison with null is not true.
Satisfies(where, row) ==
  where # NoFilter => row[where.var] = where.value /\ ~IsNull(where.value)

Satisfying(s, where)      == Select(s, LAMBDA row : Satisfies(where, row))
SatisfyingPairs(s, where) == Select(s, LAMBDA p : Satisfies(where, p.proj))

CanTest(where, row) == where # NoFilter => Bound(row, where.var)

------------------------------------------------------------------------------
PInit ==
  /\ parts \in Queries
  /\ union = <<>>
  /\ todo = <<>>
  /\ rows = <<>>
  /\ phase = "start"
  /\ pairs = <<>>
  /\ keys = <<>>
  /\ table = <<>>

BeginPart ==
  /\ phase = "start" /\ parts # <<>>
  /\ phase' = "clause"
  /\ todo' = part.clauses
  /\ rows' \in Tables[part.reads]
  /\ table' = <<>>
  /\ UNCHANGED <<parts, union, pairs, keys>>

\* An exception ends the query.
Raise ==
  /\ phase' = "raised"
  /\ UNCHANGED <<parts, union, todo, rows, pairs, keys, table>>

YieldKeepingPairs(newRows, newTable) ==
  /\ phase' = "clause"
  /\ todo' = Tail(todo)
  /\ rows' = newRows
  /\ table' = newTable
  /\ UNCHANGED <<parts, union, pairs, keys>>

\* The clause is done: its rows, or for RETURN the result, are complete.
Yield(newRows, newTable) ==
  /\ phase' = "clause"
  /\ todo' = Tail(todo)
  /\ rows' = newRows
  /\ table' = newTable
  /\ pairs' = <<>>
  /\ UNCHANGED <<parts, union, keys>>

Begins(op)  == phase = "clause" /\ todo # <<>> /\ clause.op = op
Reshapes(c) == c.op \in {"WITH", "RETURN"}

\* UNWIND: null gives no row, a list one for each element, anything else one.
ElementsOf(v) == IF IsNull(v) THEN <<>> ELSE IF HoldsList(v) THEN v.list ELSE <<v>>

Unwound(s, var, as) ==
  FlatMap(LAMBDA row : LET vals == ElementsOf(row[var])
                       IN  [i \in DOMAIN vals |-> Assign(row, as, vals[i])], s)

Unwind ==
  /\ Begins("UNWIND")
  /\ \A i \in DOMAIN rows : Bound(rows[i], clause.var)
  /\ Yield(Unwound(rows, clause.var, clause.as), table)

\* CALL name() YIELD: an answer without rows counts as one empty row, and so
\* does a clause that is left without rows.
Yielded(c) ==
  LET answer == IF c.answer = <<>> THEN <<EmptyRow>> ELSE c.answer
      yields(row) ==
        [i \in DOMAIN answer |->
           Assign(row, c.as, IF Bound(answer[i], c.yield) THEN answer[i][c.yield] ELSE NullRef)]
  IN  FlatMap(LAMBDA row : yields(row), rows)

CallProcedure ==
  /\ Begins("CALL")
  /\ \A i \in DOMAIN Yielded(clause) : CanTest(clause.where, Yielded(clause)[i])
  /\ LET kept == Satisfying(Yielded(clause), clause.where)
     IN  Yield(IF kept = <<>> THEN <<EmptyRow>> ELSE kept, table)

\* _project makes a row of each; the row it was made of stays at its side.
Project ==
  /\ phase = "clause" /\ todo # <<>> /\ Reshapes(clause)
  /\ ~Aggregates(clause)
  /\ \A i \in DOMAIN rows, j \in DOMAIN clause.items : Known(clause.items[j], rows[i])
  /\ pairs' = [i \in DOMAIN rows |-> [orig |-> rows[i], proj |-> ProjectRow(clause.items, rows[i])]]
  /\ phase' = "projected"
  /\ UNCHANGED <<parts, union, todo, rows, keys, table>>

\* _aggregate_return makes a row of each group, and those are both the rows
\* that are projected and what they were made of.
Group ==
  /\ phase = "clause" /\ todo # <<>> /\ Reshapes(clause)
  /\ Aggregates(clause)
  /\ \A i \in DOMAIN rows, j \in DOMAIN clause.items : Known(clause.items[j], rows[i])
  /\ LET groups == GroupsOf(clause.items, rows)
     IN  /\ \A g \in DOMAIN groups, j \in DOMAIN clause.items :
              IsAgg(clause.items[j]) /\ clause.items[j].fn = "sum" =>
                Summable(Arguments(clause.items[j], groups[g]))
         /\ pairs' = [g \in DOMAIN groups |->
                        LET row == GroupRow(clause.items, groups[g])
                        IN  [orig |-> row, proj |-> row]]
  /\ phase' = "projected"
  /\ UNCHANGED <<parts, union, todo, rows, keys, table>>

DistinctOfNeighbours ==
  /\ phase = "projected"
  /\ pairs' = IF clause.distinct
              THEN FoldLeft(LAMBDA out, p :
                              IF out # <<>> /\ FreezeRow(Last(out).proj) = FreezeRow(p.proj)
                              THEN out ELSE Append(out, p),
                            <<>>, pairs)
              ELSE pairs
  /\ phase' = "distinct"
  /\ UNCHANGED <<parts, union, todo, rows, keys, table>>

\* What DISTINCT compares.
Kinds(s) == [i \in DOMAIN s |-> FreezeRow(s[i].proj)]

Distinct ==
  /\ phase = "projected"
  /\ pairs' = IF clause.distinct THEN Uniq(pairs, Kinds(pairs)) ELSE pairs
  /\ phase' = "distinct"
  /\ UNCHANGED <<parts, union, todo, rows, keys, table>>

\* WHERE of a WITH sees the projected row only.  It comes before ORDER BY, SKIP
\* and LIMIT, unless the clause aggregates.
FiltersFirst(c) == c.op = "WITH" /\ ~Aggregates(c) /\ c.where # NoFilter

FilterOrderingForwards ==
  /\ phase = "distinct"
  /\ FiltersFirst(clause) => \A i \in DOMAIN pairs : CanTest(clause.where, pairs[i].proj)
  /\ pairs' = IF FiltersFirst(clause)
              THEN SatisfyingPairs(pairs, clause.where) ELSE pairs
  /\ keys' = clause.order
  /\ phase' = "order"
  /\ UNCHANGED <<parts, union, todo, rows, table>>

Filter ==
  /\ phase = "distinct"
  /\ FiltersFirst(clause) => \A i \in DOMAIN pairs : CanTest(clause.where, pairs[i].proj)
  /\ pairs' = IF FiltersFirst(clause)
              THEN SatisfyingPairs(pairs, clause.where) ELSE pairs
  /\ keys' = Reverse(clause.order)
  /\ phase' = "order"
  /\ UNCHANGED <<parts, union, todo, rows, table>>

\* A key of ORDER BY sees the row before and, first, the one after.
KeyValue(key, p) == Updated(p.orig, p.proj)[key.var]

CanOrderBy(key) ==
  /\ \A i \in DOMAIN pairs : key.var \in DOMAIN pairs[i].proj \union DOMAIN pairs[i].orig
  /\ \A i, j \in DOMAIN pairs :
       LET v == KeyValue(key, pairs[i])
           w == KeyValue(key, pairs[j])
       IN  ~IsNull(v) /\ ~IsNull(w) => Comparable(v, w)

Before(key, p, q) ==
  LET v == KeyValue(key, p)
      w == KeyValue(key, q)
  IN  IF key.desc THEN Less(w, v) ELSE Less(v, w)

\* Stable: a pair goes in front of the first one that it comes before.
Inserted(s, p, key) ==
  LET behind == {i \in DOMAIN s : Before(key, p, s[i])}
  IN  InsertAt(s, IF behind = {} THEN Len(s) + 1 ELSE Min(behind), p)

Sorted(s, key) ==
  LET upTo[k \in 0..Len(s)] == IF k = 0 THEN <<>> ELSE Inserted(upTo[k - 1], s[k], key)
  IN  upTo[Len(s)]

NullsFirst(key) == key.nulls = "FIRST" \/ (key.nulls = "none" /\ key.desc)

\* One pass of _order_paired: a stable sort of what is not null, in reverse also
\* stable, and the nulls before or behind it.
Passed(s, key) ==
  LET nulls  == Select(s, LAMBDA p : IsNull(KeyValue(key, p)))
      sorted == Sorted(Select(s, LAMBDA p : ~IsNull(KeyValue(key, p))), key)
  IN  IF NullsFirst(key) THEN nulls \o sorted ELSE sorted \o nulls

OrderPass ==
  /\ phase = "order" /\ keys # <<>>
  /\ CanOrderBy(Head(keys))
  /\ pairs' = Passed(pairs, Head(keys))
  /\ keys' = Tail(keys)
  /\ UNCHANGED <<parts, union, todo, rows, phase, table>>

\* The values of a result row: null for a column the row does not have.
ResultRow(items, row) ==
  [i \in DOMAIN items |-> IF Bound(row, items[i].as) THEN row[items[i].as] ELSE NullRef]

FiltersLast(c) == c.op = "WITH" /\ Aggregates(c) /\ c.where # NoFilter

\* SKIP and LIMIT, and the rows or the result of the clause.
FinishWith ==
  /\ phase = "order" /\ keys = <<>> /\ clause.op = "WITH"
  /\ LET page == SkipThenLimit(pairs, clause.skip, clause.limit)
         new  == [i \in DOMAIN page |-> page[i].proj]
     IN  /\ FiltersLast(clause) => \A i \in DOMAIN new : CanTest(clause.where, new[i])
         /\ Yield(IF FiltersLast(clause)
                  THEN Satisfying(new, clause.where) ELSE new,
                  table)

FinishReturn ==
  /\ phase = "order" /\ keys = <<>> /\ clause.op = "RETURN"
  /\ LET page == SkipThenLimit(pairs, clause.skip, clause.limit)
     IN  Yield(<<>>, [i \in DOMAIN page |-> ResultRow(clause.items, page[i].proj)])

EndPartDistinctFirst ==
  /\ phase = "clause" /\ todo = <<>>
  /\ union' = IF part.distinct
              THEN union \o Uniq(table, [i \in DOMAIN table |-> FreezeAll(table[i])])
              ELSE union \o table
  /\ parts' = Tail(parts)
  /\ phase' = "start"
  /\ UNCHANGED <<todo, rows, pairs, keys, table>>

\* run_union: the operands' rows one after the other; UNION without ALL then
\* drops what comes twice, also from the operands before.
EndPart ==
  /\ phase = "clause" /\ todo = <<>>
  /\ union' = IF part.distinct
              THEN LET all == union \o table
                   IN  Uniq(all, [i \in DOMAIN all |-> FreezeAll(all[i])])
              ELSE union \o table
  /\ parts' = Tail(parts)
  /\ phase' = "start"
  /\ UNCHANGED <<todo, rows, pairs, keys, table>>

------------------------------------------------------------------------------
\* What raises: a variable that is not there, a sum of something else than
\* numbers, and keys that do not compare.
UnknownVariable ==
  /\ \/ /\ Begins("UNWIND")
        /\ \E i \in DOMAIN rows : ~Bound(rows[i], clause.var)
     \/ /\ Begins("CALL")
        /\ \E i \in DOMAIN Yielded(clause) : ~CanTest(clause.where, Yielded(clause)[i])
     \/ /\ phase = "clause" /\ todo # <<>> /\ Reshapes(clause)
        /\ \E i \in DOMAIN rows, j \in DOMAIN clause.items : ~Known(clause.items[j], rows[i])
     \/ /\ phase = "distinct" /\ FiltersFirst(clause)
        /\ \E i \in DOMAIN pairs : ~CanTest(clause.where, pairs[i].proj)
     \/ /\ phase = "order" /\ keys = <<>> /\ FiltersLast(clause)
        /\ LET page == SkipThenLimit(pairs, clause.skip, clause.limit)
           IN  \E i \in DOMAIN page : ~CanTest(clause.where, page[i].proj)
  /\ Raise

NotANumber ==
  /\ phase = "clause" /\ todo # <<>> /\ Reshapes(clause) /\ Aggregates(clause)
  /\ \A i \in DOMAIN rows, j \in DOMAIN clause.items : Known(clause.items[j], rows[i])
  /\ LET groups == GroupsOf(clause.items, rows)
     IN  \E g \in DOMAIN groups, j \in DOMAIN clause.items :
           /\ IsAgg(clause.items[j]) /\ clause.items[j].fn = "sum"
           /\ ~Summable(Arguments(clause.items[j], groups[g]))
  /\ Raise

CannotOrder ==
  /\ phase = "order" /\ keys # <<>>
  /\ ~CanOrderBy(Head(keys))
  /\ Raise

\* The query has its result, or has raised.
Done ==
  /\ phase = "raised" \/ (phase = "start" /\ parts = <<>>)
  /\ UNCHANGED pvars

PNext ==
  \/ BeginPart \/ EndPart \/ Done
  \/ Unwind \/ CallProcedure
  \/ Project \/ Group \/ Distinct \/ Filter \/ OrderPass \/ FinishWith \/ FinishReturn
  \/ UnknownVariable \/ NotANumber \/ CannotOrder

PSpec == PInit /\ [][PNext]_pvars

------------------------------------------------------------------------------
Ordered == phase = "order" /\ keys = <<>>

\* Type invariant: how far a clause is goes with what it has.
TypeOK ==
  /\ phase \in {"start", "clause", "projected", "distinct", "order", "raised"}
  /\ phase \in {"projected", "distinct", "order"} => todo # <<>> /\ Reshapes(clause)
  /\ phase \in {"start", "clause"} => pairs = <<>> /\ keys = <<>>
  /\ \A i \in DOMAIN pairs : DOMAIN pairs[i] = {"orig", "proj"}
  /\ keys # <<>> => Len(keys) <= Len(clause.order)

\* WITH and RETURN without aggregates keep, in their order, the rows that WHERE
\* is true of, with DISTINCT the first of each kind, and with each the row it was
\* made of, which ORDER BY reads.
KeptRows(c, given) ==
  LET made(i) == ProjectRow(c.items, given[i])
      kept    == {i \in DOMAIN given :
                    /\ c.distinct => \A j \in 1..(i - 1) : made(j) # made(i)
                    /\ FiltersFirst(c) => Satisfies(c.where, made(i))}
  IN  [k \in 1..Cardinality(kept) |-> [orig |-> given[InOrder(kept)[k]],
                                       proj |-> made(InOrder(kept)[k])]]

KeepsTheFirstOfEach ==
  phase = "order" /\ Len(keys) = Len(clause.order) /\ ~Aggregates(clause) =>
    pairs = KeptRows(clause, rows)

\* Rows fall into groups by the values of what is not aggregated.  There is one
\* row for each group, in the order in which the groups begin, and aggregates
\* take every row of their group, and no other, once.
GroupsPartitionTheRows ==
  phase = "projected" /\ Aggregates(clause) =>
    LET together(i, j) ==
          \A k \in DOMAIN clause.items :
            ~IsAgg(clause.items[k]) => Value(clause.items[k], rows[i]) = Value(clause.items[k], rows[j])
        begins == {i \in DOMAIN rows : \A j \in 1..(i - 1) : ~together(i, j)}
    IN  /\ Len(pairs) = Cardinality(begins)
        /\ \A g \in DOMAIN pairs, k \in DOMAIN clause.items :
             LET members == {j \in DOMAIN rows : together(InOrder(begins)[g], j)}
                 item    == clause.items[k]
                 bound   == {j \in members : ~IsNull(rows[j][item.var])}
                 value   == pairs[g].proj[item.as]
             IN  /\ IsAgg(item) /\ item.var = EveryRow => value = Number(Cardinality(members))
                 /\ IsAgg(item) /\ item.var # EveryRow /\ item.fn = "count" =>
                      value = Number(IF item.distinct
                                     THEN Cardinality({rows[j][item.var] : j \in bound})
                                     ELSE Cardinality(bound))
                 /\ IsAgg(item) /\ item.fn = "collect" /\ ~item.distinct =>
                      value = List([n \in 1..Cardinality(bound) |-> rows[InOrder(bound)[n]][item.var]])

\* After the last pass the rows are in the order of all the keys, the first key
\* first, nulls where they belong, and rows that all keys leave equal as they
\* came.  (What ORDER BY starts from is what the stages before it leave.)
Unordered(c, given) ==
  IF ~Aggregates(c) THEN KeptRows(c, given)
  ELSE LET groups == GroupsOf(c.items, given)
           made   == [g \in DOMAIN groups |-> [orig |-> GroupRow(c.items, groups[g]),
                                               proj |-> GroupRow(c.items, groups[g])]]
       IN  IF c.distinct THEN Uniq(made, Kinds(made)) ELSE made

Precedes(key, p, q) ==
  LET v == KeyValue(key, p)
      w == KeyValue(key, q)
  IN  IF IsNull(v) \/ IsNull(w)
      THEN IsNull(v) # IsNull(w) /\ (IsNull(v) <=> NullsFirst(key))
      ELSE IF key.desc THEN Less(w, v) ELSE Less(v, w)

\* The first key that tells p and q apart puts p before q.
ComesFirst(order, p, q) ==
  \E k \in DOMAIN order :
    /\ Precedes(order[k], p, q)
    /\ \A l \in 1..(k - 1) : ~Precedes(order[l], q, p)

\* s in the order where the indices before i are those in ahead[i].
Arranged(s, ahead) ==
  [p \in DOMAIN s |-> s[CHOOSE i \in DOMAIN s : Cardinality(ahead[i]) = p - 1]]

OrderedAsAsked ==
  Ordered =>
    \E given \in {Unordered(clause, rows)} :
      pairs = Arranged(given, [i \in DOMAIN given |->
                {j \in DOMAIN given :
                   \/ ComesFirst(clause.order, given[j], given[i])
                   \/ ~ComesFirst(clause.order, given[i], given[j]) /\ j < i}])

\* Where SKIP and LIMIT begin and end in n rows.  A negative SKIP leaves that many
\* at the end, a negative LIMIT leaves that many out there, whatever was skipped.
PageStart(n, skip) ==
  IF skip = NoFilter THEN 0 ELSE IF skip >= 0 THEN skip ELSE Max({n + skip, 0})
PageEnd(n, skip, limit) ==
  IF limit = NoFilter THEN n
  ELSE IF limit >= 0 THEN PageStart(n, skip) + limit ELSE n + limit

\* SKIP n LIMIT m gives the rows n + 1 to n + m of the order, as many as there
\* are, so that pages of a query neither overlap nor leave anything out; and a
\* negative bound, which reaches Python's slices, counts from the end of the order.
PagesTile ==
  [][Ordered /\ phase' = "clause" /\ ~FiltersLast(clause) =>
       LET from  == PageStart(Len(pairs), clause.skip)
           to    == PageEnd(Len(pairs), clause.skip, clause.limit)
           given == IF clause.op = "WITH" THEN rows' ELSE table'
           row(i) == IF clause.op = "WITH" THEN pairs[i].proj
                     ELSE ResultRow(clause.items, pairs[i].proj)
       IN  given = [i \in 1..Cardinality({p \in DOMAIN pairs : from < p /\ p <= to}) |->
                      row(from + i)]]_pvars

\* UNION gives each row of its operands once, at the place where it first comes,
\* also when UNION ALL has put rows together before.
UnionGivesEachRowOnce ==
  [][phase = "clause" /\ phase' = "start" /\ part.distinct =>
       LET all == union \o table
           new == {i \in DOMAIN all : \A j \in 1..(i - 1) : FreezeAll(all[j]) # FreezeAll(all[i])}
       IN  union' = [n \in 1..Cardinality(new) |-> all[InOrder(new)[n]]]]_pvars

\* NULLS FIRST and NULLS LAST are honored, as _order_paired says: no row with a
\* key that was null is on the wrong side of one with a key that was not.
NullsWhereAsked ==
  Ordered /\ clause.order # <<>> =>
    LET key == clause.order[1]
        wasNull(p) == KeyValue(key, p) \in {NullRef, Freeze(NullRef)}
    IN  \A i, j \in DOMAIN pairs :
          i < j => /\ key.nulls = "FIRST" /\ wasNull(pairs[j]) => wasNull(pairs[i])
                   /\ key.nulls = "LAST" /\ wasNull(pairs[i]) => wasNull(pairs[j])
==============================================================================
