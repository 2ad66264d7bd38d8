# A verification project for cypherast

cypherast parses Cypher and GQL, rewrites it for a target dialect, plans it,
traces its lineage, and runs it on a small in-memory property graph. This
directory holds TLA+ modules that model parts of it, TLC configurations that
check them on small instances, and proofs, checked by TLAPS, of what must hold
for every instance. Paths below are relative to the repository.

## 1. The system

A query travels lexer → parser → AST → (optimizer, capability transforms,
validators) → lowering to a core AST → planner, lineage or executor. Everything
is sequential Python; nothing is persisted; there is one caller. What makes the
program hard is therefore not concurrency but long sequences of calls: queries
that write while they hold references to what they have deleted, exceptions in
the middle of a clause without a rollback, searches on cyclic graphs, and
rewriting that must not change what a query means.

| component | code | state | operations | what makes it correct |
|---|---|---|---|---|
| graph store | `executor/graph.py` | `nodes`, `relationships`, `_out`, `_in`, `_by_label`, one id counter | create and delete nodes and relationships, lookups by label, start and end | indexes agree with the entities, ids are never reused, a deletion takes what it must and nothing else, a refused one nothing |
| pattern matching | `executor/engine.py` `_match*`, `_expand`, `_candidate_*`, `_var_expand` | partial rows, the queue of the breadth-first search | MATCH, OPTIONAL MATCH, variable length, named paths, shortestPath | exactly the matches, each once; the search ends |
| updating clauses and clause loop | `engine.py` `run_query`, `_create*`, `_merge`, `_set`, `_delete`, `_remove`, `_foreach` | the rows between clauses, the graph | one handler per clause | the store is touched only through its operations; what is deleted is not found again; MERGE does not duplicate; a failing clause leaves a sound store |
| projection and aggregation | `engine.py` `_project`, `_return`, `_aggregate_return`, `_order_paired`, `run_union` | rows | WITH, RETURN, DISTINCT, ORDER BY, SKIP, LIMIT, grouping, UNION | order and multiplicity of rows, grouping by value |
| expressions | `executor/env.py` | bindings | evaluation with null as "unknown" | three-valued logic |
| procedures | `executor/procedures.py` | none | `db.labels` | no row is invented or lost |
| lexer, parser, AST, renderer | `lexer.py`, `parser.py`, `ast.py`, `renderer.py` | token index, nesting depth | recursive descent with one speculative parse; rendering | parse after render gives the tree back; depth and index are restored on backtracking |
| dialects, transforms | `dialects/*.py`, `dialects/transforms/` | none; flags | rewrites a tree for a target | rows do not change |
| validators | `dialects/validate/` | scope sets | one pass per rule | what is accepted can be executed |
| lowering | `dialects/lower.py` | none | LET, FILTER, inline WHERE, GROUP BY to core clauses | idempotent, leaves the argument alone, keeps the meaning |
| optimizer | `optimizer/` | rule list | `only`, `disable`, `apply`; six rules | rows do not change, order of rules is kept |
| planner | `planner/` | plan cache | enumerate, cost, cache | a candidate covers the whole query; the cache is bounded |
| scope and lineage | `scope.py`, `lineage.py` | scopes | walk back from RETURN | the named source is the one whose value arrives |
| schema, errors, CLI, public functions, test kit | the rest | none | wrappers, tables | — |

The store is called by the executor only, through its methods, with one
exception: `SET n:L` and `REMOVE n:L` write `_by_label` themselves
(`engine.py:680`, `engine.py:716`). The executor calls lowering first and the
expression evaluator everywhere. Optimizer, transforms, validators, planner and
lineage share only the AST.

The hazards, each with its line, are listed in `PROJECT.json`; the properties
exist for them. A hazard without a property says why it has none: mostly that no
text of the repository says what ought to happen (a FOREACH body's bindings that
stay, the hop count of `shortestPath`, equal column names), or that the part is left
out. A property names a hazard only if it would catch it.

## 2. The modules

The store, and the executor's clauses as state machines:

```
AbstractGraph <---- PropertyGraph ------> PropertyGraphProofs
                         |                       |
                    WriteClauses -------> WriteClausesProofs
                         |                       |
     VarExpand ---- PathMatch ----------> PathMatchProofs
         |            |    \                   | |
  VarExpandProofs*    |    MatchClause ->  MatchClauseProofs
                  Projection ------------> ProjectionProofs ---- ProjectionOrderProofs
```

A module of proofs extends the module it is about and the proofs it needs
(* `VarExpandProofs` those of `PathMatchProofs`).

A text, from its characters to its answers:

```
 Lexer   Grammar   Dialects         Ast ------- Trees
     \      |      /   |              |            |
      \     |     /  Renderer     Evaluation   Scoping, Optimizer, Lowering
        Parser          |    \     /    (on PathMatch)      |
       /   |   \        |    Execution ---- Surface     Validators
      /    |    Transpile                      \         /
ParserProofs   \--------------------------------Pipeline
```

| module | models | state ↔ code |
|---|---|---|
| `AbstractGraph` | nothing of the code: a graph without indexes that answers every operation from its entities | — |
| `PropertyGraph` | `Graph` and the label writes of SET and REMOVE; shown to refine `AbstractGraph` by `INSTANCE AbstractGraph WITH` a mapping | `nextId` = `_id_gen`, `nodes` = keys of `nodes`, `labels` = label sets of all `Node` objects ever made, live or not, `outIdx`/`inIdx`/`byLabel` = `_out`/`_in`/`_by_label`, `reply` = the last call and what it returned or raised |
| `PathMatch` | matching, as operators on a graph record | no state: `MatchPattern`, `MatchPath`, `ExtendByHop` = `_match_pattern`, `_match_path`, `_expand`, `StartsOf` = the loop of `_match_path` over the first nodes, `BindEach` and `AtNode` = what `_expand` does with the variable and the node of a hop; `CandidateNodes`, `CandidateRels`, `Trails` = `_candidate_nodes`, `_candidate_rels`, `_var_expand`; `MatchRow` = a turn of the loop of `_match` |
| `VarExpand` | `_var_expand`, the loop over the queue and the loop over relationships in it | `queue` = `q`, `results` = `results`, `here` = the entry taken last, `candidates` = what is left of `out_rels` and `in_rels` there, `seen` = `seen_step`; an entry's `depth` is the length of its path, its `visited` the set of relationships on it |
| `MatchClause` | `_match` row by row | `todo` = rows not yet looped over, `out` = `out` |
| `WriteClauses` | `run_query` with MATCH, UNWIND and all updating clauses | `out`/`todo`/`cur` = the rows before, behind and in the loop of a handler, `agenda` = what is left to do for the row, `ends` = `prev_node` and the node after it, `prop` = the value of one property key of every entity |
| `Projection` | `run_union`, and `run_query` with WITH, RETURN, UNWIND and CALL | `parts` = operands of UNION left, `union` = rows of those that ran, `todo` = clauses left, `rows` = `rows`, `pairs` = `paired` of `_project`, `keys` = what is left of its loop over ORDER BY, `table` = `result_rows` |
| `Lexer` | every scanner of `lexer.py` | `source`, `pos` = `_i`, `pending` = `_pending_comments`, `tokens` = what `tokenize` has collected, `lexing` = whether it runs, is done, or raised which `TokenizeError` |
| `Ast`, `Trees` | the node types of `ast.py` and the fields they pass on to their children; `walk` | no state: a node is its type `t`, text `v` and children `c` |
| `Grammar` | every method of `parser.py`, as data | no state |
| `Parser` | the machine that reads by that grammar | `at` = `_i`, `todo` = the call stack, as what is left to do, `values` = what the calls have returned, `depth` = `_depth`, `tries` = the `try` blocks that will go back, `outcome` = running, done, or what was raised |
| `Renderer`, `Dialects` | every `render_` method; what each dialect reads and refuses to write | no state |
| `Transpile` | `transpile()` repeated along a route of dialects, lexer, parser and renderer composed | `route` = dialects left, `texts`, `trees` = what has been written and read |
| `Evaluation` | `eval_expr`, and the matching that evaluates patterns inside expressions | no state; a value that raises is a value |
| `Execution` | the reading clauses of `run_query` and `run_union` on trees | no state: `Run(tree, G)` is the answer |
| `Lowering` | `lower_to_core` | no state: `Lowered(tree)` |
| `Surface` | nothing of the code: what LET, FILTER, FOR, inline predicates and GROUP BY mean clause by clause, without a rewriting | no state |
| `Scoping` | the check for undefined variables | no state: what a clause asks for and leaves to the next |
| `Optimizer` | the rules of `optimizer/` and `dialects/transforms/`, and which of them a target asks for | no state: `Apply(rule, tree)` |
| `Validators` | the other checks of `dialects/validate/`, by the capability that calls for them | no state: `Violations(tree)` |
| `Pipeline` | `optimize()` and `run()`: read, rewrite rule by rule, lower, execute | `stage`, `rules` = rules left, `tree` = the tree they have left, `core` = what lowering made of it, `answer` |

Abstractions of the executor's state machines. Entities have one property key;
expected values of property filters are literals; labels and types are members
of small sets. The depth-first recursion of `_expand` is written as extending
all partial rows hop by hop, in order, which yields the same rows in the same
order. The adjacency lists are sets, as ids grow and are never reused; lookups
order by id, which is the order of the lists. `WriteClauses` takes a row apart
into tasks: each task is at most one store operation, so that a state exists
between any two of them, which is where an exception leaves the store. `killed`
records what the current query has deleted and is read by properties only.

`Projection` has no graph: a part of a query begins with the rows its MATCH
clauses could have given, any table from `Tables`. A clause passes through the
stages that `_project` runs in a row, in the order of the code: project (or
group), DISTINCT, WHERE, one stable sort per key from the last key to the first,
SKIP, LIMIT. A WITH that aggregates is different in the code, and in the model:
its WHERE comes last, after LIMIT (`FiltersFirst`, `FiltersLast`). Expressions
are variables, constants and `count`, `sum` and `collect` of a variable;
`Freeze` is what `_freeze` does, because grouped rows carry what it gives. Python's
`sort` and `sort(reverse=True)` are an insertion sort that puts a row in front of
the first it comes before (`Sorted`): what is stable has one result, however it is
computed. An exception ends the query (`UnknownVariable`, `NotANumber`,
`CannotOrder`). What queries and tables may be is `QueriesAssumption`: SKIP and
LIMIT are integers, also negative ones, only `count` takes a star, and the values of a table are no lists of
lists; those come about by `collect`.

The store, not its callers, decides what is possible in `PropertyGraph`: a
relationship may be created between any two identifiers, and stale node objects
may be relabelled. `WriteClauses` then shows which of it queries really do:
`OnlyThroughTheOperations` says that its behaviours are behaviours of
`PropertyGraph`, so that everything proved there holds in the middle of queries.

Abstractions of the text modules. A text is a sequence of atoms: a punctuation
character, a digit, a space, or a run of letters, taken apart only where the
lexer looks at letters one by one. A parser method is a rule of `Grammar`:
alternatives tried in order by the next tokens, a flag of the dialect and the
value parsed last, each with what it then does. That makes the call stack a
sequence of things to do, which is what the nesting guard, the speculative
parses and the proof are about. `self._depth` is counted up by `@enter` and down
by `@leave`, the `finally` of the method; `@try` keeps what an `except
ParseError` goes back to. Positions in lines and columns, and the wording of
errors, are left out; the kind of error is not.

Abstractions of the tree modules. `Evaluation`, `Execution`, `Lowering`,
`Optimizer`, `Scoping` and `Validators` are functions, since the code they model
is: an exception is a value that every operation hands on. `walk` and
`transform` look into lists but not into the pairs that hold CASE arms and map
entries, and neither do `Walk` and `Transformed`. Numbers are integers. The
matching of `PathMatch` is used by `Evaluation` for what a hop may follow
(`Trails` and what it is made of); property filters there are expressions.

`MatchClause`, `Projection` and `VarExpand` on the one side and `Evaluation` and
`Execution` on the other model the same clauses: the first step by step on
patterns and tables from small sets, all of them; the second as functions of
parsed queries, a corpus of them, to compare the answers of two trees.

## 3. What is checked

| run | instance | shows |
|---|---|---|
| `property_graph` | 3 identifiers, 1 label, 2 interchangeable types | the indexes stay exact in every state (`AdjacencyExact`, `LabelIndexExact`), one counter keeps ids apart (`IdentifiersFresh`), deletions take what they must (`DeleteLeavesNothingDangling`) and nothing else (`OnlyAskedForIsLost`), and the store refines `AbstractGraph` (`ImplementsAbstractGraph`) |
| `var_expand` | all graphs of 2 nodes, one of them possibly dead, and 3 relationships of 2 types; bounds 0..2 to 1..3; all directions; 112 890 states | only trails (`ResultsAreTrails`), shortest first and once (`ShortestFirstAndOnce`), all of them (`CompleteAtTheEnd`), the same list as `PathMatch!Trails` (`IsTrailsAtTheEnd`), and an end (`Terminates`) |
| `match_clause` | all graphs of 2 nodes and 2 relationships; patterns of every shape of up to 3 nodes and 2 paths; 5 lists of rows | rows and multiplicities are those of a definition that chooses nodes and relationships and does not traverse (`RowsAreTheMatches`); OPTIONAL MATCH keeps every row |
| `write_clauses` | 5 identifiers, 5 clauses out of 12, over any number of queries | rows hold live entities or such as this query deleted (`BindingsLiveOrDeletedHere`); a dangling relationship needs a query that deleted the end itself (`DanglingNeedsADeletionHere`); MERGE ensures its pattern (`MergeEnsuresMatch`); refinement of the store (`OnlyThroughTheOperations`); clauses end (`ClausesEnd`) |
| `merging` | 4 identifiers, 5 clauses out of 8 | of a kind of node that only MERGE makes there is at most one (`MergeMakesNoDuplicate`) |
| `projection` | pipelines of 2 clauses out of 9 and a RETURN out of 5, on all tables of up to 3 rows with two columns; 4 UNIONs of 3 operands | without aggregates, the rows that come out are the first of each kind that WHERE is true of, each with the row it was made of (`KeepsTheFirstOfEach`); groups are the classes of equal keys, and an aggregate takes each row of its class once (`GroupsPartitionTheRows`); several stable sorts give the lexicographic order with nulls in their place (`OrderedAsAsked`); pages neither overlap nor leave a row out, and a negative bound counts from the end of the order (`PagesTile`); UNION gives each row once, over all its operands (`UnionGivesEachRowOnce`) |
| `syntax` | 83 texts along 4 routes there and back between 6 dialects, nesting limit 5; 178 054 states | all comments between two tokens go to the second of them and to no other, in their order (`CommentsGoToTheNextToken`); the nesting guard counts what is open, through every speculation that failed and every error (`DepthCountsWhatIsOpen`); reading ends with a tree or an error (`ReadingEnds`); a tree that needs no parentheses and that the target can read comes back (`SurvivingTreesComeBack`); what is lost is lost the first time (`StableThereAndBack`) |
| `rewrites` | 94 texts, 5 lists of rules, 2 graphs; 32 092 states | a rule keeps the answer (`RulesKeepTheAnswers`), and has nothing left to do on what it made (`RulesAreIdempotent`); lowering has nothing left to lower (`LoweringTwiceIsOnce`) and keeps the meaning (`LoweredMeansTheSame`); a query the check for undefined variables passes knows its names (`AcceptedNamesAreKnown`); a rewrite for a target mends what it is for (`RewritesMeetTheTarget`), and no rule makes a target refuse what it took (`RulesBringNoViolation`) |
| `filtered_trails`, `grouped_nulls`, `identity`, `ignored` | the case itself | expected to fail: see section 6 |

Why the bounds are enough. An index goes wrong by one operation on at most one
relationship with two ends, so two nodes and a relationship, in every
interleaving with deletion and relabelling, meet every case of `graph.py`;
three identifiers give that. Two nodes and three
relationships contain loops, parallel and opposite relationships and cycles
longer than the smallest upper bound. Five clauses suffice for create, connect,
delete, reuse of the stale binding, and a second query that meets what was left
behind; `MaxId` and `MaxClauses` are the only bounds, and a query that asks for
more identifiers is cut off like one that raises (`OutOfIdentifiers`).

For `projection`, three rows are the fewest on which a sort can be unstable, a
duplicate can have something between itself and the first, and a page can have a
row before and one behind it; two clauses before the RETURN let each clause take
what another has left (frozen keys, a list to unwind, an empty table). Three
operands are the fewest where UNION follows UNION ALL.

For `syntax` and `rewrites` the corpus is the bound. The texts of `syntax` reach
every scanner, every rule of the grammar and every node type, valid and not, and
a limit of 5 makes the guard refuse some of them in the middle of a speculative
parse (the program's limit is higher; nothing depends on which it is, see section
4). The texts of `rewrites` make each rule, each lowering, each clause of the
check for undefined variables and each rewrite for a target do something and
leave something alone; the two graphs have a cycle, a loop, parallel
relationships, a lone node and missing properties, which are what tells answers
apart. `RulesKeepTheAnswers` and its neighbours look at every rule on every tree
the rules before it can leave. The definitions of these modules were compared
with the program itself on these and further texts: the tokens, trees and written
texts of `syntax`; 890 answers; 1190 verdicts of the validators. They agree.

What the properties of `rewrites` except. Most rules keep the answer only of
some queries, and the exceptions are written out, as the assumptions under which
the rule may be used; each was found by a counterexample that the program
reproduces.

- `Keeps` (answers). `canonicalize_patterns` turns
  `(a)<-[:R]-(b {x: a.x})` into a pattern that reads `a` before binding it, and
  reverses a named path and a list of relationships. `merge_match_chains` drops
  the labels, properties and path variable of the second MATCH's first node.
  `qualify` adds columns to `RETURN *` and may use a name the query has.
  `simplify` takes `true AND x` for `x`, which is not the same where `x` is not
  a truth value. `split_multi_path_match` makes two OPTIONAL MATCHes of one with
  two paths, which keep half a match. `bound_variable_length` cuts longer trails
  off, as asked, and makes a missing lower bound zero where execution takes one.
  `guard_optional_scalar_use` gives null where an expression would have coped
  with null: `coalesce(id(m), 0)`, and `count(id(m))`, which within a CASE is no
  aggregate any more. `cap_collect_distinct` lets duplicates in, as asked.
- `CanMend` (the target). `split_multi_path_match` turns disjoint required paths
  into consecutive MATCHes, which are refused by the same check. The docstring of
  `validate_capabilities` (`dispatch.py:64`) names the Cartesian MATCH as rewritten,
  `docs/optimizer.md:55` as refused only; the rewrite helps where the paths are
  connected or optional. `guard_optional_scalar_use` guards items of projections
  and no conditions.
- `Brings` (validation after a rule). Named by `qualify`, two anonymous MATCHes
  are refused as a Cartesian product; `simplify` may fold a null guard away or
  change the kind of a CASE arm or the name of a column; `cap_collect_distinct`
  leaves a `collect(DISTINCT)` beside a plain one.
- `NamesAreSeen` (scoping). The check for undefined variables passes by the
  maps and predicates of patterns, whatever is behind a pair, CALL { }, and names
  that some binder elsewhere in the expression has.
- `Survives` (round trips). Trees that need parentheses, names that need quotes
  the renderer does not write, and the surfaces of `Readable`, which a target
  writes and cannot read.

Fairness. The code is sequential and nothing interrupts its loops, so each loop
with a liveness property has weak fairness of its step: `WF_vars(Next)` in
`VarExpand`; `WF_wvars(Step)` in `WriteClauses`, where `Step` leaves out what is
up to the caller (a further clause or query); and in `Transpile`
`WF_vars(Scan \/ Begin \/ Read)`, the loop of the lexer and the calls of the
parser, without what is done with the tree. The other modules assume none and
state no liveness: a recursion over a tree or a fold over a list ends by its
shape. `CHECK_DEADLOCK FALSE` is set where the system may stop: a search or a
clause that is done, a store without a caller, the bound on clauses.

Every property of a passing run has a mutant in `PROJECT.json`, a plausible bug
written next to the definition it replaces, that TLC must find.

## 4. What is proved

`PropertyGraphProofs` proves, for every set of labels and types and every bound
on identifiers (`MaxIdAssumption`: a natural number):

- the inductive invariant `IInv`: `TypeOK`, `AdjacencyExact`, `IdentifiersFresh`
  and `LabelIndexSound`. `LabelIndexExact` alone is not inductive: it speaks of
  live nodes only, while a stale object can be relabelled; `LabelIndexSound`
  says that for live nodes index and object agree, and leaves dead ones free.
  `IdentifiersFresh` is needed to know that a new node has no relationships and
  no stale index entries yet;
- from it, `TypeCorrect`, `AdjacencyCorrect`, `LabelIndexCorrect`,
  `IdentifiersAreFresh`, and the action properties `NothingDanglesAfterDelete`
  and `NothingElseIsLost`;
- `RefinesAbstractGraph`: `Spec` implements `AbstractGraph!ASpec`. With
  `AdjacencyExact` the lookups and the relationships a deletion meets are those
  of the abstract graph, and each operation is an abstract one (`StepImplements`).

`WriteClausesProofs` proves about the executor, for every alphabet of clauses
that the parser lets through (`ClausesAssumption`: patterns have labels and
types, FOREACH runs updating clauses) and every bound:

- `ExecutorKeepsToTheOperations`: `WSpec` implements `PropertyGraph!Spec`. Each
  step of the clause loop is an operation of the store with arguments of the
  right kind, or leaves the store alone (`OnlyOperations`). That needs the
  inductive invariant `WInv`, because `_create_rel` takes its ends from what was
  done before it (the code asserts `prev_node is not None`): `AgendaOK` says
  that a relationship at the head of the agenda has both ends in `ends`, one
  behind a node has one of them, and any other has its two elements before it on
  the agenda. It is kept since a path's tasks, and with it all that MERGE and
  FOREACH put on the agenda, are `SelfContained`, which concatenation preserves
  (`ConcatSelfContained`) and taking off a task that is no pattern element
  (`TailSelfContained`);
- hence `IndexesExactDuringQueries`, `QueriesLoseNothingElse` and
  `ExecutorRefinesAbstractGraph`: what was proved of the store holds in the
  middle of every query and after every exception.

The same invariant has parts for the rows, and they give three more theorems, for
every alphabet of clauses, every nesting of FOREACH and every bound:

- `BindingsAreLive`: what a row binds is in the graph or was deleted by this
  query. The property speaks of the rows between clauses, and is not inductive
  either: `RowsKnown` says the same of the row in the loop of a handler, of the
  rows behind it and before it; `AgendaOK` says it of what FOREACH still has to
  bind and of the ends of the path being created; `KilledMade` says that what was
  deleted had been made, so that no new entity takes its identifier.
- `DanglingTakesADeletion`, an action property: a step that makes a relationship
  with a dead end does so in a query that has deleted this end. It follows from
  the part of `AgendaOK` about `ends`.
- `QueryTypeCorrect`.

A second invariant, `KindInv`, gives `MergeAloneMakesOne`, that MERGE makes no
duplicate. `OnlyMergeMakes` says of which kinds of node, a label with a value, this
can be expected, as a condition on the alphabet of clauses: no CREATE, SET or MERGE of
something larger makes such a node, MERGE of one asks for no other label, and its
variable is bound to nothing but nodes. The last is needed. A variable that OPTIONAL
MATCH has set to null matches no node, and `_create_node` does not take null for a
node either, so that MERGE makes a new one on every such row. In `merging` the
condition holds of the kind that its MERGE makes, with the label L, and not of nodes
with the label M, which ON MATCH sets. The invariant has these parts:

- `AtMostOneOfKind`, which is the property without its cardinality;
- `KindRows`: in every row a variable by which the kind is merged holds a node object,
  if anything, and all nodes held are objects the store has made. It is kept because
  matching binds such variables to nodes only (`MatchRowHolding`, along the
  same way as `MatchRowGood`);
- `KindTasks`: what is on the agenda makes no node of the kind (`Quiet`), but for the
  task at its head, when MERGE has found nothing. Then there is no such node, or
  the row holds the node that is taken instead (`Opening`). That nothing was found
  means that there is none, as a pattern of one node with a free variable finds every
  node it fits (`LoneNodeFound`). No other task runs before the node is made.

All of them rest on what matching can bind, which `PathMatchProofs` proves of the
operators of `PathMatch` for every graph, pattern and row (`MatchRowGood`): the
rows that come out stand for entities of the graph or of the row that went in,
they keep its values, and there is one at least when the match is optional. The
lemmas follow the code from the inside: the relationships at a node (`HopsList`),
the trails of each length (`LevelsList`), a hop (`ExtendByHopList`), a path
(`MatchPathGood`), the paths of a pattern (`MatchPatternGood`). They assume what
the parser and the store see to (`IsPattern`, `IsGraph`): a path leads from node
to node, a hop has a direction and bounds that are natural numbers, and entities
are numbered as they were made. TLC evaluates both assumptions for every graph
and pattern of `match_clause` and every pattern of `write_clauses`; of the store
they are proved (`TheGraphIsOne`).

`MatchClauseProofs` proves `OptionalLosesNoRow` from it, for every graph, clause
and list of rows (`MInv`): OPTIONAL MATCH keeps every row. The name of a path is excepted
(`PathNames`): `_match_path` binds it without a look at what the row has, unlike
any other variable, so that `MATCH (p) OPTIONAL MATCH p = (a)-->(b)` has another
`p`. This came up in the proof; the instance of `match_clause` has such a row now.

It proves `RowsAreExactlyTheMatches` too, for every graph, clause and list of rows:
what the traversal finds row by row, hop by hop, is what `Matches` defines without a
traversal, each row as often as there are matches for it. The argument counts by
listing. `Listed(s, W)` says that the list of rows `s` has one row for every element
of the set `W`: it is stronger than the equality of the two sets and gives the
multiplicities (`ListedCount`). Every list operation of the model has a lemma that
says what it lists (`ListedConcat`, `ListedSelected`, `ListedFlattened`), and from
the inside out:

- the relationships at a node repeat nothing, an undirected self-loop included
  (`RelsAtDistinct`); the search has every trail of a length once (`LevelsListed`);
  so what a hop may follow is what connects its node with another, once
  (`CandidatesAreConnections`);
- binding one variable after the other, each look at the row as it has become, is
  the same as asking once that all bindings are `Consistent` with the row and each
  other (`BindOne`, `ConsistentInTurn`, `AddsInTurn`). A binding carries its place in
  the pattern, since a list of relationships may be bound at one place only;
- a path is matched in every way it may go along the graph, once (`PartialGrows`,
  `MatchPathListed`), and a pattern in every way its paths may
  (`SolutionsGrow`, `MatchPatternListed`);
- these ways are the choices that `Agrees` admits (`AgreedChoicesSolve`,
  `AgreementIs`), and their rows are `RowOf` (`RowOfAdds`);
- the clause lists what is wanted of the rows that are done (`RowsListed`): with
  `MInv`, the inductive invariant. A step adds a list to it, since what is wanted of
  different rows is told apart (`WantedApart`); the property itself counts, and would
  need the sum of two counts, for every row, in each step.

The theorem has one hypothesis, `PathNamesApart`: the name of a path names nothing
else in the pattern. All patterns of `match_clause` meet it. It is needed, since
`_match_path` puts the path in place of whatever has its name, so that
`MATCH p = (p)` has rows, and no choice agrees with them: `p` would have to be a node
and a path. What comes in is constrained by `InputsAssumption` and
`GraphsAssumption`: a row is a dictionary of variables with names, and the nodes
that a row or a dangling relationship holds are node objects, live or dead.

The proof found the definition wrong in one place, and the instance without a pattern
that shows it. A path may start at a dead node when a row has it. The definition said
so of the rows that come in; but a trail of no relationships gives the second of its
nodes the dead node too, and from there the next path starts. `Agrees` lets a path
start at a dead node now when its first variable is bound by the row or by a path
before it (`NamedBefore`), and `match_clause` has such a pattern.

The recursive functions of `PathMatch` are induction over data. No theorem of the
library can be used for it (they take an operator as a parameter), and none is:
`Induction` is about a set of numbers, and follows from the well-foundedness of <
on them. Each recursive function is first shown to exist (`PartialExists`,
`RowsExist`, `LevelsExist`, `FlattenExists`).

`VarExpandProofs` proves of the search for a variable-length relationship, for
every graph the store can hold (`GraphsAssumption`: entities are numbered as they
are created), every start, live or not, and every pattern with a direction and
bounds that are natural numbers (`HopPatsAssumption`; the parser reads nothing
else), that it is sound, orderly and complete: `SearchTypeCorrect`,
`SearchIsSound`, `SearchIsOrderly`, `SearchIsComplete`. The inductive invariant
`SearchInv` has a part for each, since none of the properties is inductive:

- `Sound`: what is queued and what was taken last are trails too, and what is
  left of the inner loop leads on from the latter (`TrailsGrow`);
- `Levels`: the queue holds trails as long as the one taken last, then trails one
  hop longer, and the results none longer; this is what "breadth-first" means,
  and a shorter trail behind a longer one in the queue would break the order of
  the results only later;
- `Once`: nothing is queued or reported twice, which needs that the trail taken
  last is in the queue no more, that its extensions queued so far went over the
  relationships in `seen`, and that nothing queued extends what is still queued;
- `Complete`: for every wanted trail, itself is reported, or a prefix of it is
  queued, or its next relationship is still to be looked at. At the end the last
  two are impossible. The step that needs care is taking a trail off the queue:
  the next relationship of the wanted one is then among the candidates
  (`NextOnTheWay`, `JoinedAreCandidates`).

`SearchIsByLevels` proves `IsTrailsAtTheEnd`: the loop over the queue gives the list
`PathMatch!Trails` gives, in its order. `MatchClause`, `Evaluation` and `Execution`
are written with `Trails`, so that what is proved of the loop is true of their
matches, and no run has to interleave the search with the rest. The invariant
`LevelByLevel` puts the queue beside the recursive definition. It says that the trails
of the length in hand are `done`, then `here`, then `rest`; that the results are the
shorter levels that were asked for and `done` and `here`; and that the queue is `rest`,
then the extensions of each trail in `done`, then those of `here` over the
relationships found so far (`InLevel`). The found ones are in their turn (`Following`):
outgoing before incoming, each list in creation order, and one that is in both lists,
a loop, at its first turn. `ExtensionsInTurn` shows that `Extensions` takes them in the
same turn, although it leaves the outgoing out of the incoming list where the loop
keeps `seen`; two lists of the same things in turn are one (`InTurnAreOne`). When a
level is empty, so are those behind it (`NothingFurther`), and the loop stops there.

`ParserProofs` proves `CommentsAlwaysGoToTheNextToken`: for every text, a sequence of
whatever atoms, and for the texts a lexer is given one after another (`LexerSpec`;
the lexer of `Transpile` and `Pipeline` takes no other steps than `Lex` and `Restart`),
each comment is kept once, by the first token after it, however many there are
between two tokens. The property says where a comment begins (`Opens`) and how far it
goes (`Covers`); between two tokens the comments of the second follow each other, none
beginning inside another, and what none of them covers is blank. The invariant
`CommentsInv` says of the comments pending, and of the text since the last token, what
the property says of a token's comments and the text in front of it (`Claims`). So a
scanner of comments has to stop behind the end of its comment and not before
(`SkipLineCommentKeeps`, `SkipBlockCommentKeeps`), and each of the scanners has to end
where a place in the text is: white space and comments behind where they began
(`Skipped`, `Noted`), and a token at a number (`Claimed`), be it the end of a run (`RunEnds`, for which the end of the text must be of no run's kind), of a
number with its exponent (`NumberEnds`), or of a string or a quoted name, which are
recursive functions of the text that must be shown to exist (`ScannedExists`) and to
stop (`ScannedEnds`). The one assumption, `WordsAreThere`, is that no name is empty.
From the same lemmas follows `TheLexerReadsOn`, the safe part of the lexer's
termination: each step goes on by at least one atom and not beyond the text, or is the
last one. That steps are taken at all is the fairness of `ReadingEnds`.

It proves `TheGuardCountsWhatIsOpen` too: for every text, whatever the
tokens, every dialect and every limit (`MaxParseDepth`), the nesting guard counts
exactly the constructs that are open and stays within its limit. The behaviours
are those of `ParserSpec`, which leaves the lexer and what is done with a tree
free; those of `Transpile` and `Pipeline` are among them, since both do nothing
to the parser but `StartParsing`, `Parse` and `HandOver`. The invariant
`GuardInv` says that what is still to do leaves what the guard has counted, no
more and no less, that each suffix of it leaves at least what it enters (else the
guard could go below zero later), and the same of every place a `try` block would
go back to, with the count saved there. It is kept because every rule of the
grammar leaves what it enters (`MethodsAreNested`) and no name of a rule, token or
node type is taken for one of the guard's (`ControlIsNothingElse`), two facts
about the constant `Grammar` that TLC evaluates in `syntax` and `rewrites`, and
because concatenation preserves being nested (`Concatenated`).

`ProjectionProofs` proves about the clauses that reshape rows, for every query,
however many clauses, keys and operands of UNION it has, and every table:

- `ProjectionTypeCorrect`, with the inductive invariant `PInv`. Beside `TypeOK` it
  says that what is still to do comes from the parser, that rows, pairs and result
  rows are lists, and that the lists in rows hold what rows may hold. The last is
  what UNWIND needs: a list may have been put together by `collect` of lists, so
  that no depth bounds it. `SoundBy(U)` names the lists there are: those in rows
  are in `U`, and so are those in `U`'s lists (`Nested`); a clause adds the lists
  it makes (`NestedGrows`);
- `PagesAlwaysTile`, an action property: SKIP and LIMIT give the rows of their page,
  by the arithmetic of slices (`PageHoldsItsRows`), with bounds behind the end and
  negative ones too;
- `UnionAlwaysGivesEachRowOnce`, an action property: what the loops over a set of
  keys seen so far give (`Uniq`) are the first of each kind, in order
  (`UniqKeepsFirsts`, from an invariant on the indices that are kept);
- `AlwaysKeepsTheFirstOfEach`: the property is about what two stages leave, so its
  invariant `KInv` says of the one between, DISTINCT, that the pairs are the
  projected rows along an increasing list of indices (`Along`), and WHERE takes a
  part of such a list (`SatisfyingAlong`). DISTINCT compares what `_freeze` makes of
  values, the property compares values; so the theorem has a condition,
  `KindsTellApart`. It can fail: grouping puts frozen keys into rows, and a later
  DISTINCT freezes them again. TLC finds it true in every reachable state of the
  run. `DistinctIsExactOnUnfrozenRows` shows where it is sure to hold: `_freeze`
  makes the same of no two values it has not made itself (`ValuesToldApart`);
- `GroupsAlwaysPartition`, with the invariant `GInv`. A group is the rows along the
  increasing list of its indices (`GroupsAlong`), an aggregate takes the part of it
  that is not null (`ArgumentsAlong`), and DISTINCT inside an aggregate leaves as
  many values as there are, by a bijection from the kept indices to the values
  (`FirstsCountValues`). Its two conditions: `ColumnsToldApart`, that `_freeze` tells
  the values of a column apart, which again only keys that are frozen already could
  break, and `NamedOnce`, since of two items of one name the later one wins. TLC
  finds both true in every projected state of the run.

`ProjectionOrderProofs` proves `AlwaysOrderedAsAsked`, for any number of keys. What
the passes do is told of indices: after each of them the pairs are what ORDER BY
began with (`Begun`) along a list in which each index comes once (`Along`), and
`Follows` says that this list goes by a set of pairs of indices. The argument has
three parts.

- A pass. An insertion goes in front of the first it comes before, so the list
  stays one that follows the key, ties by index (`InsertAlong`); for that being
  neither before nor after has to be transitive (`WeakOrder`), which the numbers
  behind numbers and nodes see to (`LessIsWeak`). The nulls, in their order, are
  joined to it in front or behind (`PassedAlong`, `JoinFollows`).
- All passes. The invariant `OInv`: the list follows the keys behind those still to
  come (`FirstByLast`, `AfterKeys`). A pass by one key more, stable, makes that key
  the first of them (`PassAfterKeys`); transitivity is not needed here.
- The end. A list that follows a relation in which no two go both ways has at each
  place the element with that many before it (`FollowsArranged`), which is how
  `OrderedAsAsked` names the order.

The theorem asks that key values are nulls, numbers or nodes (`KeysHaveAnOrder`),
since Python orders lists by their elements and the model does not, and, without
aggregates, `KindsTellApart`. TLC finds both true whenever the run has ordered.

Only model-checked: that MERGE ensures its pattern, and everything about trees,
texts and rewriting except the guard and the comments (`SurvivingTreesComeBack` and
`StableThereAndBack` among it). `MergeEnsuresMatch` stays with TLC for a reason: it
holds of the alphabet of `write_clauses` and not of every alphabet, since a pattern
may ask for what its creation does not give (a trail of several relationships, a
relationship that is bound already), and ON CREATE may take back what was created.
Liveness (`Terminates`, `ClausesEnd`, `ReadingEnds`) stays with TLC, since the prover
does not reason about fairness and ENABLED. So do the properties of `rewrites`, which compare what RECURSIVE
operators (`Eval`, `Walk`, `Lowered`, `Survives`) make of trees.

## 5. The plan

Done, in this order: the store with its abstraction and proofs (`PropertyGraph`);
matching and its references (`PathMatch`, `VarExpand`, `MatchClause`); the clause
loop on both (`WriteClauses`); the clauses that reshape rows (`Projection`); the
text side, from characters to trees and back (`Lexer`, `Grammar`, `Parser`,
`Renderer`, `Transpile`); what a tree means (`Evaluation`, `Execution`); and what
changes or refuses a tree (`Optimizer`, `Lowering`, `Scoping`, `Validators`,
`Pipeline`); the proofs about the search, the lexer, the parser, matching and
projection.

Left, the most useful first.

1. `Lineage`: the backward walk against forward evaluation on the trees of
   `Pipeline`.
2. `Planner`: a candidate covers the query; the cache is bounded.
3. The checks that need more than the tree: signatures of functions and the
   schema.

## 6. Findings

- `README.md:110` promises that unsupported semantics raise `ExecuteError` and are
  never silently ignored. A property filter on a variable-length relationship is
  (`engine.py:349`): `_var_expand` looks at types and direction only. Run
  `filtered_trails`.
- The docstring of `_order_paired` (`engine.py:864`) says that it honors NULLS FIRST and
  NULLS LAST. After grouping it does not: `_aggregate_return` puts the frozen keys
  into its rows (`engine.py:538`), where null is the tuple `("null",)`, which
  `is_null` does not recognise. `MATCH (n) OPTIONAL MATCH (n)-[:T]->(m) RETURN m AS
  k, count(*) AS c ORDER BY k NULLS FIRST` gives the null group last; where the other
  keys are numbers the comparison raises `TypeError`. Run `grouped_nulls`.
- `docs/api.md:88` calls `translate` and `transpile` with one dialect an
  "Identity round-trip". The renderer writes no parentheses (`renderer.py:481`) and
  the parser drops those it reads: `(n.a OR n.b) AND n.c` comes back as
  `n.a OR n.b AND n.c`, which is another condition. Run `identity`.
- `docs/dialects.md:53` promises that "unsupported semantic surfaces are never
  silently ignored". `walk` and `transform` (`ast.py:82`) do not look into the pairs
  that hold the arms of a CASE, so that lowering neither lowers nor refuses what is
  in one: `MATCH (n) RETURN CASE WHEN true THEN [(n)-->(m WHERE m.x = 1) | m.x] END`
  is answered as if the predicate were not there. Run `ignored`.

What section 3 says of `Keeps`, `CanMend`, `Brings` and `NamesAreSeen` describes
rules and checks at their limits; the documentation promises nothing else of
them, save for the sentence on Cartesian MATCHes.

## 7. Not modelled

- Numbers other than integers, and with them division, powers, `avg`, `stdev` and
  the percentiles; functions on strings and of time; regular expressions: library
  calls without a state.
- `EXISTS { query }` and `COUNT { query }` as values (they are parsed, rendered and
  rewritten), and parameters. `SET n = {…}` and `SET n += {…}` with several keys.
- `ensure_labelled_nodes`, which guesses labels from a schema: no dialect of the
  repository asks for it. `annotate_types` is modelled as the identity: it writes
  the types of nodes only, which nothing modelled here reads.
- Validation of function signatures, comparability of types, and against a
  schema; the schema catalog itself: tables of names.
- The planner and its cache: plans are shown and never run, `execute()` does not
  use them. Scopes and lineage: a reading of the tree for the user.
- What `db.labels` collects; the command line, the builder functions, the wording
  and positions of errors, the test kit runner and the probe scripts.
