------------------------------ MODULE Pipeline ------------------------------
(***************************************************************************)
(* From a text to an answer: a text is read (Parser), the rules of         *)
(* optimize() are applied one after the other (Optimizer), the tree is     *)
(* lowered to the core (Lowering) and run on a graph (Execution), as       *)
(* optimize() and run() of __init__.py put them together.                  *)
(***************************************************************************)
EXTENDS Parser, Lowering, Surface, Validators
CONSTANTS
    Sources,            \* the texts to run
    RuleLists,          \* the lists of rules to take them through
    Graphs              \* the graphs to run them on

VARIABLES
    stage,              \* how far the text has come
    rules,              \* the rules still to apply
    tree,               \* the tree as the rules have left it
    core,               \* what lowering made of it
    answer

work == <<stage, rules, tree, core, answer>>
vars == <<lexer, parser, work>>

-----------------------------------------------------------------------------
Init ==
    \E text \in Sources :
        /\ LexInit(text) /\ ParserIdle /\ dialect = "none"
        /\ stage = "reading" /\ rules = <<>> /\ tree = None /\ core = None /\ answer = None

Scan == Lex /\ UNCHANGED <<parser, work>>

Begin == StartParsing /\ UNCHANGED work

Read == Parse /\ UNCHANGED <<lexer, work>>

(* resolve_rules: which rules to apply. *)
ChooseRules ==
    /\ stage = "reading" /\ outcome = "parsed"
    /\ \E list \in RuleLists : rules' = list
    /\ tree' = Tree /\ stage' = "rewriting"
    /\ UNCHANGED <<lexer, parser, core, answer>>

(* RuleSet.apply, one rule. *)
Rewrite ==
    /\ stage = "rewriting" /\ rules # <<>>
    /\ tree' = Apply(Head(rules), tree) /\ rules' = Tail(rules)
    /\ UNCHANGED <<lexer, parser, stage, core, answer>>

Lower ==
    /\ stage = "rewriting" /\ rules = <<>>
    /\ core' = Lowered(tree)
    /\ stage' = IF core' = Rejected THEN "CG1702" ELSE "lowered"
    /\ UNCHANGED <<lexer, parser, rules, tree, answer>>

Execute ==
    /\ stage = "lowered"
    /\ \E G \in Graphs : answer' = Run(core, G)
    /\ stage' = "answered"
    /\ UNCHANGED <<lexer, parser, rules, tree, core>>

Ended == stage \in {"CG1702", "answered"}
Done == Ended /\ UNCHANGED vars

Next == Scan \/ Begin \/ Read \/ ChooseRules \/ Rewrite \/ Lower \/ Execute \/ Done
Spec == Init /\ [][Next]_vars
-----------------------------------------------------------------------------
(* execute(): a tree is lowered and run. *)
AnswerOf(lowered, G) == IF lowered = Rejected THEN Raised("CG1702") ELSE Run(lowered, G)
Answer(t, G) == AnswerOf(Lowered(t), G)

(* Two answers with the same rows, in any order.                           *)
HowMany(row, rows) == Cardinality({k \in DOMAIN rows : rows[k] = row})
SameRows(x, y) ==
    /\ ~Failed(x) /\ ~Failed(y) /\ Len(x.answer) = Len(y.answer)
    /\ \A k \in DOMAIN x.answer : HowMany(x.answer[k], x.answer) = HowMany(x.answer[k], y.answer)

-----------------------------------------------------------------------------
(* The names an expression needs from outside, by the reading of the text: *)
(* a binder binds in its own parts only.                                   *)
RECURSIVE Needed(_)
Needed(node) ==
    CASE node.t \in {"name", "None", "PatternPredicate"} -> {}
      [] node.t = "Identifier" -> {node.v}
      [] node.t \in {"ListComprehension", "Quantifier"} ->
            Needed(Arg(node, "source"))
                \cup ((Needed(Arg(node, "where"))
                          \cup (IF node.t = "Quantifier" THEN {} ELSE Needed(Arg(node, "projection"))))
                      \ NamesOf({node}))
      [] node.t = "ListLambda" ->
            Needed(Arg(node, "initial")) \cup Needed(Arg(node, "source"))
                \cup (Needed(Arg(node, "expression")) \ (NamesOf({node}) \cup {Arg(node, "accumulator").v}))
      [] node.t = "PatternComprehension" ->
            (Needed(Arg(node, "where")) \cup Needed(Arg(node, "projection"))) \ NamesOf(Elements(node))
      [] OTHER -> UNION {Needed(child) : child \in Range(node.c)}

(* What the rules leave as it is, as far as they do.                       *)

Projections(t) == FindAll(t, {"With", "Return"})
ItemsIn(t) == UNION {Range(ItemsOf(clause)) : clause \in Projections(t)}
Paths(t) == FindAll(t, {"PathPattern"})
RelationshipsOf(path) == {e \in Range(Arg(path, "elements").c) : e.t = "RelationshipPattern"}
Consecutive(t) ==
    UNION {{<<Arg(q, "clauses").c[k], Arg(q, "clauses").c[k + 1]>> :
               k \in 1..(Len(Arg(q, "clauses").c) - 1)} : q \in FindAll(t, {"Query"})}

(* Rows and lists in another order are another answer.                     *)
OrderMatters(t) ==
    \/ FindAll(t, {"Limit", "Skip", "PatternComprehension"}) # {}
    \/ \E call \in FindAll(t, {"FunctionCall"}) : Calls(call, {"collect"})

(* Items of one clause with the same name are one column.                  *)
OneColumnEach(t) ==
    \A clause \in Projections(t) :
        Cardinality({NameOfItem(item) : item \in Range(ItemsOf(clause))}) = Len(ItemsOf(clause))

TruthValued == {"Boolean", "Null", "And", "Or", "Xor", "Not", "EQ", "NEQ", "LT", "LTE", "GT", "GTE", "In", "IsNull"}

(* An expression that is null whenever a name is.                          *)
RECURSIVE NullWith(_, _)
NullWith(expr, name) ==
    CASE expr.t = "Identifier" -> expr.v = name
      [] expr.t \in {"Property", "Add", "Sub", "Mul", "EQ", "NEQ", "LT", "LTE", "GT", "GTE"} ->
            \E child \in Range(expr.c) : NullWith(child, name)
      [] expr.t = "FunctionCall" ->
            /\ ~Calls(expr, {"count", "sum", "avg", "min", "max", "collect"})
            /\ \E arg \in Range(Arg(expr, "expressions").c) : NullWith(arg, name)
      [] OTHER -> FALSE

AsksForNothing(node) == Arg(node, "labels") = None /\ Arg(node, "properties") = None /\ Arg(node, "where") = None

Keeps(rule, t, G) ==
    CASE rule = "qualify" ->
            /\ \A item \in ItemsIn(t) : item.t # "Star"
            /\ \A name \in FindAll(t, {"Identifier"}), k \in 1..9 :
                   name.v \notin {GeneratedName("n", k), GeneratedName("r", k)}
      [] rule = "canonicalize_patterns" ->
            \A path \in Paths(t) : (\E hop \in RelationshipsOf(path) : Arg(hop, "direction").v = <<"INCOMING">>) =>
                /\ ~IsThere(Arg(path, "variable")) /\ ~OrderMatters(t)
                /\ \A hop \in RelationshipsOf(path) : ~(IsThere(Arg(hop, "variable_length")) /\ IsThere(Arg(hop, "variable")))
                /\ \A e \in Range(Arg(path, "elements").c) : Needed(Arg(e, "properties")) = {}
      [] rule = "simplify" ->
            \A op \in FindAll(t, {"And", "Or"}) :
                \/ \A child \in Range(op.c) : child.t \in TruthValued
                \/ \A child \in Range(op.c) : Apply("simplify", child).t # "Boolean"
      [] rule = "merge_match_chains" ->
            \A pair \in Consecutive(t) : Continues(pair[1], pair[2]) =>
                /\ AsksForNothing(Head(Arg(OnlyPath(pair[2]), "elements").c))
                /\ ~IsThere(Arg(OnlyPath(pair[1]), "variable")) /\ ~IsThere(Arg(OnlyPath(pair[2]), "variable"))
      [] rule = "split_multi_path_match" ->
            \A clause \in FindAll(t, {"Match"}) :
                IsThere(Arg(clause, "optional")) => Len(Arg(Arg(clause, "pattern"), "paths").c) = 1
      [] rule = "bound_variable_length" ->
            \A hop \in FindAll(t, {"RelationshipPattern"}) : IsThere(Arg(hop, "variable_length")) =>
                /\ IsThere(Arg(hop, "min_hops"))
                /\ \/ Cardinality(DOMAIN G.rels) <= MaxHops
                   \/ /\ IsThere(Arg(hop, "max_hops"))
                      /\ ValueOf(Arg(hop, "max_hops").v, 10) <= MaxHops
      [] rule = "cap_collect_distinct" ->
            \A clause \in Projections(t) :
                Cardinality({item \in Range(ItemsOf(clause)) : Calls(item, {"collect"})})
                    <= Caps.max_collect_distinct_per_clause
      [] rule = "strip_nulls_order_modifiers" -> ~OrderMatters(t)
      [] rule = "guard_optional_scalar_use" ->
            /\ OneColumnEach(t)
            /\ \A item \in ItemsIn(t) \ ItemsIn(Apply(rule, t)), name \in OptionalNames(t) :
                   name \in Refs(item) => NullWith(Unaliased(item), name)
      [] rule = "drop_distinct_beside_aggregate" -> OneColumnEach(t)
      [] rule \in {"pushdown_predicates", "annotate_types"} -> TRUE

-----------------------------------------------------------------------------
(* A rule of the optimizer or a rewrite for a dialect changes the text of  *)
(* a query and not its answer, on any graph, as far as Keeps says.         *)
RulesKeepTheAnswers ==
    [][Rewrite => \A G \in Graphs :
           Keeps(Head(rules), tree, G) =>
               \A before \in {Answer(tree, G)}, after \in {Answer(tree', G)} :
                   Failed(before) \/ SameRows(before, after)]_vars

(* A rule has nothing left to do on what it has made, save for chains of   *)
(* three, which merge_match_chains takes two at a time.                    *)
RulesAreIdempotent ==
    [][Rewrite /\ Head(rules) # "merge_match_chains" => Apply(Head(rules), tree') = tree']_vars

(* The core has nothing left to lower: docs/api.md:214 promises it to who   *)
(* lowers twice, as profile() does before execute() does.                  *)
LoweringTwiceIsOnce == [][Lower /\ stage' = "lowered" => Lowered(core') = core']_vars

(* What a predicate inside the pattern of a comprehension means is left to *)
(* lowering.                                                               *)
FiltersInAComprehension(t) ==
    \E n \in FindAll(t, {"PatternComprehension"}) : \E e \in Elements(n) : IsThere(Arg(e, "where"))

(* Lowering gives the clauses the executor does not know the meaning they  *)
(* have by themselves, on any graph.                                       *)
LoweredMeansTheSame ==
    [][Lower /\ stage' = "lowered" /\ Inner(tree).t = "Query"
          /\ ~FiltersInAComprehension(tree) =>
       \A G \in Graphs :
           \A x \in {Run(core', G)}, y \in {QueryMeans(tree, G)} :
               SameRows(x, y) \/ (Failed(x) /\ Failed(y))]_vars

-----------------------------------------------------------------------------
Expressions(t) ==
    {Unaliased(item) : item \in ItemsIn(t)}
        \cup {Arg(clause, "where") : clause \in FindAll(t, {"With", "Match"})}
        \cup {Arg(clause, "expression") : clause \in FindAll(t, {"Unwind"})}

(* Where the check sees all the names there are: no clause it passes over, *)
(* no names in the maps and the predicates of patterns, none behind a pair *)
(* or hidden by a binder elsewhere in the expression, and none of the rows *)
(* that an aggregation has used up.                                        *)
NamesAreSeen(t) ==
    /\ FindAll(t, {"CallSubquery", "Let", "For", "Filter", "LoadCsv"}) = {}
    /\ \A e \in Elements(t) : Needed(Arg(e, "properties")) = {} /\ ~IsThere(Arg(e, "where"))
    /\ \A expr \in Expressions(t) : Needed(expr) \subseteq FreeNames(expr)
    /\ \A clause \in Projections(t) :
           (\E item \in Range(ItemsOf(clause)) : IsAggregation(item)) =>
               Trailing(clause) \subseteq AliasNames(ItemsOf(clause))

(* A query the check for undefined variables passes never asks the          *)
(* executor for a name it does not know, on any graph, before and after    *)
(* the rules of the optimizer.                                             *)
AcceptedNamesAreKnown ==
    [][Lower /\ UndefinedNames(tree) = {} /\ NamesAreSeen(tree) =>
       \A G \in Graphs : Answer(tree, G) # Raised("unknown name")]_vars

-----------------------------------------------------------------------------
(* The violation each rewrite for a target is there for. *)
Mends ==
    [bound_variable_length |-> "max_var_length_hops",
     split_multi_path_match |-> "allow_cartesian_match_paths",
     drop_distinct_beside_aggregate |-> "allow_distinct_with_aggregate",
     cap_collect_distinct |-> "max_collect_distinct_per_clause",
     strip_nulls_order_modifiers |-> "allow_nulls_order_modifiers",
     guard_optional_scalar_use |-> "allow_unguarded_optional_scalar_use"]


(* Where it can: a required MATCH is split into MATCHes that are refused    *)
(* as much as their paths were, or as the first of them is alone after     *)
(* another MATCH, and only the items of a projection are guarded.          *)
CanMend(rule, t) ==
    CASE rule = "split_multi_path_match" ->
            /\ \A clause \in FindAll(t, {"Match"}) : IsThere(Arg(clause, "optional")) \/ ~DisjointPaths(clause)
            /\ \A query \in FindAll(t, {"Query"}) : ~DisjointMatches(query)
            /\ \A pair \in Consecutive(t) :
                   pair[2].t = "Match" => IsThere(Arg(pair[2], "optional")) \/ Len(PathsOfMatch(pair[2])) = 1
      [] rule = "guard_optional_scalar_use" ->
            \A where \in FindAll(t, {"Where"}), call \in FindAll(t, {"FunctionCall"}) :
                Calls(call, Caps.optional_risky_functions) /\ call \in FindAll(where, {"FunctionCall"})
                    => Refs(call) \cap OptionalNames(t) = {}
      [] OTHER -> TRUE

(* What a rule may bring that was not there: qualify names the nodes of a  *)
(* MATCH that shares no name with the one before it, canonicalize_patterns *)
(* puts the end that has the label last, simplify changes an expression    *)
(* for one of a known shape or another name, merge_match_chains forgets    *)
(* the second path's name, split_multi_path_match takes a path away from   *)
(* the one that tied it to the MATCH before, and cap_collect_distinct      *)
(* leaves one collect(DISTINCT) beside a collect() that is not.            *)
Brings(rule, t) ==
    CASE rule = "qualify" -> {"allow_cartesian_match_paths"}
      [] rule = "canonicalize_patterns" -> {"require_labelled_nodes"}
      [] rule = "simplify" ->
            {"allow_unguarded_optional_scalar_use", "allow_mismatched_case_arms",
             "require_matching_union_columns"}
      [] rule = "merge_match_chains" ->
            IF \E pair \in Consecutive(t) :
                   Continues(pair[1], pair[2]) /\ IsThere(Arg(OnlyPath(pair[2]), "variable"))
            THEN {"check_undefined_variables"} ELSE {}
      [] rule = "split_multi_path_match" -> {"allow_cartesian_match_paths"}
      [] rule = "cap_collect_distinct" -> {"allow_collect_distinct_with_other_aggregates"}
      [] OTHER -> {}

(* A rewrite for a target leaves nothing of what the target refuses and it *)
(* is there to mend, where it can: "optimize, then validate" of            *)
(* validate_capabilities has nothing left to report.                       *)
RewritesMeetTheTarget ==
    [][Rewrite /\ Head(rules) \in DOMAIN Mends /\ CanMend(Head(rules), tree) =>
           ~Violates(Mends[Head(rules)], tree', Walk(tree'))]_vars

(* What a target accepts it still accepts after a rule, as far as Brings   *)
(* says: optimize() and validate() of one dialect do not work against each *)
(* other.                                                                  *)
RulesBringNoViolation ==
    [][Rewrite /\ tree' # tree =>
           Violations(tree') \subseteq Violations(tree) \cup Brings(Head(rules), tree)]_vars

(* The nodes of a tree, those behind pairs too.                            *)
RECURSIVE Everywhere(_)
Everywhere(node) == {node} \cup UNION {Everywhere(child) : child \in Range(node.c)}

(* docs/dialects.md:53: "Unsupported semantic surfaces are never silently  *)
(* ignored - they raise ExecuteError (CG1702)": what is answered had no    *)
(* surface left in it that the executor passes over.                       *)
NothingIsSilentlyIgnored ==
    stage = "answered" /\ ~Failed(answer) => \A node \in Everywhere(core) : ~Residual(node)
=============================================================================
