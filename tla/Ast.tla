-------------------------------- MODULE Ast --------------------------------
(***************************************************************************)
(* The syntax trees of ast.py.  Every node is a record of its type t, its  *)
(* text v (a sequence of the atoms a name or a literal is written with)    *)
(* and its children c, in the order the parser makes them.  The Python     *)
(* value None is the node None, a Python list a node of type "list", a     *)
(* (key, value) pair a node of type "tuple".                               *)
(***************************************************************************)
EXTENDS Integers, SequencesExt

Node(type, text, children) == [t |-> type, v |-> text, c |-> children]
None == Node("None", <<>>, <<>>)
Name(text) == Node("name", text, <<>>)
ListOf(items) == Node("list", <<>>, items)
IsThere(node) == node.t # "None"

(* Numbers are kept as the digits they are written with. *)
DigitValue ==
    [d \in {ToString(n) : n \in 0..9} |-> CHOOSE n \in 0..9 : ToString(n) = d]
        @@ [a |-> 10, b |-> 11, c |-> 12, d |-> 13, e |-> 14, f |-> 15,
            A |-> 10, B |-> 11, C |-> 12, D |-> 13, E |-> 14, F |-> 15]
ValueOf(digits, base) == FoldLeft(LAMBDA n, d : n * base + DigitValue[d], 0, digits)
Numeral(n) ==
    LET digits[k \in Nat] == (IF k < 10 THEN <<>> ELSE digits[k \div 10]) \o <<ToString(k % 10)>>
    IN  digits[n]

-----------------------------------------------------------------------------
(* The catalog of node types, by the names of their arguments. *)

Leaves == {"Null", "Boolean", "Integer", "Float", "String", "Parameter", "Identifier"}

(* Binary operators, each with the text it is written with. *)
BinarySign ==
    [Or |-> "OR", Xor |-> "XOR", And |-> "AND", EQ |-> "=", NEQ |-> "<>", LT |-> "<",
     LTE |-> "<=", GT |-> ">", GTE |-> ">=", RegexMatch |-> "=~", In |-> "IN",
     StartsWith |-> "STARTS WITH", EndsWith |-> "ENDS WITH", Contains |-> "CONTAINS",
     Add |-> "+", Sub |-> "-", Mul |-> "*", Div |-> "/", Mod |-> "%", Pow |-> "^"]

Operators ==
    [op \in DOMAIN BinarySign |-> <<"this", "expression">>]
        @@ [op \in {"Not", "Neg"} |-> <<"this">>] @@ [IsNull |-> <<"this", "not_">>]

Accesses ==
    [Star |-> <<>>, PropertySelector |-> <<"name">>, Property |-> <<"this", "name">>,
     LabelPredicate |-> <<"this", "labels">>, Map |-> <<"entries">>, List |-> <<"expressions">>,
     ListSubscript |-> <<"this", "index">>, ListSlice |-> <<"this", "start", "end">>,
     Alias |-> <<"this", "alias">>, tuple |-> <<"key", "value">>]

Forms ==
    [FunctionCall |-> <<"name", "distinct", "expressions">>,
     Case |-> <<"this", "ifs", "default">>, Coalesce |-> <<"expressions">>,
     ListComprehension |-> <<"variable", "source", "where", "projection">>,
     Quantifier |-> <<"name", "variable", "source", "where">>,
     ListLambda |-> <<"name", "accumulator", "initial", "variable", "source", "expression">>,
     PatternComprehension |-> <<"variable", "pattern", "where", "projection">>,
     MapProjection |-> <<"this", "entries">>, PatternPredicate |-> <<"pattern", "not_">>,
     CountSubquery |-> <<"query">>]

Patterns ==
    [LabelExpression |-> <<"labels", "expression">>,
     NodePattern |-> <<"variable", "labels", "properties", "where">>,
     RelationshipPattern |->
        <<"variable", "types", "variable_length", "memgraph_quantifier", "min_hops", "max_hops",
          "memgraph_weight_expr", "memgraph_total_weight", "properties", "where", "direction">>,
     PathPattern |-> <<"variable", "elements">>, Pattern |-> <<"paths">>,
     ShortestPath |-> <<"all_", "this">>,
     RelationshipLambda |-> <<"relationship", "node", "expression">>,
     QuantifiedPath |-> <<"this", "min_hops", "max_hops">>]

ReadingClauses ==
    [Match |-> <<"optional", "pattern", "search", "where", "hints">>, Where |-> <<"this">>,
     With |-> <<"distinct", "expressions", "group_by", "order", "skip", "limit", "where">>,
     Return |-> <<"distinct", "expressions", "group_by", "order", "skip", "limit">>,
     For |-> <<"alias", "expression">>, GroupBy |-> <<"expressions">>,
     Unwind |-> <<"expression", "alias">>, Order |-> <<"expressions">>,
     Ordered |-> <<"this", "desc", "nulls">>, Skip |-> <<"this">>, Limit |-> <<"this">>]

UpdatingClauses ==
    [Create |-> <<"pattern">>, Merge |-> <<"pattern", "actions">>, OnCreate |-> <<"actions">>,
     OnMatch |-> <<"actions">>, Set |-> <<"items">>, SetItem |-> <<"this", "op", "expression">>,
     Delete |-> <<"detach", "expressions">>, Remove |-> <<"items">>,
     RemoveLabels |-> <<"this", "labels">>, Foreach |-> <<"variable", "expression", "clauses">>]

CallsAndQueries ==
    [CallSubquery |->
        <<"optional", "variables", "query", "in_transactions", "transaction_rows">>,
     FilterItem |-> <<"variable", "predicate">>, Filter |-> <<"items">>, Let |-> <<"items">>,
     LoadCsv |-> <<"with_headers", "url", "alias", "fieldterminator">>,
     Search |-> <<"variable", "index_name", "vector_expr", "limit", "score_alias">>,
     WhenBranch |-> <<"condition", "query">>, WhenQuery |-> <<"branches", "default">>,
     AdminStatement |-> <<"text">>,
     CallProcedure |-> <<"name", "expressions", "yield_", "where">>, Yield |-> <<"expressions">>,
     Union |-> <<"this", "distinct", "expression">>, Query |-> <<"clauses">>,
     Cypher |-> <<"version", "this">>, Next |-> <<"this", "expression">>,
     Insert |-> <<"pattern">>, Use |-> <<"graph">>]

Fields == Operators @@ Accesses @@ Forms @@ Patterns @@ ReadingClauses @@ UpdatingClauses
              @@ CallsAndQueries

(* The argument of a node, by its name. *)
Arg(node, field) == node.c[CHOOSE k \in DOMAIN Fields[node.t] : Fields[node.t][k] = field]

(* A node with the arguments given, and None for the others. *)
Make(type, args) ==
    Node(type, <<>>, [k \in DOMAIN Fields[type] |->
                        IF Fields[type][k] \in DOMAIN args THEN args[Fields[type][k]] ELSE None])

Identifier(text) == Node("Identifier", text, <<>>)
Unaliased(item) == IF item.t = "Alias" THEN Arg(item, "this") ELSE item

(* The names of functions are compared in small letters. *)
SmallLetters(name) ==
    CASE name = "startNode" -> "startnode" [] name = "endNode" -> "endnode"
      [] name = "toInteger" -> "tointeger" [] name = "elementId" -> "elementid" [] OTHER -> name
Calls(item, names) ==
    Unaliased(item).t = "FunctionCall" /\ SmallLetters(Head(Arg(Unaliased(item), "name").v)) \in names

(* node.set(field, value) *)
SetArg(node, field, value) ==
    [node EXCEPT !.c = [k \in DOMAIN @ |-> IF Fields[node.t][k] = field THEN value ELSE @[k]]]
=============================================================================
