------------------------------ MODULE Grammar ------------------------------
(***************************************************************************)
(* What each method of parser.py does, as data: a rule is a sequence of    *)
(* alternatives tried in order, the first one whose conditions hold is     *)
(* taken, and none means a ParseError.  An alternative looks at the next   *)
(* tokens, at a capability of the dialect and at the value parsed last,    *)
(* and then does a sequence of things, each written as a string:           *)
(*   a kind or a contextual word ("MATCH", "(") - expect and pass a token, *)
(*   a node type ("Match")                      - build it from the last   *)
(*                                                values parsed,           *)
(*   a rule ("expression")                      - call that method,        *)
(*   "@..."                                     - a helper (Parser.tla).   *)
(***************************************************************************)
EXTENDS Ast

Alternative(look, flag, top, do) == [look |-> look, flag |-> flag, top |-> top, do |-> do]
Else(do) == Alternative(<<>>, "", {}, do)
On(kinds, do) == Alternative(<<kinds>>, "", {}, do)
On2(kinds, next, do) == Alternative(<<kinds, next>>, "", {}, do)
Look(kinds, do) == Alternative(kinds, "", {}, do)
If(flag, kinds, do) == Alternative(<<kinds>>, flag, {}, do)
If2(flag, kinds, next, do) == Alternative(<<kinds, next>>, flag, {}, do)
Top(shapes, do) == Alternative(<<>>, "", shapes, do)
TopOn(shapes, kinds, do) == Alternative(<<kinds>>, "", shapes, do)

Rule(do) == <<Else(do)>>
Maybe(kind, do) == <<On({kind}, do), Else(<<"@none">>)>>
Flag(kind) == <<On({kind}, <<kind, "@yes">>), Else(<<"@none">>)>>
(* A chain of binary operators of one level: pairs of a sign and a type. *)
Chain(operators, operand, self) ==
    [k \in DOMAIN operators |->
        On({operators[k][1]}, <<operators[k][1], operand, operators[k][2], self>>)]
        \o Rule(<<>>)

(* _inner_looks_like_pattern(0): a parenthesis that begins a node pattern. *)
PatternAfter(prefix, do) ==
    <<Look(prefix \o <<{"("}, {":", ")", "{", "("}>>, do),
      Look(prefix \o <<{"("}, {"IDENT"}, {":", ")", "{", "-", "<-", "->"}>>, do)>>

-----------------------------------------------------------------------------
QueryRules ==
    ("root" :> <<On({"CYPHER"}, <<"CYPHER", "version", "statement", "EOF", "Cypher">>),
                 Else(<<"@none", "statement", "EOF", "Cypher">>)>>) @@
    ("version" :> Maybe("INTEGER", <<"@int">>)) @@
    ("statement" :> Rule(<<"@enter", "statement body", "@leave">>)) @@
    ("statement body" :> <<If("allow_when_query", {"WHEN"}, <<"when query">>),
                           Else(<<"query", "unions", "nexts">>)>>) @@
    ("unions" :> <<On({"UNION"}, <<"UNION", "distinct", "query", "Union", "unions">>),
                   Else(<<>>)>>) @@
    ("distinct" :> <<On({"ALL"}, <<"ALL", "@none">>), Else(<<"@yes">>)>>) @@
    ("nexts" :> <<On({"NEXT"}, <<"NEXT", "query", "Next", "nexts">>), Else(<<>>)>>) @@
    ("query" :> <<On({"USE"}, <<"@new", "USE", "expression", "Use", "@add", "clauses", "Query">>),
                  Else(<<"@new", "clauses", "some", "Query">>)>>) @@
    ("some" :> <<Top({"empty"}, <<"@fail">>), Else(<<>>)>>) @@
    ("clauses" :>
        <<If2("allow_load_csv", {"LOAD"}, {"CSV"}, <<"load csv", "@add", "clauses">>),
          If("allow_filter_clause", {"FILTER"}, <<"filter", "@add", "clauses">>),
          If("allow_let_clause", {"LET"}, <<"let", "@add", "clauses">>),
          If("allow_for_clause", {"FOR"}, <<"for", "@add", "clauses">>),
          If("allow_admin_ddl", {"SHOW"}, <<"@admin", "@add">>),
          If2("allow_admin_ddl", {"CREATE"}, {"INDEX", "CONSTRAINT"}, <<"@admin", "@add">>),
          On({"CALL"}, <<"call", "@add", "clauses">>),
          On2({"OPTIONAL"}, {"CALL"}, <<"call", "@add", "clauses">>),
          On({"OPTIONAL", "MATCH"}, <<"match", "@add", "clauses">>),
          On({"UNWIND"}, <<"UNWIND", "expression", "AS", "@var", "Unwind", "@add", "clauses">>),
          On({"WITH"}, <<"with", "@add", "clauses">>),
          On({"INSERT"}, <<"INSERT", "pattern", "Insert", "@add", "clauses">>),
          On({"CREATE", "MERGE", "SET", "DELETE", "DETACH", "REMOVE", "FOREACH"},
             <<"update", "@add", "clauses">>),
          On({"RETURN"}, <<"return", "@add">>),
          On({"FINISH"}, <<"FINISH">>),
          Else(<<>>)>>)

ReadingRules ==
    ("match" :> Rule(<<"optional", "MATCH", "pattern", "search", "where", "hints", "Match">>)) @@
    ("optional" :> Flag("OPTIONAL")) @@
    ("where" :> Maybe("WHERE", <<"WHERE", "expression", "Where">>)) @@
    ("hints" :> Maybe("USING", <<"@new", "hint", "more hints">>)) @@
    ("more hints" :> <<On({"USING"}, <<"hint", "more hints">>), Else(<<>>)>>) @@
    ("hint" :> Rule(<<"@token", "hint kind", "hint words", "@add">>)) @@
    ("hint kind" :> <<On({"INDEX", "SCAN", "JOIN"}, <<"@token", "@spaced">>)>>) @@
    ("hint words" :> <<On({"IDENT", ":"}, <<"@token", "@spaced", "hint index", "hint words">>),
                       Else(<<>>)>>) @@
    ("hint index" :> <<On({"("}, <<"@token", "@spaced", "hint properties">>), Else(<<>>)>>) @@
    ("hint properties" :> <<On({")"}, <<"@token", "@spaced">>), On({"EOF"}, <<>>),
                            Else(<<"@token", "@spaced", "hint properties">>)>>)

ProjectionRules ==
    ("with" :> Rule(<<"WITH", "DISTINCT?", "items", "group by", "order", "skip", "limit", "where",
                      "With">>)) @@
    ("return" :> Rule(<<"RETURN", "DISTINCT?", "items", "group by", "order", "skip", "limit",
                        "Return">>)) @@
    ("DISTINCT?" :> Flag("DISTINCT")) @@
    ("items" :> <<On({"*"}, <<"@new", "*", "Star", "@add">>), Else(<<"@list", "item">>)>>) @@
    ("item" :> Rule(<<"expression", "alias">>)) @@
    ("alias" :> <<On({"AS"}, <<"AS", "@var", "Alias">>), Else(<<>>)>>) @@
    ("group by" :> <<On2({"GROUP"}, {"BY"}, <<"group by clause">>), Else(<<"@none">>)>>) @@
    ("order" :> Maybe("ORDER", <<"ORDER", "BY", "@list", "ordered", "Order">>)) @@
    ("ordered" :> Rule(<<"expression", "desc", "nulls", "Ordered">>)) @@
    ("desc" :> <<On({"DESC"}, <<"DESC", "@yes">>), On({"ASC"}, <<"ASC", "@none">>),
                 Else(<<"@none">>)>>) @@
    ("nulls" :> Maybe("NULLS", <<"NULLS", "nulls place">>)) @@
    ("nulls place" :> <<On({"FIRST", "LAST"}, <<"@word">>)>>) @@
    ("skip" :> Maybe("SKIP", <<"SKIP", "expression", "Skip">>)) @@
    ("limit" :> Maybe("LIMIT", <<"LIMIT", "expression", "Limit">>))

UpdateRules ==
    ("update" :>
        <<On({"CREATE"}, <<"CREATE", "pattern", "Create">>),
          On({"MERGE"}, <<"MERGE", "pattern", "merge actions", "Merge">>),
          On({"SET"}, <<"SET", "set body">>),
          On({"DELETE", "DETACH"}, <<"detach", "DELETE", "@list", "expression", "Delete">>),
          On({"REMOVE"}, <<"REMOVE", "@list", "remove item", "Remove">>),
          On({"FOREACH"}, <<"FOREACH", "(", "@var", "IN", "expression", "|", "@new",
                            "foreach body", ")", "Foreach">>)>>) @@
    ("merge actions" :> Maybe("ON", <<"@new", "more actions">>)) @@
    ("more actions" :>
        <<On2({"ON"}, {"CREATE"}, <<"ON", "CREATE", "SET", "@new", "set body", "@add", "OnCreate",
                                    "@add", "more actions">>),
          On2({"ON"}, {"MATCH"}, <<"ON", "MATCH", "SET", "@new", "set body", "@add", "OnMatch",
                                   "@add", "more actions">>),
          On({"ON"}, <<"@fail">>), Else(<<>>)>>) @@
    ("set body" :> Rule(<<"@list", "set item", "Set">>)) @@
    ("set item" :> Rule(<<"set target", "as pattern", "set value", "SetItem">>)) @@
    ("set target" :> <<On({"("}, <<"(", "expression", ")", "set names">>), Else(<<"postfix">>)>>) @@
    ("set names" :> <<On({"."}, <<".", "@name", "Property", "set names">>), Else(<<>>)>>) @@
    ("as pattern" :> <<Top({"LabelPredicate"}, <<"@parts", "@none", "@none", "NodePattern">>),
                       Else(<<>>)>>) @@
    ("set value" :> <<Top({"NodePattern"}, <<"@none", "@none">>),
                      On({"+"}, <<"+", "=", "@yes", "expression">>),
                      Else(<<"=", "@none", "expression">>)>>) @@
    ("detach" :> Flag("DETACH")) @@
    ("remove item" :> Rule(<<"postfix", "remove labels">>)) @@
    ("remove labels" :> <<Top({"LabelPredicate"}, <<"@parts", "RemoveLabels">>), Else(<<>>)>>) @@
    ("foreach body" :> <<On({")"}, <<>>), Else(<<"update", "@add", "foreach body">>)>>)

CallRules ==
    ("call" :>
        <<If("allow_optional_call", {"OPTIONAL"}, <<"OPTIONAL", "CALL", "@yes", "subquery">>),
          On2({"CALL"}, {"(", "{"}, <<"CALL", "@none", "subquery">>),
          On({"CALL"}, <<"CALL", "@ident", "procedure name", "arguments", "yield",
                         "CallProcedure">>)>>) @@
    ("subquery" :> <<On({"(", "{"}, <<"imports", "{", "statement", "}", "transactions",
                                      "CallSubquery">>)>>) @@
    ("imports" :> <<If("allow_call_variable_import", {"("}, <<"(", "import list", ")">>),
                    On({"("}, <<"@fail">>), Else(<<"@none">>)>>) @@
    ("import list" :> <<On({"*"}, <<"*", "Star">>), Else(<<"@list", "@var">>)>>) @@
    ("transactions" :> <<On2({"IN"}, {"TRANSACTIONS"}, <<"in transactions">>),
                         Else(<<"@none", "@none">>)>>) @@
    ("in transactions" :> <<If("allow_call_in_transactions", {"IN"},
                               <<"IN", "TRANSACTIONS", "@yes", "of rows">>)>>) @@
    ("of rows" :> Maybe("OF", <<"OF", "expression", "rows">>)) @@
    ("rows" :> <<On({"ROWS"}, <<"ROWS">>), Else(<<>>)>>) @@
    ("procedure name" :> <<On({"."}, <<"@token", "@glue", "@ident", "@glue", "procedure name">>),
                           Else(<<>>)>>) @@
    ("arguments" :> <<On({"("}, <<"(", "call arguments", ")">>), Else(<<"@new">>)>>) @@
    ("call arguments" :> <<On({")"}, <<"@new">>), Else(<<"@list", "expression">>)>>) @@
    ("yield" :> <<On({"YIELD"}, <<"YIELD", "yield items", "Yield", "where">>),
                  Else(<<"@none", "@none">>)>>) @@
    ("yield items" :> <<On({"*"}, <<"@new", "*", "Star", "@add">>),
                        Else(<<"@list", "yield item">>)>>) @@
    ("yield item" :> Rule(<<"@var", "alias">>))

-----------------------------------------------------------------------------
PathRules ==
    ("pattern" :> Rule(<<"@list", "path", "Pattern">>)) @@
    ("path" :> Rule(<<"@enter", "path body", "@leave">>)) @@
    ("path body" :> <<On2({"IDENT"}, {"="}, <<"@var", "=", "elements", "PathPattern">>),
                      Else(<<"@none", "elements", "PathPattern">>)>>) @@
    ("elements" :>
        <<On({"SHORTESTPATH"}, <<"SHORTESTPATH", "@none", "(", "path", ")", "ShortestPath",
                                 "@wrap">>),
          On({"ALLSHORTESTPATHS"}, <<"ALLSHORTESTPATHS", "@yes", "(", "path", ")",
                                     "ShortestPath", "@wrap">>),
          On2({"("}, {"("}, <<"@try", "quantified path", "plain path">>),
          Else(<<"plain path">>)>>) @@
    ("quantified path" :> Rule(<<"(", "path", ")", "repetition", "@commit", "QuantifiedPath",
                                 "@wrap">>)) @@
    ("repetition" :> <<On({"{"}, <<"{", "int", "upper", "}">>),
                       On({"*"}, <<"*", "@zero", "@none">>), On({"+"}, <<"+", "@one", "@none">>)>>) @@
    ("int" :> Maybe("INTEGER", <<"@int">>)) @@
    ("upper" :> <<On({","}, <<",", "int">>), Else(<<"@same">>)>>) @@
    ("plain path" :> Rule(<<"node", "@wrap", "steps">>)) @@
    ("steps" :> <<On({"-", "<-", "->"}, <<"relationship", "@add", "node", "@add", "steps">>),
                  Else(<<>>)>>)

NodeRules ==
    ("node" :> Rule(<<"(", "var", "labels?", "properties", "inline where", ")",
                      "NodePattern">>)) @@
    ("var" :> Maybe("IDENT", <<"@var">>)) @@
    ("properties" :> Maybe("{", <<"map">>)) @@
    ("inline where" :>
        <<If("allow_inline_pattern_where", {"WHERE"}, <<"WHERE", "expression", "Where">>),
          On({"WHERE"}, <<"@fail">>), Else(<<"@none">>)>>) @@
    ("labels?" :> Maybe(":", <<"labels">>)) @@
    ("labels" :> Rule(<<":", "label expression", "LabelExpression">>)) @@
    ("label expression" :>
        <<If("allow_dynamic_labels", {"PARAMETER"}, <<"@new", "@param">>),
          If("allow_label_expressions", {"!", "("}, <<"@new", "label text">>),
          Else(<<"@name", "label names">>)>>) @@
    ("label names" :>
        <<If("allow_label_expressions", {"&", "|", "%"}, <<"label operators", "@new", "@swap">>),
          On({"|"}, <<"@token", "@glue", "@name", "@glue", "label choices", "@new", "@swap">>),
          Else(<<"@wrap", "more labels", "@none">>)>>) @@
    ("label operators" :>
        <<On({"&", "|"}, <<"@token", "@glue", "@name", "@glue", "label operators">>),
          On({"%"}, <<"@token", "@glue", "label operators">>), Else(<<>>)>>) @@
    ("label choices" :> <<On({"|"}, <<"@token", "@glue", "@name", "@glue", "label choices">>),
                          Else(<<>>)>>) @@
    ("more labels" :> <<On({":"}, <<":", "@name", "@add", "more labels">>), Else(<<>>)>>) @@
    ("label text" :> Rule(<<"label atom", "label rest">>)) @@
    ("label atom" :> <<On({"!"}, <<"@token">>),
                       On({"("}, <<"@token", "label text", "@glue", "label close", "@glue">>),
                       Else(<<"@name">>)>>) @@
    ("label close" :> <<On({")"}, <<"@token">>)>>) @@
    ("label rest" :> <<On({"&", "|"}, <<"@token", "@glue", "label text", "@glue">>), Else(<<>>)>>)

RelationshipRules ==
    ("relationship" :>
        <<On2({"<-"}, {"["}, <<"<-", "detail", "left end", "RelationshipPattern">>),
          On2({"<-"}, {"->"}, <<"<-", "->", "no detail", "@both", "RelationshipPattern">>),
          On({"<-"}, <<"<-", "-", "no detail", "@incoming", "RelationshipPattern">>),
          On2({"-"}, {"["}, <<"-", "detail", "right end", "RelationshipPattern">>),
          On2({"-"}, {"->"}, <<"-", "->", "no detail", "@outgoing", "RelationshipPattern">>),
          On({"-"}, <<"-", "dash", "no detail", "@both", "RelationshipPattern">>)>>) @@
    ("left end" :> <<On({"->"}, <<"->", "@both">>), Else(<<"-", "@incoming">>)>>) @@
    ("right end" :> <<On({"->"}, <<"->", "@outgoing">>), Else(<<"-", "@both">>)>>) @@
    ("dash" :> <<On({"-"}, <<"-">>), Else(<<>>)>>) @@
    ("no detail" :> Rule([k \in 1..10 |-> "@none"])) @@
    ("detail" :> Rule(<<"[", "var", "types", "hops", "properties", "inline where", "]">>)) @@
    ("types" :> Maybe(":", <<":", "@name", "@wrap", "more types">>)) @@
    ("more types" :> <<On({"|"}, <<"|", "colon", "@name", "@add", "more types">>), Else(<<>>)>>) @@
    ("colon" :> <<On({":"}, <<":">>), Else(<<>>)>>) @@
    ("hops" :> <<On({"*"}, <<"*", "@yes", "quantifier">>),
                 Else(<<"@none", "@none", "@none", "@none", "@none", "@none">>)>>) @@
    ("quantifier" :>
        <<If("allow_memgraph_rel_quantifiers", {"BFS"},
             <<"BFS", "@bfs", "bounds", "weight", "@none">>),
          If("allow_memgraph_rel_quantifiers", {"WSHORTEST"},
             <<"WSHORTEST", "@wShortest", "bounds", "weight", "var">>),
          Else(<<"@none", "bounds", "@none", "@none">>)>>) @@
    ("bounds" :> <<On2({"INTEGER"}, {".."}, <<"@int", "..", "int">>),
                   On({"INTEGER"}, <<"@int", "@same">>), On({".."}, <<"..", "@one", "int">>),
                   Top({"None"}, <<"@one", "@none">>), Else(<<"@none", "@none">>)>>) @@
    ("weight" :> Maybe("(", <<"(", "@var", ",", "@var", "|", "expression", ")",
                              "RelationshipLambda">>))

(* reduce, extract and filter over a list, and COUNT { }. *)
LambdaRules ==
    ("list lambda" :>
        <<On({"REDUCE"}, <<"@called", "(", "@var", "=", "expression", ",", "@var", "IN",
                           "expression", "|", "expression", ")", "ListLambda">>),
          On({"EXTRACT"}, <<"@called", "@none", "@none", "(", "@var", "IN", "expression", "|",
                            "expression", ")", "ListLambda">>),
          On({"FILTER"}, <<"@called", "@none", "@none", "(", "@var", "IN", "expression", "WHERE",
                           "expression", ")", "ListLambda">>)>>) @@
    ("count subquery" :> Rule(<<"COUNT", "{", "counted", "}", "CountSubquery">>)) @@
    ("counted" :> PatternAfter(<<>>, <<"path">>) \o Rule(<<"statement">>))

-----------------------------------------------------------------------------
OperatorRules ==
    ("expression" :> Rule(<<"@enter", "or", "@leave">>)) @@
    ("or" :> Rule(<<"xor", "or tail">>)) @@
    ("or tail" :> Chain(<<<<"OR", "Or">>>>, "xor", "or tail")) @@
    ("xor" :> Rule(<<"and", "xor tail">>)) @@
    ("xor tail" :> Chain(<<<<"XOR", "Xor">>>>, "and", "xor tail")) @@
    ("and" :> Rule(<<"not", "and tail">>)) @@
    ("and tail" :> Chain(<<<<"AND", "And">>>>, "not", "and tail")) @@
    ("not" :>
        PatternAfter(<<{"NOT"}, {"("}>>,
                     <<"NOT", "(", "path", "@yes", "PatternPredicate", ")">>)
        \o PatternAfter(<<{"NOT"}>>, <<"NOT", "path", "@yes", "PatternPredicate">>)
        \o <<On({"NOT"}, <<"NOT", "not", "Not">>), Else(<<"add", "comparisons">>)>>) @@
    ("comparisons" :>
        <<On({"STARTS"}, <<"STARTS", "WITH", "add", "StartsWith", "comparisons">>),
          On({"ENDS"}, <<"ENDS", "WITH", "add", "EndsWith", "comparisons">>),
          On({"IS"}, <<"IS", "is not", "NULL", "IsNull", "comparisons">>)>>
        \o Chain(<<<<"=", "EQ">>, <<"<>", "NEQ">>, <<"<", "LT">>, <<">", "GT">>, <<"<=", "LTE">>,
                   <<">=", "GTE">>, <<"=~", "RegexMatch">>, <<"CONTAINS", "Contains">>,
                   <<"IN", "In">>>>, "add", "comparisons")) @@
    ("is not" :> Flag("NOT")) @@
    ("add" :> Rule(<<"mul", "add tail">>)) @@
    ("add tail" :> Chain(<<<<"+", "Add">>, <<"-", "Sub">>>>, "mul", "add tail")) @@
    ("mul" :> Rule(<<"pow", "mul tail">>)) @@
    ("mul tail" :> Chain(<<<<"*", "Mul">>, <<"/", "Div">>, <<"%", "Mod">>>>, "pow", "mul tail")) @@
    ("pow" :> Rule(<<"unary", "pow tail">>)) @@
    ("pow tail" :> <<On({"^"}, <<"^", "pow", "Pow">>), Else(<<>>)>>) @@
    ("unary" :> <<On({"+"}, <<"+", "unary">>), On({"-"}, <<"-", "unary", "Neg">>),
                  Else(<<"postfix">>)>>)

PostfixRules ==
    ("postfix" :> Rule(<<"primary", "accesses">>)) @@
    ("accesses" :>
        <<On({"."}, <<".", "@name", "Property", "projection", "accesses">>),
          TopOn({"Identifier"}, {"{"}, <<"projection", "accesses">>),
          On2({"["}, {".."}, <<"[", "..", "@none", "slice end", "accesses">>),
          On({"["}, <<"[", "expression", "subscript", "accesses">>),
          TopOn({"Identifier"}, {":"}, <<"labels", "LabelPredicate", "accesses">>),
          Else(<<>>)>>) @@
    ("slice end" :> <<On({"]"}, <<"@none", "]", "ListSlice">>),
                      Else(<<"expression", "]", "ListSlice">>)>>) @@
    ("subscript" :> <<On({".."}, <<"..", "slice end">>), Else(<<"]", "ListSubscript">>)>>)

PrimaryRules ==
    ("primary" :>
        <<On({"INTEGER", "FLOAT", "STRING", "TRUE", "FALSE", "NULL", "PARAMETER"}, <<"@literal">>),
          On({"CASE"}, <<"CASE", "case this", "@new", "whens", "case else", "END", "Case">>),
          On({"["}, <<"list">>), On({"{"}, <<"map">>), On({"EXISTS"}, <<"exists">>),
          On2({"COUNT"}, {"{"}, <<"count subquery">>),
          On({"ALL", "ANY", "NONE", "SINGLE"},
             <<"@called", "(", "@var", "IN", "expression", "filtered", ")", "Quantifier">>),
          On({"("}, <<"paren">>),
          On({"REDUCE", "EXTRACT", "FILTER"}, <<"list lambda">>),
          On({"IDENT", "COUNT", "COLLECT", "SHORTESTPATH", "ALLSHORTESTPATHS"}, <<"name">>)>>) @@
    ("filtered" :> Maybe("WHERE", <<"WHERE", "expression">>)) @@
    ("exists" :>
        <<On2({"EXISTS"}, {"{"}, <<"EXISTS", "{", "exists body", "}", "@none",
                                   "PatternPredicate">>),
          On2({"EXISTS"}, {"("}, <<"@called", "(", "exists argument">>)>>) @@
    ("exists body" :>
        PatternAfter(<<>>, <<"@none", "path", "@wrap", "Pattern", "@none", "where", "@none",
                             "Match", "@wrap", "Query">>)
        \o Rule(<<"statement">>)) @@
    ("exists argument" :>
        <<On({"("}, <<"@drop", "path", ")", "@none", "PatternPredicate">>),
          Else(<<"@none", "expression", ")", "@wrap", "FunctionCall">>)>>)

ParenRules ==
    ("paren" :> PatternAfter(<<>>, <<"@try", "paren pattern", "paren expression">>)
                \o Rule(<<"paren expression">>)) @@
    ("paren pattern" :> PatternAfter(<<{"("}>>, <<"(", "path", "doubled">>)
                        \o Rule(<<"path", "single">>)) @@
    ("doubled" :> <<TopOn({"chain", "described"}, {")"},
                          <<")", "@commit", "@none", "PatternPredicate">>)>>) @@
    ("single" :> <<Top({"chain", "described"},
                       <<"close", "@commit", "@none", "PatternPredicate">>)>>) @@
    ("close" :> <<On({")"}, <<")">>), Else(<<>>)>>) @@
    ("paren expression" :>
        <<On2({"("}, {"IDENT", ":", ")", "{"}, <<"@try", "paren node", "parenthesized">>),
          Else(<<"parenthesized">>)>>) @@
    ("parenthesized" :> Rule(<<"(", "expression", ")">>)) @@
    ("paren node" :> Rule(<<"path", "ignored where", "ignored bar", "node end">>)) @@
    ("ignored where" :> <<On({"WHERE"}, <<"WHERE", "expression", "@drop">>), Else(<<>>)>>) @@
    ("ignored bar" :> <<On({"|"}, <<"|", "expression", "@drop">>), Else(<<>>)>>) @@
    ("node end" :>
        <<TopOn({"bare"}, {")"}, <<")", "@commit", "@variable">>),
          Top({"chain"}, <<"close", "@commit", "@none", "PatternPredicate">>),
          On({")"}, <<")", "@commit">>),
          (* Neither returns nor restores: what follows the node is parsed. *)
          Else(<<"@drop", "@commit", "expression", ")">>)>>)

ListRules ==
    ("list" :>
        <<On2({"["}, {"]"}, <<"[", "]", "@new", "List">>),
          Look(<<{"["}, {"IDENT"}, {"="}>>, <<"[", "@try", "named comprehension", "list rest">>),
          On2({"["}, {"("}, <<"[", "@try", "path comprehension", "list rest">>),
          Else(<<"[", "list rest">>)>>) @@
    ("named comprehension" :> Rule(<<"@var", "=", "comprehended", "PatternComprehension">>)) @@
    ("path comprehension" :> Rule(<<"@none", "comprehended", "PatternComprehension">>)) @@
    ("comprehended" :> Rule(<<"path", "where", "|", "expression", "]", "@commit">>)) @@
    ("list rest" :>
        <<On2({"IDENT"}, {"IN"}, <<"@var", "IN", "expression", "filtered", "projected", "]",
                                   "ListComprehension">>),
          Else(<<"@list", "expression", "]", "List">>)>>) @@
    ("projected" :> Maybe("|", <<"|", "expression">>)) @@
    ("map" :> <<On2({"{"}, {"}"}, <<"{", "}", "@new", "Map">>),
                Else(<<"{", "@list", "pair", "}", "Map">>)>>) @@
    ("pair" :> Rule(<<"@name", ":", "expression", "tuple">>)) @@
    ("projection" :> <<On2({"{"}, {"}"}, <<"{", "}", "@new", "MapProjection">>),
                       On({"{"}, <<"{", "@list", "entry", "}", "MapProjection">>),
                       Else(<<>>)>>) @@
    ("entry" :> <<On2({"."}, {"*"}, <<".", "*", "Star">>),
                  On2({"."}, {"IDENT"}, <<".", "@ident", "PropertySelector">>),
                  On2({"IDENT"}, {":"}, <<"@ident", ":", "expression", "tuple">>),
                  On({"IDENT"}, <<"@ident">>)>>)

(* CASE; a name, and the call that may follow it. *)
NameRules ==
    ("case this" :> <<On({"WHEN"}, <<"@none">>), Else(<<"expression">>)>>) @@
    ("whens" :> <<On({"WHEN"}, <<"WHEN", "expression", "THEN", "expression", "tuple", "@add",
                                 "whens">>), Else(<<>>)>>) @@
    ("case else" :> Maybe("ELSE", <<"ELSE", "expression">>)) @@
    ("name" :>
        <<On2({"COUNT"}, {"("}, <<"@called", "(", "DISTINCT?", "count arguments", ")",
                                  "FunctionCall">>),
          On2({"COALESCE"}, {"("}, <<"COALESCE", "(", "DISTINCT?", "@drop", "star",
                                     "call arguments", ")", "Coalesce">>),
          On2({"IDENT", "COUNT", "COLLECT", "SHORTESTPATH", "ALLSHORTESTPATHS"}, {"."},
              <<"@try", "dotted call", "simple name">>),
          Else(<<"simple name">>)>>) @@
    ("count arguments" :> <<On({"*"}, <<"*", "@drop", "@none", "Star", "@wrap">>),
                            Else(<<"call arguments">>)>>) @@
    ("dotted call" :> Rule(<<"@called", "dots", "(", "@commit", "DISTINCT?", "star",
                             "call arguments", ")", "FunctionCall">>)) @@
    ("dots" :> <<On({"."}, <<"@token", "@glue", "@name", "@glue", "dots">>), Else(<<>>)>>) @@
    ("star" :> <<On({"*"}, <<"*">>), Else(<<>>)>>) @@
    ("simple name" :> Rule(<<"@called", "function call">>)) @@
    ("function call" :> <<On({"("}, <<"(", "DISTINCT?", "star", "call arguments", ")",
                                      "FunctionCall">>), Else(<<"@identifier">>)>>)

(* The clauses of Cypher 25. *)
ExtensionRules ==
    ("filter" :> Rule(<<"FILTER", "(", "@list", "filter item", ")", "Filter">>)) @@
    ("filter item" :> Rule(<<"@var", "WHERE", "expression", "FilterItem">>)) @@
    ("let" :> Rule(<<"LET", "@list", "let item", "Let">>)) @@
    ("let item" :> Rule(<<"@var", "=", "expression", "@swap", "Alias">>)) @@
    ("for" :> Rule(<<"FOR", "@var", "IN", "expression", "For">>)) @@
    ("load csv" :> Rule(<<"LOAD", "CSV", "headers", "FROM", "expression", "AS", "@var",
                          "terminator", "LoadCsv">>)) @@
    ("headers" :> Maybe("WITH", <<"WITH", "HEADERS", "@yes">>)) @@
    ("terminator" :> Maybe("FIELDTERMINATOR", <<"FIELDTERMINATOR", "expression">>)) @@
    ("search" :>
        <<If("allow_search_clause", {"SEARCH"},
             <<"SEARCH", "@var", "IN", "(", "VECTOR", "INDEX", "expression", "FOR", "expression",
               "search limit", ")", "score", "Search">>),
          Else(<<"@none">>)>>) @@
    ("search limit" :> Maybe("LIMIT", <<"LIMIT", "expression">>)) @@
    ("score" :> Maybe("SCORE", <<"SCORE", "AS", "@var">>)) @@
    ("when query" :> Rule(<<"@new", "branches", "otherwise", "WhenQuery">>)) @@
    ("branches" :> <<On({"WHEN"}, <<"WHEN", "expression", "THEN", "{", "statement", "}",
                                    "WhenBranch", "@add", "branches">>), Else(<<>>)>>) @@
    ("otherwise" :> Maybe("ELSE", <<"ELSE", "{", "statement", "}">>)) @@
    ("group by clause" :>
        <<If("allow_group_by_subclause", {"GROUP"}, <<"GROUP", "BY", "items", "GroupBy">>)>>)

Grammar ==
    QueryRules @@ ReadingRules @@ ProjectionRules @@ UpdateRules @@ CallRules @@ PathRules
        @@ NodeRules @@ RelationshipRules @@ OperatorRules @@ PostfixRules @@ PrimaryRules
        @@ LambdaRules @@ ParenRules @@ ListRules @@ NameRules @@ ExtensionRules
=============================================================================
