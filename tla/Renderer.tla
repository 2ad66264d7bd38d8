------------------------------ MODULE Renderer ------------------------------
(***************************************************************************)
(* The renderer of renderer.py, and what the renderers of the dialects     *)
(* change (dialects/cypher.py): how each type of node is written, as data. *)
(* A node is written as a sequence of pieces; a piece writes an argument,  *)
(* between the texts before and after it, when the argument is there, and  *)
(* separates the members of a list.                                        *)
(***************************************************************************)
EXTENDS Lexer, Ast, Dialects

(* A piece: the texts are given as strings. *)
Piece(field, before, between, after) ==
    [field |-> field, before |-> Atoms(before), between |-> Atoms(between), after |-> Atoms(after)]
Text(text) == Piece("", text, "", "")
Part(field) == Piece(field, "", "", "")
After(before, field) == Piece(field, before, "", "")
Items(field, between) == Piece(field, "", between, "")
(* One of two texts, by whether the argument is there. *)
Choice(field, yes, no) == [field |-> field, yes |-> Atoms(yes), no |-> Atoms(no)]

Comma == ", "
Blank == " "
AndWhere == After(Blank, "where")

-----------------------------------------------------------------------------
WrittenQueries ==
    [Cypher |-> <<Piece("version", "CYPHER ", "", Blank), Part("this")>>,
     Query |-> <<Items("clauses", Blank)>>,
     Union |-> <<Part("this"), Choice("distinct", " UNION ", " UNION ALL "),
                 Part("expression")>>,
     Next |-> <<Part("this"), After(" NEXT ", "expression")>>,
     Use |-> <<After("USE ", "graph")>>,
     WhenBranch |-> <<After("WHEN ", "condition"),
                      Piece("query", " THEN { ", "", " }")>>,
     WhenQuery |-> <<Items("branches", Blank),
                     Piece("default", " ELSE { ", "", " }")>>,
     AdminStatement |-> <<Part("text")>>]

WrittenReading ==
    LET distinct == Choice("distinct", "DISTINCT ", "")
        tail == <<Items("expressions", Comma), After(Blank, "group_by"), After(Blank, "order"),
                  After(Blank, "skip"), After(Blank, "limit")>>
    IN
    [Match |-> <<Choice("optional", "OPTIONAL MATCH ", "MATCH "),
                 Part("pattern"), After(Blank, "search"), Piece("hints", Blank, Blank, ""),
                 AndWhere>>,
     Where |-> <<After("WHERE ", "this")>>,
     With |-> <<Text("WITH "), distinct>> \o tail \o <<AndWhere>>,
     Return |-> <<Text("RETURN "), distinct>> \o tail,
     Unwind |-> <<After("UNWIND ", "expression"), After(" AS ", "alias")>>,
     For |-> <<After("FOR ", "alias"), After(" IN ", "expression")>>,
     GroupBy |-> <<Piece("expressions", "GROUP BY ", Comma, "")>>,
     Order |-> <<Piece("expressions", "ORDER BY ", Comma, "")>>,
     Ordered |-> <<Part("this"), Choice("desc", " DESC", ""),
                   After(" NULLS ", "nulls")>>,
     Skip |-> <<After("SKIP ", "this")>>,
     Limit |-> <<After("LIMIT ", "this")>>]

WrittenUpdates ==
    [Create |-> <<After("CREATE ", "pattern")>>,
     Insert |-> <<After("INSERT ", "pattern")>>,
     Merge |-> <<After("MERGE ", "pattern"), Piece("actions", Blank, Blank, "")>>,
     OnCreate |-> <<Piece("actions", "ON CREATE ", Blank, "")>>,
     OnMatch |-> <<Piece("actions", "ON MATCH ", Blank, "")>>,
     Set |-> <<Piece("items", "SET ", Comma, "")>>,
     Delete |-> <<Choice("detach", "DETACH DELETE ", "DELETE "),
                  Items("expressions", Comma)>>,
     Remove |-> <<Piece("items", "REMOVE ", Comma, "")>>,
     RemoveLabels |-> <<Part("this"), Part("labels")>>,
     SetItem |-> <<Part("this"), Choice("op", " += ", " = "), Part("expression")>>,
     Foreach |-> <<After("FOREACH (", "variable"), After(" IN ", "expression"),
                   Piece("clauses", " | ", Blank, ")")>>]

WrittenCalls ==
    [CallSubquery |-> <<Choice("optional", "OPTIONAL ", ""), Text("CALL "),
                        Piece("variables", "(", Comma, ") "),
                        Piece("query", "{ ", "", " }"),
                        Choice("in_transactions", " IN TRANSACTIONS", ""),
                        Piece("transaction_rows", " OF ", "", " ROWS")>>,
     Filter |-> <<Piece("items", "FILTER (", Comma, ")")>>,
     FilterItem |-> <<Part("variable"), After(" WHERE ", "predicate")>>,
     LoadCsv |-> <<Text("LOAD CSV"),
                   Choice("with_headers", " WITH HEADERS", ""),
                   After(" FROM ", "url"), After(" AS ", "alias"),
                   After(" FIELDTERMINATOR ", "fieldterminator")>>,
     Search |-> <<After("SEARCH ", "variable"),
                  After(" IN (VECTOR INDEX ", "index_name"),
                  After(" FOR ", "vector_expr"), After(" LIMIT ", "limit"),
                  Text(")"), After(" SCORE AS ", "score_alias")>>,
     CallProcedure |-> <<After("CALL ", "name"), Piece("expressions", "(", Comma, ")"),
                         After(Blank, "yield_"), AndWhere>>,
     Yield |-> <<Piece("expressions", "YIELD ", Comma, "")>>,
     Let |-> <<Piece("items", "LET ", Comma, "")>>]

WrittenPatterns ==
    [Pattern |-> <<Items("paths", Comma)>>,
     PathPattern |-> <<Piece("variable", "", "", " = "), Part("elements")>>,
     NodePattern |-> <<Text("("), Part("variable"), Part("labels"), Part("properties"),
                       AndWhere, Text(")")>>,
     RelationshipLambda |-> <<After("(", "relationship"), After(Comma, "node"),
                              Piece("expression", " | ", "", ")")>>,
     ShortestPath |-> <<Choice("all_", "allShortestPaths", "shortestPath"),
                        Piece("this", "(", "", ")")>>,
     QuantifiedPath |-> <<Piece("this", "(", "", "){"), Part("min_hops"), Text(","),
                          Part("max_hops"), Text("}")>>]

(* No operator is ever put in parentheses. *)
WrittenOperators ==
    [op \in DOMAIN BinarySign |->
        <<Part("this"), After(" " \o BinarySign[op] \o " ", "expression")>>]
    @@ [Not |-> <<After("NOT ", "this")>>, Neg |-> <<After("-", "this")>>,
        IsNull |-> <<Part("this"), Choice("not_", " IS NOT NULL",
                                               " IS NULL")>>]

WrittenAccesses ==
    [Star |-> <<Text("*")>>, PropertySelector |-> <<After(".", "name")>>,
     LabelPredicate |-> <<Part("this"), Part("labels")>>,
     Alias |-> <<Part("this"), After(" AS ", "alias")>>,
     tuple |-> <<Piece("key", "", "", ": "), Part("value")>>,
     MapProjection |-> <<Part("this"), Piece("entries", "{", Comma, "}")>>,
     Map |-> <<Piece("entries", "{", Comma, "}")>>,
     List |-> <<Piece("expressions", "[", Comma, "]")>>,
     ListSubscript |-> <<Part("this"), Piece("index", "[", "", "]")>>,
     ListSlice |-> <<Part("this"), Text("["), Part("start"), Text(".."), Part("end"),
                     Text("]")>>]

WrittenForms ==
    LET from == After(" IN ", "source")
        given == After(" WHERE ", "where")
    IN
    [Case |-> <<Text("CASE"), After(Blank, "this"), Part("ifs"), After(" ELSE ", "default"),
                Text(" END")>>,
     FunctionCall |-> <<Part("name"), Text("("), Choice("distinct", "DISTINCT ", ""),
                        Piece("expressions", "", Comma, ")")>>,
     Coalesce |-> <<Piece("expressions", "coalesce(", Comma, ")")>>,
     ListComprehension |-> <<Text("["), Part("variable"), from, given,
                             After(" | ", "projection"), Text("]")>>,
     Quantifier |-> <<Part("name"), Text("("), Part("variable"), from, given, Text(")")>>,
     PatternComprehension |-> <<Text("["), Piece("variable", "", "", " = "),
                                Part("pattern"), AndWhere,
                                Piece("projection", " | ", "", "]")>>,
     CountSubquery |-> <<Piece("query", "COUNT { ", "", " }")>>]

(* Nodes written otherwise inside another node: the type of both. *)
WrittenInside ==
    [LetAlias |-> <<Part("alias"), After(" = ", "this")>>,
     Casetuple |-> <<After(" WHEN ", "key"), After(" THEN ", "value")>>,
     MapProjectionStar |-> <<Text(".*")>>]

Written ==
    WrittenInside @@ WrittenQueries @@ WrittenReading @@ WrittenUpdates @@ WrittenCalls
        @@ WrittenPatterns @@ WrittenOperators @@ WrittenAccesses @@ WrittenForms

-----------------------------------------------------------------------------
(* Names and literals. *)

(* _identifier: a name that is not a word is quoted; a keyword is a word. *)
IsAWord(text) == text # <<>> /\ text[1] \in Letters /\ \A k \in DOMAIN text : text[k] \in Word
Quoted(text) ==
    IF IsAWord(text) THEN text
    ELSE <<Backtick>> \o FoldLeft(LAMBDA t, c : t \o IF c = Backtick THEN <<c, c>> ELSE <<c>>,
                                  <<>>, text) \o <<Backtick>>

Escaped == ("\\" :> <<"\\", "\\">>) @@ ("'" :> <<"\\", "'">>) @@ ("\n" :> <<"\\", "n">>)
               @@ ("\t" :> <<"\\", "t">>)
StringText(text) ==
    <<"'">> \o FoldLeft(LAMBDA t, c : t \o IF c \in DOMAIN Escaped THEN Escaped[c] ELSE <<c>>,
                        <<>>, text) \o <<"'">>

LeafText(node) ==
    CASE node.t \in {"Integer", "Float", "Boolean", "name"} -> node.v
      [] node.t = "String" -> StringText(node.v)
      [] node.t = "Null" -> <<"null">>
      [] node.t = "Parameter" -> <<"$">> \o node.v
      [] node.t = "Identifier" -> Quoted(node.v)

(* A bug: a lower bound alone is written like an exact length. *)
BoundsTextWithoutDots(min, max) ==
    IF IsThere(min) /\ max \in {min, None} THEN min.v
    ELSE IF IsThere(min) \/ IsThere(max) THEN min.v \o <<".", ".">> \o max.v ELSE <<>>

(* The bounds of a variable-length relationship, as numbers or nothing. *)
BoundsText(min, max) ==
    IF IsThere(min) /\ min = max THEN min.v
    ELSE IF IsThere(min) \/ IsThere(max) THEN min.v \o <<".", ".">> \o max.v ELSE <<>>

LabelText(node) ==
    IF IsThere(Arg(node, "expression")) THEN <<":">> \o Arg(node, "expression").v
    ELSE FoldLeft(LAMBDA text, label : text \o <<":">> \o Quoted(label.v),
                  <<>>, Arg(node, "labels").c)

ArrowText(direction, detail) ==
    (IF direction = "INCOMING" THEN <<"<", "-">> ELSE <<"-">>)
        \o (IF detail = <<>> THEN <<>> ELSE <<"[">> \o detail \o <<"]">>)
        \o (IF direction = "OUTGOING" THEN <<"-", ">">> ELSE <<"-">>)

(* A pattern used as a predicate, in the style of the dialect. *)
PredicateText(style, type, negated, body) ==
    LET not == IF negated THEN Atoms("NOT ") ELSE <<>>
        bracketed == <<"(">> \o body \o <<")">>
    IN  IF type \in {"Query", "Union", "Cypher"} \/ (type = "WhenQuery" /\ style # "plain")
        THEN not \o Atoms("EXISTS { ") \o body \o Atoms(" }")
        ELSE IF type # "PathPattern" THEN not \o body
        ELSE IF style = "bare" \/ (style = "plain" /\ negated) THEN not \o bracketed
        ELSE not \o Atoms("EXISTS ") \o bracketed

-----------------------------------------------------------------------------
(* generate(node): what the renderer of a dialect writes. *)

RECURSIVE Render(_, _), Members(_, _, _, _), Pieces(_, _, _)

RelationshipText(node, d) ==
    LET Given(field) == IsThere(Arg(node, field))
        GivenText(before, field) == IF Given(field) THEN before \o Render(Arg(node, field), d) ELSE <<>>
        bounds == BoundsText(Arg(node, "min_hops"), Arg(node, "max_hops"))
        types == Arg(node, "types").c
    IN  ArrowText(Arg(node, "direction").v[1],
            GivenText(<<>>, "variable")
            \o (IF Given("types")
                THEN FoldLeft(LAMBDA text, type : text \o <<"|">> \o Quoted(type.v),
                              <<":">> \o Quoted(types[1].v), Tail(types))
                ELSE <<>>)
            \o (IF ~Given("variable_length") THEN <<>>
                ELSE <<"*">> \o Arg(node, "memgraph_quantifier").v
                     \o (IF Given("memgraph_quantifier") /\ bounds # <<>> THEN <<" ">> ELSE <<>>)
                     \o bounds
                     \o GivenText(<<" ">>, "memgraph_weight_expr")
                     \o GivenText(<<" ">>, "memgraph_total_weight"))
            \o GivenText(<<>>, "properties") \o GivenText(<<" ">>, "where"))

(* SET n:A: a node pattern, written without its parentheses. *)
LabelledText(target) == LeafText(Arg(target, "variable")) \o LabelText(Arg(target, "labels"))

ListLambdaText(node, d) ==
    LET Of(field) == Render(Arg(node, field), d)
        name == Arg(node, "name").v
    IN  name \o <<"(">>
        \o (IF name = <<"reduce">> THEN Of("accumulator") \o Atoms(" = ") \o Of("initial")
                                        \o Atoms(Comma) ELSE <<>>)
        \o Of("variable") \o Atoms(" IN ") \o Of("source")
        \o (IF name = <<"filter">> THEN Atoms(" WHERE ") ELSE Atoms(" | "))
        \o Of("expression") \o <<")">>

(* Members of a list, with a separator. *)
Members(parent, nodes, between, d) ==
    IF nodes = <<>> THEN <<>>
    ELSE LET node == Head(nodes)
             inside == parent \o node.t
         IN  (IF inside \in DOMAIN Written THEN Pieces(node, Written[inside], d) ELSE Render(node, d))
             \o (IF Len(nodes) = 1 THEN <<>> ELSE between \o Members(parent, Tail(nodes), between, d))

PieceText(node, piece, d) ==
    IF piece.field = "" THEN piece.before
    ELSE LET value == Arg(node, piece.field) IN
         IF "yes" \in DOMAIN piece THEN (IF IsThere(value) THEN piece.yes ELSE piece.no)
         ELSE IF ~IsThere(value) THEN <<>>
         ELSE piece.before
              \o (IF value.t = "list" THEN Members(node.t, value.c, piece.between, d)
                                      ELSE Render(value, d))
              \o piece.after

Pieces(node, pieces, d) ==
    IF pieces = <<>> THEN <<>>
    ELSE PieceText(node, Head(pieces), d) \o Pieces(node, Tail(pieces), d)

Render(node, d) ==
    CASE node.t \in Leaves \cup {"name"} -> LeafText(node)
      [] node.t = "None" -> <<>>
      [] node.t = "Property" -> Render(Arg(node, "this"), d) \o <<".">> \o Quoted(Arg(node, "name").v)
      [] node.t = "LabelExpression" -> LabelText(node)
      [] node.t = "RelationshipPattern" -> RelationshipText(node, d)
      [] node.t = "SetItem" /\ Arg(node, "this").t = "NodePattern" -> LabelledText(Arg(node, "this"))
      [] node.t = "ListLambda" -> ListLambdaText(node, d)
      [] node.t = "PatternPredicate" ->
            PredicateText(PatternPredicateStyle(d), Arg(node, "pattern").t,
                          IsThere(Arg(node, "not_")), Render(Arg(node, "pattern"), d))
      [] OTHER -> Pieces(node, Written[node.t], d)

(* Where dispatch, or a dialect's relationship pattern, raises a           *)
(* CompatibilityError instead.                                             *)
RECURSIVE Incompatible(_, _)
Incompatible(node, d) ==
    \/ node.t \in Unsupported(d)
    \/ /\ node.t = "RelationshipPattern" /\ IsThere(Arg(node, "memgraph_quantifier"))
       /\ ~Allows(d, "allow_memgraph_rel_quantifiers")
    \/ \E k \in DOMAIN node.c : Incompatible(node.c[k], d)
=============================================================================
