------------------------------ MODULE Transpile ------------------------------
(***************************************************************************)
(* Translating a text there and back: the text is read in the first        *)
(* dialect of the route, the tree is written in the second, that text is   *)
(* read in the second dialect and written in the first, and so on.  This   *)
(* composes the lexer, the parser and the renderers; the capability        *)
(* rewrites, which translate() applies in between, are not part of it.     *)
(***************************************************************************)
EXTENDS Parser, Renderer
CONSTANTS
    Sources,            \* the texts to translate
    Routes              \* the sequences of dialects to take them through

VARIABLES
    route,              \* the dialects still to write for, the one read first
    texts,              \* the texts so far: the source, then what was written
    trees               \* the trees read so far

vars == <<lexer, parser, route, texts, trees>>

-----------------------------------------------------------------------------
Init ==
    \E text \in Sources, r \in Routes :
        /\ LexInit(text) /\ ParserIdle /\ dialect = r[1]
        /\ route = r /\ texts = <<text>> /\ trees = <<>>

Scan == Lex /\ UNCHANGED <<parser, route, texts, trees>>

Begin == StartParsing /\ UNCHANGED <<route, texts, trees>>

Read == Parse /\ UNCHANGED <<lexer, route, texts, trees>>

(* generate(tree) for the next dialect of the route, whose parser reads    *)
(* the text next.                                                          *)
Write ==
    /\ outcome = "parsed" /\ Len(route) > 1 /\ ~Incompatible(Tree, route[2])
    /\ LET text == Render(Tree, route[2])
       IN  /\ texts' = Append(texts, text)
           /\ IF Len(route) = 2 THEN UNCHANGED lexer ELSE Restart(text)
    /\ trees' = Append(trees, Tree)
    /\ route' = Tail(route)
    /\ dialect' = route[2]
    /\ outcome' = IF Len(route) = 2 THEN "written" ELSE "idle"
    /\ at' = 1 /\ values' = <<>>
    /\ HandOver

Refuse ==
    /\ outcome = "parsed" /\ Len(route) > 1 /\ Incompatible(Tree, route[2])
    /\ outcome' = "CG1401" /\ HandOver
    /\ UNCHANGED <<lexer, dialect, at, values, route, texts, trees>>

TokenizeFailed == lexing \in {"CG1001", "CG1002", "CG1003", "CG1004", "CG1005"}
Ended == TokenizeFailed \/ outcome \in {"ParseError", "ValueError", "CG1105", "CG1401", "written"}
Done == Ended /\ UNCHANGED vars

Next == Scan \/ Begin \/ Read \/ Write \/ Refuse \/ Done

(* Nothing interrupts the loops of the lexer and the calls of the parser.  *)
Spec == Init /\ [][Next]_vars /\ WF_vars(Scan \/ Begin \/ Read)
-----------------------------------------------------------------------------
(* When a tree survives being written and read again. *)

(* How tightly the parser binds a node, and the least that its operands    *)
(* may, for the text without parentheses to be read as the same tree.      *)
Binding ==
    [Or |-> 1, Xor |-> 2, And |-> 3, Not |-> 4, Add |-> 6, Sub |-> 6, Mul |-> 7, Div |-> 7,
     Mod |-> 7, Pow |-> 8, Neg |-> 9]
        @@ [type \in {"EQ", "NEQ", "LT", "LTE", "GT", "GTE", "RegexMatch", "In", "StartsWith",
                      "EndsWith", "Contains", "IsNull"} |-> 5]
BindingOf(node) ==
    IF node.t \in DOMAIN Binding THEN Binding[node.t]
    ELSE IF node.t = "PatternPredicate" /\ IsThere(Arg(node, "not_")) THEN 4 ELSE 10
LeftNeeds(type) == CASE type = "Pow" -> 9 [] type \in {"Not", "Neg"} -> Binding[type]
                     [] type \in {"Property", "ListSubscript", "ListSlice"} -> 10
                     [] OTHER -> Binding[type]
RightNeeds(type) == IF type = "Pow" THEN 8 ELSE Binding[type] + 1

Nests(node) ==
    /\ node.t \in DOMAIN Binding \cup {"Property", "ListSubscript", "ListSlice"}
           => BindingOf(Arg(node, "this")) >= LeftNeeds(node.t)
    /\ node.t \in DOMAIN BinarySign => BindingOf(Arg(node, "expression")) >= RightNeeds(node.t)

(* Names that are written without the quotes they need. *)
Plain(node) ==
    /\ node.t = "Identifier" => ~(Len(node.v) = 1 /\ Upper(node.v[1]) \in DOMAIN KEYWORDS)
    /\ node.t = "tuple" => IsAWord(Arg(node, "key").v) \/ Arg(node, "key").t # "name"
    /\ node.t = "LabelExpression" => Range(Arg(node, "expression").v) \cap Space = {}

(* What a dialect writes without being able to read it, the surface that   *)
(* CAPABILITY_GATED_NODES leaves out and a hint, which belongs after the   *)
(* WHERE and is written before it; and NOT EXISTS (p), which is read as    *)
(* the negation of a pattern predicate where a negated one was written.    *)
Surface ==
    [where |-> "allow_inline_pattern_where", variables |-> "allow_call_variable_import",
     in_transactions |-> "allow_call_in_transactions", optional |-> "allow_optional_call",
     expression |-> "allow_label_expressions"]
Readable(node, d) ==
    /\ node.t \in {"NodePattern", "RelationshipPattern", "CallSubquery", "LabelExpression"}
           => \A field \in DOMAIN Surface \cap Range(Fields[node.t]) :
                  IsThere(Arg(node, field)) => Allows(d, Surface[field])
    /\ node.t = "Match" => ~(IsThere(Arg(node, "hints")) /\ IsThere(Arg(node, "where")))
    /\ node.t = "PatternPredicate" /\ IsThere(Arg(node, "not_"))
           => PatternPredicateStyle(d) # "exists"

RECURSIVE Survives(_, _)
Survives(node, d) ==
    /\ Nests(node) /\ Plain(node) /\ Readable(node, d)
    /\ \A k \in DOMAIN node.c : Survives(node.c[k], d)

-----------------------------------------------------------------------------
(* A text written from a tree that survives is read back by the dialect it *)
(* was written for, as the very same tree (transpile, __init__.py, and the *)
(* round trips of tests/test_parse.py).                                    *)
SurvivingTreesComeBack ==
    Len(trees) = 1 /\ Len(route) < 4 /\ Survives(trees[1], dialect) =>
        /\ outcome \notin {"ParseError", "ValueError", "CG1105"} /\ ~TokenizeFailed
        /\ outcome = "parsed" => Tree = trees[1]

(* There and back again: a text written in a dialect, taken to the other   *)
(* one and back, is the same text (A to B to A is stable,                  *)
(* tests/test_web_dialect_transpile.py).  Parentheses and quotes that get  *)
(* lost are lost the first time.                                           *)
StableThereAndBack == Len(texts) = 4 => texts[4] = texts[2]

(* Every text that is begun is read to a tree or an error, in the end: the *)
(* lexer always moves on (tokenize), no method of the parser comes back to *)
(* itself without passing a token, and what was tried and failed (except   *)
(* ParseError) is not tried the same way again.                            *)
HasAResult == TokenizeFailed \/ outcome \in {"parsed", "ParseError", "ValueError", "CG1105"}
ReadingEnds == outcome = "idle" ~> HasAResult

(* Every tree comes back: "Identity round-trip" (docs/api.md).             *)
IdentityRoundTrip == outcome = "parsed" /\ Len(trees) = 1 => Tree = trees[1]
=============================================================================
