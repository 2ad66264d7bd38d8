------------------------------- MODULE Parser -------------------------------
(***************************************************************************)
(* The recursive-descent parser of parser.py, run on the grammar as a      *)
(* machine with a stack of what is still to do (its calls) and a stack of  *)
(* the values parsed so far.  Speculative parsing, the try blocks that     *)
(* catch a ParseError and go back, keeps what to go back to; the nesting   *)
(* guard counts the expressions, paths and statements being parsed.        *)
(***************************************************************************)
EXTENDS Lexer, Grammar, Dialects
CONSTANT MaxParseDepth

ASSUME MaxParseDepthIsPositive == MaxParseDepth \in Nat \ {0}

VARIABLES
    dialect,            \* the dialect parsed for
    at,                 \* _i: the next token
    todo,               \* what is left to do, first first
    values,             \* the values parsed so far
    depth,              \* _depth: how deep the nesting is
    tries,              \* the try blocks entered, innermost last
    outcome             \* "idle", "parsing", "parsed", or how parsing failed

parser == <<dialect, at, todo, values, depth, tries, outcome>>

-----------------------------------------------------------------------------
(* Tokens. *)

ContextualWords ==
    {"LOAD", "CSV", "HEADERS", "FROM", "FIELDTERMINATOR", "GROUP", "OF", "TRANSACTIONS", "ROWS",
     "SEARCH", "VECTOR", "SCORE", "SHOW", "CONSTRAINT", "NULLS", "FIRST", "LAST", "BFS",
     "WSHORTEST", "REDUCE", "EXTRACT", "COALESCE"}
TokenKinds ==
    Keywords \cup OneCharacterKind \cup Range(TwoCharacterKind) \cup ContextualWords
        \cup {"EOF", "IDENT", "PARAMETER", "STRING", "INTEGER", "FLOAT"}

Token(n) == tokens[IF at + n <= Len(tokens) THEN at + n ELSE Len(tokens)]
Now == Token(0)

(* A token's kind and, for a name, the contextual word it may be read as. *)
Marks(token) ==
    {token.kind} \cup IF token.kind = "IDENT" /\ Len(token.text) = 1
                      THEN {Upper(token.text[1])} \cap ContextualWords ELSE {}
Next1 == at + (IF Now.kind = "EOF" THEN 0 ELSE 1)

(* _name_from_token: a name's text; otherwise the word in the source where *)
(* the token starts, which is empty for punctuation.                       *)
NameOf(token) ==
    IF token.kind = "IDENT" THEN token.text
    ELSE SubSeq(source, token.from, RunEnd(token.from, Word) - 1)

NotAName == {"]", "{", "*", ",", "|", ":", ")", "EOF"}
NotAVariable == {"EOF", "(", ")", "[", "}", "{", ",", ";", "|", ":", "."}

-----------------------------------------------------------------------------
(* Numbers.  An integer is kept as the digits of its value, a float as it  *)
(* is printed back (short of the exponent Python prints for extreme ones). *)

IsBased(text) == Len(text) > 1 /\ text[2] \in {"x", "X", "o", "O"}
IntegerText(text) ==
    IF IsBased(text)
    THEN Numeral(ValueOf(SubSeq(text, 3, Len(text)), IF text[2] \in {"x", "X"} THEN 16 ELSE 8))
    ELSE Numeral(ValueOf(text, 10))

FirstOf(text, set) == CHOOSE k \in 1..(Len(text) + 1) :
    (k > Len(text) \/ text[k] \in set) /\ \A j \in 1..(k - 1) : text[j] \notin set
FloatText(text) ==
    LET e == FirstOf(text, {"e", "E"})
        dot == FirstOf(SubSeq(text, 1, e - 1), {"."})
        digits == SelectSeq(SubSeq(text, 1, e - 1), LAMBDA d : d # ".")
        power == SelectSeq(SubSeq(text, e + 1, Len(text)), LAMBDA d : d \in Digit)
        shift == ValueOf(power, 10) * (IF e < Len(text) /\ text[e+1] = "-" THEN -1 ELSE 1)
        point == (dot - 1) + shift
        before == IF point < 1 THEN 1 - point ELSE 0
        after == IF point > Len(digits) THEN point - Len(digits) ELSE 0
        all == [k \in 1..before |-> "0"] \o digits \o [k \in 1..after |-> "0"]
        fraction == SubSeq(all, point + before + 1, Len(all))
        kept == SubSeq(fraction, 1, CHOOSE k \in 0..Len(fraction) :
                    (k = 0 \/ fraction[k] # "0") /\ \A j \in (k + 1)..Len(fraction) : fraction[j] = "0")
    IN  Numeral(ValueOf(SubSeq(all, 1, point + before), 10)) \o <<".">>
            \o (IF kept = <<>> THEN <<"0">> ELSE kept)

-----------------------------------------------------------------------------
(* Values. *)

Item == Head(todo)
Val(n) == values[Len(values) - n]
Below(n) == SubSeq(values, 1, Len(values) - n)

(* What an alternative may ask of the value parsed last. *)
Shape(node) ==
    IF node.t = "list" THEN (IF node.c = <<>> THEN "empty" ELSE "list")
    ELSE IF node.t # "PathPattern" THEN node.t
    ELSE LET elements == Arg(node, "elements").c
         IN  IF Len(elements) > 1 THEN "chain"
             ELSE IF elements[1].t # "NodePattern" THEN "search"
             ELSE IF IsThere(Arg(elements[1], "labels")) \/ IsThere(Arg(elements[1], "properties"))
             THEN "described"
             ELSE IF IsThere(Arg(elements[1], "variable")) THEN "bare" ELSE "empty node"

Constant ==
    ("@none" :> None) @@ ("@new" :> ListOf(<<>>)) @@ ("@yes" :> Name(<<"yes">>))
        @@ ("@zero" :> Name(<<"0">>)) @@ ("@one" :> Name(<<"1">>)) @@ ("@bfs" :> Name(<<"bfs">>))
        @@ ("@wShortest" :> Name(<<"wShortest">>)) @@ ("@both" :> Name(<<"BOTH">>))
        @@ ("@incoming" :> Name(<<"INCOMING">>)) @@ ("@outgoing" :> Name(<<"OUTGOING">>))

(* The name a call is made by: a keyword's in small letters. *)
CalledName(token) ==
    IF token.kind = "IDENT" THEN token.text
    ELSE <<CHOOSE w \in DOMAIN Capitals : Capitals[w] = token.kind>>

Literal(token) ==
    CASE token.kind = "INTEGER" -> Node("Integer", IntegerText(token.text), <<>>)
      [] token.kind = "FLOAT" -> Node("Float", FloatText(token.text), <<>>)
      [] token.kind = "STRING" -> Node("String", token.text, <<>>)
      [] token.kind = "NULL" -> Node("Null", <<>>, <<>>)
      [] token.kind = "PARAMETER" -> Node("Parameter", token.text, <<>>)
      [] OTHER -> Node("Boolean", token.text, <<>>)

(* Values read off the next token. *)
Readers == {"@name", "@var", "@ident", "@int", "@token", "@called", "@word", "@literal", "@param"}
CanRead(item) ==
    CASE item = "@name" -> Now.kind \notin NotAName
      [] item = "@var" -> Now.kind \notin NotAVariable
      [] item = "@ident" -> Now.kind = "IDENT"
      [] OTHER -> TRUE
ReadValue(item) ==
    CASE item = "@name" -> Name(NameOf(Now))
      [] item = "@var" -> Node("Identifier", NameOf(Now), <<>>)
      [] item \in {"@ident", "@token"} -> Name(Now.text)
      [] item = "@int" -> Name(IntegerText(Now.text))
      [] item = "@called" -> Name(CalledName(Now))
      [] item = "@word" -> Name(<<Upper(Now.text[1])>>)
      [] item = "@param" -> Name(<<"$">> \o Now.text)
      [] item = "@literal" -> Literal(Now)

(* Values made from the last ones. *)
Shapers == {"@add", "@wrap", "@swap", "@drop", "@same", "@glue", "@spaced", "@parts",
            "@variable", "@identifier"}
Reshaped(item) ==
    CASE item = "@add" -> Append(Below(2), ListOf(Append(Val(1).c, Val(0))))
      [] item = "@wrap" -> Append(Below(1), ListOf(<<Val(0)>>))
      [] item = "@swap" -> Below(2) \o <<Val(0), Val(1)>>
      [] item = "@drop" -> Below(1)
      [] item = "@same" -> Append(values, Val(0))
      [] item = "@glue" -> Append(Below(2), Name(Val(1).v \o Val(0).v))
      [] item = "@spaced" -> Append(Below(2), Name(Val(1).v \o <<" ">> \o Val(0).v))
      [] item = "@parts" -> Below(1) \o Val(0).c
      [] item = "@variable" -> Append(Below(1), Arg(Arg(Val(0), "elements").c[1], "variable"))
      [] item = "@identifier" -> Append(Below(1), Node("Identifier", Val(0).v, <<>>))

-----------------------------------------------------------------------------
(* The machine. *)

RuleNames == DOMAIN Grammar
Applies(alternative) ==
    /\ alternative.flag = "" \/ Allows(dialect, alternative.flag)
    /\ \A n \in DOMAIN alternative.look :
           Marks(Token(n - 1)) \cap alternative.look[n] # {}
    /\ alternative.top = {} \/ Shape(Val(0)) \in alternative.top
Applicable(rule) == {k \in DOMAIN Grammar[rule] : Applies(Grammar[rule][k])}

Working == outcome = "parsing" /\ todo # <<>>

(* Where the code raises a ParseError. *)
Blocked ==
    \/ Item \in RuleNames /\ Applicable(Item) = {}
    \/ Item \in TokenKinds /\ Item \notin Marks(Now)
    \/ Item \in Readers /\ ~CanRead(Item)
    \/ Item = "@fail"

CallRule ==
    /\ Working /\ Item \in RuleNames /\ Applicable(Item) # {}
    /\ \E first \in Applicable(Item) :
           /\ \A k \in Applicable(Item) : first <= k
           /\ todo' = Grammar[Item][first].do \o Tail(todo)
    /\ UNCHANGED <<dialect, at, values, depth, tries, outcome>>

PassToken ==
    /\ Working /\ Item \in TokenKinds /\ Item \in Marks(Now)
    /\ at' = Next1 /\ todo' = Tail(todo)
    /\ UNCHANGED <<dialect, values, depth, tries, outcome>>

BuildNode ==
    /\ Working /\ Item \in DOMAIN Fields
    /\ LET arity == Len(Fields[Item])
       IN  values' = Append(Below(arity),
                            Node(Item, <<>>, SubSeq(values, Len(values) - arity + 1, Len(values))))
    /\ todo' = Tail(todo)
    /\ UNCHANGED <<dialect, at, depth, tries, outcome>>

PushConstant ==
    /\ Working /\ Item \in DOMAIN Constant
    /\ values' = Append(values, Constant[Item]) /\ todo' = Tail(todo)
    /\ UNCHANGED <<dialect, at, depth, tries, outcome>>

(* int() of a hexadecimal or octal literal raises a ValueError, which no   *)
(* except clause of the parser catches.                                    *)
ReadToken ==
    /\ Working /\ Item \in Readers /\ CanRead(Item)
    /\ ~(Item = "@int" /\ IsBased(Now.text))
    /\ values' = Append(values, ReadValue(Item))
    /\ at' = Next1 /\ todo' = Tail(todo)
    /\ UNCHANGED <<dialect, depth, tries, outcome>>

BadInt ==
    /\ Working /\ Item = "@int" /\ IsBased(Now.text)
    /\ outcome' = "ValueError" /\ todo' = <<>> /\ tries' = <<>> /\ depth' = 0
    /\ UNCHANGED <<dialect, at, values>>

Reshape ==
    /\ Working /\ Item \in Shapers
    /\ values' = Reshaped(Item) /\ todo' = Tail(todo)
    /\ UNCHANGED <<dialect, at, depth, tries, outcome>>

(* A list separated by commas of what follows the item. *)
ListItem ==
    /\ Working /\ Item \in {"@list", "@more"}
    /\ LET element == todo[2]
           again == <<element, "@add", "@more", element>>
       IN  \/ /\ Item = "@list"
              /\ values' = Append(values, ListOf(<<>>))
              /\ todo' = again \o SubSeq(todo, 3, Len(todo))
           \/ /\ Item = "@more" /\ UNCHANGED values
              /\ todo' = (IF Now.kind = "," THEN <<",">> \o again ELSE <<>>)
                             \o SubSeq(todo, 3, Len(todo))
    /\ UNCHANGED <<dialect, at, depth, tries, outcome>>

(* parse_admin_statement: the source up to a RETURN, as it is written. *)
AdminText ==
    /\ Working /\ Item = "@admin"
    /\ LET end == CHOOSE n \in at..Len(tokens) :
                      /\ tokens[n].kind \in {"RETURN", "EOF"}
                      /\ \A m \in at..(n - 1) : tokens[m].kind \notin {"RETURN", "EOF"}
           last == CHOOSE p \in Now.from..tokens[end].from :
                      /\ p = Now.from \/ source[p - 1] \notin Space
                      /\ \A q \in p..(tokens[end].from - 1) : source[q] \in Space
       IN  /\ at' = end
           /\ values' = Append(values, Node("AdminStatement", <<>>,
                                            <<Name(SubSeq(source, Now.from, last - 1))>>))
    /\ todo' = Tail(todo)
    /\ UNCHANGED <<dialect, depth, tries, outcome>>

Enter ==
    /\ Working /\ Item = "@enter" /\ depth < MaxParseDepth
    /\ depth' = depth + 1 /\ todo' = Tail(todo)
    /\ UNCHANGED <<dialect, at, values, tries, outcome>>

(* _ParseDepthExceeded passes every try block by and becomes CG1105. *)
DepthExceeded ==
    /\ Working /\ Item = "@enter" /\ depth >= MaxParseDepth
    /\ outcome' = "CG1105" /\ todo' = <<>> /\ tries' = <<>> /\ depth' = 0
    /\ UNCHANGED <<dialect, at, values>>

Leave ==
    /\ Working /\ Item = "@leave"
    /\ depth' = depth - 1 /\ todo' = Tail(todo)
    /\ UNCHANGED <<dialect, at, values, tries, outcome>>

(* try: the second item is the body, the third what follows going back. *)
Try ==
    /\ Working /\ Item = "@try"
    /\ tries' = Append(tries, [at |-> at, values |-> values, depth |-> depth,
                               todo |-> SubSeq(todo, 3, Len(todo))])
    /\ todo' = <<todo[2]>> \o SubSeq(todo, 4, Len(todo))
    /\ UNCHANGED <<dialect, at, values, depth, outcome>>

Commit ==
    /\ Working /\ Item = "@commit"
    /\ tries' = SubSeq(tries, 1, Len(tries) - 1) /\ todo' = Tail(todo)
    /\ UNCHANGED <<dialect, at, values, depth, outcome>>

(* A bug: going back does not give back what was entered. *)
BacktrackKeepingDepth ==
    /\ Working /\ Blocked /\ tries # <<>>
    /\ LET saved == tries[Len(tries)]
       IN  at' = saved.at /\ values' = saved.values /\ todo' = saved.todo
    /\ tries' = SubSeq(tries, 1, Len(tries) - 1)
    /\ UNCHANGED <<dialect, depth, outcome>>

(* A bug: the block that failed is still there to go back to.              *)
BacktrackAgain ==
    /\ Working /\ Blocked /\ tries # <<>>
    /\ LET saved == tries[Len(tries)]
       IN  at' = saved.at /\ values' = saved.values /\ depth' = saved.depth /\ todo' = saved.todo
    /\ UNCHANGED <<dialect, tries, outcome>>

(* except ParseError: self._i = saved; leaving the nested blocks undid     *)
(* their count.                                                            *)
Backtrack ==
    /\ Working /\ Blocked /\ tries # <<>>
    /\ LET saved == tries[Len(tries)]
       IN  at' = saved.at /\ values' = saved.values /\ depth' = saved.depth /\ todo' = saved.todo
    /\ tries' = SubSeq(tries, 1, Len(tries) - 1)
    /\ UNCHANGED <<dialect, outcome>>

Reject ==
    /\ Working /\ Blocked /\ tries = <<>>
    /\ outcome' = "ParseError" /\ todo' = <<>> /\ depth' = 0
    /\ UNCHANGED <<dialect, at, values, tries>>

Accept ==
    /\ outcome = "parsing" /\ todo = <<>>
    /\ outcome' = "parsed"
    /\ UNCHANGED <<dialect, at, todo, values, depth, tries>>

Parse ==
    \/ CallRule \/ PassToken \/ BuildNode \/ PushConstant \/ ReadToken \/ BadInt \/ Reshape
    \/ ListItem \/ AdminText \/ Enter \/ DepthExceeded \/ Leave \/ Try \/ Commit \/ Backtrack
    \/ Reject \/ Accept

(* Parser(source): the tokens are all there before parsing begins. *)
StartParsing ==
    /\ lexing = "done" /\ outcome = "idle"
    /\ outcome' = "parsing" /\ todo' = <<"root">>
    /\ UNCHANGED <<lexer, dialect, at, values, depth, tries>>

(* The tree of a successful parse, and its use by who asked for it, who    *)
(* may then parse another text. *)
Tree == values[1]
HandOver ==
    /\ outcome = "parsed" /\ outcome' # "parsing"
    /\ UNCHANGED <<todo, depth, tries>>

ParserIdle ==
    /\ at = 1 /\ todo = <<>> /\ values = <<>> /\ depth = 0 /\ tries = <<>>
    /\ outcome = "idle"

ParserNext == StartParsing \/ Parse \/ HandOver
ParserSpec == ParserIdle /\ [][ParserNext]_parser

-----------------------------------------------------------------------------
(* How many of the items from the k-th on are a given one, and how many    *)
(* constructs they leave that they have not entered.                       *)
Places(items, k, item) == {i \in k..Len(items) : items[i] = item}
Later(items, k, item) == Cardinality(Places(items, k, item))
Open(items, k) == Later(items, k, "@leave") - Later(items, k, "@enter")

(* What the machine does beside reading symbols and building values; some  *)
(* of it takes the items that follow.                                      *)
Control == {"@enter", "@leave", "@try", "@list", "@more"}
Words ==
    RuleNames \cup TokenKinds \cup DOMAIN Fields \cup DOMAIN Constant \cup Readers \cup Shapers
        \cup {"@admin", "@commit", "@fail"}
Vocabulary == Words \cup Control
Supplied(items) ==
    \A k \in 1..Len(items) :
        /\ items[k] = "@try" =>
              k + 2 <= Len(items) /\ items[k + 1] \notin Control /\ items[k + 2] \notin Control
        /\ items[k] \in {"@list", "@more"} => k + 1 <= Len(items) /\ items[k + 1] \notin Control
Nested(items) ==
    /\ items \in Seq(Vocabulary) /\ Supplied(items)
    /\ \A k \in 1..(Len(items) + 1) : Open(items, k) >= 0

(* Every method of the parser leaves what it enters (try ... finally:      *)
(* self._depth -= 1) and does what the machine knows; and no other name is *)
(* taken for the guard's.                                                  *)
ASSUME MethodsAreNested ==
    /\ \A rule \in RuleNames : \A k \in DOMAIN Grammar[rule] :
           Nested(Grammar[rule][k].do) /\ Open(Grammar[rule][k].do, 1) = 0
    /\ "root" \in RuleNames /\ "," \in TokenKinds
ASSUME ControlIsNothingElse == Control \cap Words = {}

(* The nesting guard counts exactly the nested constructs still open, on   *)
(* every path: also after going back out of a speculation that failed      *)
(* several levels down, and after giving up.                               *)
DepthCountsWhatIsOpen == depth = Open(todo, 1) /\ depth \in 0..MaxParseDepth
=============================================================================
