------------------------------- MODULE Lexer -------------------------------
(***************************************************************************)
(* The lexer of lexer.py as a state machine over a source text.  A text is *)
(* a sequence of atoms: a punctuation character, a digit, white space, or  *)
(* a run of letters.  Two runs side by side are one word, as the           *)
(* characters they stand for would be; letters that the lexer looks at one *)
(* by one (after a backslash, after 0x, in an exponent) are atoms of one   *)
(* letter.                                                                 *)
(***************************************************************************)
EXTENDS Integers, Sequences, TLC
CONSTANT Names          \* the runs of letters that are not keywords

VARIABLES
    source,             \* the text
    pos,                \* _i: the next atom to read
    pending,            \* _pending_comments: where each one starts
    tokens,             \* what tokenize has collected
    lexing              \* "scanning", "done", or the code of the TokenizeError

lexer == <<source, pos, pending, tokens, lexing>>

-----------------------------------------------------------------------------
(* The vocabulary. *)

Keywords ==
    {"MATCH", "OPTIONAL", "WHERE", "WITH", "UNWIND", "RETURN", "AS", "ORDER", "BY", "ASC", "DESC",
     "SKIP", "LIMIT", "DISTINCT", "UNION", "ALL", "ANY", "NONE", "SINGLE", "CREATE", "MERGE",
     "SET", "DELETE", "DETACH", "REMOVE", "FOREACH", "ON", "AND", "OR", "XOR", "NOT", "IN", "IS",
     "NULL", "TRUE", "FALSE", "CASE", "WHEN", "THEN", "ELSE", "END", "STARTS", "ENDS", "CONTAINS",
     "USING", "INDEX", "SCAN", "JOIN", "CALL", "CYPHER", "YIELD", "EXISTS", "COUNT", "COLLECT",
     "SHORTESTPATH", "ALLSHORTESTPATHS", "NEXT", "INSERT", "USE", "FINISH", "FILTER", "LET", "FOR"}

(* Words whose kind, or whose capitals, are spelled differently. *)
KEYWORDS == [w \in Keywords |-> w] @@ [ASCENDING |-> "ASC", DESCENDING |-> "DESC"]
Capitals ==
    [as |-> "AS", match |-> "MATCH", end |-> "END", count |-> "COUNT", collect |-> "COLLECT",
     shortestPath |-> "SHORTESTPATH", allShortestPaths |-> "ALLSHORTESTPATHS", all |-> "ALL",
     any |-> "ANY", none |-> "NONE", single |-> "SINGLE", filter |-> "FILTER",
     reduce |-> "REDUCE", extract |-> "EXTRACT", exists |-> "EXISTS", coalesce |-> "COALESCE",
     true |-> "TRUE", false |-> "FALSE", null |-> "NULL", bfs |-> "BFS",
     wShortest |-> "WSHORTEST"]
Upper(word) == IF word \in DOMAIN Capitals THEN Capitals[word] ELSE word

Digit == {"0", "1", "2", "3", "4", "5", "6", "7", "8", "9"}
HexDigit == Digit \cup {"a", "b", "c", "d", "e", "f", "A", "B", "C", "D", "E", "F"}
Letters == DOMAIN KEYWORDS \cup DOMAIN Capitals \cup Names \cup {"_"}
Word == Letters \cup Digit
Space == {" ", "\t", "\r", "\n"}
Quotes == {"'", "\""}
Backtick == "(backtick)"
EndOfText == ""         \* what comes after the last atom

ASSUME WordsAreThere == EndOfText \notin Word

(* Kinds are written as the text they stand for. *)
TwoCharacters ==
    {<<"<", ">">>, <<"<", "=">>, <<">", "=">>, <<"=", "~">>, <<"<", "-">>, <<"-", ">">>, <<".", ".">>,
     <<"!", "=">>}
TwoCharacterKind ==
    [two \in TwoCharacters |-> IF two[1] = "!" THEN "<>" ELSE two[1] \o two[2]]
OneCharacterKind ==
    {"!", "(", ")", "[", "]", "{", "}", ",", ".", ":", ";", "|", "=", "<", ">", "+", "-", "*",
     "/", "%", "^", "&"}

(***************************************************************************)
(* The atoms of a text given as a string, where # stands for a backtick    *)
(* and @ keeps two runs of letters apart.                                  *)
(***************************************************************************)
Alphabet == "abcdefghijklmnopqrstuvwxyzABCDEFGHIJKLMNOPQRSTUVWXYZ"
Character(text, k) == SubSeq(text, k, k)
Letter == {Character(Alphabet, k) : k \in 1..52}
Atoms(text) ==
    LET atom(c) == CASE c = "#" -> Backtick [] c = "@" -> "" [] OTHER -> c
        letters(atom_) == atom_ # "" /\ Character(atom_, Len(atom_)) \in Letter
        glue(x, y) ==
            IF letters(x[Len(x)]) /\ letters(y[1])
            THEN [x EXCEPT ![Len(x)] = @ \o y[1]] \o Tail(y)
            ELSE x \o y
        part[first, last \in 1..Len(text)] ==
            IF first = last THEN <<atom(Character(text, first))>>
            ELSE glue(part[first, (first + last) \div 2], part[(first + last) \div 2 + 1, last])
    IN  IF text = "" THEN <<>> ELSE SelectSeq(part[1, Len(text)], LAMBDA atom_ : atom_ # "")

Backspace == "(backspace)"
Escapes == [n |-> "\n", t |-> "\t", r |-> "\r", b |-> Backspace, f |-> "\f"]

-----------------------------------------------------------------------------
(* Reading ahead. *)

At(p) == IF p \in DOMAIN source THEN source[p] ELSE EndOfText
Peek(n) == At(pos + n)
AtEnd == pos > Len(source)

(* Where the run of atoms of a set that starts at p ends. *)
RunEnd(p, set) ==
    CHOOSE q \in p..(Len(source) + 1) : At(q) \notin set /\ \A k \in p..(q - 1) : At(k) \in set

(* A bug: a token leaves the comments it takes to the next one too. *)
EmitKeepingComments(kind, text, end) ==
    /\ tokens' = Append(tokens, [kind |-> kind, text |-> text, from |-> pos, end |-> end,
                                 comments |-> pending])
    /\ pos' = end
    /\ UNCHANGED <<source, pending, lexing>>

Emit(kind, text, end) ==
    /\ tokens' = Append(tokens, [kind |-> kind, text |-> text, from |-> pos, end |-> end,
                                 comments |-> pending])
    /\ pos' = end
    /\ pending' = <<>>
    /\ UNCHANGED <<source, lexing>>

TokenizeError(code) == lexing' = code /\ UNCHANGED <<source, pos, pending, tokens>>

(* The body of a string from p on, its escapes replaced, and where it ends *)
(* (0 when the source ends first).                                         *)
StringBody(start, quote) ==
    LET Add(char, rest) == [rest EXCEPT !.text = <<char>> \o @]
        body[p \in start..(Len(source) + 1)] ==
            IF p > Len(source) THEN [text |-> <<>>, end |-> 0]
            ELSE IF source[p] = "\\" /\ p < Len(source)
            THEN Add(IF source[p+1] \in DOMAIN Escapes THEN Escapes[source[p+1]] ELSE source[p+1],
                     body[p+2])
            ELSE IF source[p] = quote THEN [text |-> <<>>, end |-> p + 1]
            ELSE Add(source[p], body[p+1])
    IN  body[start]

(* A bug: a doubled backtick is not made one. *)
BacktickBodyDoubled(start) ==
    LET body[p \in start..(Len(source) + 1)] ==
            IF p > Len(source) THEN [text |-> <<>>, end |-> 0]
            ELSE IF source[p] = Backtick /\ At(p + 1) # Backtick THEN [text |-> <<>>, end |-> p + 1]
            ELSE LET next == IF source[p] = Backtick THEN p + 2 ELSE p + 1
                     rest == body[next]
                 IN  [rest EXCEPT !.text = SubSeq(source, p, next - 1) \o @]
    IN  body[start]

BacktickBody(start) ==
    LET body[p \in start..(Len(source) + 1)] ==
            IF p > Len(source) THEN [text |-> <<>>, end |-> 0]
            ELSE IF source[p] = Backtick /\ At(p + 1) # Backtick THEN [text |-> <<>>, end |-> p + 1]
            ELSE LET rest == body[IF source[p] = Backtick THEN p + 2 ELSE p + 1]
                 IN  [rest EXCEPT !.text = <<source[p]>> \o @]
    IN  body[start]

(* Where a decimal number that starts at pos ends: 0 when its exponent has *)
(* no digits.                                                              *)
IntegerEnd == RunEnd(pos, Digit)
FractionEnd == IF At(IntegerEnd) = "." /\ At(IntegerEnd + 1) \in Digit
               THEN RunEnd(IntegerEnd + 1, Digit) ELSE IntegerEnd
NumberEnd ==
    IF At(FractionEnd) \notin {"e", "E"} THEN FractionEnd
    ELSE LET first == FractionEnd + (IF At(FractionEnd + 1) \in {"+", "-"} THEN 2 ELSE 1)
         IN  IF At(first) \in Digit THEN RunEnd(first, Digit) ELSE 0

-----------------------------------------------------------------------------
(* One action per scanner.  White space and comments are skipped first. *)

LexInit(text) ==
    source = text /\ pos = 1 /\ pending = <<>> /\ tokens = <<>> /\ lexing = "scanning"

(* A new lexer, on another text. *)
Restart(text) ==
    source' = text /\ pos' = 1 /\ pending' = <<>> /\ tokens' = <<>> /\ lexing' = "scanning"

InComment == Peek(0) = "/" /\ Peek(1) \in {"/", "*"}
StartsNumber == Peek(0) \in Digit \/ (Peek(0) = "." /\ Peek(1) \in Digit)
InBasedNumber == Peek(0) = "0" /\ Peek(1) \in {"x", "X", "o", "O"}
Scanning == lexing = "scanning"

SkipSpace ==
    /\ Scanning /\ Peek(0) \in Space
    /\ pos' = RunEnd(pos, Space)
    /\ UNCHANGED <<source, pending, tokens, lexing>>

SkipLineComment ==
    /\ Scanning /\ Peek(0) = "/" /\ Peek(1) = "/"
    /\ pos' = CHOOSE p \in (pos + 2)..(Len(source) + 1) :
                  /\ At(p) \in {"\n", EndOfText}
                  /\ \A k \in (pos + 2)..(p - 1) : At(k) \notin {"\n", EndOfText}
    /\ pending' = Append(pending, pos)
    /\ UNCHANGED <<source, tokens, lexing>>

(* A bug: a comment takes the place of those that wait already. *)
SkipBlockCommentAlone ==
    /\ Scanning /\ Peek(0) = "/" /\ Peek(1) = "*"
    /\ LET closings == {p \in (pos + 2)..Len(source) : At(p) = "*" /\ At(p + 1) = "/"}
       IN  IF closings = {} THEN TokenizeError("CG1003")
           ELSE /\ pos' = 2 + CHOOSE p \in closings : \A q \in closings : p <= q
                /\ pending' = <<pos>>
                /\ UNCHANGED <<source, tokens, lexing>>

SkipBlockComment ==
    /\ Scanning /\ Peek(0) = "/" /\ Peek(1) = "*"
    /\ LET closings == {p \in (pos + 2)..Len(source) : At(p) = "*" /\ At(p + 1) = "/"}
       IN  IF closings = {} THEN TokenizeError("CG1003")
           ELSE /\ pos' = 2 + CHOOSE p \in closings : \A q \in closings : p <= q
                /\ pending' = Append(pending, pos)
                /\ UNCHANGED <<source, tokens, lexing>>

ScanString ==
    /\ Scanning /\ Peek(0) \in Quotes
    /\ LET body == StringBody(pos + 1, Peek(0))
       IN  IF body.end = 0 THEN TokenizeError("CG1002") ELSE Emit("STRING", body.text, body.end)

ScanBacktick ==
    /\ Scanning /\ Peek(0) = Backtick
    /\ LET body == BacktickBody(pos + 1)
       IN  IF body.end = 0 THEN TokenizeError("CG1002") ELSE Emit("IDENT", body.text, body.end)

ScanBasedNumber ==
    /\ Scanning /\ InBasedNumber
    /\ LET valid == IF Peek(1) \in {"x", "X"} THEN HexDigit ELSE Digit \ {"8", "9"}
           end == RunEnd(pos + 2, valid)
       IN  IF end = pos + 2 \/ At(end) \in Word THEN TokenizeError("CG1004")
           ELSE Emit("INTEGER", SubSeq(source, pos, end - 1), end)

ScanNumber ==
    /\ Scanning /\ StartsNumber /\ ~InBasedNumber
    /\ IF NumberEnd = 0 THEN TokenizeError("CG1004")
       ELSE Emit(IF NumberEnd = IntegerEnd THEN "INTEGER" ELSE "FLOAT",
                 SubSeq(source, pos, NumberEnd - 1), NumberEnd)

ScanParameter ==
    /\ Scanning /\ Peek(0) = "$"
    /\ LET end == RunEnd(pos + 1, Word)
       IN  IF end = pos + 1 THEN TokenizeError("CG1005")
           ELSE Emit("PARAMETER", SubSeq(source, pos + 1, end - 1), end)

(* The longest operator first. *)
ScanOperator ==
    /\ Scanning /\ ~StartsNumber /\ ~InComment
    /\ LET two == <<Peek(0), Peek(1)>>
       IN  \/ /\ two \in DOMAIN TwoCharacterKind
              /\ Emit(TwoCharacterKind[two], two, pos + 2)
           \/ /\ two \notin DOMAIN TwoCharacterKind /\ Peek(0) \in OneCharacterKind
              /\ Emit(Peek(0), <<Peek(0)>>, pos + 1)

(* A keyword is known by its capitals; true, false and null by small letters. *)
ScanWord ==
    /\ Scanning /\ Peek(0) \in Letters
    /\ LET end == RunEnd(pos, Word)
           text == SubSeq(source, pos, end - 1)
           word == Upper(text[1])
       IN  IF Len(text) = 1 /\ word \in DOMAIN KEYWORDS
           THEN Emit(KEYWORDS[word],
                     <<CASE word = "TRUE" -> "true" [] word = "FALSE" -> "false"
                         [] word = "NULL" -> "null" [] OTHER -> word>>, end)
           ELSE Emit("IDENT", text, end)

IllegalCharacter ==
    /\ Scanning /\ ~AtEnd
    /\ Peek(0) \notin Space \cup Word \cup OneCharacterKind \cup Quotes \cup {Backtick, "$"}
    /\ TokenizeError("CG1001")

EndOfInput ==
    /\ Scanning /\ AtEnd
    /\ tokens' = Append(tokens, [kind |-> "EOF", text |-> <<>>, from |-> pos, end |-> pos,
                                 comments |-> pending])
    /\ pending' = <<>> /\ lexing' = "done"
    /\ UNCHANGED <<source, pos>>

Lex ==
    \/ SkipSpace \/ SkipLineComment \/ SkipBlockComment \/ ScanString \/ ScanBacktick
    \/ ScanBasedNumber \/ ScanNumber \/ ScanParameter \/ ScanOperator \/ ScanWord
    \/ IllegalCharacter \/ EndOfInput

(* One text after another, whatever they are. *)
LexerIdle == \E text \in Seq(STRING) : LexInit(text)
LexerNext == Lex \/ \E text \in Seq(STRING) : Restart(text)
LexerSpec == LexerIdle /\ [][LexerNext]_lexer

-----------------------------------------------------------------------------
(* Where a comment begins, and whether the comment that begins at start    *)
(* goes as far as p: to the end of its line, or to its first closing.      *)
Opens(p) == At(p) = "/" /\ At(p + 1) \in {"/", "*"}
Covers(start, p) ==
    /\ start <= p
    /\ IF At(start + 1) = "/" THEN \A q \in start..p : At(q) \notin {"\n", EndOfText}
       ELSE \A q \in (start + 2)..(p - 2) : ~(At(q) = "*" /\ At(q + 1) = "/")

(* Every comment is kept, once, by the first token after it, whatever      *)
(* scanner makes that token: between two tokens there are the comments of  *)
(* the second one, in their order and one behind the end of the other, and *)
(* the rest is blank.                                                      *)
Gap(k) == (IF k = 1 THEN 1 ELSE tokens[k-1].end)..(tokens[k].from - 1)
CommentsGoToTheNextToken ==
    \A k \in DOMAIN tokens :
        LET comments == tokens[k].comments
        IN  /\ \A n \in DOMAIN comments : comments[n] \in Gap(k) /\ Opens(comments[n])
            /\ \A n \in 2..Len(comments) :
                   comments[n-1] < comments[n] /\ ~Covers(comments[n-1], comments[n])
            /\ comments # <<>> => ~Covers(comments[Len(comments)], tokens[k].from)
            /\ \A p \in Gap(k) :
                   source[p] \notin Space => \E n \in DOMAIN comments : Covers(comments[n], p)
=============================================================================
