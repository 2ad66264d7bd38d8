----------------------------- MODULE Evaluation -----------------------------
(***************************************************************************)
(* eval_expr (executor/env.py) and the pattern matching that evaluates     *)
(* patterns in expressions and is evaluated by MATCH (executor/engine.py), *)
(* on the syntax trees of Ast.  A graph is the record of PathMatch, with   *)
(* the property maps of its elements: props[element][key].                 *)
(*                                                                         *)
(* A row is a function from names to values.  An exception is a value too, *)
(* which every operation passes on; where the order of two exceptions is   *)
(* all that differs, the first one in the text stands.  Numbers are        *)
(* integers: Div, Pow, =~, the order of strings and the functions of       *)
(* floats, strings and clocks are left out.                                *)
(***************************************************************************)
EXTENDS Ast, PathMatch

(* Values. *)
IntValue(n) == [int |-> n]
BoolValue(b) == [bool |-> b]
StrValue(text) == [str |-> text]
ListValue(items) == [list |-> items]
MapValue(entries) == [map |-> entries]
Raised(code) == [raised |-> code]

Is(kind, value) == kind \in DOMAIN value
IsNullValue(value) == Is("null", value)
Failed(value) == Is("raised", value)
IsNumber(value) == Is("int", value) \/ Is("bool", value)
NumberOf(value) == IF Is("int", value) THEN value.int ELSE IF value.bool THEN 1 ELSE 0

(* The first exception among values, or else the result. *)
Strict(values, result) ==
    IF \E k \in DOMAIN values : Failed(values[k])
    THEN values[CHOOSE k \in DOMAIN values :
                    Failed(values[k]) /\ \A j \in 1..(k - 1) : ~Failed(values[j])]
    ELSE result

(* ... or null when one of them is null. *)
NullStrict(values, result) ==
    Strict(values, IF \E k \in DOMAIN values : IsNullValue(values[k]) THEN NullRef ELSE result)

(* ... or a TypeError when what is gone through is no list.                 *)
OverItems(value, result) ==
    NullStrict(<<value>>, IF "list" \in DOMAIN value THEN result ELSE Raised("TypeError"))

(* cypher_true is True, is False; it is None for null.                     *)
Truthy(value) ==
    CASE Is("bool", value) -> value.bool
      [] Is("int", value) -> value.int # 0
      [] Is("str", value) -> value.str # <<>>
      [] Is("list", value) -> value.list # <<>>
      [] Is("map", value) -> DOMAIN value.map # {}
      [] OTHER -> TRUE
IsTrue(value) == ~IsNullValue(value) /\ Truthy(value)
IsFalse(value) == ~IsNullValue(value) /\ ~Truthy(value)

(* Python's ==: truth values are numbers. *)
SameValue(x, y) == IF IsNumber(x) /\ IsNumber(y) THEN NumberOf(x) = NumberOf(y) ELSE x = y

-----------------------------------------------------------------------------
(* Operators, on values that are no exceptions. *)

Compared == [LT |-> {-1}, LTE |-> {-1, 0}, GT |-> {1}, GTE |-> {1, 0}]
SignOf(n) == CASE n < 0 -> -1 [] n = 0 -> 0 [] OTHER -> 1

Arithmetic(op, x, y) ==
    IF IsNumber(x) /\ IsNumber(y)
    THEN LET m == NumberOf(x)  n == NumberOf(y)
         IN  CASE op = "Add" -> IntValue(m + n)
               [] op = "Sub" -> IntValue(m - n)
               [] op = "Mul" -> IntValue(m * n)
               [] op = "Mod" -> IF n = 0 THEN Raised("ZeroDivisionError")
                                ELSE IntValue(IF n > 0 THEN m % n ELSE -((-m) % (-n)))
    ELSE IF op = "Add" /\ Is("list", x) /\ Is("list", y) THEN ListValue(x.list \o y.list)
    ELSE IF op = "Add" /\ Is("str", x) /\ Is("str", y) THEN StrValue(x.str \o y.str)
    ELSE Raised("TypeError")

(* left in right: a list, the keys of a map, the parts of a string.        *)
Member(x, y) ==
    CASE Is("list", y) -> BoolValue(\E k \in DOMAIN y.list : SameValue(x, y.list[k]))
      [] Is("map", y) -> BoolValue(Is("str", x) /\ x.str \in DOMAIN y.map)
      [] Is("str", y) /\ Is("str", x) ->
            BoolValue(\E k \in 0..Len(y.str) : SubSeq(y.str, k + 1, k + Len(x.str)) = x.str)
      [] OTHER -> Raised("TypeError")

Logical(op, x, y) ==
    CASE op = "And" -> IF IsFalse(x) \/ IsFalse(y) THEN BoolValue(FALSE)
                       ELSE IF IsNullValue(x) \/ IsNullValue(y) THEN NullRef ELSE BoolValue(TRUE)
      [] op = "Or" -> IF IsTrue(x) \/ IsTrue(y) THEN BoolValue(TRUE)
                      ELSE IF IsNullValue(x) \/ IsNullValue(y) THEN NullRef ELSE BoolValue(FALSE)
      [] op = "Xor" -> IF IsNullValue(x) \/ IsNullValue(y) THEN NullRef
                       ELSE BoolValue(Truthy(x) # Truthy(y))

Combined(op, x, y) ==
    CASE op \in {"And", "Or", "Xor"} -> Strict(<<x, y>>, Logical(op, x, y))
      [] op \in {"Add", "Sub", "Mul", "Mod"} -> NullStrict(<<x, y>>, Arithmetic(op, x, y))
      [] op = "EQ" -> NullStrict(<<x, y>>, BoolValue(SameValue(x, y)))
      [] op = "NEQ" -> NullStrict(<<x, y>>, BoolValue(~SameValue(x, y)))
      [] op \in DOMAIN Compared ->
            NullStrict(<<x, y>>, IF IsNumber(x) /\ IsNumber(y)
                                 THEN BoolValue(SignOf(NumberOf(x) - NumberOf(y)) \in Compared[op])
                                 ELSE Raised("TypeError"))
      [] op = "In" -> NullStrict(<<x, y>>, Member(x, y))

Infix == {"And", "Or", "Xor", "Add", "Sub", "Mul", "Mod", "EQ", "NEQ", "In"} \cup DOMAIN Compared

-----------------------------------------------------------------------------
(* Functions, by their names in small letters; a list holds the nodes and  *)
(* relationships of a path.                                                *)
PropsOf(value, G) ==
    CASE Is("node", value) -> G.props[value.node]
      [] Is("rel", value) -> G.props[value.rel]
      [] OTHER -> value.map
KeyOf(props, key) == IF key \in DOMAIN props THEN props[key] ELSE NullRef

OfKind(kind, items) == SelectSeq(items, LAMBDA item : Is(kind, item))

Applied(name, args, G) ==
    LET v == args[1] IN
    CASE name = "coalesce" ->
            IF \A k \in DOMAIN args : IsNullValue(args[k]) THEN NullRef
            ELSE args[CHOOSE k \in DOMAIN args : ~IsNullValue(args[k])
                                                 /\ \A j \in 1..(k - 1) : IsNullValue(args[j])]
      [] name = "range" -> ListValue([k \in 1..(args[2].int - v.int + 1) |-> IntValue(v.int + k - 1)])
      [] name \in {"nodes", "relationships", "rels"} ->
            IF Is("list", v) THEN ListValue(OfKind(IF name = "nodes" THEN "node" ELSE "rel", v.list))
            ELSE NullRef
      [] name \in {"startnode", "endnode"} ->
            LET nodes == OfKind("node", v.list)
            IN  IF ~Is("list", v) THEN NullRef
                ELSE IF nodes = <<>> THEN NullRef
                ELSE IF name = "startnode" THEN Head(nodes) ELSE nodes[Len(nodes)]
      [] name = "length" ->
            CASE Is("list", v) -> IntValue(Len(OfKind("rel", v.list)))
              [] Is("str", v) -> IntValue(Len(v.str)) [] OTHER -> NullRef
      [] IsNullValue(v) /\ name \in {"size", "head", "last", "tail", "reverse", "labels", "type",
                                     "id", "properties", "abs", "sign", "tointeger"} -> NullRef
      [] name = "size" /\ Is("list", v) -> IntValue(Len(v.list))
      [] name = "size" /\ Is("str", v) -> IntValue(Len(v.str))
      [] name \in {"head", "last"} /\ Is("list", v) ->
            IF v.list = <<>> THEN NullRef
            ELSE IF name = "head" THEN Head(v.list) ELSE v.list[Len(v.list)]
      [] name = "tail" /\ Is("list", v) -> ListValue(SubSeq(v.list, 2, Len(v.list)))
      [] name = "reverse" /\ Is("list", v) -> ListValue(Reverse(v.list))
      [] name = "labels" /\ Is("node", v) ->
            ListValue(SetToSeq({StrValue(label) : label \in G.labels[v.node]}))
      [] name = "type" -> IF Is("rel", v) THEN StrValue(G.rels[v.rel].type) ELSE NullRef
      [] name = "id" -> CASE Is("node", v) -> IntValue(v.node) [] Is("rel", v) -> IntValue(v.rel)
                          [] OTHER -> NullRef
      [] name = "properties" /\ (Is("node", v) \/ Is("rel", v)) -> MapValue(PropsOf(v, G))
      [] name = "abs" /\ IsNumber(v) -> IntValue(IF NumberOf(v) < 0 THEN -NumberOf(v) ELSE NumberOf(v))
      [] name = "sign" /\ IsNumber(v) -> IntValue(SignOf(NumberOf(v)))
      [] name = "tointeger" /\ IsNumber(v) -> IntValue(NumberOf(v))
      [] OTHER -> Raised("CG1702")

(* seq[idx], seq[start:end]; an index before the start counts from the end. *)
Subscript(seq, idx) ==
    IF ~Is("list", seq) \/ ~IsNumber(idx) THEN Raised("CG1701")
    ELSE LET n == NumberOf(idx)
             k == IF n < 0 THEN Len(seq.list) + n + 1 ELSE n + 1
         IN  IF k \in DOMAIN seq.list THEN seq.list[k] ELSE Raised("CG1701")
Slice(seq, from, to) ==
    LET upTo == IF IsNullValue(to) \/ NumberOf(to) > Len(seq.list) THEN Len(seq.list)
                ELSE NumberOf(to)
    IN  ListValue(SubSeq(seq.list, (IF IsNullValue(from) THEN 0 ELSE NumberOf(from)) + 1, upTo))

(* The labels of a node, the type of a relationship.  A label expression   *)
(* has no list of labels, so it asks for nothing.                          *)
LabelsOf(node) ==
    IF node.t = "LabelExpression" THEN {label.v : label \in Range(Arg(node, "labels").c)} ELSE {}
HasLabels(value, labels, G) ==
    CASE Is("node", value) -> labels \subseteq G.labels[value.node]
      [] Is("rel", value) -> labels = {} \/ G.rels[value.rel].type \in labels
      [] OTHER -> FALSE
-----------------------------------------------------------------------------
(* Expressions and patterns. *)

RECURSIVE Eval(_, _, _), Matches(_, _, _)

EvalAll(nodes, row, G) == <<>> \o [k \in DOMAIN nodes |-> Eval(nodes[k], row, G)]

(* A partial match is the row so far, the node reached and the path taken. *)
Partial(row) == [row |-> row, at |-> 0, acc |-> <<>>]

(* The first exception among matches, or else all of them.                 *)
OrItsFailure(matches) ==
    IF \E k \in DOMAIN matches : Failed(matches[k]) THEN <<Head(SelectSeq(matches, Failed))>> ELSE matches
Joined(parts) == OrItsFailure(FlattenSeq(<<>> \o parts))

(* The properties a pattern asks for. *)
AskedOf(pat) ==
    IF Arg(pat, "properties").t = "Map" THEN Arg(Arg(pat, "properties"), "entries").c ELSE <<>>
KeysOf(pat) == [k \in DOMAIN AskedOf(pat) |-> Arg(AskedOf(pat)[k], "key").v]
Expected(pat, row, G) ==
    EvalAll([k \in DOMAIN AskedOf(pat) |-> Arg(AskedOf(pat)[k], "value")], row, G)

(* _node_matches: the expected properties are expressions over the row,    *)
(* and the first that is not there decides.                                *)
HasExpected(props, keys, expected) ==
    LET Differs(k) == \/ IsNullValue(expected[k]) \/ IsNullValue(KeyOf(props, keys[k]))
                      \/ ~SameValue(expected[k], KeyOf(props, keys[k]))
        first == CHOOSE k \in DOMAIN keys : Differs(k) /\ \A j \in 1..(k - 1) : ~Differs(j)
    IN  IF ~\E k \in DOMAIN keys : Differs(k) THEN BoolValue(TRUE)
        ELSE IF Failed(expected[first]) THEN expected[first] ELSE BoolValue(FALSE)
FitsNode(pat, n, row, G) ==
    IF LabelsOf(Arg(pat, "labels")) \subseteq G.labels[n]
    THEN HasExpected(G.props[n], KeysOf(pat), Expected(pat, row, G))
    ELSE BoolValue(FALSE)

(* A name that is bound must be bound to this very node or relationship; a *)
(* list of relationships is never the same list.                           *)
BindName(variable, value, matches) ==
    IF ~IsThere(variable) THEN matches
    ELSE LET free == SelectSeq(matches, LAMBDA m : variable.v \notin DOMAIN m.row)
         IN  [k \in DOMAIN free |-> [free[k] EXCEPT !.row = Assign(@, variable.v, value)]]
                 \o SelectSeq(matches, LAMBDA m : /\ variable.v \in DOMAIN m.row
                                                  /\ m.row[variable.v] = value /\ ~Is("list", value))

(* _candidate_rels: a step is a value and the node it leads to.  The       *)
(* properties of a relationship do not see the row.                        *)
DirectionOf(pat) == [OUTGOING |-> "OUT", INCOMING |-> "IN", BOTH |-> "BOTH"][Arg(pat, "direction").v[1]]
Hop(pat, field, default) ==
    IF IsThere(Arg(pat, field)) THEN ValueOf(Arg(pat, field).v, 10) ELSE default
DefaultMaxHops == 10

AsTrails(trails) ==
    LET Rels(path) == <<>> \o [k \in DOMAIN path |-> RelRef(path[k])]
    IN  <<>> \o [k \in DOMAIN trails |-> [value |-> ListValue(Rels(trails[k].path)), to |-> trails[k].at]]
AsSteps(found, n, G) ==
    <<>> \o [k \in DOMAIN found |-> [value |-> RelRef(found[k]), to |-> FarEnd(G, found[k], n)]]
AsHops(found, n, keys, expected, G) ==
    LET Fits(r) == \A k \in DOMAIN keys : SameValue(KeyOf(G.props[r], keys[k]), expected[k])
    IN  IF found # <<>> /\ \E k \in DOMAIN expected : Failed(expected[k])
        THEN <<Strict(expected, NullRef)>>
        ELSE AsSteps(SelectSeq(found, Fits), n, G)
Steps(pat, n, G) ==
    LET hop == [types |-> {type.v : type \in Range(Arg(pat, "types").c)}, dir |-> DirectionOf(pat),
                min |-> Hop(pat, "min_hops", 1),
                max |-> Min({Hop(pat, "max_hops", DefaultMaxHops), Cardinality(DOMAIN G.rels)})]
    IN  IF IsThere(Arg(pat, "variable_length")) THEN AsTrails(Trails(G, hop, n))
        ELSE AsHops(Hops(G, hop, n), n, KeysOf(pat), Expected(pat, <<>>, G), G)

Reached(relationship, node, m, step, fits) ==
    IF Failed(fits) THEN <<fits>> ELSE IF ~fits.bool THEN <<>>
    ELSE BindName(Arg(node, "variable"), NodeRef(step.to),
                  BindName(Arg(relationship, "variable"), step.value,
                           <<[m EXCEPT !.at = step.to, !.acc = @ \o <<step.value, NodeRef(step.to)>>]>>))

(* _expand *)
Expand(relationship, node, m, steps, G) ==
    Joined([k \in DOMAIN steps |->
              IF Failed(steps[k]) THEN <<steps[k]>>
              ELSE Reached(relationship, node, m, steps[k], FitsNode(node, steps[k].to, m.row, G))])

RelationshipsIn(path) == Cardinality({k \in DOMAIN path : Is("rel", path[k])})

(* _candidate_nodes: a name bound to a node leaves only that one.          *)
Candidates(pat, row, G) ==
    LET variable == Arg(pat, "variable")
        bound == row[variable.v]
    IN  IF ~IsThere(variable) \/ variable.v \notin DOMAIN row THEN InOrder(G.nodes)
        ELSE IF IsNullValue(bound) THEN <<>>
        ELSE IF Is("node", bound) THEN <<bound.node>> ELSE InOrder(G.nodes)

(* _match_path from its first node on.  Matching by breadth gives the rows *)
(* in the order in which the code, going deep, gives them.                 *)
StartAt(first, n, row, fits) ==
    IF Failed(fits) THEN <<fits>> ELSE IF ~fits.bool THEN <<>>
    ELSE BindName(Arg(first, "variable"), NodeRef(n), <<[row |-> row, at |-> n, acc |-> <<NodeRef(n)>>]>>)
Further(relationship, node, matches, G) ==
    Joined([k \in DOMAIN matches |->
              IF Failed(matches[k]) THEN <<matches[k]>>
              ELSE Expand(relationship, node, matches[k], Steps(relationship, matches[k].at, G), G)])
Starts(first, nodes, row, G) ==
    Joined([k \in DOMAIN nodes |-> StartAt(first, nodes[k], row, FitsNode(first, nodes[k], row, G))])
RECURSIVE Walked(_, _, _)
Walked(elements, matches, G) ==
    IF elements = <<>> THEN matches
    ELSE Walked(SubSeq(elements, 3, Len(elements)), Further(elements[1], elements[2], matches, G), G)

(* shortestPath: the matches with the fewest relationships, which are      *)
(* counted in the path when it has a name, and by the names of its         *)
(* relationships when it has none.                                         *)
HopsTaken(path, m) ==
    LET inside == Arg(path, "elements").c
        named == SelectSeq(inside, LAMBDA e : e.t = "RelationshipPattern" /\ IsThere(Arg(e, "variable")))
    IN  IF IsThere(Arg(path, "variable"))
        THEN RelationshipsIn(m.row[Arg(path, "variable").v].list)
        ELSE Len(SelectSeq(named, LAMBDA e : ~IsNullValue(m.row[Arg(e, "variable").v])))
Shortest(path, found) ==
    IF \E k \in DOMAIN found : Failed(found[k]) THEN found
    ELSE SelectSeq(found, LAMBDA m :
                       \A k \in DOMAIN found : HopsTaken(path, m) <= HopsTaken(path, found[k]))

NamePath(variable, matches) ==
    IF ~IsThere(variable) \/ (\E k \in DOMAIN matches : Failed(matches[k])) THEN matches
    ELSE <<>> \o [k \in DOMAIN matches |->
                    [matches[k] EXCEPT !.row = Assign(@, variable.v, ListValue(matches[k].acc))]]

(* _match_path *)
RECURSIVE MatchPathNode(_, _, _)
MatchPathNode(path, row, G) ==
    LET elements == Arg(path, "elements").c
        variable == Arg(path, "variable")
        inner == Arg(elements[1], "this")
        named == IF IsThere(variable) THEN SetArg(inner, "variable", variable) ELSE inner
    IN  CASE elements[1].t = "ShortestPath" -> Shortest(inner, MatchPathNode(named, row, G))
          [] elements[1].t = "NodePattern" ->
                NamePath(variable, Walked(Tail(elements),
                                          Starts(elements[1], Candidates(elements[1], row, G), row, G), G))
          [] OTHER -> <<Raised("CG1702")>>

(* _match_pattern: the paths one after the other.                          *)
RECURSIVE MatchPaths(_, _, _)
MatchPaths(paths, matches, G) ==
    IF paths = <<>> THEN matches
    ELSE MatchPaths(Tail(paths),
                    Joined([k \in DOMAIN matches |-> IF Failed(matches[k]) THEN <<matches[k]>>
                                                     ELSE MatchPathNode(Head(paths), matches[k].row, G)]),
                    G)
Matches(paths, row, G) == MatchPaths(paths, <<Partial(row)>>, G)

PathsOf(pattern) == IF pattern.t = "PathPattern" THEN <<pattern>> ELSE Arg(pattern, "paths").c

(* CASE: the first arm that holds.  Comparing the subject with null goes   *)
(* on to the next arm: _cmp answers with the sentinel NULL, which is not   *)
(* the None that the code asks for.                                        *)
RECURSIVE EvalArms(_, _, _, _, _)
AfterArm(node, tested, subject, arms, row, G) ==
    CASE Failed(tested) -> tested
      [] IsTrue(tested) -> Eval(Arg(Head(arms), "value"), row, G)
      [] OTHER -> EvalArms(node, subject, Tail(arms), row, G)
Tested(node, subject, key) == IF IsThere(Arg(node, "this")) THEN Combined("EQ", subject, key) ELSE key
EvalArms(node, subject, arms, row, G) ==
    IF arms = <<>> THEN Eval(Arg(node, "default"), row, G)
    ELSE AfterArm(node, Tested(node, subject, Eval(Arg(Head(arms), "key"), row, G)), subject, arms, row, G)

(* all, any, none and single: a test that is unknown counts as failed, and *)
(* single answers with the one item there is.                              *)
Quantified(name, items, tests) ==
    LET stops == {k \in DOMAIN items : Failed(tests[k]) \/ IsTrue(tests[k]) = (name # "all")}
        first == CHOOSE k \in stops : \A j \in stops : k <= j
    IN  CASE name = "single" /\ Cardinality(stops) # 1 ->
                IF \E k \in stops : Failed(tests[k]) THEN Strict(tests, NullRef) ELSE NullRef
          [] stops = {} -> BoolValue(name \in {"all", "none"})
          [] Failed(tests[first]) -> tests[first]
          [] name = "single" -> items[first]
          [] OTHER -> BoolValue(name = "any")

(* A WHERE, of a clause or bare. *)
TestOf(where, row, G) ==
    CASE where.t = "None" -> BoolValue(TRUE)
      [] where.t = "Where" -> Eval(Arg(where, "this"), row, G)
      [] OTHER -> Eval(where, row, G)

(* The rows a comprehension goes through, those its WHERE keeps, and what  *)
(* it makes of each.                                                       *)
KeptRows(rows, tests) ==
    SelectSeq(<<>> \o [k \in DOMAIN rows |-> [row |-> rows[k], test |-> tests[k]]],
              LAMBDA r : Failed(r.test) \/ IsTrue(r.test))
Made(kept, projection, G) ==
    <<>> \o [k \in DOMAIN kept |-> IF Failed(kept[k].test) THEN kept[k].test
                                   ELSE Eval(projection, kept[k].row, G)]
AsList(values) == Strict(values, ListValue(values))
Comprehended(rows, where, projection, G) ==
    AsList(Made(KeptRows(rows, <<>> \o [k \in DOMAIN rows |-> TestOf(where, rows[k], G)]), projection, G))

OnMatches(node, found, G) ==
    LET variable == Arg(node, "variable")
        Named(row) == IF ~IsThere(variable) THEN row
                      ELSE Assign(row, variable.v, IF variable.v \in DOMAIN row THEN row[variable.v]
                                                   ELSE NullRef)
    IN  Strict(found,
               IF node.t = "PatternPredicate" THEN BoolValue((found # <<>>) # IsThere(Arg(node, "not_")))
               ELSE Comprehended([k \in DOMAIN found |-> Named(found[k].row)],
                                 Arg(node, "where"), Arg(node, "projection"), G))

(* The quantifiers and comprehensions of lists, on the list.               *)
Binding(node, row, item) == Assign(row, Arg(node, "variable").v, item)
TestOfItem(node, item, row, G) ==
    IF IsThere(Arg(node, "where")) THEN Eval(Arg(node, "where"), Binding(node, row, item), G)
    ELSE BoolValue(Arg(node, "name").v[1] # "all" \/ IsNullValue(item) \/ Truthy(item))
OnList(node, value, row, G) ==
    OverItems(value,
        IF node.t = "Quantifier"
        THEN Quantified(Arg(node, "name").v[1], value.list,
                        <<>> \o [k \in DOMAIN value.list |-> TestOfItem(node, value.list[k], row, G)])
        ELSE Comprehended([k \in DOMAIN value.list |-> Binding(node, row, value.list[k])],
                          Arg(node, "where"),
                          IF IsThere(Arg(node, "projection")) THEN Arg(node, "projection")
                          ELSE Arg(node, "variable"), G))

Property(value, key, G) ==
    IF Is("node", value) \/ Is("rel", value) \/ Is("map", value) THEN KeyOf(PropsOf(value, G), key)
    ELSE Raised("CG1701")

(* What is evaluated on the values of its first three arguments.           *)
OnValues == Infix \cup {"Property", "Not", "Neg", "IsNull", "ListSubscript", "ListSlice",
                        "LabelPredicate", "Alias"}
Operated(node, x, y, z, G) ==
    CASE node.t \in Infix -> Combined(node.t, x, y)
      [] node.t = "Property" -> NullStrict(<<x>>, Property(x, Arg(node, "name").v, G))
      [] node.t = "Not" -> NullStrict(<<x>>, BoolValue(~Truthy(x)))
      [] node.t = "Neg" ->
            NullStrict(<<x>>, IF IsNumber(x) THEN IntValue(-NumberOf(x)) ELSE Raised("TypeError"))
      [] node.t = "IsNull" -> Strict(<<x>>, BoolValue(IsNullValue(x) # IsThere(Arg(node, "not_"))))
      [] node.t = "ListSubscript" -> NullStrict(<<x, y>>, Subscript(x, y))
      [] node.t = "ListSlice" -> NullStrict(<<x>>, Strict(<<y, z>>, Slice(x, y, z)))
      [] node.t = "LabelPredicate" ->
            NullStrict(<<x>>, BoolValue(HasLabels(x, LabelsOf(Arg(node, "labels")), G)))
      [] node.t = "Alias" -> x

(* The entries of a map projection, one after the other.                   *)
Projected(base, entry, row, G) ==
    LET props == IF Is("node", base) \/ Is("rel", base) \/ Is("map", base) THEN PropsOf(base, G)
                 ELSE <<>>
    IN  CASE entry.t = "Star" -> props
          [] entry.t = "PropertySelector" -> Arg(entry, "name").v :> KeyOf(props, Arg(entry, "name").v)
          [] entry.t = "tuple" -> Arg(entry, "key").v :> Eval(Arg(entry, "value"), row, G)

Entries(f) == IF \E k \in DOMAIN f : Failed(f[k]) THEN f[CHOOSE k \in DOMAIN f : Failed(f[k])]
              ELSE MapValue(f)

MapOf(base, entries, row, G) ==
    Entries(FoldLeft(LAMBDA f, entry : Projected(base, entry, row, G) @@ f, <<>>, entries))
OnBase(base, entries, row, G) == NullStrict(<<base>>, MapOf(base, entries, row, G))
OnAll(node, args, G) ==
    CASE node.t = "List" -> Strict(args, ListValue(args))
      [] node.t = "Coalesce" -> Applied("coalesce", args, G)
      [] node.t = "FunctionCall" -> Strict(args, Applied(SmallLetters(Arg(node, "name").v[1]), args, G))

(* An argument that is not there is null. *)
Eval(node, row, G) ==
    CASE node.t \in {"Null", "None"} -> NullRef
      [] node.t = "Boolean" -> BoolValue(node.v \in {<<"true">>, <<"TRUE">>})
      [] node.t = "Integer" -> IntValue(ValueOf(node.v, 10))
      [] node.t = "String" -> StrValue(node.v)
      [] node.t = "Identifier" -> IF node.v \in DOMAIN row THEN row[node.v] ELSE Raised("unknown name")
      [] node.t = "Parameter" -> IF node.v \in DOMAIN row THEN row[node.v] ELSE Raised("CG1704")
      [] node.t = "Star" -> MapValue(row)
      [] node.t \in OnValues ->
            Operated(node, Eval(node.c[1], row, G), Eval(node.c[2], row, G), Eval(node.c[3], row, G), G)
      [] node.t \in {"List", "Coalesce", "FunctionCall"} ->
            OnAll(node, EvalAll(Arg(node, "expressions").c, row, G), G)
      [] node.t = "Map" -> MapOf(NullRef, Arg(node, "entries").c, row, G)
      [] node.t = "MapProjection" ->
            OnBase(Eval(Arg(node, "this"), row, G), Arg(node, "entries").c, row, G)
      [] node.t = "Case" -> EvalArms(node, Eval(Arg(node, "this"), row, G), Arg(node, "ifs").c, row, G)
      [] node.t \in {"Quantifier", "ListComprehension"} ->
            OnList(node, Eval(Arg(node, "source"), row, G), row, G)
      [] node.t \in {"PatternComprehension", "PatternPredicate"} ->
            OnMatches(node, Matches(PathsOf(Arg(node, "pattern")), row, G), G)
      [] OTHER -> Raised("CG1702")
=============================================================================
