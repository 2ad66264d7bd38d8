---------------------------- MODULE MCMatchClause ----------------------------
(* MATCH on all graphs of two nodes and two relationships, with patterns of *)
(* every shape: bound, unbound and repeated variables, both directions and  *)
(* none, fixed and variable length, one and two paths, WHERE, OPTIONAL.     *)
EXTENDS MatchClause

AllGraphs ==
  {[nodes |-> live, labels |-> [n \in 1..2 |-> IF n = 1 THEN {"L"} ELSE ls],
    rels |-> [r \in 3..4 |-> [type |-> IF r = 4 THEN t ELSE "t1",
                              start |-> ends[r][1], end |-> ends[r][2]]],
    prop |-> [x \in 1..4 |-> IF x = 3 THEN "x" ELSE IF x = 2 THEN p ELSE Null]] :
      live \in {{1}, {1, 2}}, ls \in {{}, {"L"}}, ends \in [3..4 -> (1..2) \X (1..2)],
      <<t, p>> \in {<<"t1", Null>>, <<"t2", "x">>}}

N(v)        == [var |-> v, labels |-> {}, prop |-> NoFilter]
NL(v)       == [var |-> v, labels |-> {"L"}, prop |-> NoFilter]
NP(v, p)    == [var |-> v, labels |-> {}, prop |-> p]
H(v, d)     == [var |-> v, types |-> {}, dir |-> d, prop |-> NoFilter,
                varlen |-> FALSE, min |-> 1, max |-> 1]
HT(v, d)    == [H(v, d) EXCEPT !.types = {"t1"}]
HP(d, p)    == [H("r", d) EXCEPT !.prop = p]
V(v, d, lo) == [H(v, d) EXCEPT !.varlen = TRUE, !.min = lo, !.max = 2]
P(v, ns, hs) == [var |-> v, nodes |-> ns, hops |-> hs]

Dirs == {"OUT", "IN", "BOTH"}

Patterns ==
  {<<P("p", <<NL("a")>>, <<>>)>>, <<P("", <<NP("a", "x")>>, <<>>)>>,
   <<P("", <<NP("a", Null)>>, <<>>)>>,
   <<P("", <<N("a")>>, <<>>), P("", <<NL("b")>>, <<>>)>>}
  \union {<<P("p", <<NL("a"), N("b")>>, <<h>>)>> : h \in {H("r", d) : d \in Dirs}}
  \union {<<P("", <<N("a"), NP("b", "x")>>, <<h>>)>> : h \in {HT("", d) : d \in Dirs}}
  \union {<<P("", <<N("a"), N("a")>>, <<h>>)>> : h \in {H("r", d) : d \in Dirs}}
  \union {<<P("", <<N("a"), N("")>>, <<h>>)>> : h \in {HP("OUT", "x"), HP("OUT", Null)}}
  \union {<<P("p", <<N("a"), N("b")>>, <<h>>)>> :
            h \in {V("r", d, lo) : d \in Dirs, lo \in 0..1}}
  \union {<<P("", <<N("a"), N(""), NL("c")>>, <<H("r", "OUT"), H(v, d)>>)>> :
            v \in {"", "r"}, d \in Dirs}
  \union {<<P("", <<N("a"), N("b")>>, <<H("", "OUT")>>),
            P("", <<N("b"), NL("c")>>, <<H("", d)>>)>> : d \in Dirs}
  \union {<<P("", <<N("a"), N("b"), N("c")>>, <<V("r", "OUT", 0), V("r", "OUT", 0)>>)>>}
  \union {<<P("", <<N("a"), N("b")>>, <<V("", "OUT", 0)>>),
            P("", <<N("b"), N("c")>>, <<H("", "IN")>>)>>}

AllClauses ==
  {[pattern |-> p, where |-> NoFilter, optional |-> FALSE] : p \in Patterns}
  \union {[pattern |-> p, where |-> [var |-> "a", value |-> "x"], optional |-> TRUE] :
            p \in Patterns}

AllInputs ==
  {<< <<>> >>, << [a |-> NodeRef(1)], [a |-> NodeRef(2)] >>,
   << [a |-> NullRef] >>, << [p |-> NodeRef(2)] >>, << [b |-> NodeRef(2), r |-> RelRef(3)] >>}

\* MATCH (a)-[r*1..2 {key: 'x'}]->(b)
FilteredTrails ==
  {[pattern |-> <<P("", <<N("a"), N("b")>>, <<[V("r", "OUT", 1) EXCEPT !.prop = "x"]>>)>>,
    where |-> NoFilter, optional |-> FALSE]}
==============================================================================
