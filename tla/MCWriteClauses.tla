---------------------------- MODULE MCWriteClauses ---------------------------
(* Queries over a small alphabet of clauses. *)
EXTENDS WriteClauses

N(v)         == [var |-> v, labels |-> {}, prop |-> NoFilter]
NL(v, l)     == [N(v) EXCEPT !.labels = {l}]
NLP(v, l, p) == [NL(v, l) EXCEPT !.prop = p]
H(v, d)      == [var |-> v, types |-> {"T"}, dir |-> d, prop |-> NoFilter,
                 varlen |-> FALSE, min |-> 1, max |-> 1]
Path(ns, hs) == <<[var |-> NoVar, nodes |-> ns, hops |-> hs]>>

MatchOf(p)    == [op |-> "MATCH", pattern |-> p, where |-> NoFilter, optional |-> FALSE]
OptMatchOf(p) == [MatchOf(p) EXCEPT !.optional = TRUE]
CreateOf(p)   == [op |-> "CREATE", pattern |-> p]
MergeOf(p, onMatch, onCreate) ==
  [op |-> "MERGE", pattern |-> p, onMatch |-> onMatch, onCreate |-> onCreate]
DeleteOf(vs, detach) ==
  [op |-> "DELETE", items |-> [i \in DOMAIN vs |->
                                 [do |-> "delete", var |-> vs[i], detach |-> detach]]]
SetOf(items) == [op |-> "SET", items |-> items]
ForeachOf(v, items, body) == [op |-> "FOREACH", var |-> v, items |-> items, body |-> body]

LabelItem(v, l)  == [do |-> "setLabel", var |-> v, label |-> l]
UnlabelItem(v, l) == [do |-> "removeLabel", var |-> v, label |-> l]
PropItem(v, p)   == [do |-> "setProp", var |-> v, value |-> p]
MapItem(v, p)    == [do |-> "setMap", var |-> v, value |-> p]

\* Creating, deleting and connecting: stale bindings, refused deletions.
MCStructure ==
  LET spread == CreateOf(Path(<<N("b"), NL("c", "L")>>, <<H("r", "OUT")>>))
  IN  {spread,
       CreateOf(Path(<<NL("a", "L")>>, <<>>)),
       CreateOf(Path(<<N("a"), N("a")>>, <<[H("", "IN") EXCEPT !.types = {}]>>)),
       MatchOf(Path(<<N("a")>>, <<>>)),
       MatchOf(Path(<<N("a"), N("b")>>, <<H("r", "OUT")>>)),
       OptMatchOf(Path(<<N("a"), N("b")>>, <<H("r", "IN")>>)),
       MergeOf(Path(<<N("a"), N("b")>>, <<H("r", "IN")>>), <<>>, <<>>),
       DeleteOf(<<"a">>, TRUE),
       DeleteOf(<<"r", "a">>, FALSE),
       [op |-> "SET", items |-> <<LabelItem("a", "L"), PropItem("r", "x"), MapItem("b", Null)>>],
       [op |-> "REMOVE", items |-> <<UnlabelItem("a", "L"), PropItem("a", Null)>>],
       ForeachOf("b", <<"a", "a">>, <<spread>>)}

\* MERGE of one kind of node, over several rows and iterations.
MCMerging ==
  LET wanted == Path(<<NLP("b", "L", "x")>>, <<>>)
      twice  == [op |-> "UNWIND", var |-> "i", values |-> <<NullRef, NullRef>>]
      merge  == MergeOf(wanted, <<LabelItem("b", "M")>>, <<UnlabelItem("b", "M")>>)
  IN  {twice, merge,
       MergeOf(Path(<<NLP("b", "L", Null)>>, <<>>), <<>>, <<>>),
       CreateOf(Path(<<NL("m", "M")>>, <<>>)),
       MatchOf(Path(<<N("m")>>, <<>>)),
       MatchOf(Path(<<NL("b", "L")>>, <<>>)),
       DeleteOf(<<"b">>, FALSE),
       ForeachOf("m", <<"m", "m">>, <<merge>>)}
==============================================================================
