----------------------------- MODULE MCVarExpand -----------------------------
(* Searches on all graphs of two nodes and three relationships: loops,      *)
(* parallel relationships and cycles, with and without the second node live *)
(* and with a relationship of a second type.                                *)
EXTENDS VarExpand

AllGraphs ==
  {[nodes |-> live, labels |-> [n \in 1..2 |-> {}],
    rels |-> [r \in 3..5 |-> [type |-> IF r = 5 THEN "t2" ELSE "t1",
                              start |-> ends[r][1], end |-> ends[r][2]]],
    prop |-> [x \in 1..5 |-> Null]] :
      live \in {{1}, {1, 2}}, ends \in [3..5 -> (1..2) \X (1..2)]}

AllHopPats ==
  {[var |-> NoVar, types |-> ts, dir |-> d, prop |-> NoFilter,
    varlen |-> TRUE, min |-> lo, max |-> hi] :
      ts \in {{}, {"t1"}}, d \in {"OUT", "IN", "BOTH"}, lo \in 0..2, hi \in 1..3}

AllStarts == {1, 2}
==============================================================================
