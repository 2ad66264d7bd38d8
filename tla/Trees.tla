------------------------------- MODULE Trees -------------------------------
(***************************************************************************)
(* AstNode.walk: the nodes of a tree.  It looks into lists but not into    *)
(* pairs, so it never reaches the arms of a CASE or the values of a map.   *)
(***************************************************************************)
EXTENDS Ast

RECURSIVE Walk(_)
Walk(node) ==
    IF node.t \in {"name", "None", "tuple"} THEN {}
    ELSE (IF node.t = "list" THEN {} ELSE {node}) \cup UNION {Walk(child) : child \in Range(node.c)}

FindAll(node, types) == {n \in Walk(node) : n.t \in types}
=============================================================================
