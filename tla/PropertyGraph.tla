---------------------------- MODULE PropertyGraph ----------------------------
(****************************************************************************)
(* The in-memory property graph (cypherast/executor/graph.py) together with *)
(* the two places of the executor that write its label index behind its     *)
(* back, SET n:L and REMOVE n:L (cypherast/executor/engine.py).             *)
(*                                                                          *)
(* Node objects live on the heap: a caller that still holds a deleted node  *)
(* can change its labels and connect it.  The id lists of the adjacency     *)
(* index are sets here, because identifiers are never handed out twice;     *)
(* properties of nodes and relationships touch no index and are left out.   *)
(****************************************************************************)
EXTENDS Naturals, FiniteSets

CONSTANTS Label,  \* node labels
          Type,   \* relationship types
          MaxId   \* bound on the identifiers handed out

ASSUME MaxIdAssumption == MaxId \in Nat

VARIABLES nextId,         \* _id_gen: shared by nodes and relationships
          nodes,          \* the keys of self.nodes
          labels,         \* label sets of all node objects ever made
          relationships,  \* self.relationships: id -> [type, start, end]
          outIdx,         \* self._out
          inIdx,          \* self._in
          byLabel,        \* self._by_label
          reply           \* the last call and what it returned or raised

graphVars == <<nextId, nodes, labels, relationships, outIdx, inIdx, byLabel>>
vars == <<nextId, nodes, labels, relationships, outIdx, inIdx, byLabel, reply>>

Id == 1..MaxId

Relationship == [type : Type, start : Id, end : Id]

\* What a call returns, as identifiers, or that it raises ValueError.
Answer(call, ids) == [call |-> call, raised |-> FALSE, ids |-> ids]
Refusal(call)     == [call |-> call, raised |-> TRUE, ids |-> {}]

Drop(f, S) == [x \in DOMAIN f \ S |-> f[x]]

Init ==
  /\ nextId = 1
  /\ nodes = {}
  /\ labels = [n \in {} |-> {}]
  /\ relationships = [r \in {} |-> {}]
  /\ outIdx = [n \in Id |-> {}]
  /\ inIdx = [n \in Id |-> {}]
  /\ byLabel = [l \in Label |-> {}]
  /\ reply = Answer(<<"Graph">>, {})

CreateNodeCountingTwice(ls) ==
  /\ nextId \in Id
  /\ nextId' = nextId + 1
  /\ nodes' = nodes \union {nextId + 1}
  /\ labels' = [n \in DOMAIN labels \union {nextId} |->
                  IF n = nextId THEN ls ELSE labels[n]]
  /\ byLabel' = [l \in Label |-> IF l \in ls THEN byLabel[l] \union {nextId}
                                             ELSE byLabel[l]]
  /\ reply' = Answer(<<"create_node", ls>>, {nextId})
  /\ UNCHANGED <<relationships, outIdx, inIdx>>

CreateNode(ls) ==
  /\ nextId \in Id
  /\ nextId' = nextId + 1
  /\ nodes' = nodes \union {nextId}
  /\ labels' = [n \in DOMAIN labels \union {nextId} |->
                  IF n = nextId THEN ls ELSE labels[n]]
  /\ byLabel' = [l \in Label |-> IF l \in ls THEN byLabel[l] \union {nextId}
                                             ELSE byLabel[l]]
  /\ reply' = Answer(<<"create_node", ls>>, {nextId})
  /\ UNCHANGED <<relationships, outIdx, inIdx>>

CreateRelNotCounting(s, e, t) ==
  /\ nextId \in Id
  /\ nextId' = nextId
  /\ relationships' = [r \in DOMAIN relationships \union {nextId} |->
                         IF r = nextId THEN [type |-> t, start |-> s, end |-> e]
                                       ELSE relationships[r]]
  /\ outIdx' = [outIdx EXCEPT ![s] = @ \union {nextId}]
  /\ inIdx' = [inIdx EXCEPT ![e] = @ \union {nextId}]
  /\ reply' = Answer(<<"create_rel", s, e, t>>, {nextId})
  /\ UNCHANGED <<nodes, labels, byLabel>>

\* start and end are node objects or plain identifiers: nobody looks whether
\* they are in self.nodes.
CreateRel(s, e, t) ==
  /\ nextId \in Id
  /\ nextId' = nextId + 1
  /\ relationships' = [r \in DOMAIN relationships \union {nextId} |->
                         IF r = nextId THEN [type |-> t, start |-> s, end |-> e]
                                       ELSE relationships[r]]
  /\ outIdx' = [outIdx EXCEPT ![s] = @ \union {nextId}]
  /\ inIdx' = [inIdx EXCEPT ![e] = @ \union {nextId}]
  /\ reply' = Answer(<<"create_rel", s, e, t>>, {nextId})
  /\ UNCHANGED <<nodes, labels, byLabel>>

DeleteRelsForgettingIn(S) ==
  LET gone == S \intersect DOMAIN relationships
  IN  /\ relationships' = Drop(relationships, gone)
      /\ outIdx' = [n \in Id |-> outIdx[n] \ {r \in gone : relationships[r].start = n}]
      /\ UNCHANGED inIdx

\* delete_rel of every member of S: what is not there any more is skipped, so
\* a self-loop that is met twice is deleted once.
DeleteRels(S) ==
  LET gone == S \intersect DOMAIN relationships
  IN  /\ relationships' = Drop(relationships, gone)
      /\ outIdx' = [n \in Id |-> outIdx[n] \ {r \in gone : relationships[r].start = n}]
      /\ inIdx' = [n \in Id |-> inIdx[n] \ {r \in gone : relationships[r].end = n}]

DeleteRel(r) ==
  /\ DeleteRels({r})
  /\ reply' = Answer(<<"delete_rel", r>>, {})
  /\ UNCHANGED <<nextId, nodes, labels, byLabel>>

Touching(n) == outIdx[n] \union inIdx[n]

RemoveNodeKeepingRels(n, detach) ==
  /\ n \in nodes
  /\ detach \/ Touching(n) = {}
  /\ DeleteRels(outIdx[n])
  /\ nodes' = nodes \ {n}
  /\ byLabel' = [l \in Label |-> IF l \in labels[n] THEN byLabel[l] \ {n}
                                                    ELSE byLabel[l]]
  /\ reply' = Answer(<<"delete_node", n, detach>>, {})
  /\ UNCHANGED <<nextId, labels>>

\* The node goes: DETACH took its relationships, or there were none.
RemoveNode(n, detach) ==
  /\ n \in nodes
  /\ detach \/ Touching(n) = {}
  /\ DeleteRels(Touching(n))
  /\ nodes' = nodes \ {n}
  /\ byLabel' = [l \in Label |-> IF l \in labels[n] THEN byLabel[l] \ {n}
                                                    ELSE byLabel[l]]
  /\ reply' = Answer(<<"delete_node", n, detach>>, {})
  /\ UNCHANGED <<nextId, labels>>

RefuseNode(n) ==
  /\ n \in nodes
  /\ Touching(n) # {}
  /\ reply' = Refusal(<<"delete_node", n, FALSE>>)
  /\ UNCHANGED graphVars

SkipNodeDetaching(n, detach) ==
  /\ n \notin nodes
  /\ DeleteRels(Touching(n))
  /\ reply' = Answer(<<"delete_node", n, detach>>, {})
  /\ UNCHANGED <<nextId, nodes, labels, byLabel>>

SkipNode(n, detach) ==
  /\ n \notin nodes
  /\ reply' = Answer(<<"delete_node", n, detach>>, {})
  /\ UNCHANGED graphVars

DeleteNode(n, detach) ==
  \/ RemoveNode(n, detach)
  \/ ~detach /\ RefuseNode(n)
  \/ SkipNode(n, detach)

AddLabelToObject(n, l) ==
  /\ labels' = [labels EXCEPT ![n] = @ \union {l}]
  /\ reply' = Answer(<<"SET", n, l>>, {})
  /\ UNCHANGED <<nextId, nodes, relationships, outIdx, inIdx, byLabel>>

\* SET n:L and REMOVE n:L write the object and the index of the graph, whether
\* or not the graph still holds the object.
AddLabel(n, l) ==
  /\ labels' = [labels EXCEPT ![n] = @ \union {l}]
  /\ byLabel' = [byLabel EXCEPT ![l] = @ \union {n}]
  /\ reply' = Answer(<<"SET", n, l>>, {})
  /\ UNCHANGED <<nextId, nodes, relationships, outIdx, inIdx>>

RemoveLabelOfObject(n, l) ==
  /\ labels' = [labels EXCEPT ![n] = @ \ {l}]
  /\ reply' = Answer(<<"REMOVE", n, l>>, {})
  /\ UNCHANGED <<nextId, nodes, relationships, outIdx, inIdx, byLabel>>

RemoveLabel(n, l) ==
  /\ labels' = [labels EXCEPT ![n] = @ \ {l}]
  /\ byLabel' = [byLabel EXCEPT ![l] = @ \ {n}]
  /\ reply' = Answer(<<"REMOVE", n, l>>, {})
  /\ UNCHANGED <<nextId, nodes, relationships, outIdx, inIdx>>

\* The lookups answer from the indexes.
NodesWithLabel(l) == {n \in byLabel[l] : n \in nodes}

OutRels(n, ts) == {r \in outIdx[n] : r \in DOMAIN relationships
                                       /\ relationships[r].type \in ts}

InRelsOfAnyType(n, ts) == {r \in inIdx[n] : r \in DOMAIN relationships}

InRels(n, ts) == {r \in inIdx[n] : r \in DOMAIN relationships
                                     /\ relationships[r].type \in ts}

\* typ=None stands for every type.
TypeFilter == {Type} \union {{t} : t \in Type}

Lookup(call, ids) ==
  /\ reply' = Answer(call, ids)
  /\ UNCHANGED graphVars

Next ==
  \/ \E ls \in SUBSET Label : CreateNode(ls)
  \/ \E s, e \in Id, t \in Type : CreateRel(s, e, t)
  \/ \E n \in Id, detach \in BOOLEAN : DeleteNode(n, detach)
  \/ \E r \in Id : DeleteRel(r)
  \/ \E n \in DOMAIN labels, l \in Label : AddLabel(n, l)
  \/ \E n \in DOMAIN labels, l \in Label : RemoveLabel(n, l)
  \/ Lookup(<<"all_nodes">>, nodes)
  \/ \E l \in Label : Lookup(<<"nodes_with_label", l>>, NodesWithLabel(l))
  \/ \E n \in Id, ts \in TypeFilter : Lookup(<<"out_rels", n, ts>>, OutRels(n, ts))
  \/ \E n \in Id, ts \in TypeFilter : Lookup(<<"in_rels", n, ts>>, InRels(n, ts))

Spec == Init /\ [][Next]_vars

------------------------------------------------------------------------------
\* Type invariant: the shape of the store, its objects and its answers.
TypeOK ==
  /\ nextId \in 1..(MaxId + 1)
  /\ nodes \subseteq DOMAIN labels
  /\ labels \in [DOMAIN labels -> SUBSET Label]
  /\ DOMAIN labels \subseteq Id
  /\ relationships \in [DOMAIN relationships -> Relationship]
  /\ DOMAIN relationships \subseteq Id
  /\ outIdx \in [Id -> SUBSET Id]
  /\ inIdx \in [Id -> SUBSET Id]
  /\ byLabel \in [Label -> SUBSET Id]
  /\ reply.raised \in BOOLEAN
  /\ reply.ids \in SUBSET Id

\* The adjacency index of graph.py lists, for every identifier (that of a dead
\* node too), exactly the live relationships that start or end there.
AdjacencyExact ==
  \A n \in Id :
    /\ outIdx[n] = {r \in DOMAIN relationships : relationships[r].start = n}
    /\ inIdx[n] = {r \in DOMAIN relationships : relationships[r].end = n}

\* A label lookup finds exactly the live nodes that carry the label, although
\* SET and REMOVE of a stale node object write the label index too.
LabelIndexExact ==
  \A l \in Label : NodesWithLabel(l) = {n \in nodes : l \in labels[n]}

\* Nodes and relationships draw from one counter, so that an identifier names
\* one entity, and the counter is ahead of all of them.
IdentifiersFresh ==
  /\ DOMAIN labels \intersect DOMAIN relationships = {}
  /\ \A x \in DOMAIN labels \union DOMAIN relationships : x < nextId

\* delete_node leaves no relationship behind at the node it removes: a
\* relationship with a dead end can only have been created with one.
DeleteLeavesNothingDangling ==
  [][\A n \in nodes \ nodes', r \in DOMAIN relationships' :
       relationships'[r].start # n /\ relationships'[r].end # n]_vars

\* A relationship is lost only by a deletion of its own or together with one of
\* its ends, and then it alone: no operation takes a relationship that the
\* deleted entity does not touch.
OnlyAskedForIsLost ==
  [][\A r \in DOMAIN relationships \ DOMAIN relationships' :
       \/ \E n \in nodes \ nodes' : n \in {relationships[r].start, relationships[r].end}
       \/ /\ DOMAIN relationships \ DOMAIN relationships' = {r}
          /\ nodes' = nodes]_vars

\* The store answers every call as the abstract graph does, which has no
\* indexes.
Abs == INSTANCE AbstractGraph
         WITH nextId <- nextId, nodes <- nodes, labels <- labels,
              relationships <- relationships, reply <- reply
ImplementsAbstractGraph == Abs!ASpec
==============================================================================
