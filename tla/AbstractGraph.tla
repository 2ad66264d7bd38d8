---------------------------- MODULE AbstractGraph ----------------------------
(****************************************************************************)
(* What an in-memory property graph promises its callers: the operations of *)
(* cypherast/executor/graph.py and their answers, said without any of the   *)
(* indexes that the implementation answers from.  PropertyGraph implements  *)
(* this module.                                                             *)
(****************************************************************************)
EXTENDS Naturals

CONSTANTS Label,  \* node labels
          Type,   \* relationship types
          MaxId   \* bound on the identifiers handed out

VARIABLES nextId,         \* the identifier the next created entity gets
          nodes,          \* identifiers of the live nodes
          labels,         \* labels[n]: label set of node object n, live or not
          relationships,  \* live relationships: id -> [type, start, end]
          reply           \* the last call and what it answered

avars == <<nextId, nodes, labels, relationships, reply>>

AId == 1..MaxId

\* A call is answered with entities, perhaps none, or with an exception.
AAnswer(call, ids) == [call |-> call, raised |-> FALSE, ids |-> ids]
ARefusal(call)     == [call |-> call, raised |-> TRUE, ids |-> {}]

ALabelled(l) == {n \in nodes : l \in labels[n]}

ARelsFrom(n, ts) == {r \in DOMAIN relationships :
                       relationships[r].start = n /\ relationships[r].type \in ts}

ARelsTo(n, ts) == {r \in DOMAIN relationships :
                     relationships[r].end = n /\ relationships[r].type \in ts}

\* The relationships that touch node n.
Incident(n) == ARelsFrom(n, Type) \union ARelsTo(n, Type)

Without(f, S) == [x \in DOMAIN f \ S |-> f[x]]

AInit ==
  /\ nextId = 1
  /\ nodes = {}
  /\ labels = [n \in {} |-> {}]
  /\ relationships = [r \in {} |-> {}]
  /\ reply = AAnswer(<<"Graph">>, {})

ACreateNode(ls) ==
  /\ nextId \in AId
  /\ nextId' = nextId + 1
  /\ nodes' = nodes \union {nextId}
  /\ labels' = [n \in DOMAIN labels \union {nextId} |->
                  IF n = nextId THEN ls ELSE labels[n]]
  /\ reply' = AAnswer(<<"create_node", ls>>, {nextId})
  /\ UNCHANGED relationships

\* Any two identifiers may be connected: whether they name live nodes is the
\* caller's business.
ACreateRel(s, e, t) ==
  /\ nextId \in AId
  /\ nextId' = nextId + 1
  /\ relationships' = [r \in DOMAIN relationships \union {nextId} |->
                         IF r = nextId THEN [type |-> t, start |-> s, end |-> e]
                                       ELSE relationships[r]]
  /\ reply' = AAnswer(<<"create_rel", s, e, t>>, {nextId})
  /\ UNCHANGED <<nodes, labels>>

\* A live node goes together with all its relationships or, without DETACH,
\* only when it has none.
ADeleteLiveNode(n, detach) ==
  /\ n \in nodes
  /\ detach \/ Incident(n) = {}
  /\ nodes' = nodes \ {n}
  /\ relationships' = Without(relationships, Incident(n))
  /\ reply' = AAnswer(<<"delete_node", n, detach>>, {})
  /\ UNCHANGED <<nextId, labels>>

ARefuseDelete(n) ==
  /\ n \in nodes
  /\ Incident(n) # {}
  /\ reply' = ARefusal(<<"delete_node", n, FALSE>>)
  /\ UNCHANGED <<nextId, nodes, labels, relationships>>

\* Also a node that is not there can be deleted: nothing happens.
ADeleteDeadNode(n, detach) ==
  /\ n \notin nodes
  /\ reply' = AAnswer(<<"delete_node", n, detach>>, {})
  /\ UNCHANGED <<nextId, nodes, labels, relationships>>

ADeleteRel(r) ==
  /\ relationships' = Without(relationships, {r})
  /\ reply' = AAnswer(<<"delete_rel", r>>, {})
  /\ UNCHANGED <<nextId, nodes, labels>>

AAddLabel(n, l) ==
  /\ labels' = [labels EXCEPT ![n] = @ \union {l}]
  /\ reply' = AAnswer(<<"SET", n, l>>, {})
  /\ UNCHANGED <<nextId, nodes, relationships>>

ARemoveLabel(n, l) ==
  /\ labels' = [labels EXCEPT ![n] = @ \ {l}]
  /\ reply' = AAnswer(<<"REMOVE", n, l>>, {})
  /\ UNCHANGED <<nextId, nodes, relationships>>

\* A lookup answers with exactly the live entities that fit.
ALookup(call, ids) ==
  /\ reply' = AAnswer(call, ids)
  /\ UNCHANGED <<nextId, nodes, labels, relationships>>

ANext ==
  \/ \E ls \in SUBSET Label : ACreateNode(ls)
  \/ \E s, e \in AId, t \in Type : ACreateRel(s, e, t)
  \/ \E n \in AId, detach \in BOOLEAN : ADeleteLiveNode(n, detach)
  \/ \E n \in AId : ARefuseDelete(n)
  \/ \E n \in AId, detach \in BOOLEAN : ADeleteDeadNode(n, detach)
  \/ \E r \in AId : ADeleteRel(r)
  \/ \E n \in DOMAIN labels, l \in Label : AAddLabel(n, l)
  \/ \E n \in DOMAIN labels, l \in Label : ARemoveLabel(n, l)
  \/ ALookup(<<"all_nodes">>, nodes)
  \/ \E l \in Label : ALookup(<<"nodes_with_label", l>>, ALabelled(l))
  \/ \E n \in AId, ts \in SUBSET Type : ALookup(<<"out_rels", n, ts>>, ARelsFrom(n, ts))
  \/ \E n \in AId, ts \in SUBSET Type : ALookup(<<"in_rels", n, ts>>, ARelsTo(n, ts))

ASpec == AInit /\ [][ANext]_avars
==============================================================================
