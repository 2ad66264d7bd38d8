-------------------------- MODULE PropertyGraphProofs -------------------------
(****************************************************************************)
(* What PropertyGraph promises, for every set of labels and types and every *)
(* bound on the identifiers.  The inductive invariant says of the label     *)
(* index more than a lookup shows: it may list dead node objects, but only  *)
(* ones that carry the label.                                               *)
(****************************************************************************)
EXTENDS PropertyGraph, TLAPS

\* Live nodes with a label are listed under it, and what is listed under a
\* label is a node object that carries it.
LabelIndexSound ==
  \A l \in Label :
    /\ {n \in nodes : l \in labels[n]} \subseteq byLabel[l]
    /\ byLabel[l] \subseteq {n \in DOMAIN labels : l \in labels[n]}

IInv == TypeOK /\ AdjacencyExact /\ LabelIndexSound /\ IdentifiersFresh

------------------------------------------------------------------------------
\* What delete_rel does to a list of relationships: the adjacency index stays
\* exact, and it and the table keep their shape.
LEMMA DeleteRelsKeepsAdjacency ==
  ASSUME TypeOK, AdjacencyExact, NEW S \in SUBSET Id, DeleteRels(S)
  PROVE  /\ AdjacencyExact'
         /\ relationships' \in [DOMAIN relationships' -> Relationship]
         /\ DOMAIN relationships' = DOMAIN relationships \ S
         /\ \A r \in DOMAIN relationships' : relationships'[r] = relationships[r]
         /\ outIdx' \in [Id -> SUBSET Id]
         /\ inIdx' \in [Id -> SUBSET Id]
<1> DEFINE gone == S \intersect DOMAIN relationships
<1>1. /\ relationships' = [x \in DOMAIN relationships \ gone |-> relationships[x]]
      /\ outIdx' = [n \in Id |-> outIdx[n] \ {r \in gone : relationships[r].start = n}]
      /\ inIdx' = [n \in Id |-> inIdx[n] \ {r \in gone : relationships[r].end = n}]
  BY DEF DeleteRels, Drop
<1>2. /\ DOMAIN relationships' = DOMAIN relationships \ S
      /\ \A r \in DOMAIN relationships' : relationships'[r] = relationships[r]
  BY <1>1
<1>3. relationships' \in [DOMAIN relationships' -> Relationship]
  <2>1. \A r \in DOMAIN relationships : relationships[r] \in Relationship
    BY DEF TypeOK
  <2> QED
    BY <1>1, <2>1
<1>4. outIdx' \in [Id -> SUBSET Id] /\ inIdx' \in [Id -> SUBSET Id]
  BY <1>1 DEF TypeOK
<1>5. ASSUME NEW n \in Id
      PROVE  /\ outIdx'[n] = {r \in DOMAIN relationships' : relationships'[r].start = n}
             /\ inIdx'[n] = {r \in DOMAIN relationships' : relationships'[r].end = n}
  <2>1. /\ outIdx'[n] = outIdx[n] \ {r \in gone : relationships[r].start = n}
        /\ inIdx'[n] = inIdx[n] \ {r \in gone : relationships[r].end = n}
    BY <1>1
  <2>2. /\ outIdx[n] = {r \in DOMAIN relationships : relationships[r].start = n}
        /\ inIdx[n] = {r \in DOMAIN relationships : relationships[r].end = n}
    BY DEF AdjacencyExact
  <2> QED
    BY <1>2, <2>1, <2>2
<1> QED
  BY <1>2, <1>3, <1>4, <1>5 DEF AdjacencyExact

\* What is listed at a node is what the table connects with it.
LEMMA TouchingIsIncident ==
  ASSUME TypeOK, AdjacencyExact, NEW n \in Id
  PROVE  /\ Touching(n) = {r \in DOMAIN relationships : relationships[r].start = n
                                                   \/ relationships[r].end = n}
         /\ Touching(n) \in SUBSET Id
<1>1. Touching(n) = {r \in DOMAIN relationships : relationships[r].start = n
                                                   \/ relationships[r].end = n}
  BY DEF Touching, AdjacencyExact
<1> QED
  BY <1>1 DEF TypeOK

LEMMA InitInv == Init => IInv
<1> SUFFICES ASSUME Init PROVE IInv
  OBVIOUS
<1>1. TypeOK
  BY MaxIdAssumption DEF Init, TypeOK, Id, Answer, Relationship
<1>2. AdjacencyExact
  BY DEF Init, AdjacencyExact
<1>3. LabelIndexSound
  BY DEF Init, LabelIndexSound
<1>4. IdentifiersFresh
  BY DEF Init, IdentifiersFresh
<1> QED
  BY <1>1, <1>2, <1>3, <1>4 DEF IInv

------------------------------------------------------------------------------
\* The invariant is kept, operation by operation.
LEMMA CreateNodeInv ==
  ASSUME IInv, NEW ls \in SUBSET Label, CreateNode(ls) PROVE IInv'
<1> USE DEF IInv, CreateNode
<1>1. nextId \notin DOMAIN labels \union DOMAIN relationships
  BY MaxIdAssumption DEF IdentifiersFresh, TypeOK
<1>2. DOMAIN labels' = DOMAIN labels \union {nextId}
  OBVIOUS
<1>3. \A n \in DOMAIN labels : labels'[n] = labels[n]
  BY <1>1
<1>4. labels'[nextId] = ls
  OBVIOUS
<1>5. TypeOK'
  <2>1. labels' \in [DOMAIN labels' -> SUBSET Label]
    BY DEF TypeOK
  <2>2. byLabel' \in [Label -> SUBSET Id]
    BY DEF TypeOK
  <2>3. nextId' \in 1..(MaxId + 1)
    BY MaxIdAssumption DEF Id
  <2>4. reply'.raised \in BOOLEAN /\ reply'.ids \in SUBSET Id
    BY DEF Answer
  <2> QED
    BY <1>2, <2>1, <2>2, <2>3, <2>4 DEF TypeOK
<1>6. AdjacencyExact'
  BY DEF AdjacencyExact
<1>7. LabelIndexSound'
  <2> SUFFICES ASSUME NEW l \in Label
               PROVE  /\ {n \in nodes' : l \in labels'[n]} \subseteq byLabel'[l]
                      /\ byLabel'[l] \subseteq {n \in DOMAIN labels' : l \in labels'[n]}
    BY DEF LabelIndexSound
  <2>1. byLabel'[l] = IF l \in ls THEN byLabel[l] \union {nextId} ELSE byLabel[l]
    OBVIOUS
  <2>2. /\ {n \in nodes : l \in labels[n]} \subseteq byLabel[l]
        /\ byLabel[l] \subseteq {n \in DOMAIN labels : l \in labels[n]}
    BY DEF LabelIndexSound
  <2>3. nodes \subseteq DOMAIN labels
    BY DEF TypeOK
  <2> QED
    BY <1>2, <1>3, <1>4, <2>1, <2>2, <2>3
<1>8. IdentifiersFresh'
  BY <1>1, <1>2, MaxIdAssumption DEF IdentifiersFresh, TypeOK, Id
<1> QED
  BY <1>5, <1>6, <1>7, <1>8

LEMMA CreateRelInv ==
  ASSUME IInv, NEW s \in Id, NEW e \in Id, NEW t \in Type, CreateRel(s, e, t)
  PROVE  IInv'
<1> USE DEF IInv, CreateRel
<1>1. nextId \notin DOMAIN labels \union DOMAIN relationships
  BY MaxIdAssumption DEF IdentifiersFresh, TypeOK
<1>2. /\ DOMAIN relationships' = DOMAIN relationships \union {nextId}
      /\ \A r \in DOMAIN relationships : relationships'[r] = relationships[r]
      /\ relationships'[nextId] = [type |-> t, start |-> s, end |-> e]
  BY <1>1
<1>3. TypeOK'
  <2>1. \A r \in DOMAIN relationships : relationships[r] \in Relationship
    BY DEF TypeOK
  <2>2. relationships' \in [DOMAIN relationships' -> Relationship]
    BY <2>1 DEF Relationship
  <2>3. outIdx' \in [Id -> SUBSET Id] /\ inIdx' \in [Id -> SUBSET Id]
    BY DEF TypeOK
  <2>4. nextId' \in 1..(MaxId + 1)
    BY MaxIdAssumption DEF Id
  <2>5. reply'.raised \in BOOLEAN /\ reply'.ids \in SUBSET Id
    BY DEF Answer
  <2> QED
    BY <1>2, <2>2, <2>3, <2>4, <2>5 DEF TypeOK
<1>4. ASSUME NEW n \in Id
      PROVE  /\ outIdx'[n] = {r \in DOMAIN relationships' : relationships'[r].start = n}
             /\ inIdx'[n] = {r \in DOMAIN relationships' : relationships'[r].end = n}
  <2>1. /\ outIdx'[n] = IF n = s THEN outIdx[n] \union {nextId} ELSE outIdx[n]
        /\ inIdx'[n] = IF n = e THEN inIdx[n] \union {nextId} ELSE inIdx[n]
    BY DEF TypeOK
  <2>2. /\ outIdx[n] = {r \in DOMAIN relationships : relationships[r].start = n}
        /\ inIdx[n] = {r \in DOMAIN relationships : relationships[r].end = n}
    BY DEF AdjacencyExact
  <2> QED
    BY <1>1, <1>2, <2>1, <2>2
<1>5. AdjacencyExact'
  BY <1>4 DEF AdjacencyExact
<1>6. LabelIndexSound'
  BY DEF LabelIndexSound
<1>7. IdentifiersFresh'
  BY <1>1, <1>2, MaxIdAssumption DEF IdentifiersFresh, TypeOK, Id
<1> QED
  BY <1>3, <1>5, <1>6, <1>7

LEMMA DeleteRelInv ==
  ASSUME IInv, NEW r \in Id, DeleteRel(r) PROVE IInv'
<1> USE DEF IInv, DeleteRel
<1>1. /\ AdjacencyExact'
      /\ relationships' \in [DOMAIN relationships' -> Relationship]
      /\ DOMAIN relationships' = DOMAIN relationships \ {r}
      /\ outIdx' \in [Id -> SUBSET Id]
      /\ inIdx' \in [Id -> SUBSET Id]
  BY DeleteRelsKeepsAdjacency
<1>2. TypeOK'
  BY <1>1 DEF TypeOK, Answer
<1>3. LabelIndexSound'
  BY DEF LabelIndexSound
<1>4. IdentifiersFresh'
  BY <1>1 DEF IdentifiersFresh
<1> QED
  BY <1>1, <1>2, <1>3, <1>4

LEMMA RemoveNodeInv ==
  ASSUME IInv, NEW n \in Id, NEW detach \in BOOLEAN, RemoveNode(n, detach)
  PROVE  IInv'
<1> USE DEF IInv, RemoveNode
<1>1. Touching(n) \in SUBSET Id
  BY TouchingIsIncident
<1>2. /\ AdjacencyExact'
      /\ relationships' \in [DOMAIN relationships' -> Relationship]
      /\ DOMAIN relationships' = DOMAIN relationships \ Touching(n)
      /\ outIdx' \in [Id -> SUBSET Id]
      /\ inIdx' \in [Id -> SUBSET Id]
  BY <1>1, DeleteRelsKeepsAdjacency
<1>3. byLabel' \in [Label -> SUBSET Id]
  BY DEF TypeOK
<1>4. TypeOK'
  BY <1>2, <1>3 DEF TypeOK, Answer
<1>5. LabelIndexSound'
  <2> SUFFICES ASSUME NEW l \in Label
               PROVE  /\ {m \in nodes' : l \in labels[m]} \subseteq byLabel'[l]
                      /\ byLabel'[l] \subseteq {m \in DOMAIN labels : l \in labels[m]}
    BY DEF LabelIndexSound
  <2>1. byLabel'[l] = IF l \in labels[n] THEN byLabel[l] \ {n} ELSE byLabel[l]
    OBVIOUS
  <2> QED
    BY <2>1 DEF LabelIndexSound
<1>6. IdentifiersFresh'
  BY <1>2 DEF IdentifiersFresh
<1> QED
  BY <1>2, <1>4, <1>5, <1>6

LEMMA AddLabelInv ==
  ASSUME IInv, NEW n \in DOMAIN labels, NEW l \in Label, AddLabel(n, l)
  PROVE  IInv'
<1> USE DEF IInv, AddLabel
<1>1. /\ DOMAIN labels' = DOMAIN labels
      /\ labels' \in [DOMAIN labels' -> SUBSET Label]
      /\ byLabel' \in [Label -> SUBSET Id]
  BY DEF TypeOK
<1>2. TypeOK'
  BY <1>1 DEF TypeOK, Answer
<1>3. AdjacencyExact'
  BY DEF AdjacencyExact
<1>4. LabelIndexSound'
  <2> SUFFICES ASSUME NEW k \in Label
               PROVE  /\ {m \in nodes' : k \in labels'[m]} \subseteq byLabel'[k]
                      /\ byLabel'[k] \subseteq {m \in DOMAIN labels' : k \in labels'[m]}
    BY DEF LabelIndexSound
  <2>1. byLabel'[k] = IF k = l THEN byLabel[k] \union {n} ELSE byLabel[k]
    BY DEF TypeOK
  <2>2. \A m \in DOMAIN labels :
          labels'[m] = IF m = n THEN labels[m] \union {l} ELSE labels[m]
    BY DEF TypeOK
  <2>3. nodes \subseteq DOMAIN labels
    BY DEF TypeOK
  <2> QED
    BY <1>1, <2>1, <2>2, <2>3 DEF LabelIndexSound
<1>5. IdentifiersFresh'
  BY <1>1 DEF IdentifiersFresh
<1> QED
  BY <1>2, <1>3, <1>4, <1>5

LEMMA RemoveLabelInv ==
  ASSUME IInv, NEW n \in DOMAIN labels, NEW l \in Label, RemoveLabel(n, l)
  PROVE  IInv'
<1> USE DEF IInv, RemoveLabel
<1>1. /\ DOMAIN labels' = DOMAIN labels
      /\ labels' \in [DOMAIN labels' -> SUBSET Label]
      /\ byLabel' \in [Label -> SUBSET Id]
  BY DEF TypeOK
<1>2. TypeOK'
  BY <1>1 DEF TypeOK, Answer
<1>3. AdjacencyExact'
  BY DEF AdjacencyExact
<1>4. LabelIndexSound'
  <2> SUFFICES ASSUME NEW k \in Label
               PROVE  /\ {m \in nodes' : k \in labels'[m]} \subseteq byLabel'[k]
                      /\ byLabel'[k] \subseteq {m \in DOMAIN labels' : k \in labels'[m]}
    BY DEF LabelIndexSound
  <2>1. byLabel'[k] = IF k = l THEN byLabel[k] \ {n} ELSE byLabel[k]
    BY DEF TypeOK
  <2>2. \A m \in DOMAIN labels :
          labels'[m] = IF m = n THEN labels[m] \ {l} ELSE labels[m]
    BY DEF TypeOK
  <2>3. nodes \subseteq DOMAIN labels
    BY DEF TypeOK
  <2> QED
    BY <1>1, <2>1, <2>2, <2>3 DEF LabelIndexSound
<1>5. IdentifiersFresh'
  BY <1>1 DEF IdentifiersFresh
<1> QED
  BY <1>2, <1>3, <1>4, <1>5

\* A step that only answers.
LEMMA AnswerInv ==
  ASSUME IInv, UNCHANGED graphVars,
         reply'.raised \in BOOLEAN, reply'.ids \in SUBSET Id
  PROVE  IInv'
BY DEF IInv, graphVars, TypeOK, AdjacencyExact, LabelIndexSound, IdentifiersFresh

LEMMA NextInv == IInv /\ [Next]_vars => IInv'
<1> SUFFICES ASSUME IInv, [Next]_vars PROVE IInv'
  OBVIOUS
<1>1. ASSUME NEW ls \in SUBSET Label, CreateNode(ls) PROVE IInv'
  BY <1>1, CreateNodeInv
<1>2. ASSUME NEW s \in Id, NEW e \in Id, NEW t \in Type, CreateRel(s, e, t) PROVE IInv'
  BY <1>2, CreateRelInv
<1>3. ASSUME NEW n \in Id, NEW detach \in BOOLEAN, DeleteNode(n, detach) PROVE IInv'
  <2>1. CASE RemoveNode(n, detach)
    BY <2>1, RemoveNodeInv
  <2>2. CASE RefuseNode(n)
    BY <2>2, AnswerInv DEF RefuseNode, Refusal
  <2>3. CASE SkipNode(n, detach)
    BY <2>3, AnswerInv DEF SkipNode, Answer
  <2> QED
    BY <1>3, <2>1, <2>2, <2>3 DEF DeleteNode
<1>4. ASSUME NEW r \in Id, DeleteRel(r) PROVE IInv'
  BY <1>4, DeleteRelInv
<1>5. ASSUME NEW n \in DOMAIN labels, NEW l \in Label, AddLabel(n, l) PROVE IInv'
  BY <1>5, AddLabelInv
<1>6. ASSUME NEW n \in DOMAIN labels, NEW l \in Label, RemoveLabel(n, l) PROVE IInv'
  BY <1>6, RemoveLabelInv
<1>7. ASSUME NEW call, NEW ids \in SUBSET Id, Lookup(call, ids) PROVE IInv'
  BY <1>7, AnswerInv DEF Lookup, Answer
<1>8. CASE UNCHANGED vars
  BY <1>8, AnswerInv DEF vars, graphVars, IInv, TypeOK
<1>9. /\ nodes \in SUBSET Id
      /\ \A l \in Label : NodesWithLabel(l) \in SUBSET Id
      /\ \A n \in Id, ts \in TypeFilter :
           OutRels(n, ts) \in SUBSET Id /\ InRels(n, ts) \in SUBSET Id
  BY DEF IInv, TypeOK, NodesWithLabel, OutRels, InRels
<1> QED
  BY <1>1, <1>2, <1>3, <1>4, <1>5, <1>6, <1>7, <1>8, <1>9 DEF Next

LEMMA Invariant == Spec => []IInv
BY InitInv, NextInv, PTL DEF Spec

------------------------------------------------------------------------------
\* The store, its objects and its answers keep their shape.
THEOREM TypeCorrect == Spec => []TypeOK
BY Invariant, PTL DEF IInv

\* The adjacency index of graph.py always lists exactly the live relationships.
THEOREM AdjacencyCorrect == Spec => []AdjacencyExact
BY Invariant, PTL DEF IInv

\* A label lookup always finds exactly the live nodes that carry the label.
THEOREM LabelIndexCorrect == Spec => []LabelIndexExact
<1>1. IInv => LabelIndexExact
  BY DEF IInv, LabelIndexSound, LabelIndexExact, NodesWithLabel
<1> QED
  BY <1>1, Invariant, PTL

\* Identifiers are never shared and the counter is always ahead of them.
THEOREM IdentifiersAreFresh == Spec => []IdentifiersFresh
BY Invariant, PTL DEF IInv

\* delete_node leaves no relationship at the node that it removes.
THEOREM NothingDanglesAfterDelete == Spec => DeleteLeavesNothingDangling
<1> DEFINE Clean == \A n \in nodes \ nodes', r \in DOMAIN relationships' :
                      relationships'[r].start # n /\ relationships'[r].end # n
<1>1. IInv /\ [Next]_vars => [Clean]_vars
  <2> SUFFICES ASSUME IInv, Next PROVE Clean
    BY DEF vars
  <2>1. ASSUME NEW n \in Id, NEW detach \in BOOLEAN, RemoveNode(n, detach)
        PROVE  Clean
    <3>1. TypeOK /\ AdjacencyExact /\ DeleteRels(Touching(n))
      BY <2>1 DEF RemoveNode, IInv
    <3>2. /\ Touching(n) = {r \in DOMAIN relationships : relationships[r].start = n
                                                     \/ relationships[r].end = n}
          /\ Touching(n) \in SUBSET Id
      BY <3>1, TouchingIsIncident
    <3>3. /\ DOMAIN relationships' = DOMAIN relationships \ Touching(n)
          /\ \A r \in DOMAIN relationships' : relationships'[r] = relationships[r]
      BY <3>1, <3>2, DeleteRelsKeepsAdjacency
    <3>4. nodes \ nodes' \subseteq {n}
      BY <2>1 DEF RemoveNode
    <3> QED
      BY <3>2, <3>3, <3>4
  <2>2. CASE nodes \subseteq nodes'
    BY <2>2
  <2>3. \/ nodes \subseteq nodes'
        \/ \E n \in Id, detach \in BOOLEAN : RemoveNode(n, detach)
    BY DEF Next, CreateNode, CreateRel, DeleteNode, RefuseNode, SkipNode, DeleteRel,
           AddLabel, RemoveLabel, Lookup, graphVars
  <2> QED
    BY <2>1, <2>2, <2>3
<1> QED
  BY <1>1, Invariant, PTL DEF Spec, DeleteLeavesNothingDangling

\* No operation takes a relationship that nobody asked to delete.
THEOREM NothingElseIsLost == Spec => OnlyAskedForIsLost
<1> DEFINE Asked == \A r \in DOMAIN relationships \ DOMAIN relationships' :
              \/ \E n \in nodes \ nodes' : n \in {relationships[r].start, relationships[r].end}
              \/ /\ DOMAIN relationships \ DOMAIN relationships' = {r}
                 /\ nodes' = nodes
<1>1. IInv /\ [Next]_vars => [Asked]_vars
  <2> SUFFICES ASSUME IInv, Next PROVE Asked
    BY DEF vars
  <2>1. ASSUME NEW n \in Id, NEW detach \in BOOLEAN, RemoveNode(n, detach)
        PROVE  Asked
    <3>1. TypeOK /\ AdjacencyExact /\ DeleteRels(Touching(n))
      BY <2>1 DEF RemoveNode, IInv
    <3>2. /\ Touching(n) = {r \in DOMAIN relationships : relationships[r].start = n
                                                     \/ relationships[r].end = n}
          /\ Touching(n) \in SUBSET Id
      BY <3>1, TouchingIsIncident
    <3>3. DOMAIN relationships' = DOMAIN relationships \ Touching(n)
      BY <3>1, <3>2, DeleteRelsKeepsAdjacency
    <3>4. n \in nodes \ nodes'
      BY <2>1 DEF RemoveNode
    <3> QED
      BY <3>2, <3>3, <3>4
  <2>2. ASSUME NEW r \in Id, DeleteRel(r) PROVE Asked
    <3>1. DOMAIN relationships' = DOMAIN relationships \ {r}
      BY <2>2, DeleteRelsKeepsAdjacency DEF DeleteRel, IInv
    <3>2. nodes' = nodes
      BY <2>2 DEF DeleteRel
    <3> QED
      BY <3>1, <3>2
  <2>3. CASE DOMAIN relationships \subseteq DOMAIN relationships'
    BY <2>3
  <2>4. \/ DOMAIN relationships \subseteq DOMAIN relationships'
        \/ \E r \in Id : DeleteRel(r)
        \/ \E n \in Id, detach \in BOOLEAN : RemoveNode(n, detach)
    BY DEF Next, CreateNode, CreateRel, DeleteNode, RefuseNode, SkipNode,
           AddLabel, RemoveLabel, Lookup, graphVars
  <2> QED
    BY <2>1, <2>2, <2>3, <2>4
<1> QED
  BY <1>1, Invariant, PTL DEF Spec, OnlyAskedForIsLost

------------------------------------------------------------------------------
\* Refinement.  Under the invariant what is looked up in an index is what the
\* abstract graph finds in the tables.
LEMMA LookupsAgree ==
  ASSUME IInv
  PROVE  /\ \A l \in Label : NodesWithLabel(l) = Abs!ALabelled(l)
         /\ \A n \in Id, ts \in TypeFilter :
              OutRels(n, ts) = Abs!ARelsFrom(n, ts) /\ InRels(n, ts) = Abs!ARelsTo(n, ts)
         /\ \A n \in Id : Touching(n) = Abs!Incident(n)
<1>1. \A l \in Label : NodesWithLabel(l) = Abs!ALabelled(l)
  BY DEF IInv, LabelIndexSound, TypeOK, NodesWithLabel, Abs!ALabelled
<1>2. \A n \in Id, ts \in TypeFilter :
        OutRels(n, ts) = Abs!ARelsFrom(n, ts) /\ InRels(n, ts) = Abs!ARelsTo(n, ts)
  BY DEF IInv, AdjacencyExact, OutRels, InRels, Abs!ARelsFrom, Abs!ARelsTo
<1>3. \A r \in DOMAIN relationships : relationships[r].type \in Type
  BY DEF IInv, TypeOK, Relationship
<1>4. \A n \in Id : Touching(n) = Abs!Incident(n)
  BY <1>3, TouchingIsIncident DEF IInv, Abs!Incident, Abs!ARelsFrom, Abs!ARelsTo
<1> QED
  BY <1>1, <1>2, <1>4

\* Every operation on the indexed store is that operation on the abstract graph.
LEMMA StepImplements == IInv /\ [Next]_vars => [Abs!ANext]_(Abs!avars)
<1> SUFFICES ASSUME IInv, Next PROVE Abs!ANext \/ UNCHANGED Abs!avars
  BY DEF vars, Abs!avars
<1> USE DEF Abs!AId, Id
<1>1. ASSUME NEW ls \in SUBSET Label, CreateNode(ls) PROVE Abs!ANext
  <2>1. Abs!ACreateNode(ls)
    BY <1>1 DEF CreateNode, Answer, Abs!ACreateNode, Abs!AAnswer
  <2> QED
    BY <2>1 DEF Abs!ANext
<1>2. ASSUME NEW s \in Id, NEW e \in Id, NEW t \in Type, CreateRel(s, e, t)
      PROVE  Abs!ANext
  <2>1. Abs!ACreateRel(s, e, t)
    BY <1>2 DEF CreateRel, Answer, Abs!ACreateRel, Abs!AAnswer
  <2> QED
    BY <2>1 DEF Abs!ANext
<1>3. ASSUME NEW n \in Id, NEW detach \in BOOLEAN, DeleteNode(n, detach)
      PROVE  Abs!ANext
  <2>1. Touching(n) = Abs!Incident(n)
    BY LookupsAgree
  <2>2. CASE RemoveNode(n, detach)
    <3>1. DOMAIN relationships \ (Touching(n) \intersect DOMAIN relationships)
            = DOMAIN relationships \ Touching(n)
      OBVIOUS
    <3>2. Abs!ADeleteLiveNode(n, detach)
      BY <2>1, <2>2, <3>1 DEF RemoveNode, DeleteRels, Drop, Answer,
                         Abs!ADeleteLiveNode, Abs!Without, Abs!AAnswer
    <3> QED
      BY <3>2 DEF Abs!ANext
  <2>3. CASE RefuseNode(n)
    <3>1. Abs!ARefuseDelete(n)
      BY <2>1, <2>3 DEF RefuseNode, Refusal, graphVars, Abs!ARefuseDelete, Abs!ARefusal
    <3> QED
      BY <3>1 DEF Abs!ANext
  <2>4. CASE SkipNode(n, detach)
    <3>1. Abs!ADeleteDeadNode(n, detach)
      BY <2>4 DEF SkipNode, Answer, graphVars, Abs!ADeleteDeadNode, Abs!AAnswer
    <3> QED
      BY <3>1 DEF Abs!ANext
  <2> QED
    BY <1>3, <2>2, <2>3, <2>4 DEF DeleteNode
<1>4. ASSUME NEW r \in Id, DeleteRel(r) PROVE Abs!ANext
  <2>1. DOMAIN relationships \ ({r} \intersect DOMAIN relationships)
          = DOMAIN relationships \ {r}
    OBVIOUS
  <2>2. Abs!ADeleteRel(r)
    BY <1>4, <2>1 DEF DeleteRel, DeleteRels, Drop, Answer, Abs!ADeleteRel, Abs!Without, Abs!AAnswer
  <2> QED
    BY <2>2 DEF Abs!ANext
<1>5. ASSUME NEW n \in DOMAIN labels, NEW l \in Label, AddLabel(n, l)
      PROVE  Abs!ANext
  <2>1. Abs!AAddLabel(n, l)
    BY <1>5 DEF AddLabel, Answer, Abs!AAddLabel, Abs!AAnswer
  <2> QED
    BY <2>1 DEF Abs!ANext
<1>6. ASSUME NEW n \in DOMAIN labels, NEW l \in Label, RemoveLabel(n, l)
      PROVE  Abs!ANext
  <2>1. Abs!ARemoveLabel(n, l)
    BY <1>6 DEF RemoveLabel, Answer, Abs!ARemoveLabel, Abs!AAnswer
  <2> QED
    BY <2>1 DEF Abs!ANext
<1>7. \A call, ids : Lookup(call, ids) => Abs!ALookup(call, ids)
  BY DEF Lookup, Answer, graphVars, Abs!ALookup, Abs!AAnswer
<1>8. CASE Lookup(<<"all_nodes">>, nodes)
  BY <1>7, <1>8 DEF Abs!ANext
<1>9. ASSUME NEW l \in Label, Lookup(<<"nodes_with_label", l>>, NodesWithLabel(l)) PROVE Abs!ANext
  <2>1. Abs!ALookup(<<"nodes_with_label", l>>, Abs!ALabelled(l))
    BY <1>7, <1>9, LookupsAgree
  <2> QED
    BY <2>1 DEF Abs!ANext
<1>10. ASSUME NEW n \in Id, NEW ts \in TypeFilter, Lookup(<<"out_rels", n, ts>>, OutRels(n, ts)) PROVE Abs!ANext
  <2>1. Abs!ALookup(<<"out_rels", n, ts>>, Abs!ARelsFrom(n, ts)) /\ ts \in SUBSET Type
    BY <1>7, <1>10, LookupsAgree DEF TypeFilter
  <2> QED
    BY <2>1 DEF Abs!ANext
<1>11. ASSUME NEW n \in Id, NEW ts \in TypeFilter, Lookup(<<"in_rels", n, ts>>, InRels(n, ts)) PROVE Abs!ANext
  <2>1. Abs!ALookup(<<"in_rels", n, ts>>, Abs!ARelsTo(n, ts)) /\ ts \in SUBSET Type
    BY <1>7, <1>11, LookupsAgree DEF TypeFilter
  <2> QED
    BY <2>1 DEF Abs!ANext
<1> QED
  BY <1>1, <1>2, <1>3, <1>4, <1>5, <1>6, <1>8, <1>9, <1>10, <1>11 DEF Next

\* The indexed store implements the abstract graph: no caller can tell from the
\* answers that lookups and deletions trust an index.
THEOREM RefinesAbstractGraph == Spec => ImplementsAbstractGraph
<1>1. Init => Abs!AInit
  BY DEF Init, Answer, Abs!AInit, Abs!AAnswer
<1> QED
  BY <1>1, Invariant, StepImplements, PTL DEF Spec, ImplementsAbstractGraph, Abs!ASpec
==============================================================================
