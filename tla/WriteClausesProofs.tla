-------------------------- MODULE WriteClausesProofs --------------------------
(****************************************************************************)
(* The executor works on the store only through its operations, for every   *)
(* alphabet of clauses and every bound.  The inductive invariant says of    *)
(* what is left on the agenda that it is well-formed, and that a path is    *)
(* created in an order in which both ends of a relationship exist when its  *)
(* turn comes.                                                              *)
(*                                                                          *)
(* The second part is about MERGE: what rows hold when a pattern is matched *)
(* by which nodes are bound alone, that a pattern of one node finds the     *)
(* node that is there, and, from both, that MERGE makes no duplicate.       *)
(****************************************************************************)
EXTENDS WriteClauses, PropertyGraphProofs, PathMatchProofs

ItemKinds == EntityItems \union NodeItems \union {"setLabel"}

UpdatingClauses == {b \in Clauses : b.op \in Updating}

\* A task carries what its handler takes from it; the values that FOREACH has
\* still to go through stand for entities of E.
IsTask(t, E) ==
  /\ t.do = "node" => CanCreateNode(t.pat)
  /\ t.do = "rel" => CanCreateRel(t.pat)
  /\ t.do = "path" => IsPathPattern(t.of) /\ CanCreate(t.of)
  /\ t.do \in {"merge", "foreach"} => t.of \in Clauses
  /\ t.do = "merge" => t.of.op = "MERGE"
  /\ t.do = "foreach" => t.of.op = "FOREACH"
  /\ t.do = "clause" => t.of \in UpdatingClauses
  /\ t.do = "each" => /\ t.body \in Seq(UpdatingClauses)
                      /\ "values" \in DOMAIN t /\ IsList(t.values)
                      /\ \A v \in Range(t.values) : EntitiesOf(v) \subseteq E
  /\ t.do \in ItemKinds => IsItem(t)

\* The relationship at i has its two nodes before it; the one before those is
\* the node it comes from, or the relationship that led there.
Preceded(s, i) ==
  /\ i > 2
  /\ s[i - 1].do = "node"
  /\ s[i - 2].do \in {"node", "rel"}

\* A list of tasks that does not depend on what was done before it.
SelfContained(s, E) ==
  /\ IsList(s)
  /\ \A i \in 1..Len(s) : IsTask(s[i], E)
  /\ \A i \in 1..Len(s) : s[i].do = "rel" => Preceded(s, i)

\* What a variable of the running query may stand for, and the nodes among it.
Known     == Live \union killed
KnownNode == nodes \union killed

\* The agenda of a row: a relationship near its head finds its ends in ends.
AgendaOK ==
  /\ IsList(agenda)
  /\ \A i \in 1..Len(agenda) : IsTask(agenda[i], Known)
  /\ \A i \in 1..Len(agenda) : agenda[i].do = "rel" =>
       \/ i = 1 /\ ends[1] \in KnownNode /\ ends[2] \in KnownNode
       \/ i = 2 /\ agenda[1].do = "node" /\ ends[2] \in KnownNode
       \/ Preceded(agenda, i)

ClauseKnown == mode \in {"rows", "tasks"} => clause \in Clauses

\* No row is left over from another query.
RowsInTheirPlace ==
  /\ agenda # <<>> => mode = "tasks"
  /\ mode \in {"idle", "ready"} => todo = <<>>
  /\ mode = "idle" => out = <<>>

\* Rows stand for what is in the graph or was deleted in this query.
RowsKnown ==
  /\ IsList(todo) /\ IsList(out)
  /\ \A row \in Range(todo) \union Range(out) : Within(row, Known)
  /\ mode = "tasks" => Within(cur, Known)

\* What was deleted had been made.
KilledMade == killed \subseteq 1..(nextId - 1)

StateTyped ==
  /\ prop \in [Id -> Val \union {Null}]
  /\ mode \in {"idle", "ready", "rows", "tasks"}
  /\ executed \in 0..MaxClauses
  /\ clause \in Clauses \union {NoClause}

WInv ==
  /\ IInv /\ AgendaOK /\ ClauseKnown
  /\ RowsInTheirPlace /\ RowsKnown /\ KilledMade /\ StateTyped

------------------------------------------------------------------------------
\* Lists of tasks.
LEMMA EmptySelfContained ==
  ASSUME NEW E
  PROVE  SelfContained(<<>>, E)
<1>1. IsList(<<>>) /\ Len(<<>>) = 0
  BY SmallLists
<1> QED
  BY <1>1 DEF SelfContained

LEMMA SingleSelfContained ==
  ASSUME NEW E, NEW t, IsTask(t, E), t.do # "rel"
  PROVE  SelfContained(<<t>>, E)
<1>1. IsList(<<t>>) /\ Len(<<t>>) = 1 /\ <<t>>[1] = t
  BY SmallLists
<1> QED
  BY <1>1 DEF SelfContained

LEMMA ConcatSelfContained ==
  ASSUME NEW E, NEW s, NEW t, SelfContained(s, E), SelfContained(t, E)
  PROVE  SelfContained(s \o t, E)
<1> DEFINE S == Range(s) \union Range(t)
<1>1. s \in Seq(S) /\ t \in Seq(S)
  BY DEF SelfContained, IsList
<1>2. /\ s \o t \in Seq(S)
      /\ Len(s) \in Nat /\ Len(t) \in Nat
      /\ Len(s \o t) = Len(s) + Len(t)
  BY <1>1
<1>3. \A i \in 1..(Len(s) + Len(t)) :
        (s \o t)[i] = IF i <= Len(s) THEN s[i] ELSE t[i - Len(s)]
  BY <1>1
<1>4. IsList(s \o t)
  BY <1>2, ListOf
<1>5. ASSUME NEW i \in 1..Len(s \o t)
      PROVE  IsTask((s \o t)[i], E) /\ ((s \o t)[i].do = "rel" => Preceded(s \o t, i))
  <2>1. CASE i <= Len(s)
    <3>1. i \in 1..Len(s) /\ (s \o t)[i] = s[i]
      BY <1>2, <1>3, <1>5, <2>1
    <3>2. i > 2 => (s \o t)[i - 1] = s[i - 1] /\ (s \o t)[i - 2] = s[i - 2]
      BY <1>2, <1>3, <1>5, <2>1
    <3> QED
      BY <3>1, <3>2 DEF SelfContained, Preceded
  <2>2. CASE i > Len(s)
    <3> DEFINE j == i - Len(s)
    <3>1. j \in 1..Len(t) /\ (s \o t)[i] = t[j]
      BY <1>2, <1>3, <1>5, <2>2
    <3>2. j > 2 => /\ i > 2
                   /\ (s \o t)[i - 1] = t[j - 1]
                   /\ (s \o t)[i - 2] = t[j - 2]
      BY <1>2, <1>3, <1>5, <2>2
    <3> QED
      BY <3>1, <3>2 DEF SelfContained, Preceded
  <2> QED
    BY <1>2, <2>1, <2>2
<1> QED
  BY <1>4, <1>5 DEF SelfContained

\* A list of well-formed tasks without relationships.
LEMMA ListSelfContained ==
  ASSUME NEW E, NEW S, NEW s \in Seq(S), \A x \in S : IsTask(x, E) /\ x.do # "rel"
  PROVE  SelfContained(s, E)
<1>1. \A i \in 1..Len(s) : s[i] \in S
  OBVIOUS
<1> QED
  BY <1>1, ListOf DEF SelfContained

LEMMA ItemsSelfContained ==
  ASSUME NEW E, NEW items, AreItems(items)
  PROVE  SelfContained(items, E)
BY ListSelfContained DEF AreItems, IsItem, IsTask

------------------------------------------------------------------------------
LEMMA PathTasksSelfContained ==
  ASSUME NEW E, NEW path, IsPathPattern(path), CanCreate(path)
  PROVE  SelfContained(PathTasks(path), E)
<1> SUFFICES ASSUME NEW s, s = PathTasks(path) PROVE SelfContained(s, E)
  OBVIOUS
<1> DEFINE n == 2 * Len(path.hops) + 1
           S == {s[i] : i \in 1..n}
<1>1. /\ Len(path.hops) \in Nat /\ n \in Nat
      /\ \A i \in 1..(Len(path.hops) + 1) : CanCreateNode(path.nodes[i])
      /\ \A i \in 1..Len(path.hops) : CanCreateRel(path.hops[i])
  BY DEF IsPathPattern, CanCreate, Range
<1>2. s = [i \in 1..n |-> s[i]]
  BY DEF PathTasks
<1>3. s \in Seq(S) /\ Len(s) = n
  BY <1>1, <1>2
<1>4. \A i \in 1..n :
        s[i] = IF i = 1          THEN [do |-> "node", pat |-> path.nodes[1]]
               ELSE IF i % 2 = 0 THEN [do |-> "node", pat |-> path.nodes[i \div 2 + 1]]
               ELSE                   [do |-> "rel", pat |-> path.hops[i \div 2]]
  BY DEF PathTasks
<1>5. ASSUME NEW i \in 1..n
      PROVE  /\ i = 1 \/ i % 2 = 0 => s[i].do = "node"
             /\ ~(i = 1 \/ i % 2 = 0) => s[i].do = "rel"
  <2>1. CASE i = 1
    <3>1. s[i] = [do |-> "node", pat |-> path.nodes[1]]
      BY <1>4, <2>1
    <3> QED
      BY <2>1, <3>1
  <2>2. CASE i # 1 /\ i % 2 = 0
    <3>1. s[i] = [do |-> "node", pat |-> path.nodes[i \div 2 + 1]]
      BY <1>4, <2>2
    <3> QED
      BY <2>2, <3>1
  <2>3. CASE i # 1 /\ i % 2 # 0
    <3>1. s[i] = [do |-> "rel", pat |-> path.hops[i \div 2]]
      BY <1>4, <2>3
    <3> QED
      BY <2>3, <3>1
  <2> QED
    BY <2>1, <2>2, <2>3
<1>6. ASSUME NEW i \in 1..n
      PROVE  IsTask(s[i], E) /\ (s[i].do = "rel" => Preceded(s, i))
  <2>1. CASE i = 1
    <3>1. s[i] = [do |-> "node", pat |-> path.nodes[1]]
      BY <1>4, <2>1
    <3>2. CanCreateNode(path.nodes[1])
      BY <1>1
    <3> QED
      BY <3>1, <3>2 DEF IsTask, ItemKinds, EntityItems, NodeItems
  <2>2. CASE i # 1 /\ i % 2 = 0
    <3>1. s[i] = [do |-> "node", pat |-> path.nodes[i \div 2 + 1]]
      BY <1>4, <2>2
    <3>2. i \div 2 + 1 \in 1..(Len(path.hops) + 1)
      BY <1>1, <2>2
    <3>3. CanCreateNode(path.nodes[i \div 2 + 1])
      BY <1>1, <3>2
    <3> QED
      BY <3>1, <3>3 DEF IsTask, ItemKinds, EntityItems, NodeItems
  <2>3. CASE i # 1 /\ i % 2 # 0
    <3>1. s[i] = [do |-> "rel", pat |-> path.hops[i \div 2]]
      BY <1>4, <2>3
    <3>2. i > 2 /\ i \div 2 \in 1..Len(path.hops)
      BY <1>1, <2>3
    <3>3. CanCreateRel(path.hops[i \div 2])
      BY <1>1, <3>2
    <3>4. i - 1 \in 1..n /\ i - 1 # 1 /\ (i - 1) % 2 = 0
      <4>1. i - 1 \in 1..n /\ i - 1 # 1
        BY <1>1, <3>2
      <4>2. i \in Nat /\ i % 2 # 0 => (i - 1) % 2 = 0
        OBVIOUS
      <4> QED
        BY <2>3, <4>1, <4>2
    <3>5. s[i - 1].do = "node"
      BY <1>5, <3>4
    <3>6. i - 2 \in 1..n
      BY <1>1, <3>2
    <3>7. s[i - 2].do \in {"node", "rel"}
      BY <1>5, <3>6
    <3> QED
      BY <3>1, <3>2, <3>3, <3>5, <3>7
      DEF IsTask, Preceded, ItemKinds, EntityItems, NodeItems
  <2> QED
    BY <2>1, <2>2, <2>3
<1> QED
  BY <1>3, <1>6, ListOf DEF SelfContained

LEMMA CreateTasksSelfContained ==
  ASSUME NEW E, NEW pattern, IsPattern(pattern), \A path \in Range(pattern) : CanCreate(path)
  PROVE  SelfContained(CreateTasks(pattern), E)
<1> DEFINE S == {[do |-> "path", of |-> path] : path \in Range(pattern)}
<1>1. Len(pattern) \in Nat /\ DOMAIN pattern = 1..Len(pattern)
  BY DEF IsPattern
<1>2. \A i \in 1..Len(pattern) : pattern[i] \in Range(pattern)
  BY <1>1 DEF Range
<1>3. CreateTasks(pattern) \in Seq(S)
  BY <1>1, <1>2 DEF CreateTasks
<1>4. \A x \in S : IsTask(x, E) /\ x.do # "rel"
  BY DEF IsPattern, IsTask, ItemKinds, EntityItems, NodeItems
<1> QED
  BY <1>3, <1>4, ListSelfContained

LEMMA TasksSelfContained ==
  ASSUME NEW E, NEW c \in UpdatingClauses
  PROVE  SelfContained(Tasks(c), E)
<1>1. c \in Clauses /\ c.op \in Updating /\ IsClause(c)
  BY ClausesAssumption DEF UpdatingClauses
<1>2. CASE c.op = "CREATE"
  BY <1>1, <1>2, CreateTasksSelfContained DEF Tasks, IsClause
<1>3. CASE c.op = "MERGE"
  <2>1. Tasks(c) = <<[do |-> "merge", of |-> c]>>
    BY <1>3 DEF Tasks
  <2>2. IsTask([do |-> "merge", of |-> c], E)
    BY <1>1, <1>3 DEF IsTask, ItemKinds, EntityItems, NodeItems
  <2> QED
    BY <2>1, <2>2, SingleSelfContained
<1>4. CASE c.op = "FOREACH"
  <2>1. Tasks(c) = <<[do |-> "foreach", of |-> c]>>
    BY <1>4 DEF Tasks
  <2>2. IsTask([do |-> "foreach", of |-> c], E)
    BY <1>1, <1>4 DEF IsTask, ItemKinds, EntityItems, NodeItems
  <2> QED
    BY <2>1, <2>2, SingleSelfContained
<1>5. CASE c.op \in {"SET", "DELETE", "REMOVE"}
  BY <1>1, <1>5, ItemsSelfContained DEF Tasks, IsClause
<1> QED
  BY <1>1, <1>2, <1>3, <1>4, <1>5 DEF Updating

------------------------------------------------------------------------------
\* What may be stood for only grows while a query runs.
LEMMA TaskKept ==
  ASSUME NEW E, NEW F, E \subseteq F, NEW t, IsTask(t, E)
  PROVE  IsTask(t, F)
BY DEF IsTask

LEMMA WithinKept ==
  ASSUME NEW E, NEW F, E \subseteq F, NEW row, Within(row, E)
  PROVE  Within(row, F)
BY DEF Within

\* Taking the head off the agenda.  The relationship whose turn it is has both
\* its ends.
LEMMA TheHead ==
  ASSUME AgendaOK, agenda # <<>>
  PROVE  /\ IsTask(task, Known)
         /\ task.do = "rel" => ends[1] \in KnownNode /\ ends[2] \in KnownNode
<1>1. Len(agenda) \in Nat /\ 1 \in 1..Len(agenda) /\ task = agenda[1]
  BY DEF AgendaOK, IsList, task
<1> QED
  BY <1>1 DEF AgendaOK, Preceded

LEMMA TheTail ==
  ASSUME AgendaOK, agenda # <<>>
  PROVE  /\ IsList(Tail(agenda))
         /\ Len(agenda) \in Nat \ {0}
         /\ Len(Tail(agenda)) = Len(agenda) - 1
         /\ \A i \in 1..Len(Tail(agenda)) : Tail(agenda)[i] = agenda[i + 1]
         /\ \A i \in 1..Len(Tail(agenda)) : IsTask(Tail(agenda)[i], Known)
<1>1. agenda \in Seq(Range(agenda))
  BY DEF AgendaOK, IsList
<1>2. /\ Tail(agenda) \in Seq(Range(agenda))
      /\ Len(agenda) \in Nat \ {0}
      /\ Len(Tail(agenda)) = Len(agenda) - 1
      /\ \A i \in 1..Len(Tail(agenda)) : Tail(agenda)[i] = agenda[i + 1]
  BY <1>1
<1>3. IsList(Tail(agenda))
  BY <1>2, ListOf
<1> QED
  BY <1>2, <1>3 DEF AgendaOK

\* After a task that is no element of a pattern nothing depends on what came
\* before.
LEMMA TailSelfContained ==
  ASSUME AgendaOK, agenda # <<>>, task.do \notin {"node", "rel"}, NEW E, Known \subseteq E
  PROVE  SelfContained(Tail(agenda), E)
<1>1. Len(agenda) \in Nat /\ task = agenda[1]
  BY DEF AgendaOK, IsList, task
<1>2. ASSUME NEW i \in 1..Len(Tail(agenda)), Tail(agenda)[i].do = "rel"
      PROVE  Preceded(Tail(agenda), i)
  <2>1. i + 1 \in 1..Len(agenda) /\ agenda[i + 1].do = "rel"
    BY <1>2, TheTail
  <2>2. Preceded(agenda, i + 1)
    <3>1. ~(i + 1 = 1)
      OBVIOUS
    <3> QED
      BY <1>1, <2>1, <3>1 DEF AgendaOK
  <2>3. i # 1 /\ i # 2
    BY <1>1, <2>2 DEF Preceded
  <2>4. i - 1 \in 1..Len(Tail(agenda)) /\ i - 2 \in 1..Len(Tail(agenda))
    BY <1>2, <2>2, <2>3, TheTail
  <2>5. Tail(agenda)[i - 1] = agenda[i] /\ Tail(agenda)[i - 2] = agenda[i - 1]
    BY <2>4, TheTail
  <2> QED
    BY <2>2, <2>3, <2>5 DEF Preceded
<1>3. \A i \in 1..Len(Tail(agenda)) : IsTask(Tail(agenda)[i], E)
  BY TheTail, TaskKept
<1> QED
  BY <1>2, <1>3, TheTail DEF SelfContained

LEMMA SelfContainedIsOK ==
  ASSUME SelfContained(agenda', Known') PROVE AgendaOK'
BY DEF SelfContained, AgendaOK

\* The tail of the agenda is in order for the ends that a node or a
\* relationship leaves.
LEMMA ElementLeavesOK ==
  ASSUME AgendaOK, agenda # <<>>, agenda' = Tail(agenda), ends'[2] \in KnownNode',
         Known \subseteq Known', KnownNode \subseteq KnownNode',
         \/ task.do = "node" /\ ends'[1] = ends[2]
         \/ task.do = "rel"
  PROVE  AgendaOK'
<1>1. Len(agenda) \in Nat /\ task = agenda[1] /\ task.do \in {"node", "rel"}
  BY DEF AgendaOK, IsList, task
<1>2. ASSUME NEW i \in 1..Len(Tail(agenda)), Tail(agenda)[i].do = "rel"
      PROVE  \/ i = 1 /\ ends'[1] \in KnownNode' /\ ends'[2] \in KnownNode'
             \/ i = 2 /\ Tail(agenda)[1].do = "node" /\ ends'[2] \in KnownNode'
             \/ Preceded(Tail(agenda), i)
  <2>1. i + 1 \in 1..Len(agenda) /\ agenda[i + 1].do = "rel"
    BY <1>2, TheTail
  <2>2. \/ i + 1 = 2 /\ agenda[1].do = "node" /\ ends[2] \in KnownNode
        \/ Preceded(agenda, i + 1)
    BY <2>1 DEF AgendaOK
  <2>3. CASE i = 1
    BY <1>1, <2>2, <2>3 DEF Preceded
  <2>4. CASE i > 1
    <3>1. agenda[i].do = "node" /\ agenda[i - 1].do \in {"node", "rel"}
      BY <2>2, <2>4 DEF Preceded
    <3>2. i - 1 \in 1..Len(Tail(agenda)) /\ Tail(agenda)[i - 1] = agenda[i]
      BY <1>2, <2>4, TheTail
    <3>3. i > 2 => /\ i - 2 \in 1..Len(Tail(agenda))
                   /\ Tail(agenda)[i - 2] = agenda[i - 1]
      BY <1>2, TheTail
    <3> QED
      BY <2>4, <3>1, <3>2, <3>3 DEF Preceded
  <2> QED
    BY <2>3, <2>4
<1>3. \A i \in 1..Len(Tail(agenda)) : IsTask(Tail(agenda)[i], Known')
  BY TheTail, TaskKept
<1> QED
  BY <1>2, <1>3, TheTail DEF AgendaOK

------------------------------------------------------------------------------
\* What a query may stand for has been made.
LEMMA KnownMade ==
  ASSUME WInv
  PROVE  /\ Known \subseteq 1..(nextId - 1)
         /\ 1..(nextId - 1) \subseteq Id
         /\ KnownNode \subseteq Id
<1>1. nextId \in 1..(MaxId + 1) /\ MaxId \in Nat
  BY MaxIdAssumption DEF WInv, IInv, TypeOK
<1>2. nodes \union DOMAIN relationships \subseteq 1..(nextId - 1)
  BY <1>1 DEF WInv, IInv, TypeOK, IdentifiersFresh, Id
<1>3. Known \subseteq 1..(nextId - 1) /\ KnownNode \subseteq Known
  BY <1>2 DEF WInv, KilledMade, Known, KnownNode, Live
<1>4. 1..(nextId - 1) \subseteq Id
  BY <1>1 DEF Id
<1> QED
  BY <1>3, <1>4

LEMMA KnownGrows ==
  ASSUME [WNext]_wvars, ~BeginQuery
  PROVE  Known \subseteq Known' /\ KnownNode \subseteq KnownNode'
<1>1. CASE UNCHANGED <<vars, killed>>
  BY <1>1 DEF Known, KnownNode, Live, vars
<1>2. CASE DeleteNodeItem \/ DeleteRelItem
  <2>1. Kill
    BY <1>2 DEF DeleteNodeItem, DeleteRelItem
  <2> QED
    BY <2>1 DEF Kill, Known, KnownNode, Live
<1>3. CASE MakeNode
  BY <1>3 DEF MakeNode, CreateNode, Known, KnownNode, Live
<1>4. CASE MakeRel
  <2>1. \E s, e, t : CreateRel(s, e, t)
    BY <1>4 DEF MakeRel
  <2> QED
    BY <1>4, <2>1 DEF MakeRel, CreateRel, Known, KnownNode, Live
<1>5. CASE SetLabel
  BY <1>5 DEF SetLabel, AddLabel, Known, KnownNode, Live
<1>6. CASE RemoveLabelItem
  BY <1>6 DEF RemoveLabelItem, RemoveLabel, Known, KnownNode, Live
<1>7. \/ UNCHANGED <<vars, killed>>
      \/ MakeNode \/ MakeRel \/ SetLabel \/ RemoveLabelItem \/ DeleteNodeItem \/ DeleteRelItem
  BY DEF WNext, Step, BeginClause, EndQuery, ReadRow, TakeRow, FinishRow, wvars, queryVars,
         FinishClause, OpenPath, ReuseNode, OutOfIdentifiers, Merge, Foreach, NextItem,
         BodyClause, LastItem, UnbindItem, SetProp, SetMap, SkipItem, UnknownVariable
<1> QED
  BY <1>1, <1>2, <1>3, <1>4, <1>5, <1>6, <1>7

\* Where the executor touches the store it is with one of its operations.
LEMMA OnlyOperations ==
  ASSUME WInv, [WNext]_wvars
  PROVE  [Next]_vars
<1> SUFFICES ASSUME WNext PROVE Next \/ UNCHANGED vars
  BY DEF wvars
<1>1. DOMAIN labels \subseteq Id /\ KnownNode \subseteq Id
  BY KnownMade DEF WInv, IInv, TypeOK
<1>2. \A do : At(do) => IsTask(task, Known) /\ task.do = do
                        /\ (do = "rel" => ends[1] \in KnownNode /\ ends[2] \in KnownNode)
  BY TheHead DEF WInv, At, task
<1>3. CASE MakeNode
  <2>1. task.pat.labels \in SUBSET Label
    BY <1>2, <1>3 DEF MakeNode, IsTask, CanCreateNode
  <2> QED
    BY <1>3, <2>1 DEF MakeNode, Next
<1>4. CASE MakeRel
  <2>1. ends[1] \in Id /\ ends[2] \in Id /\ task.pat.types \in SUBSET Type
    BY <1>1, <1>2, <1>4 DEF MakeRel, IsTask, CanCreateRel
  <2>2. TypeToCreate(task.pat) \in Type
    BY <2>1, DefaultTypeAssumption DEF TypeToCreate
  <2>3. \E s, e \in Id : CreateRel(s, e, TypeToCreate(task.pat))
    BY <1>4, <2>1 DEF MakeRel
  <2> QED
    BY <2>2, <2>3 DEF Next
<1>5. CASE SetLabel
  <2>1. task.label \in Label /\ cur[task.var].node \in DOMAIN labels
    BY <1>2, <1>5 DEF SetLabel, HoldsNode, IsTask, IsItem, ItemKinds
  <2> QED
    BY <1>5, <2>1 DEF SetLabel, Next
<1>6. CASE RemoveLabelItem
  <2>1. task.label \in Label /\ cur[task.var].node \in DOMAIN labels
    BY <1>2, <1>6 DEF RemoveLabelItem, HoldsNode, IsTask, IsItem, ItemKinds, NodeItems
  <2> QED
    BY <1>6, <2>1 DEF RemoveLabelItem, Next
<1>7. CASE DeleteNodeItem
  <2>1. task.detach \in BOOLEAN /\ cur[task.var].node \in Id
    BY <1>1, <1>2, <1>7 DEF DeleteNodeItem, HoldsNode, IsTask, IsItem, ItemKinds, EntityItems
  <2> QED
    BY <1>7, <2>1 DEF DeleteNodeItem, Next
<1>8. CASE DeleteRelItem
  BY <1>8 DEF DeleteRelItem, HoldsRel, Next
<1>9. CASE UNCHANGED vars
  BY <1>9
<1>10. \/ UNCHANGED vars
       \/ MakeNode \/ MakeRel \/ SetLabel \/ RemoveLabelItem \/ DeleteNodeItem \/ DeleteRelItem
  BY DEF WNext, Step, BeginQuery, BeginClause, EndQuery, ReadRow, TakeRow, FinishRow,
         FinishClause, OpenPath, ReuseNode, OutOfIdentifiers, Merge, Foreach, NextItem,
         BodyClause, LastItem, UnbindItem, SetProp, SetMap, SkipItem, UnknownVariable
<1> QED
  BY <1>3, <1>4, <1>5, <1>6, <1>7, <1>8, <1>9, <1>10

LEMMA WInitInv == WInit => WInv
<1> SUFFICES ASSUME WInit PROVE WInv
  OBVIOUS
<1>1. IInv
  BY InitInv DEF WInit
<1>2. AgendaOK
  <2>1. agenda = <<>>
    BY DEF WInit
  <2>2. IsList(agenda) /\ Len(agenda) = 0
    BY <2>1, SmallLists
  <2> QED
    BY <2>2 DEF AgendaOK
<1>3. RowsInTheirPlace /\ RowsKnown
  BY SmallLists DEF WInit, RowsInTheirPlace, RowsKnown
<1>4. ClauseKnown /\ KilledMade
  BY DEF WInit, ClauseKnown, KilledMade
<1>5. StateTyped
  BY MaxClausesAssumption DEF WInit, StateTyped
<1> QED
  BY <1>1, <1>2, <1>3, <1>4, <1>5 DEF WInv

LEMMA ClauseKnownKept == WInv /\ [WNext]_wvars => ClauseKnown'
<1> SUFFICES ASSUME ClauseKnown, [WNext]_wvars PROVE ClauseKnown'
  BY DEF WInv
<1>1. ASSUME NEW c \in Clauses, BeginClause(c) PROVE ClauseKnown'
  BY <1>1 DEF BeginClause, ClauseKnown
<1>2. CASE mode' \in {"idle", "ready"}
  BY <1>2 DEF ClauseKnown
<1>3. CASE UNCHANGED clause /\ mode \in {"rows", "tasks"}
  BY <1>3 DEF ClauseKnown
<1>4. CASE UNCHANGED <<mode, clause>>
  BY <1>4 DEF ClauseKnown
<1>5. CASE Step
  <2>1. \/ mode' \in {"idle", "ready"}
        \/ UNCHANGED clause /\ mode \in {"rows", "tasks"}
    BY <1>5 DEF Step, ReadRow, TakeRow, FinishRow, FinishClause, OpenPath, ReuseNode,
         MakeNode, MakeRel, OutOfIdentifiers, Merge, Foreach, NextItem, BodyClause,
         LastItem, UnbindItem, SetProp, SetMap, SetLabel, RemoveLabelItem,
         DeleteNodeItem, DeleteRelItem, SkipItem, UnknownVariable, At, Proceed, Abandon
  <2> QED
    BY <1>2, <1>3, <2>1
<1> QED
  BY <1>1, <1>2, <1>4, <1>5 DEF WNext, BeginQuery, EndQuery, wvars, queryVars

\* Every action leaves the agenda in order.
LEMMA AgendaKept == WInv /\ [WNext]_wvars => AgendaOK'
<1> SUFFICES ASSUME WInv, [WNext]_wvars PROVE AgendaOK'
  OBVIOUS
<1>1. AgendaOK /\ ClauseKnown
  BY DEF WInv
<1>2. ASSUME agenda' = <<>> PROVE AgendaOK'
  BY <1>2, EmptySelfContained, SelfContainedIsOK
<1>3. CASE BeginQuery
  <2>1. agenda = <<>>
    BY <1>3 DEF BeginQuery, WInv, RowsInTheirPlace
  <2> QED
    BY <1>2, <1>3, <2>1 DEF BeginQuery, rowVars
<1> SUFFICES ASSUME ~BeginQuery PROVE AgendaOK'
  BY <1>3
<1>4. Known \subseteq Known' /\ KnownNode \subseteq KnownNode'
  BY KnownGrows
<1> DEFINE F == Known'
<1> HIDE DEF F
<1>5. ASSUME UNCHANGED <<agenda, ends>> PROVE AgendaOK'
  <2>1. \A i \in 1..Len(agenda) : IsTask(agenda[i], Known')
    BY <1>1, <1>4, TaskKept DEF AgendaOK
  <2> QED
    BY <1>1, <1>4, <1>5, <2>1 DEF AgendaOK, Preceded
<1>6. ASSUME NEW do, At(do), do \notin {"node", "rel"}
      PROVE  agenda # <<>> /\ SelfContained(Tail(agenda), F) /\ IsTask(task, Known)
  <2>1. agenda # <<>> /\ task.do \notin {"node", "rel"}
    BY <1>6 DEF At, task
  <2> QED
    BY <1>1, <1>4, <2>1, TheHead, TailSelfContained DEF F
<1>7. ASSUME NEW do, At(do), do \notin {"node", "rel"}, Proceed PROVE AgendaOK'
  BY <1>6, <1>7, SelfContainedIsOK DEF Proceed, F
<1>8. ASSUME NEW s, SelfContained(s, F), NEW do, At(do), do \notin {"node", "rel"},
             agenda' = s \o Tail(agenda)
      PROVE  AgendaOK'
  BY <1>6, <1>8, ConcatSelfContained, SelfContainedIsOK DEF F
<1>9. CASE TakeRow
  <2>1. clause \in UpdatingClauses
    BY <1>1, <1>9, ClausesAssumption
    DEF TakeRow, ClauseKnown, Reads, IsClause, UpdatingClauses
  <2> QED
    BY <1>9, <2>1, TasksSelfContained, SelfContainedIsOK DEF TakeRow
<1>10. CASE OpenPath
  <2>1. At("path") /\ IsPathPattern(task.of) /\ CanCreate(task.of)
    BY <1>6, <1>10 DEF OpenPath, IsTask, At, task
  <2> QED
    BY <1>8, <1>10, <2>1, PathTasksSelfContained DEF OpenPath
<1>11. CASE ReuseNode \/ MakeNode
  <2>1. agenda # <<>> /\ task.do = "node" /\ agenda' = Tail(agenda) /\ ends'[1] = ends[2]
    BY <1>11 DEF ReuseNode, MakeNode, At, task, Proceed
  <2>2. ends'[2] \in KnownNode'
    <3>1. CASE ReuseNode
      <4> DEFINE v == cur[task.pat.var]
      <4>1. /\ ends'[2] = v.node /\ Bound(cur, task.pat.var) /\ IsNode(v)
            /\ v.node \in DOMAIN labels /\ mode = "tasks"
        BY <3>1 DEF ReuseNode, HoldsNode, At
      <4>2. v.node \in Known
        BY <4>1 DEF WInv, RowsKnown, Within, Bound, EntitiesOf
      <4>3. v.node \notin DOMAIN relationships
        BY <4>1 DEF WInv, IInv, IdentifiersFresh
      <4>4. v.node \in KnownNode
        BY <4>2, <4>3 DEF Known, KnownNode, Live
      <4> QED
        BY <1>4, <4>1, <4>4
    <3>2. CASE MakeNode
      BY <3>2 DEF MakeNode, CreateNode, KnownNode
    <3> QED
      BY <1>11, <3>1, <3>2
  <2> QED
    BY <1>1, <1>4, <2>1, <2>2, ElementLeavesOK
<1>12. CASE MakeRel
  <2>1. agenda # <<>> /\ task.do = "rel" /\ agenda' = Tail(agenda) /\ ends' = ends
    BY <1>12 DEF MakeRel, At, task, Proceed
  <2>2. ends'[2] \in KnownNode'
    BY <1>1, <1>4, <2>1, TheHead
  <2> QED
    BY <1>1, <1>4, <2>1, <2>2, ElementLeavesOK
<1>13. CASE Merge
  <2>1. At("merge") /\ task.of \in Clauses /\ task.of.op = "MERGE"
    BY <1>6, <1>13 DEF Merge, IsTask, At, task
  <2>2. /\ SelfContained(task.of.onMatch, F)
        /\ SelfContained(task.of.onCreate, F)
        /\ SelfContained(CreateTasks(task.of.pattern), F)
    BY <2>1, ClausesAssumption, ItemsSelfContained, CreateTasksSelfContained DEF IsClause
  <2>3. CASE agenda' = task.of.onMatch \o Tail(agenda)
    BY <1>8, <2>1, <2>2, <2>3
  <2>4. CASE agenda' = CreateTasks(task.of.pattern) \o task.of.onCreate \o Tail(agenda)
    <3>1. SelfContained(CreateTasks(task.of.pattern) \o task.of.onCreate, F)
      BY <2>2, ConcatSelfContained
    <3> QED
      BY <1>8, <2>1, <2>4, <3>1
  <2> QED
    BY <1>13, <2>3, <2>4 DEF Merge
<1>14. CASE Foreach
  <2> DEFINE c      == task.of
             values == [i \in DOMAIN c.items |-> cur[c.items[i]]]
             each   == [do |-> "each", var |-> c.var, body |-> c.body, values |-> values]
             undo   == [do |-> "unbind", var |-> c.var]
             last   == IF Bound(cur, c.var) THEN <<>> ELSE <<undo>>
  <2>1. /\ At("foreach") /\ agenda' = <<each>> \o last \o Tail(agenda)
        /\ \A i \in DOMAIN c.items : Bound(cur, c.items[i])
    BY <1>14 DEF Foreach
  <2>2. c.body \in Seq(UpdatingClauses) /\ c.items \in Seq(Range(c.items))
    BY <1>6, <2>1, ClausesAssumption DEF IsTask, IsClause, UpdatingClauses, At, task
  <2>3. /\ each.do = "each" /\ each.body = c.body /\ each.values = values
        /\ "values" \in DOMAIN each /\ undo.do = "unbind"
    OBVIOUS
  <2>4. IsList(values) /\ \A v \in Range(values) : EntitiesOf(v) \subseteq F
    <3>1. \A i \in DOMAIN c.items : EntitiesOf(values[i]) \subseteq Known
      BY <2>1 DEF WInv, RowsKnown, Within, Bound, At
    <3>2. DOMAIN c.items = 1..Len(c.items) /\ Len(c.items) \in Nat
      BY <2>2
    <3>3. IsList(values) /\ DOMAIN values = DOMAIN c.items
      BY <3>2, FunctionIsList
    <3> HIDE DEF values, c
    <3> QED
      BY <1>4, <3>1, <3>3 DEF Range, F
  <2> HIDE DEF c, each, undo, values
  <2>5. IsTask(each, F) /\ IsTask(undo, F)
    BY <2>2, <2>3, <2>4 DEF IsTask, ItemKinds, EntityItems, NodeItems
  <2>6. SelfContained(<<each>>, F) /\ SelfContained(last, F)
    BY <2>3, <2>5, SingleSelfContained, EmptySelfContained
  <2>7. SelfContained(<<each>> \o last, F)
    BY <2>6, ConcatSelfContained
  <2> QED
    BY <1>8, <2>1, <2>7
<1>15. CASE NextItem
  <2> DEFINE body == [i \in DOMAIN task.body |-> [do |-> "clause", of |-> task.body[i]]]
             rest == [task EXCEPT !.values = Tail(@)]
  <2>1. At("each") /\ task.values # <<>> /\ agenda' = body \o <<rest>> \o Tail(agenda)
    BY <1>15 DEF NextItem
  <2>2. /\ task.do = "each" /\ task.body \in Seq(UpdatingClauses)
        /\ "values" \in DOMAIN task /\ IsList(task.values)
        /\ \A v \in Range(task.values) : EntitiesOf(v) \subseteq Known
    BY <1>6, <2>1 DEF IsTask, At, task
  <2>3. SelfContained(body, F)
    <3> DEFINE S == {[do |-> "clause", of |-> b] : b \in UpdatingClauses}
    <3>1. body \in Seq(S)
      BY <2>2
    <3>2. \A x \in S : IsTask(x, F) /\ x.do # "rel"
      BY DEF IsTask, ItemKinds, EntityItems, NodeItems
    <3> QED
      BY <3>1, <3>2, ListSelfContained
  <2>4. /\ IsList(Tail(task.values))
        /\ Range(Tail(task.values)) \subseteq Range(task.values)
    BY <2>1, <2>2, TailList
  <2>5. /\ rest.do = "each" /\ rest.body = task.body /\ rest.values = Tail(task.values)
        /\ "values" \in DOMAIN rest
    BY <2>2
  <2> HIDE DEF body, rest
  <2>6. SelfContained(<<rest>>, F)
    <3>1. IsTask(rest, F)
      BY <1>4, <2>2, <2>4, <2>5 DEF IsTask, ItemKinds, EntityItems, NodeItems, F
    <3> QED
      BY <2>5, <3>1, SingleSelfContained
  <2>7. SelfContained(body \o <<rest>>, F)
    BY <2>3, <2>6, ConcatSelfContained
  <2> QED
    BY <1>8, <2>1, <2>7
<1>16. CASE BodyClause
  <2>1. At("clause") /\ task.of \in UpdatingClauses
    BY <1>6, <1>16 DEF BodyClause, IsTask, At, task
  <2> QED
    BY <1>8, <1>16, <2>1, TasksSelfContained DEF BodyClause
<1>17. CASE LastItem \/ UnbindItem \/ SetProp \/ SetMap \/ SetLabel \/ RemoveLabelItem
            \/ DeleteRelItem \/ SkipItem
  <2>1. /\ Proceed
        /\ \E do \in {"each", "unbind", "delete"} \union ItemKinds : At(do)
    BY <1>17 DEF LastItem, UnbindItem, SetProp, SetMap, SetLabel, RemoveLabelItem,
                 DeleteRelItem, SkipItem, ItemKinds, EntityItems, NodeItems
  <2> QED
    BY <1>7, <2>1 DEF ItemKinds, EntityItems, NodeItems
<1>18. CASE DeleteNodeItem
  <2>1. At("delete") /\ (Proceed \/ Abandon)
    BY <1>18 DEF DeleteNodeItem
  <2> QED
    BY <1>2, <1>7, <2>1 DEF Abandon
<1>19. CASE OutOfIdentifiers \/ UnknownVariable
  BY <1>2, <1>19 DEF OutOfIdentifiers, UnknownVariable, Abandon
<1>20. CASE EndQuery \/ ReadRow \/ FinishRow \/ FinishClause
  BY <1>5, <1>20 DEF EndQuery, ReadRow, FinishRow, FinishClause, rowVars
<1>21. ASSUME NEW c \in Clauses, BeginClause(c) PROVE AgendaOK'
  BY <1>5, <1>21 DEF BeginClause, rowVars
<1>22. CASE UNCHANGED wvars
  BY <1>5, <1>22 DEF wvars, queryVars, rowVars
<1> QED
  BY <1>9, <1>10, <1>11, <1>12, <1>13, <1>14, <1>15, <1>16, <1>17, <1>18,
     <1>19, <1>20, <1>21, <1>22 DEF WNext, Step

\* No row is left over when a clause or a query ends.
LEMMA RowsStayInTheirPlace == WInv /\ [WNext]_wvars => RowsInTheirPlace'
<1> SUFFICES ASSUME RowsInTheirPlace, [WNext]_wvars PROVE RowsInTheirPlace'
  BY DEF WInv
<1>1. CASE BeginQuery \/ EndQuery \/ \E c \in Clauses : BeginClause(c)
  BY <1>1 DEF RowsInTheirPlace, BeginQuery, EndQuery, BeginClause, rowVars
<1>2. CASE ReadRow \/ TakeRow \/ FinishRow \/ FinishClause
  BY <1>2 DEF RowsInTheirPlace, ReadRow, TakeRow, FinishRow, FinishClause, rowVars
<1>3. CASE mode = "tasks" /\ mode' = mode
  BY <1>3 DEF RowsInTheirPlace
<1>4. CASE mode' = "idle" /\ agenda' = <<>> /\ todo' = <<>> /\ out' = <<>>
  BY <1>4 DEF RowsInTheirPlace
<1>5. CASE OutOfIdentifiers \/ UnknownVariable
  BY <1>4, <1>5 DEF OutOfIdentifiers, UnknownVariable, Abandon
<1>6. CASE DeleteNodeItem
  BY <1>3, <1>4, <1>6 DEF DeleteNodeItem, At, Proceed, Abandon
<1>7. CASE \/ OpenPath \/ ReuseNode \/ MakeNode \/ MakeRel \/ Merge \/ Foreach \/ NextItem
           \/ BodyClause \/ LastItem \/ UnbindItem \/ SetProp \/ SetMap \/ SetLabel
           \/ RemoveLabelItem \/ DeleteRelItem \/ SkipItem
  BY <1>3, <1>7 DEF OpenPath, ReuseNode, MakeNode, MakeRel, Merge, Foreach, NextItem,
     BodyClause, LastItem, UnbindItem, SetProp, SetMap, SetLabel, RemoveLabelItem,
     DeleteRelItem, SkipItem, At, Proceed
<1>8. CASE UNCHANGED wvars
  BY <1>8 DEF RowsInTheirPlace, wvars, queryVars, rowVars
<1> QED
  BY <1>1, <1>2, <1>5, <1>6, <1>7, <1>8 DEF WNext, Step

\* What is deleted was made.
LEMMA KilledStaysMade == WInv /\ [WNext]_wvars => KilledMade'
<1> SUFFICES ASSUME WInv, [WNext]_wvars PROVE KilledMade'
  OBVIOUS
<1>1. nextId \in Nat /\ Known \subseteq 1..(nextId - 1)
  BY KnownMade DEF WInv, IInv, TypeOK
<1>2. nextId' \in {nextId, nextId + 1}
  <2>1. [Next]_vars
    BY OnlyOperations
  <2>2. ASSUME Next PROVE nextId' \in {nextId, nextId + 1}
    BY <2>2 DEF Next, CreateNode, CreateRel, DeleteRel, DeleteNode, RemoveNode, RefuseNode,
       SkipNode, AddLabel, RemoveLabel, Lookup, graphVars
  <2> QED
    BY <2>1, <2>2 DEF vars, graphVars
<1>3. killed' \subseteq Known
  <2>1. CASE Kill
    BY <2>1 DEF Kill, Known, Live
  <2>2. CASE killed' = killed \/ killed' = {}
    BY <2>2 DEF Known
  <2>3. Kill \/ killed' = killed \/ killed' = {}
    BY DEF WNext, Step, BeginQuery, BeginClause, EndQuery, ReadRow, TakeRow, FinishRow,
       FinishClause, OpenPath, ReuseNode, MakeNode, MakeRel, OutOfIdentifiers, Merge, Foreach,
       NextItem, BodyClause, LastItem, UnbindItem, SetProp, SetMap, SetLabel, RemoveLabelItem,
       DeleteNodeItem, DeleteRelItem, SkipItem, UnknownVariable, wvars, queryVars
  <2> QED
    BY <2>1, <2>2, <2>3
<1>4. ASSUME NEW a \in Nat, NEW b \in {a, a + 1} PROVE 1..(a - 1) \subseteq 1..(b - 1)
  OBVIOUS
<1> QED
  BY <1>1, <1>2, <1>3, <1>4 DEF KilledMade

\* The graph that patterns are matched against is one.
LEMMA TheGraphIsOne ==
  ASSUME WInv
  PROVE  IsGraph(TheGraph) /\ Covers(Known, TheGraph)
<1>1. /\ TheGraph.nodes = nodes /\ TheGraph.rels = relationships /\ TheGraph.prop = prop
  BY DEF TheGraph
<1>2. IsList(prop) /\ DOMAIN prop = Id
  <2>1. DOMAIN prop = 1..MaxId /\ prop = [i \in 1..MaxId |-> prop[i]]
    BY DEF WInv, StateTyped, Id
  <2> QED
    BY <2>1, MaxIdAssumption, FunctionIsList DEF Id
<1>3. nodes \union DOMAIN relationships \subseteq Id
  BY DEF WInv, IInv, TypeOK
<1> QED
  BY <1>1, <1>2, <1>3 DEF IsGraph, IsList, Covers, Known, Live

\* Rows that a reading clause makes of one stand for what it stands for, and for
\* what is in the graph.
LEMMA ReadRowsKnown ==
  ASSUME WInv, NEW c \in Clauses, Reads(c), NEW row, Within(row, Known)
  PROVE  /\ IsList(RowsOf(c, row))
         /\ \A r \in Range(RowsOf(c, row)) : Within(r, Known)
<1>1. CASE c.op = "MATCH"
  <2>1. RowsOf(c, row) = MatchRow(TheGraph, c, row)
    BY <1>1 DEF RowsOf
  <2>2. IsPattern(c.pattern)
    BY <1>1, ClausesAssumption DEF IsClause
  <2>3. Keeps(row, EmptyRow) /\ PathsAreNew(c.pattern, EmptyRow)
    BY DEF Keeps, PathsAreNew, EmptyRow
  <2>4. GoodRows(MatchRow(TheGraph, c, row), Known, EmptyRow)
    BY <2>2, <2>3, TheGraphIsOne, MatchRowGood
  <2> QED
    BY <2>1, <2>4 DEF GoodRows
<1>2. CASE c.op = "UNWIND"
  <2> DEFINE rows == [i \in DOMAIN c.values |-> Assign(row, c.var, c.values[i])]
  <2>1. RowsOf(c, row) = rows
    BY <1>2 DEF RowsOf
  <2>2. c.values \in Seq(Range(c.values)) /\ \A v \in Range(c.values) : EntitiesOf(v) = {}
    BY <1>2, ClausesAssumption DEF IsClause
  <2>3. DOMAIN c.values = 1..Len(c.values) /\ Len(c.values) \in Nat
    BY <2>2
  <2>4. \A i \in DOMAIN c.values : Within(rows[i], Known)
    <3>1. \A i \in DOMAIN c.values : EntitiesOf(c.values[i]) \subseteq Known
      BY <2>2 DEF Range
    <3> QED
      BY <3>1, AssignedWithin
  <2>5. IsList(rows) /\ DOMAIN rows = DOMAIN c.values
    BY <2>3, FunctionIsList
  <2> HIDE DEF rows
  <2> QED
    BY <2>1, <2>4, <2>5 DEF Range
<1> QED
  BY <1>1, <1>2 DEF Reads

\* Every action leaves rows that stand for what is there or was deleted here.
LEMMA RowsStayKnown == WInv /\ [WNext]_wvars => RowsKnown'
<1> SUFFICES ASSUME WInv, [WNext]_wvars PROVE RowsKnown'
  OBVIOUS
<1>1. RowsKnown /\ RowsInTheirPlace
  BY DEF WInv
<1>2. \A E : Within(EmptyRow, E)
  BY DEF Within, EmptyRow
<1>3. CASE BeginQuery
  <2>1. todo' = <<>> /\ out' = <<EmptyRow>> /\ mode' # "tasks"
    BY <1>1, <1>3 DEF BeginQuery, RowsInTheirPlace
  <2> QED
    BY <1>2, <2>1, SmallLists DEF RowsKnown
<1> SUFFICES ASSUME ~BeginQuery PROVE RowsKnown'
  BY <1>3
<1> DEFINE F == Known'
<1>4. Known \subseteq F
  BY KnownGrows
<1> HIDE DEF F
<1>5. \A row : Within(row, Known) => Within(row, F)
  BY <1>4, WithinKept
<1>6. /\ \A row \in Range(todo) \union Range(out) : Within(row, F)
      /\ mode = "tasks" => Within(cur, F)
  BY <1>1, <1>5 DEF RowsKnown
<1>7. ASSUME IsList(todo'), IsList(out'),
             \A row \in Range(todo') \union Range(out') : Within(row, F),
             mode' = "tasks" => Within(cur', F)
      PROVE  RowsKnown'
  BY <1>7 DEF RowsKnown, F
<1>8. ASSUME UNCHANGED <<todo, out>>, mode' = "tasks" => Within(cur', F) PROVE RowsKnown'
  BY <1>1, <1>6, <1>7, <1>8 DEF RowsKnown
<1>9. ASSUME UNCHANGED <<todo, out>>, mode = "tasks", UNCHANGED cur PROVE RowsKnown'
  BY <1>6, <1>8, <1>9
<1>10. ASSUME todo' = <<>>, out' = <<>>, mode' # "tasks" PROVE RowsKnown'
  BY <1>7, <1>10, SmallLists
<1>11. CASE EndQuery
  BY <1>1, <1>10, <1>11 DEF EndQuery, RowsInTheirPlace
<1>12. ASSUME NEW c \in Clauses, BeginClause(c) PROVE RowsKnown'
  <2>1. todo' \in {<<EmptyRow>>, out} /\ out' = <<>> /\ mode' # "tasks"
    BY <1>12 DEF BeginClause
  <2> QED
    BY <1>1, <1>2, <1>6, <1>7, <2>1, SmallLists DEF RowsKnown
<1>13. CASE ReadRow
  <2>1. /\ mode = "rows" /\ todo # <<>> /\ Reads(clause) /\ mode' = mode
        /\ out' = out \o RowsOf(clause, Head(todo)) /\ todo' = Tail(todo)
    BY <1>13 DEF ReadRow
  <2>2. /\ IsList(todo') /\ Range(todo') \subseteq Range(todo) /\ Head(todo) \in Range(todo)
    BY <1>1, <2>1, TailList DEF RowsKnown
  <2>3. clause \in Clauses /\ Within(Head(todo), Known)
    BY <1>1, <2>1, <2>2 DEF RowsKnown, WInv, ClauseKnown
  <2>4. /\ IsList(RowsOf(clause, Head(todo)))
        /\ \A r \in Range(RowsOf(clause, Head(todo))) : Within(r, Known)
    BY <2>1, <2>3, ReadRowsKnown
  <2>5. IsList(out') /\ Range(out') = Range(out) \union Range(RowsOf(clause, Head(todo)))
    BY <1>1, <2>1, <2>4, ConcatList DEF RowsKnown
  <2> QED
    BY <1>5, <1>6, <1>7, <2>1, <2>2, <2>4, <2>5
<1>14. CASE TakeRow
  <2>1. todo # <<>> /\ cur' = Head(todo) /\ todo' = Tail(todo) /\ out' = out
    BY <1>14 DEF TakeRow
  <2>2. /\ IsList(todo') /\ Range(todo') \subseteq Range(todo) /\ Head(todo) \in Range(todo)
    BY <1>1, <2>1, TailList DEF RowsKnown
  <2> QED
    BY <1>1, <1>6, <1>7, <2>1, <2>2 DEF RowsKnown
<1>15. CASE FinishRow
  <2>1. mode = "tasks" /\ mode' # "tasks" /\ out' = Append(out, cur) /\ todo' = todo
    BY <1>15 DEF FinishRow
  <2>2. Append(out, cur) = out \o <<cur>>
    BY <1>1 DEF RowsKnown, IsList
  <2>3. IsList(out') /\ Range(out') = Range(out) \union {cur}
    BY <1>1, <2>1, <2>2, SmallLists, ConcatList DEF RowsKnown
  <2> QED
    BY <1>1, <1>6, <1>7, <2>1, <2>3 DEF RowsKnown
<1>16. CASE FinishClause
  BY <1>8, <1>16 DEF FinishClause
<1>17. ASSUME NEW var, NEW x \in F, NEW v \in {NodeRef(x), RelRef(x)}, mode = "tasks",
              UNCHANGED <<todo, out>>, cur' = AssignTo(cur, var, v)
       PROVE  RowsKnown'
  <2>1. EntitiesOf(v) \subseteq F
    BY <1>17, EntitiesOfValues
  <2>2. Within(cur', F)
    BY <1>6, <1>17, <2>1, AssignedWithin DEF AssignTo
  <2> QED
    BY <1>8, <1>17, <2>2
<1>18. CASE MakeNode
  <2>1. nextId \in F
    BY <1>18 DEF MakeNode, CreateNode, F, Known, Live
  <2> QED
    BY <1>17, <1>18, <2>1 DEF MakeNode, At, Proceed
<1>19. CASE MakeRel
  <2>1. \E s, e, t : CreateRel(s, e, t)
    BY <1>19 DEF MakeRel
  <2>2. nextId \in F
    BY <2>1 DEF CreateRel, F, Known, Live
  <2> QED
    BY <1>17, <1>19, <2>2 DEF MakeRel, At, Proceed
<1>20. CASE Merge
  <2>1. /\ At("merge") /\ UNCHANGED <<todo, out>>
        /\ cur' = cur \/ LET found == MatchPattern(TheGraph, task.of.pattern, cur)
                          IN  found # <<>> /\ cur' = Head(found)
    BY <1>20 DEF Merge
  <2>2. mode = "tasks" /\ Within(cur, Known) /\ IsPattern(task.of.pattern)
    <3>1. IsTask(task, Known) /\ task.do = "merge" /\ mode = "tasks"
      BY <2>1, TheHead DEF WInv, At, task
    <3> QED
      BY <1>1, <3>1, ClausesAssumption DEF IsTask, IsClause, RowsKnown
  <2>3. CASE cur' = cur
    BY <1>9, <2>1, <2>2, <2>3
  <2>4. CASE cur' # cur
    <3> DEFINE found == MatchPattern(TheGraph, task.of.pattern, cur)
    <3>1. Keeps(cur, EmptyRow) /\ PathsAreNew(task.of.pattern, EmptyRow)
      BY DEF Keeps, PathsAreNew, EmptyRow
    <3>2. GoodRows(found, Known, EmptyRow)
      BY <2>2, <3>1, TheGraphIsOne, MatchPatternGood
    <3>3. found # <<>> /\ cur' = Head(found)
      BY <2>1, <2>4
    <3> HIDE DEF found
    <3>4. Within(cur', Known)
      BY <3>2, <3>3, TailList DEF GoodRows
    <3> QED
      BY <1>5, <1>8, <2>1, <3>4
  <2> QED
    BY <2>3, <2>4
<1>21. CASE NextItem
  <2>1. /\ At("each") /\ task.values # <<>> /\ UNCHANGED <<todo, out>>
        /\ cur' = Assign(cur, task.var, Head(task.values))
    BY <1>21 DEF NextItem
  <2>2. IsTask(task, Known) /\ task.do = "each" /\ mode = "tasks"
    BY <2>1, TheHead DEF WInv, At, task
  <2>3. EntitiesOf(Head(task.values)) \subseteq F
    BY <1>4, <2>1, <2>2, TailList DEF IsTask
  <2>4. Within(cur', F)
    BY <1>6, <2>1, <2>2, <2>3, AssignedWithin
  <2> QED
    BY <1>8, <2>1, <2>4
<1>22. CASE UnbindItem
  <2>1. At("unbind") /\ UNCHANGED <<todo, out>> /\ cur' = Drop(cur, {task.var})
    BY <1>22 DEF UnbindItem, Proceed
  <2>2. Within(cur', F)
    BY <1>6, <2>1 DEF Within, Drop, At
  <2> QED
    BY <1>8, <2>1, <2>2
<1>23. CASE OutOfIdentifiers \/ UnknownVariable
  BY <1>10, <1>23 DEF OutOfIdentifiers, UnknownVariable, Abandon
<1>24. CASE DeleteNodeItem
  BY <1>9, <1>10, <1>24 DEF DeleteNodeItem, At, Proceed, Abandon
<1>25. CASE \/ OpenPath \/ ReuseNode \/ Foreach \/ BodyClause \/ LastItem \/ SetProp \/ SetMap
            \/ SetLabel \/ RemoveLabelItem \/ DeleteRelItem \/ SkipItem
  BY <1>9, <1>25 DEF OpenPath, ReuseNode, Foreach, BodyClause, LastItem, SetProp, SetMap,
     SetLabel, RemoveLabelItem, DeleteRelItem, SkipItem, At, Proceed
<1>26. CASE UNCHANGED wvars
  BY <1>6, <1>8, <1>26 DEF wvars, queryVars, rowVars
<1> QED
  BY <1>11, <1>12, <1>13, <1>14, <1>15, <1>16, <1>18, <1>19, <1>20, <1>21, <1>22, <1>23,
     <1>24, <1>25, <1>26 DEF WNext, Step

\* The property of every entity, and where the query stands.
LEMMA StateStaysTyped == WInv /\ [WNext]_wvars => StateTyped'
<1> SUFFICES ASSUME WInv, [WNext]_wvars PROVE StateTyped'
  OBVIOUS
<1>1. StateTyped
  BY DEF WInv
<1>2. prop' \in [Id -> Val \union {Null}]
  <2>1. ASSUME NEW x, NEW v \in Val \union {Null}, prop' = [prop EXCEPT ![x] = v]
        PROVE  prop' \in [Id -> Val \union {Null}]
    BY <1>1, <2>1 DEF StateTyped
  <2>2. ASSUME NEW do, At(do) PROVE IsTask(task, Known) /\ task.do = do
    BY <2>2, TheHead DEF WInv, At, task
  <2>3. CASE MakeNode
    <3>1. Given(task.pat) \in Val \union {Null}
      BY <2>2, <2>3 DEF MakeNode, IsTask, CanCreateNode, Given
    <3> QED
      BY <2>1, <2>3, <3>1 DEF MakeNode
  <2>4. CASE MakeRel
    <3>1. Given(task.pat) \in Val \union {Null}
      BY <2>2, <2>4 DEF MakeRel, IsTask, CanCreateRel, Given
    <3> QED
      BY <2>1, <2>4, <3>1 DEF MakeRel
  <2>5. CASE SetProp
    <3>1. task.value \in Val \union {Null}
      BY <2>2, <2>5 DEF SetProp, IsTask, IsItem, ItemKinds, EntityItems
    <3> QED
      BY <2>1, <2>5, <3>1 DEF SetProp
  <2>6. CASE SetMap
    <3>1. task.value \in Val \union {Null}
      BY <2>2, <2>6 DEF SetMap, IsTask, IsItem, ItemKinds, NodeItems
    <3> QED
      BY <2>1, <2>6, <3>1 DEF SetMap
  <2>7. prop' = prop \/ MakeNode \/ MakeRel \/ SetProp \/ SetMap
    BY DEF WNext, Step, BeginQuery, BeginClause, EndQuery, ReadRow, TakeRow, FinishRow,
       FinishClause, OpenPath, ReuseNode, OutOfIdentifiers, Merge, Foreach,
       NextItem, BodyClause, LastItem, UnbindItem, SetLabel, RemoveLabelItem,
       DeleteNodeItem, DeleteRelItem, SkipItem, UnknownVariable, wvars
  <2> QED
    BY <1>1, <2>3, <2>4, <2>5, <2>6, <2>7 DEF StateTyped
<1>3. /\ mode' \in {"idle", "ready", "rows", "tasks"}
      /\ executed' \in 0..MaxClauses
      /\ clause' \in Clauses \union {NoClause}
  <2>1. ASSUME NEW c \in Clauses, BeginClause(c)
        PROVE  mode' = "rows" /\ executed' \in 0..MaxClauses /\ clause' = c
    BY <1>1, <2>1, MaxClausesAssumption DEF BeginClause, StateTyped
  <2>2. \/ UNCHANGED <<executed, clause>> /\ mode' \in {mode, "idle", "ready", "rows", "tasks"}
        \/ \E c \in Clauses : BeginClause(c)
    BY DEF WNext, Step, BeginQuery, EndQuery, ReadRow, TakeRow, FinishRow,
       FinishClause, OpenPath, ReuseNode, MakeNode, MakeRel, OutOfIdentifiers, Merge, Foreach,
       NextItem, BodyClause, LastItem, UnbindItem, SetProp, SetMap, SetLabel, RemoveLabelItem,
       DeleteNodeItem, DeleteRelItem, SkipItem, UnknownVariable, Proceed, Abandon, wvars,
       queryVars
  <2> QED
    BY <1>1, <2>1, <2>2 DEF StateTyped
<1> QED
  BY <1>2, <1>3 DEF StateTyped

LEMMA WInvariant == WSpec => []WInv
<1>1. WInv /\ [WNext]_wvars => WInv'
  <2> SUFFICES ASSUME WInv, [WNext]_wvars PROVE WInv'
    OBVIOUS
  <2>1. IInv'
    BY OnlyOperations, NextInv DEF WInv
  <2> QED
    BY <2>1, AgendaKept, ClauseKnownKept, RowsStayInTheirPlace, RowsStayKnown,
       KilledStaysMade, StateStaysTyped DEF WInv
<1> QED
  BY <1>1, WInitInv, PTL DEF WSpec

------------------------------------------------------------------------------
\* Whatever the query, and wherever an exception stops it, the executor changes
\* the store only by its operations: every step of the clause loop is one of
\* them or leaves the store alone.
THEOREM ExecutorKeepsToTheOperations == WSpec => OnlyThroughTheOperations
<1>1. WInit => Init
  BY DEF WInit
<1>2. WInv /\ [WNext]_wvars => [Next]_vars
  BY OnlyOperations
<1> QED
  BY <1>1, <1>2, WInvariant, PTL DEF WSpec, Spec, OnlyThroughTheOperations

\* In the middle of any query the indexes answer exactly: a pattern that is
\* matched while clauses write is matched against the graph as it is.
THEOREM IndexesExactDuringQueries == WSpec => [](AdjacencyExact /\ LabelIndexExact)
BY ExecutorKeepsToTheOperations, AdjacencyCorrect, LabelIndexCorrect, PTL
DEF OnlyThroughTheOperations

\* Nor does a query leave a relationship at a node that it deletes, or lose one
\* that it was not asked to delete.
THEOREM QueriesLoseNothingElse ==
  WSpec => DeleteLeavesNothingDangling /\ OnlyAskedForIsLost
BY ExecutorKeepsToTheOperations, NothingDanglesAfterDelete, NothingElseIsLost, PTL
DEF OnlyThroughTheOperations

\* No caller of the store can tell it from the abstract graph, not in the
\* middle of a query either.
THEOREM ExecutorRefinesAbstractGraph == WSpec => ImplementsAbstractGraph
BY ExecutorKeepsToTheOperations, RefinesAbstractGraph, PTL DEF OnlyThroughTheOperations

\* What a variable of a query holds is in the graph or was deleted in this query:
\* no pattern, whatever it looks like, gets at what another query has deleted.
THEOREM BindingsAreLive == WSpec => []BindingsLiveOrDeletedHere
<1>1. WInv => BindingsLiveOrDeletedHere
  <2> SUFFICES ASSUME WInv, NEW row \in Rows PROVE Within(row, Known)
    BY DEF BindingsLiveOrDeletedHere, Within, Known
  <2> QED
    BY DEF Rows, WInv, RowsKnown
<1> QED
  BY <1>1, WInvariant, PTL

\* The state of the clause loop, and what its variables stand for, is what it
\* should be.
THEOREM QueryTypeCorrect == WSpec => []QueryTypeOK
<1>1. WInv => QueryTypeOK
  <2> SUFFICES ASSUME WInv PROVE QueryTypeOK
    OBVIOUS
  <2>1. \A row \in Rows, x \in Id :
          x \in UNION {EntitiesOf(row[v]) : v \in DOMAIN row} => x < nextId
    <3> SUFFICES ASSUME NEW row \in Rows, NEW v \in DOMAIN row, NEW x \in EntitiesOf(row[v])
                 PROVE  x < nextId
      OBVIOUS
    <3>1. Within(row, Known)
      BY DEF Rows, WInv, RowsKnown
    <3>2. x \in 1..(nextId - 1) /\ nextId \in Nat
      BY <3>1, KnownMade DEF Within, WInv, IInv, TypeOK
    <3> QED
      BY <3>2
  <2>2. killed \subseteq Id
    BY KnownMade DEF Known
  <2> QED
    BY <2>1, <2>2 DEF QueryTypeOK, WInv, StateTyped, RowsInTheirPlace
<1> QED
  BY <1>1, WInvariant, PTL

\* A query makes a relationship with a dead end only where it has itself deleted
\* that end.
THEOREM DanglingTakesADeletion == WSpec => DanglingNeedsADeletionHere
<1> DEFINE Anchored ==
             \A r \in DOMAIN relationships' \ DOMAIN relationships :
               {relationships'[r].start, relationships'[r].end} \subseteq nodes \union killed
<1>1. WInv /\ [WNext]_wvars => [Anchored]_wvars
  <2> SUFFICES ASSUME WInv, WNext PROVE Anchored
    OBVIOUS
  <2>1. CASE MakeRel
    <3>1. task.do = "rel" /\ agenda # <<>>
      BY <2>1 DEF MakeRel, At, task
    <3>2. ends[1] \in KnownNode /\ ends[2] \in KnownNode
      BY <3>1, TheHead DEF WInv
    <3>3. PICK s \in KnownNode, e \in KnownNode : CreateRel(s, e, TypeToCreate(task.pat))
      BY <2>1, <3>2 DEF MakeRel
    <3>4. \A r \in DOMAIN relationships' \ DOMAIN relationships :
            relationships'[r].start = s /\ relationships'[r].end = e
      BY <3>3 DEF CreateRel
    <3> QED
      BY <3>3, <3>4 DEF KnownNode
  <2>2. CASE DOMAIN relationships' \subseteq DOMAIN relationships
    BY <2>2
  <2>3. CASE ~MakeRel
    <3>1. \/ UNCHANGED relationships
          \/ DeleteNodeItem \/ DeleteRelItem
      BY <2>3 DEF WNext, Step, BeginQuery, BeginClause, EndQuery, ReadRow, TakeRow, FinishRow,
         FinishClause, OpenPath, ReuseNode, MakeNode, OutOfIdentifiers, Merge, Foreach,
         NextItem, BodyClause, LastItem, UnbindItem, SetProp, SetMap, SetLabel,
         RemoveLabelItem, SkipItem, UnknownVariable, CreateNode, AddLabel, RemoveLabel, vars,
         graphVars
    <3>2. CASE DeleteNodeItem
      BY <2>2, <3>2 DEF DeleteNodeItem, DeleteNode, RemoveNode, RefuseNode, SkipNode, DeleteRels,
         Drop, graphVars
    <3>3. CASE DeleteRelItem
      BY <2>2, <3>3 DEF DeleteRelItem, DeleteRel, DeleteRels, Drop
    <3> QED
      BY <2>2, <3>1, <3>2, <3>3
  <2> QED
    BY <2>1, <2>3
<1> QED
  BY <1>1, WInvariant, PTL DEF WSpec, DanglingNeedsADeletionHere

------------------------------------------------------------------------------
\* A row whose variables of X hold nodes, and where a node that is held, in X or
\* not, is one of N.
Holding(row, X, N) ==
  \A x \in DOMAIN row : /\ x \in X => IsNode(row[x])
                        /\ IsNode(row[x]) => row[x].node \in N

HoldingRows(rows, X, N) == IsList(rows) /\ \A r \in Range(rows) : Holding(r, X, N)

HoldingMatches(matches, X, N) ==
  IsList(matches) /\ \A m \in Range(matches) : Holding(m.row, X, N) /\ m.at \in N

\* What a variable may be bound to without a row ceasing to be such a row.
MayHold(var, v, X, N) == /\ var \in X => IsNode(v)
                         /\ IsNode(v) => v.node \in N

LEMMA NodeMayBeHeld ==
  ASSUME NEW var, NEW X, NEW N, NEW n \in N
  PROVE  MayHold(var, NodeRef(n), X, N)
BY DEF MayHold, IsNode, NodeRef

LEMMA AssignedHolding ==
  ASSUME NEW X, NEW N, NEW row, Holding(row, X, N), NEW var, NEW v, MayHold(var, v, X, N)
  PROVE  Holding(Assign(row, var, v), X, N)
<1> SUFFICES ASSUME NEW x \in DOMAIN Assign(row, var, v)
             PROVE  MayHold(x, Assign(row, var, v)[x], X, N)
  BY DEF Holding, MayHold
<1>1. CASE x = var
  <2>1. Assign(row, var, v)[x] = v
    BY <1>1 DEF Assign
  <2> QED
    BY <1>1, <2>1
<1>2. CASE x # var
  <2>1. x \in DOMAIN row /\ Assign(row, var, v)[x] = row[x]
    BY <1>2 DEF Assign
  <2> QED
    BY <2>1 DEF Holding, MayHold
<1> QED
  BY <1>1, <1>2

LEMMA BindHolding ==
  ASSUME NEW X, NEW N, NEW row, Holding(row, X, N), NEW var, NEW v,
         var # NoVar => MayHold(var, v, X, N)
  PROVE  HoldingRows(Bind(row, var, v), X, N)
<1>1. CASE var # NoVar /\ ~Bound(row, var)
  <2>1. Bind(row, var, v) = <<Assign(row, var, v)>>
    BY <1>1 DEF Bind
  <2> QED
    BY <1>1, <2>1, SmallLists, AssignedHolding DEF HoldingRows
<1>2. CASE ~(var # NoVar /\ ~Bound(row, var))
  <2>1. Bind(row, var, v) \in {<<row>>, <<>>}
    BY <1>2 DEF Bind
  <2> QED
    BY <2>1, SmallLists DEF HoldingRows
<1> QED
  BY <1>1, <1>2

LEMMA HoldingRowsJoin ==
  ASSUME NEW X, NEW N, NEW s, IsList(s), NEW lists, lists = [i \in DOMAIN s |-> lists[i]],
         \A i \in DOMAIN s : HoldingRows(lists[i], X, N)
  PROVE  HoldingRows(FlattenSeq(lists), X, N)
<1>1. \A i \in DOMAIN s : IsList(lists[i])
  BY DEF HoldingRows
<1>2. /\ IsList(FlattenSeq(lists))
      /\ \A x : x \in Range(FlattenSeq(lists)) <=> \E i \in DOMAIN s : x \in Range(lists[i])
  BY <1>1, Mapped
<1> QED
  BY <1>2 DEF HoldingRows

LEMMA HoldingMatchesJoin ==
  ASSUME NEW X, NEW N, NEW s, IsList(s), NEW lists, lists = [i \in DOMAIN s |-> lists[i]],
         \A i \in DOMAIN s : HoldingMatches(lists[i], X, N)
  PROVE  HoldingMatches(FlattenSeq(lists), X, N)
<1>1. \A i \in DOMAIN s : IsList(lists[i])
  BY DEF HoldingMatches
<1>2. /\ IsList(FlattenSeq(lists))
      /\ \A x : x \in Range(FlattenSeq(lists)) <=> \E i \in DOMAIN s : x \in Range(lists[i])
  BY <1>1, Mapped
<1> QED
  BY <1>2 DEF HoldingMatches

LEMMA BindEachHolding ==
  ASSUME NEW X, NEW N, NEW rows, HoldingRows(rows, X, N), NEW var, NEW v,
         var # NoVar => MayHold(var, v, X, N)
  PROVE  HoldingRows(BindEach(rows, var, v), X, N)
<1> DEFINE lists == [i \in DOMAIN rows |-> Bind(rows[i], var, v)]
<1>1. \A i \in DOMAIN rows : HoldingRows(lists[i], X, N)
  BY BindHolding DEF HoldingRows, Range
<1>2. BindEach(rows, var, v) = FlattenSeq(lists)
  BY DEF BindEach, FlatMap
<1>3. lists = [i \in DOMAIN rows |-> lists[i]] /\ IsList(rows)
  BY DEF HoldingRows
<1> HIDE DEF lists
<1> QED
  BY <1>1, <1>2, <1>3, HoldingRowsJoin

LEMMA AtNodeHolding ==
  ASSUME NEW X, NEW N, NEW rows, HoldingRows(rows, X, N), NEW n \in N, NEW acc
  PROVE  HoldingMatches(AtNode(rows, n, acc), X, N)
<1> DEFINE f == [i \in DOMAIN rows |-> [row |-> rows[i], at |-> n, acc |-> acc]]
           lists == [i \in DOMAIN rows |-> <<f[i]>>]
<1>1. AtNode(rows, n, acc) = FlattenSeq(lists)
  BY DEF AtNode, Image, FlatMap
<1>2. \A i \in DOMAIN rows : Holding(f[i].row, X, N) /\ f[i].at \in N
  BY DEF HoldingRows, Range
<1> HIDE DEF f
<1>3. IsList(FlattenSeq(lists)) /\ Range(FlattenSeq(lists)) = {f[i] : i \in DOMAIN rows}
  BY Imaged DEF HoldingRows
<1> QED
  BY <1>1, <1>2, <1>3 DEF HoldingMatches

LEMMA StartsHolding ==
  ASSUME NEW X, NEW N, NEW G, IsGraph(G), G.nodes \subseteq N, NEW pat,
         NEW row, Holding(row, X, N)
  PROVE  HoldingMatches(StartsOf(G, pat, row), X, N)
<1> DEFINE s == CandidateNodes(G, pat, row)
           lists == [i \in DOMAIN s |-> AtNode(Bind(row, pat.var, NodeRef(s[i])), s[i], <<NodeRef(s[i])>>)]
<1>1. IsList(s) /\ Range(s) \subseteq N
  BY CandidateNodesList DEF Bound, Holding
<1>2. StartsOf(G, pat, row) = FlattenSeq(lists)
  BY DEF StartsOf, FlatMap
<1> HIDE DEF s
<1>3. ASSUME NEW i \in DOMAIN s PROVE HoldingMatches(lists[i], X, N)
  <2>1. s[i] \in N
    BY <1>1 DEF Range
  <2>2. HoldingRows(Bind(row, pat.var, NodeRef(s[i])), X, N)
    BY <2>1, NodeMayBeHeld, BindHolding
  <2> QED
    BY <2>1, <2>2, AtNodeHolding
<1>4. lists = [i \in DOMAIN s |-> lists[i]]
  OBVIOUS
<1> HIDE DEF lists
<1> QED
  BY <1>1, <1>2, <1>3, <1>4, HoldingMatchesJoin

LEMMA ExtendByHopHolding ==
  ASSUME NEW X, NEW N, NEW G, IsGraph(G), G.nodes \subseteq N, NEW rp, IsHop(rp),
         rp.var \notin X \ {NoVar}, NEW np,
         NEW m, Holding(m.row, X, N), m.at \in N
  PROVE  HoldingMatches(ExtendByHop(G, rp, np, m), X, N)
<1> DEFINE s == CandidateRels(G, rp, m.at)
           rows(c) == IF ~NodeMatches(G, np, c.at) THEN <<>>
                      ELSE BindEach(Bind(m.row, rp.var, c.value), np.var, NodeRef(c.at))
           lists == [i \in DOMAIN s |->
                       AtNode(rows(s[i]), s[i].at, m.acc \o <<s[i].value, NodeRef(s[i].at)>>)]
<1>1. IsList(s) /\ \A c \in Range(s) : ~IsNode(c.value) /\ c.at \in N
  BY CandidateRelsList
<1>2. ExtendByHop(G, rp, np, m) = FlattenSeq(lists)
  BY DEF ExtendByHop, FlatMap
<1> HIDE DEF s
<1>3. ASSUME NEW i \in DOMAIN s PROVE HoldingMatches(lists[i], X, N)
  <2>1. ~IsNode(s[i].value) /\ s[i].at \in N
    BY <1>1 DEF Range
  <2>2. HoldingRows(rows(s[i]), X, N)
    <3>1. HoldingRows(Bind(m.row, rp.var, s[i].value), X, N)
      BY <2>1, BindHolding DEF MayHold
    <3>2. HoldingRows(BindEach(Bind(m.row, rp.var, s[i].value), np.var, NodeRef(s[i].at)), X, N)
      BY <2>1, <3>1, NodeMayBeHeld, BindEachHolding
    <3>3. HoldingRows(<<>>, X, N)
      BY SmallLists DEF HoldingRows
    <3> QED
      BY <3>2, <3>3
  <2>3. lists[i] = AtNode(rows(s[i]), s[i].at, m.acc \o <<s[i].value, NodeRef(s[i].at)>>)
    OBVIOUS
  <2> HIDE DEF rows
  <2> QED
    BY <2>1, <2>2, <2>3, AtNodeHolding
<1>4. lists = [i \in DOMAIN s |-> lists[i]]
  OBVIOUS
<1> HIDE DEF lists
<1> QED
  BY <1>1, <1>2, <1>3, <1>4, HoldingMatchesJoin

\* A path that names nothing but nodes by the variables of X.
NamesNodes(path, X) ==
  /\ path.var \notin X \ {NoVar}
  /\ \A hop \in Range(path.hops) : hop.var \notin X \ {NoVar}

LEMMA MatchPathHolding ==
  ASSUME NEW X, NEW N, NEW G, IsGraph(G), G.nodes \subseteq N,
         NEW path, IsPathPattern(path), NamesNodes(path, X),
         NEW row, Holding(row, X, N)
  PROVE  HoldingRows(MatchPath(G, path, row), X, N)
<1> DEFINE partial == CHOOSE g : PartialUpTo(g, Len(path.hops), G, path, row)
           S == {k \in Nat : k \in 0..Len(path.hops) => HoldingMatches(partial[k], X, N)}
           n == Len(path.hops)
           last == partial[n]
           f == [i \in DOMAIN last |-> IF path.var = NoVar THEN last[i].row
                                       ELSE Assign(last[i].row, path.var, PathRef(last[i].acc))]
           lists == [i \in DOMAIN last |-> <<f[i]>>]
<1>1. MatchPath(G, path, row) = FlattenSeq(lists)
  BY DEF MatchPath, Image, FlatMap, PartialUpTo
<1>2. n \in Nat /\ \A k \in 1..n : IsHop(path.hops[k]) /\ path.hops[k].var \notin X \ {NoVar}
  <2>1. n \in Nat /\ \A k \in 1..n : path.hops[k] \in Range(path.hops)
    BY DEF IsPathPattern, Range
  <2> QED
    BY <2>1 DEF IsPathPattern, NamesNodes
<1>3. PartialUpTo(partial, n, G, path, row)
  BY <1>2, PartialExists
<1> HIDE DEF partial
<1>4. 0 \in S
  <2>1. partial[0] = StartsOf(G, path.nodes[1], row)
    <3>1. 0 \in 0..n
      BY <1>2
    <3> QED
      BY <1>3, <3>1 DEF PartialUpTo
  <2> QED
    BY <2>1, StartsHolding
<1>5. ASSUME NEW k \in Nat, k \in S PROVE k + 1 \in S
  <2> SUFFICES ASSUME k + 1 \in 0..n PROVE HoldingMatches(partial[k + 1], X, N)
    BY <1>5
  <2> DEFINE s == partial[k]
             more == [i \in DOMAIN s |->
                        ExtendByHop(G, path.hops[k + 1], path.nodes[(k + 1) + 1], s[i])]
  <2>1. HoldingMatches(s, X, N)
    BY <1>2, <1>5
  <2>2. partial[k + 1] = FlattenSeq(more)
    <3>1. k + 1 # 0 /\ (k + 1) - 1 = k
      OBVIOUS
    <3>2. partial[k + 1] = FlatMap(LAMBDA m : ExtendByHop(G, path.hops[k + 1],
                                                         path.nodes[(k + 1) + 1], m), partial[k])
      BY <1>2, <1>3, <3>1 DEF PartialUpTo
    <3> QED
      BY <3>2 DEF FlatMap
  <2> HIDE DEF s
  <2>3. ASSUME NEW i \in DOMAIN s PROVE HoldingMatches(more[i], X, N)
    <3>1. Holding(s[i].row, X, N) /\ s[i].at \in N
      BY <2>1 DEF HoldingMatches, Range
    <3>2. IsHop(path.hops[k + 1]) /\ path.hops[k + 1].var \notin X \ {NoVar}
      BY <1>2
    <3> QED
      BY <3>1, <3>2, ExtendByHopHolding
  <2>4. more = [i \in DOMAIN s |-> more[i]] /\ IsList(s)
    BY <2>1 DEF HoldingMatches
  <2> HIDE DEF more
  <2> QED
    BY <2>2, <2>3, <2>4, HoldingMatchesJoin
<1>6. HoldingMatches(last, X, N)
  <2>1. n \in S
    <3> HIDE DEF S, n
    <3> QED
      BY <1>2, <1>4, <1>5, Induction
  <2> QED
    BY <1>2, <2>1
<1> HIDE DEF last
<1>7. ASSUME NEW i \in DOMAIN last PROVE Holding(f[i], X, N)
  <2>1. Holding(last[i].row, X, N)
    BY <1>6 DEF HoldingMatches, Range
  <2>2. ~IsNode(PathRef(last[i].acc))
    BY DEF IsNode, PathRef
  <2>3. CASE path.var = NoVar
    BY <2>1, <2>3
  <2>4. CASE path.var # NoVar
    <3>1. MayHold(path.var, PathRef(last[i].acc), X, N)
      BY <2>2, <2>4 DEF MayHold, NamesNodes
    <3>2. Holding(Assign(last[i].row, path.var, PathRef(last[i].acc)), X, N)
      BY <2>1, <3>1, AssignedHolding
    <3> QED
      BY <2>4, <3>2
  <2> QED
    BY <2>3, <2>4
<1> HIDE DEF f
<1>8. IsList(FlattenSeq(lists)) /\ Range(FlattenSeq(lists)) = {f[i] : i \in DOMAIN last}
  BY <1>6, Imaged DEF HoldingMatches
<1> QED
  BY <1>1, <1>7, <1>8 DEF HoldingRows

LEMMA MatchPatternHolding ==
  ASSUME NEW X, NEW N, NEW G, IsGraph(G), G.nodes \subseteq N,
         NEW pattern, IsPattern(pattern), \A path \in Range(pattern) : NamesNodes(path, X),
         NEW row, Holding(row, X, N)
  PROVE  HoldingRows(MatchPattern(G, pattern, row), X, N)
<1> DEFINE after == CHOOSE g : RowsUpTo(g, Len(pattern), G, pattern, row)
           n == Len(pattern)
           S == {k \in Nat : k \in 0..n => HoldingRows(after[k], X, N)}
<1>1. MatchPattern(G, pattern, row) = after[n]
  BY DEF MatchPattern, RowsUpTo
<1>2. n \in Nat /\ \A k \in 1..n : IsPathPattern(pattern[k]) /\ NamesNodes(pattern[k], X)
  BY DEF IsPattern, Range
<1>3. RowsUpTo(after, n, G, pattern, row)
  BY <1>2, RowsExist
<1> HIDE DEF after
<1>4. 0 \in S
  <2>1. after[0] = <<row>>
    <3>1. 0 \in 0..n
      BY <1>2
    <3> QED
      BY <1>3, <3>1 DEF RowsUpTo
  <2> QED
    BY <2>1, SmallLists DEF HoldingRows
<1>5. ASSUME NEW k \in Nat, k \in S PROVE k + 1 \in S
  <2> SUFFICES ASSUME k + 1 \in 0..n PROVE HoldingRows(after[k + 1], X, N)
    BY <1>5
  <2> DEFINE s == after[k]
             more == [i \in DOMAIN s |-> MatchPath(G, pattern[k + 1], s[i])]
  <2>1. HoldingRows(s, X, N)
    BY <1>2, <1>5
  <2>2. after[k + 1] = FlattenSeq(more)
    <3>1. k + 1 # 0 /\ (k + 1) - 1 = k
      OBVIOUS
    <3>2. after[k + 1] = FlatMap(LAMBDA r : MatchPath(G, pattern[k + 1], r), after[k])
      BY <1>2, <1>3, <3>1 DEF RowsUpTo
    <3> QED
      BY <3>2 DEF FlatMap
  <2> HIDE DEF s
  <2>3. ASSUME NEW i \in DOMAIN s PROVE HoldingRows(more[i], X, N)
    <3>1. Holding(s[i], X, N)
      BY <2>1 DEF HoldingRows, Range
    <3>2. IsPathPattern(pattern[k + 1]) /\ NamesNodes(pattern[k + 1], X)
      BY <1>2
    <3> QED
      BY <3>1, <3>2, MatchPathHolding
  <2>4. more = [i \in DOMAIN s |-> more[i]] /\ IsList(s)
    BY <2>1 DEF HoldingRows
  <2> HIDE DEF more
  <2> QED
    BY <2>2, <2>3, <2>4, HoldingRowsJoin
<1>6. n \in S
  <2> HIDE DEF S, n
  <2> QED
    BY <1>2, <1>4, <1>5, Induction
<1> QED
  BY <1>1, <1>2, <1>6

\* The nulls of OPTIONAL MATCH are for variables outside X.
LEMMA MatchRowHolding ==
  ASSUME NEW X, NEW N, NEW G, IsGraph(G), G.nodes \subseteq N,
         NEW c, IsPattern(c.pattern), \A path \in Range(c.pattern) : NamesNodes(path, X),
         c.optional => PatternVars(c.pattern) \intersect X = {},
         NEW row, Holding(row, X, N)
  PROVE  HoldingRows(MatchRow(G, c, row), X, N)
<1> DEFINE found == MatchPattern(G, c.pattern, row)
           T == {r \in Range(found) : Holds(G, c.where, r)}
           lists == [i \in DOMAIN found |-> IF found[i] \in T THEN <<found[i]>> ELSE <<>>]
           kept == FlattenSeq(lists)
           new == PatternVars(c.pattern) \ DOMAIN row
           nulls == [x \in DOMAIN row \union new |-> IF x \in new THEN NullRef ELSE row[x]]
<1>1. HoldingRows(found, X, N)
  BY MatchPatternHolding
<1> HIDE DEF found
<1>2. \A i \in DOMAIN found : found[i] \in T <=> Holds(G, c.where, found[i])
  BY DEF Range
<1>3. lists = [i \in DOMAIN found |-> IF Holds(G, c.where, found[i]) THEN <<found[i]>> ELSE <<>>]
  BY <1>2
<1>4. kept = Select(found, LAMBDA r : Holds(G, c.where, r))
  BY <1>3 DEF Select, FlatMap
<1>5. IsList(kept) /\ Range(kept) = Range(found) \intersect T
  <2> HIDE DEF T
  <2> QED
    BY <1>1, Selected DEF HoldingRows
<1>6. HoldingRows(kept, X, N)
  BY <1>1, <1>5 DEF HoldingRows
<1> HIDE DEF T, lists, kept
<1>7. MatchRow(G, c, row) = IF kept = <<>> /\ c.optional THEN <<nulls>> ELSE kept
  BY <1>4 DEF MatchRow, found
<1>8. c.optional => Holding(nulls, X, N)
  <2> SUFFICES ASSUME c.optional, NEW x \in DOMAIN nulls PROVE MayHold(x, nulls[x], X, N)
    BY DEF Holding, MayHold
  <2>1. CASE x \in new
    <3>1. nulls[x] = NullRef /\ x \notin X
      BY <2>1
    <3>2. ~IsNode(NullRef)
      BY DEF IsNode, NullRef
    <3> QED
      BY <3>1, <3>2 DEF MayHold
  <2>2. CASE x \notin new
    <3>1. x \in DOMAIN row /\ nulls[x] = row[x]
      BY <2>2
    <3> QED
      BY <3>1 DEF Holding, MayHold
  <2> QED
    BY <2>1, <2>2
<1> HIDE DEF nulls
<1> QED
  BY <1>6, <1>7, <1>8, SmallLists DEF HoldingRows

------------------------------------------------------------------------------
\* A pattern of one node finds every node that is as it says, when its variable
\* is free.
LEMMA JoinNotEmpty ==
  ASSUME NEW s, IsList(s), NEW lists, lists = [i \in DOMAIN s |-> lists[i]],
         \A i \in DOMAIN s : IsList(lists[i]), NEW j \in DOMAIN s, lists[j] # <<>>
  PROVE  FlattenSeq(lists) # <<>>
<1>1. \A x : x \in Range(FlattenSeq(lists)) <=> \E i \in DOMAIN s : x \in Range(lists[i])
  BY Mapped
<1>2. Head(lists[j]) \in Range(lists[j])
  BY TailList
<1>3. Range(FlattenSeq(lists)) # {}
  BY <1>1, <1>2
<1> QED
  BY <1>3, SmallLists

LEMMA MatchPathOfNode ==
  ASSUME NEW G, NEW path, Len(path.hops) = 0, NEW row
  PROVE  LET starts == StartsOf(G, path.nodes[1], row)
         IN  MatchPath(G, path, row) =
               FlattenSeq([i \in DOMAIN starts |->
                             <<IF path.var = NoVar THEN starts[i].row
                               ELSE Assign(starts[i].row, path.var, PathRef(starts[i].acc))>>])
<1> DEFINE partial == CHOOSE g : PartialUpTo(g, Len(path.hops), G, path, row)
           last == partial[Len(path.hops)]
           reached == [i \in DOMAIN last |->
                         <<IF path.var = NoVar THEN last[i].row
                           ELSE Assign(last[i].row, path.var, PathRef(last[i].acc))>>]
<1>1. MatchPath(G, path, row) = FlattenSeq(reached)
  BY DEF MatchPath, Image, FlatMap, PartialUpTo
<1>2. PartialUpTo(partial, 0, G, path, row)
  BY PartialExists
<1>3. last = StartsOf(G, path.nodes[1], row)
  <2> HIDE DEF partial
  <2> QED
    BY <1>2 DEF PartialUpTo
<1> HIDE DEF partial, last
<1> QED
  BY <1>1, <1>3

LEMMA LoneNodeFound ==
  ASSUME NEW G, IsGraph(G), NEW pattern, IsPattern(pattern), Len(pattern) = 1,
         pattern[1].hops = <<>>, NEW row, ~Bound(row, pattern[1].nodes[1].var),
         NEW n \in G.nodes, NodeMatches(G, pattern[1].nodes[1], n)
  PROVE  MatchPattern(G, pattern, row) # <<>>
<1> DEFINE path == pattern[1]
           pat  == path.nodes[1]
           N == G.nodes \union {row[x].node : x \in DOMAIN row}
           ns == CandidateNodes(G, pat, row)
           at == [i \in DOMAIN ns |->
                    AtNode(Bind(row, pat.var, NodeRef(ns[i])), ns[i], <<NodeRef(ns[i])>>)]
           starts == StartsOf(G, pat, row)
           f == [i \in DOMAIN starts |-> IF path.var = NoVar THEN starts[i].row
                                         ELSE Assign(starts[i].row, path.var, PathRef(starts[i].acc))]
           rows == [i \in DOMAIN starts |-> <<f[i]>>]
           found == MatchPath(G, path, row)
<1>1. Holding(row, {}, N) /\ G.nodes \subseteq N
  BY DEF Holding
<1>2. /\ IsPathPattern(path) /\ NamesNodes(path, {})
      /\ Len(path.hops) = 0
  BY DEF IsPattern, Range, NamesNodes
<1>3. HoldingMatches(starts, {}, N) /\ HoldingRows(found, {}, N)
  BY <1>1, <1>2, StartsHolding, MatchPathHolding
<1> HIDE DEF N
<1>4. IsList(ns) /\ n \in Range(ns)
  <2> DEFINE s == InOrder(G.nodes)
             T == {x \in Range(s) : NodeMatches(G, pat, x)}
             lists == [i \in DOMAIN s |-> IF s[i] \in T THEN <<s[i]>> ELSE <<>>]
  <2>1. IsList(s) /\ Range(s) = G.nodes
    BY InOrderList, GraphIsNumbered
  <2>2. \A i \in DOMAIN s : s[i] \in T <=> NodeMatches(G, pat, s[i])
    BY DEF Range
  <2>3. lists = [i \in DOMAIN s |-> IF NodeMatches(G, pat, s[i]) THEN <<s[i]>> ELSE <<>>]
    BY <2>2
  <2>4. ns = FlattenSeq(lists)
    BY <2>3 DEF CandidateNodes, Select, FlatMap
  <2>5. n \in T
    BY <2>1
  <2>6. IsList(FlattenSeq(lists)) /\ Range(FlattenSeq(lists)) = Range(s) \intersect T
    <3> HIDE DEF T, s
    <3> QED
      BY <2>1, Selected
  <2> HIDE DEF ns, T, s, lists
  <2> QED
    BY <2>1, <2>4, <2>5, <2>6
<1>5. starts # <<>>
  <2>1. starts = FlattenSeq(at)
    BY DEF StartsOf, FlatMap
  <2> HIDE DEF ns
  <2>2. ASSUME NEW i \in DOMAIN ns PROVE IsList(at[i]) /\ at[i] # <<>>
    <3> DEFINE bound == Bind(row, pat.var, NodeRef(ns[i]))
               g == [k \in DOMAIN bound |-> [row |-> bound[k], at |-> ns[i],
                                             acc |-> <<NodeRef(ns[i])>>]]
               each == [k \in DOMAIN bound |-> <<g[k]>>]
    <3>1. \E r : bound = <<r>>
      BY DEF Bind
    <3>2. IsList(bound) /\ 1 \in DOMAIN bound
      BY <3>1, SmallLists
    <3>3. at[i] = FlattenSeq(each)
      BY DEF AtNode, Image, FlatMap
    <3> HIDE DEF bound, g, at
    <3>4. \A k \in DOMAIN bound : IsList(each[k]) /\ each[k] # <<>>
      BY SmallLists
    <3>5. each = [k \in DOMAIN bound |-> each[k]]
      OBVIOUS
    <3>6. IsList(FlattenSeq(each))
      BY <3>2, <3>4, <3>5, Mapped
    <3>7. FlattenSeq(each) # <<>>
      BY <3>2, <3>4, <3>5, JoinNotEmpty
    <3> QED
      BY <3>3, <3>6, <3>7
  <2>3. at = [i \in DOMAIN ns |-> at[i]]
    OBVIOUS
  <2>4. \E i \in DOMAIN ns : TRUE
    BY <1>4 DEF Range
  <2> HIDE DEF at, starts
  <2> QED
    BY <1>4, <2>1, <2>2, <2>3, <2>4, JoinNotEmpty
<1>6. found # <<>>
  <2>1. found = FlattenSeq(rows)
    BY <1>2, MatchPathOfNode
  <2>2. \A i \in DOMAIN starts : IsList(rows[i]) /\ rows[i] # <<>>
    BY SmallLists
  <2>3. IsList(starts) /\ \E i \in DOMAIN starts : TRUE
    <3>1. IsList(starts)
      BY <1>3 DEF HoldingMatches
    <3>2. Head(starts) \in Range(starts)
      BY <1>5, <3>1, TailList
    <3> QED
      BY <3>1, <3>2 DEF Range
  <2>4. rows = [i \in DOMAIN starts |-> rows[i]]
    OBVIOUS
  <2> HIDE DEF rows, starts, found
  <2> QED
    BY <2>1, <2>2, <2>3, <2>4, JoinNotEmpty
<1>7. MatchPattern(G, pattern, row) # <<>>
  <2> DEFINE after == CHOOSE g : RowsUpTo(g, 1, G, pattern, row)
             lists == [i \in DOMAIN <<row>> |-> MatchPath(G, path, <<row>>[i])]
  <2>1. MatchPattern(G, pattern, row) = after[1]
    BY DEF MatchPattern, RowsUpTo
  <2>2. RowsUpTo(after, 1, G, pattern, row)
    BY RowsExist
  <2> HIDE DEF after
  <2>3. after[0] = <<row>>
    BY <2>2 DEF RowsUpTo
  <2>4. after[1] = FlattenSeq(lists)
    <3>1. after[1] = FlatMap(LAMBDA r : MatchPath(G, path, r), after[1 - 1])
      BY <2>2 DEF RowsUpTo
    <3>2. 1 - 1 = 0
      OBVIOUS
    <3> QED
      BY <2>3, <3>1, <3>2 DEF FlatMap
  <2>5. DOMAIN <<row>> = {1} /\ <<row>>[1] = row
    OBVIOUS
  <2>6. lists = [i \in DOMAIN <<row>> |-> lists[i]] /\ lists[1] = found
    BY <2>5
  <2>7. \A i \in DOMAIN <<row>> : IsList(lists[i])
    BY <1>3, <2>5, <2>6 DEF HoldingRows
  <2> HIDE DEF lists, found
  <2>8. FlattenSeq(lists) # <<>>
    BY <1>6, <2>5, <2>6, <2>7, SmallLists, JoinNotEmpty
  <2> QED
    BY <2>1, <2>4, <2>8
<1> QED
  BY <1>7

------------------------------------------------------------------------------
\* MERGE makes no duplicate.  A task that makes no node of the kind, and binds
\* nothing but nodes of N to the variables by which such nodes are asked for.
Quiet(t, l, v, N) ==
  /\ t.do = "node" => ~Makes(t.pat, l, v)
  /\ t.do = "rel" => t.pat.var \notin MergedVars(l, v) \ {NoVar}
  /\ t.do = "path" => /\ \A pat \in Range(t.of.nodes) : ~Makes(pat, l, v)
                      /\ NamesNodes(t.of, MergedVars(l, v))
  /\ t.do = "each" => /\ t.var \notin MergedVars(l, v)
                      /\ \A x \in Range(t.values) : IsNode(x) => x.node \in N
  /\ ~Gives(t, l, v)

QuietList(s, l, v, N) == IsList(s) /\ \A t \in Range(s) : Quiet(t, l, v, N)

\* The node that a task is about to create, when it is a node by itself.
LoneNode(t) == IF t.do = "node" THEN t.pat ELSE t.of.nodes[1]

\* MERGE has found nothing: there is no node of the kind, or the row holds the
\* node that is going to be taken.
Opening(t, l, v) ==
  /\ t.do \in {"node", "path"}
  /\ t.do = "path" => t.of.hops = <<>>
  /\ OfKind(l, v) = {} \/ HoldsNode(cur, LoneNode(t).var)

AtMostOneOfKind(l, v) == \A m, n \in OfKind(l, v) : m = n

KindRows(l, v) ==
  /\ \A row \in Range(todo) \union Range(out) : Holding(row, MergedVars(l, v), DOMAIN labels)
  /\ mode = "tasks" => Holding(cur, MergedVars(l, v), DOMAIN labels)

KindTasks(l, v) ==
  agenda # <<>> => /\ Quiet(task, l, v, DOMAIN labels) \/ Opening(task, l, v)
                   /\ \A t \in Range(Tail(agenda)) : Quiet(t, l, v, DOMAIN labels)

KindInv(l, v) == WInv /\ AtMostOneOfKind(l, v) /\ KindRows(l, v) /\ KindTasks(l, v)

------------------------------------------------------------------------------
\* What the alphabet of clauses says of the tasks.
LEMMA NamesOfClauses ==
  ASSUME NEW l, NEW v, OnlyMergeMakes(l, v), NEW c \in Clauses
  PROVE  /\ c.op \in {"CREATE", "MERGE", "MATCH"} =>
              \A path \in Range(c.pattern) : NamesNodes(path, MergedVars(l, v))
         /\ c.op = "MATCH" /\ c.optional => PatternVars(c.pattern) \intersect MergedVars(l, v) = {}
         /\ c.op \in {"UNWIND", "FOREACH"} => c.var \notin MergedVars(l, v)
<1> DEFINE X == MergedVars(l, v)
<1>1. OtherVars(c) \intersect X = {}
  BY DEF OnlyMergeMakes
<1> HIDE DEF X
<1>2. CASE c.op \in {"UNWIND", "FOREACH"}
  <2>1. OtherVars(c) = {c.var}
    BY <1>2 DEF OtherVars
  <2> QED
    BY <1>1, <1>2, <2>1 DEF X
<1>3. CASE c.op \in {"CREATE", "MERGE", "MATCH"}
  <2> DEFINE named == UNION {{path.var} \union {hop.var : hop \in Range(path.hops)} :
                               path \in Range(c.pattern)}
  <2>1. named \ {NoVar} \subseteq OtherVars(c)
    BY <1>3 DEF OtherVars
  <2>2. c.op = "MATCH" /\ c.optional => PatternVars(c.pattern) \subseteq OtherVars(c)
    BY <1>3 DEF OtherVars
  <2>3. \A path \in Range(c.pattern) :
          path.var \in named /\ \A hop \in Range(path.hops) : hop.var \in named
    OBVIOUS
  <2> HIDE DEF named
  <2> QED
    BY <1>1, <1>3, <2>1, <2>2, <2>3 DEF NamesNodes, X
<1> QED
  BY <1>2, <1>3

LEMMA QuietKept ==
  ASSUME NEW l, NEW v, NEW N, NEW M, N \subseteq M, NEW t, Quiet(t, l, v, N)
  PROVE  Quiet(t, l, v, M)
BY DEF Quiet

LEMMA EmptyQuiet ==
  ASSUME NEW l, NEW v, NEW N
  PROVE  QuietList(<<>>, l, v, N)
BY SmallLists DEF QuietList

LEMMA ConcatQuiet ==
  ASSUME NEW l, NEW v, NEW N, NEW s, NEW t, QuietList(s, l, v, N), QuietList(t, l, v, N)
  PROVE  QuietList(s \o t, l, v, N)
BY ConcatList DEF QuietList

LEMMA ItemsQuiet ==
  ASSUME NEW l, NEW v, NEW N, NEW items, AreItems(items),
         \A t \in Range(items) : ~Gives(t, l, v)
  PROVE  QuietList(items, l, v, N)
BY DEF QuietList, IsList, AreItems, IsItem, Quiet

LEMMA CreateTasksQuiet ==
  ASSUME NEW l, NEW v, NEW N, NEW pattern, IsPattern(pattern),
         \A pat \in NodesOf(pattern) : ~Makes(pat, l, v),
         \A path \in Range(pattern) : NamesNodes(path, MergedVars(l, v))
  PROVE  QuietList(CreateTasks(pattern), l, v, N)
<1> DEFINE s == CreateTasks(pattern)
<1>1. Len(pattern) \in Nat /\ DOMAIN pattern = 1..Len(pattern)
  BY DEF IsPattern
<1>2. s = [i \in 1..Len(pattern) |-> s[i]] /\ DOMAIN s = DOMAIN pattern
  BY <1>1 DEF CreateTasks
<1>3. IsList(s)
  BY <1>1, <1>2, FunctionIsList
<1>4. ASSUME NEW t \in Range(s) PROVE Quiet(t, l, v, N)
  <2>1. PICK i \in DOMAIN pattern : t = [do |-> "path", of |-> pattern[i]]
    BY DEF Range, CreateTasks
  <2>2. pattern[i] \in Range(pattern)
    BY DEF Range
  <2>3. \A pat \in Range(pattern[i].nodes) : ~Makes(pat, l, v)
    BY <2>2 DEF NodesOf
  <2>4. t.do = "path" /\ t.of = pattern[i]
    BY <2>1
  <2> QED
    BY <2>2, <2>3, <2>4 DEF Quiet, Gives
<1> QED
  BY <1>3, <1>4 DEF QuietList

LEMMA SingleQuiet ==
  ASSUME NEW l, NEW v, NEW N, NEW t, Quiet(t, l, v, N)
  PROVE  QuietList(<<t>>, l, v, N)
BY SmallLists DEF QuietList

LEMMA TasksQuiet ==
  ASSUME NEW l, NEW v, OnlyMergeMakes(l, v), NEW N, NEW c \in UpdatingClauses
  PROVE  QuietList(Tasks(c), l, v, N)
<1>1. c \in Clauses /\ c.op \in Updating /\ IsClause(c)
  BY ClausesAssumption DEF UpdatingClauses
<1>2. CASE c.op = "CREATE"
  <2>1. \A pat \in NodesOf(c.pattern) : ~Makes(pat, l, v)
    BY <1>1, <1>2 DEF OnlyMergeMakes, MergesOne
  <2> QED
    BY <1>1, <1>2, <2>1, NamesOfClauses, CreateTasksQuiet DEF Tasks, IsClause
<1>3. CASE c.op \in {"MERGE", "FOREACH"}
  <2>1. \E t : Tasks(c) = <<t>> /\ t.do \in {"merge", "foreach"}
    <3>1. CASE c.op = "MERGE"
      <4>1. Tasks(c) = <<[do |-> "merge", of |-> c]>>
        BY <3>1 DEF Tasks
      <4> QED
        BY <4>1
    <3>2. CASE c.op = "FOREACH"
      <4>1. Tasks(c) = <<[do |-> "foreach", of |-> c]>>
        BY <3>2 DEF Tasks
      <4> QED
        BY <4>1
    <3> QED
      BY <1>3, <3>1, <3>2
  <2> QED
    BY <2>1, SingleQuiet DEF Quiet, Gives
<1>4. CASE c.op \in {"SET", "DELETE", "REMOVE"}
  <2>1. \A t \in Range(c.items) : ~Gives(t, l, v)
    BY <1>1, <1>4 DEF OnlyMergeMakes, ItemsOf
  <2> QED
    BY <1>1, <1>4, <2>1, ItemsQuiet DEF Tasks, IsClause
<1> QED
  BY <1>1, <1>2, <1>3, <1>4 DEF Updating

LEMMA PathTasksQuiet ==
  ASSUME NEW l, NEW v, NEW N, NEW path, IsPathPattern(path),
         \A pat \in Range(path.nodes) : ~Makes(pat, l, v),
         NamesNodes(path, MergedVars(l, v))
  PROVE  QuietList(PathTasks(path), l, v, N)
<1> SUFFICES ASSUME NEW s, s = PathTasks(path) PROVE QuietList(s, l, v, N)
  OBVIOUS
<1> DEFINE n == 2 * Len(path.hops) + 1
<1>1. /\ Len(path.hops) \in Nat /\ n \in Nat
      /\ \A i \in 1..(Len(path.hops) + 1) : path.nodes[i] \in Range(path.nodes)
      /\ \A i \in 1..Len(path.hops) : path.hops[i] \in Range(path.hops)
  BY DEF IsPathPattern, Range
<1>2. s = [i \in 1..n |-> s[i]] /\ DOMAIN s = 1..n
  BY DEF PathTasks
<1>3. IsList(s)
  BY <1>1, <1>2, FunctionIsList
<1>4. \A i \in 1..n :
        s[i] = IF i = 1          THEN [do |-> "node", pat |-> path.nodes[1]]
               ELSE IF i % 2 = 0 THEN [do |-> "node", pat |-> path.nodes[i \div 2 + 1]]
               ELSE                   [do |-> "rel", pat |-> path.hops[i \div 2]]
  BY DEF PathTasks
<1>5. ASSUME NEW pat \in Range(path.nodes) PROVE Quiet([do |-> "node", pat |-> pat], l, v, N)
  BY DEF Quiet, Gives
<1>6. ASSUME NEW pat \in Range(path.hops) PROVE Quiet([do |-> "rel", pat |-> pat], l, v, N)
  BY DEF Quiet, Gives, NamesNodes
<1>7. ASSUME NEW i \in 1..n PROVE Quiet(s[i], l, v, N)
  <2>1. CASE i = 1
    <3>1. path.nodes[1] \in Range(path.nodes)
      BY <1>1
    <3> QED
      BY <1>4, <1>5, <2>1, <3>1
  <2>2. CASE i # 1 /\ i % 2 = 0
    <3>1. i \div 2 + 1 \in 1..(Len(path.hops) + 1)
      BY <1>1, <2>2
    <3>2. path.nodes[i \div 2 + 1] \in Range(path.nodes)
      BY <1>1, <3>1
    <3> QED
      BY <1>4, <1>5, <2>2, <3>2
  <2>3. CASE i # 1 /\ i % 2 # 0
    <3>1. i \div 2 \in 1..Len(path.hops)
      BY <1>1, <2>3
    <3>2. path.hops[i \div 2] \in Range(path.hops)
      BY <1>1, <3>1
    <3> QED
      BY <1>4, <1>6, <2>3, <3>2
  <2> QED
    BY <2>1, <2>2, <2>3
<1> QED
  BY <1>2, <1>3, <1>7 DEF QuietList, Range

------------------------------------------------------------------------------
\* Node objects stay.
LEMMA NodeObjectsStay ==
  ASSUME [WNext]_wvars
  PROVE  DOMAIN labels \subseteq DOMAIN labels'
<1>1. CASE UNCHANGED labels
  BY <1>1
<1>2. CASE MakeNode
  BY <1>2 DEF MakeNode, CreateNode
<1>3. CASE SetLabel \/ RemoveLabelItem
  BY <1>3 DEF SetLabel, AddLabel, RemoveLabelItem, RemoveLabel
<1>4. UNCHANGED labels \/ MakeNode \/ SetLabel \/ RemoveLabelItem
  BY DEF WNext, Step, BeginQuery, BeginClause, EndQuery, ReadRow, TakeRow, FinishRow,
       FinishClause, OpenPath, ReuseNode, MakeRel, CreateRel, OutOfIdentifiers, Merge, Foreach,
       NextItem, BodyClause, LastItem, UnbindItem, SetProp, SetMap, DeleteNodeItem, DeleteNode,
       RemoveNode, RefuseNode, SkipNode, DeleteRelItem, DeleteRel,
       SkipItem, UnknownVariable, vars, graphVars, wvars
<1> QED
  BY <1>1, <1>2, <1>3, <1>4

LEMMA KindTasksQuiet ==
  ASSUME NEW l, NEW v, KindInv(l, v), agenda # <<>>
  PROVE  /\ Quiet(task, l, v, DOMAIN labels) \/ Opening(task, l, v)
         /\ task.do \notin {"node", "path"} => Quiet(task, l, v, DOMAIN labels)
         /\ QuietList(Tail(agenda), l, v, DOMAIN labels)
<1>1. /\ Quiet(task, l, v, DOMAIN labels) \/ Opening(task, l, v)
      /\ \A t \in Range(Tail(agenda)) : Quiet(t, l, v, DOMAIN labels)
  BY DEF KindInv, KindTasks
<1>2. IsList(Tail(agenda))
  BY TailList DEF KindInv, WInv, AgendaOK
<1> QED
  BY <1>1, <1>2 DEF Opening, QuietList

\* No step makes a second node of the kind.
LEMMA KindStaysOne ==
  ASSUME NEW l, NEW v, OnlyMergeMakes(l, v), KindInv(l, v), [WNext]_wvars
  PROVE  AtMostOneOfKind(l, v)'
<1>1. AtMostOneOfKind(l, v)
  BY DEF KindInv
<1>2. ASSUME OfKind(l, v)' \subseteq OfKind(l, v) PROVE AtMostOneOfKind(l, v)'
  BY <1>1, <1>2 DEF AtMostOneOfKind
<1>3. CASE UNCHANGED <<nodes, labels, prop>>
  BY <1>2, <1>3 DEF OfKind
<1>4. ASSUME NEW do, At(do)
      PROVE  /\ task.do = do
             /\ Quiet(task, l, v, DOMAIN labels) \/ Opening(task, l, v)
             /\ do \notin {"node", "path"} => ~Gives(task, l, v)
  BY <1>4, KindTasksQuiet DEF At, task, Quiet
<1>5. /\ nodes \subseteq DOMAIN labels /\ nextId \notin DOMAIN labels
      /\ DOMAIN labels \subseteq Id /\ DOMAIN prop = Id
  <2>1. \A x \in DOMAIN labels : x < nextId
    BY DEF KindInv, WInv, IInv, IdentifiersFresh
  <2>2. nextId \notin DOMAIN labels
    <3>1. nextId \in Nat
      BY DEF KindInv, WInv, IInv, TypeOK
    <3> QED
      BY <2>1, <3>1
  <2> QED
    BY <2>2 DEF KindInv, WInv, IInv, TypeOK, StateTyped
<1>6. CASE MakeNode
  <2>1. /\ At("node") /\ ~HoldsNode(cur, task.pat.var)
        /\ nextId \in Id /\ nodes' = nodes \union {nextId}
        /\ labels' = [n \in DOMAIN labels \union {nextId} |->
                        IF n = nextId THEN task.pat.labels ELSE labels[n]]
        /\ prop' = [prop EXCEPT ![nextId] = Given(task.pat)]
    BY <1>6 DEF MakeNode, CreateNode
  <2>2. \A n \in nodes : labels'[n] = labels[n] /\ prop'[n] = prop[n]
    BY <1>5, <2>1
  <2>3. labels'[nextId] = task.pat.labels /\ prop'[nextId] = Given(task.pat)
    BY <1>5, <2>1
  <2>4. OfKind(l, v)' \subseteq OfKind(l, v) \union {nextId}
    BY <2>1, <2>2 DEF OfKind
  <2>5. CASE Quiet(task, l, v, DOMAIN labels)
    <3>1. ~Makes(task.pat, l, v)
      BY <1>4, <2>1, <2>5 DEF Quiet
    <3>2. nextId \notin OfKind(l, v)'
      BY <2>3, <3>1 DEF OfKind, Makes
    <3> QED
      BY <1>2, <2>4, <3>2
  <2>6. CASE Opening(task, l, v)
    <3>1. LoneNode(task) = task.pat
      BY <1>4, <2>1 DEF LoneNode
    <3>2. OfKind(l, v) = {}
      BY <2>1, <2>6, <3>1 DEF Opening
    <3> QED
      BY <2>4, <3>2 DEF AtMostOneOfKind
  <2> QED
    BY <1>4, <2>1, <2>5, <2>6
<1>7. CASE MakeRel
  <2>1. UNCHANGED <<nodes, labels>> /\ prop' = [prop EXCEPT ![nextId] = Given(task.pat)]
    <3>1. \E s, e, t : CreateRel(s, e, t)
      BY <1>7 DEF MakeRel
    <3> QED
      BY <1>7, <3>1 DEF MakeRel, CreateRel
  <2>2. \A n \in nodes : prop'[n] = prop[n]
    BY <1>5, <2>1
  <2> QED
    BY <1>2, <2>1, <2>2 DEF OfKind
<1>8. CASE SetProp \/ SetMap
  <2>1. PICK x : prop' = [prop EXCEPT ![x] = task.value]
    BY <1>8 DEF SetProp, SetMap
  <2>2. task.value # v
    BY <1>4, <1>8 DEF SetProp, SetMap, Gives
  <2>3. \A n \in nodes : prop'[n] = v => prop[n] = v
    BY <1>5, <2>1, <2>2
  <2>4. UNCHANGED <<nodes, labels>>
    BY <1>8 DEF SetProp, SetMap, vars
  <2> QED
    BY <1>2, <2>3, <2>4 DEF OfKind
<1>9. CASE SetLabel
  <2>1. PICK x : labels' = [labels EXCEPT ![x] = @ \union {task.label}]
    BY <1>9 DEF SetLabel, AddLabel
  <2>2. task.label # l
    BY <1>4, <1>9 DEF SetLabel, Gives
  <2>3. \A n \in nodes : l \in labels'[n] => l \in labels[n]
    BY <1>5, <2>1, <2>2
  <2>4. UNCHANGED <<nodes, prop>>
    BY <1>9 DEF SetLabel, AddLabel
  <2> QED
    BY <1>2, <2>3, <2>4 DEF OfKind
<1>10. CASE RemoveLabelItem
  <2>1. PICK x : labels' = [labels EXCEPT ![x] = @ \ {task.label}]
    BY <1>10 DEF RemoveLabelItem, RemoveLabel
  <2>2. \A n \in nodes : l \in labels'[n] => l \in labels[n]
    BY <1>5, <2>1
  <2>3. UNCHANGED <<nodes, prop>>
    BY <1>10 DEF RemoveLabelItem, RemoveLabel
  <2> QED
    BY <1>2, <2>2, <2>3 DEF OfKind
<1>11. CASE DeleteNodeItem
  <2>1. nodes' \subseteq nodes /\ UNCHANGED <<labels, prop>>
    BY <1>11 DEF DeleteNodeItem, DeleteNode, RemoveNode, RefuseNode, SkipNode, graphVars
  <2> QED
    BY <1>2, <2>1 DEF OfKind
<1>12. \/ UNCHANGED <<nodes, labels, prop>>
       \/ MakeNode \/ MakeRel \/ SetProp \/ SetMap \/ SetLabel \/ RemoveLabelItem
       \/ DeleteNodeItem
  BY DEF WNext, Step, BeginQuery, BeginClause, EndQuery, ReadRow, TakeRow, FinishRow,
       FinishClause, OpenPath, ReuseNode, OutOfIdentifiers, Merge, Foreach,
       NextItem, BodyClause, LastItem, UnbindItem, DeleteRelItem, DeleteRel,
       SkipItem, UnknownVariable, vars, wvars
<1> QED
  BY <1>3, <1>6, <1>7, <1>8, <1>9, <1>10, <1>11, <1>12

------------------------------------------------------------------------------
\* Rows that a reading clause makes of one.
LEMMA ReadRowsHolding ==
  ASSUME NEW l, NEW v, OnlyMergeMakes(l, v), WInv, NEW c \in Clauses, Reads(c),
         NEW row, Holding(row, MergedVars(l, v), DOMAIN labels)
  PROVE  HoldingRows(RowsOf(c, row), MergedVars(l, v), DOMAIN labels)
<1> DEFINE X == MergedVars(l, v)
           N == DOMAIN labels
<1>1. CASE c.op = "MATCH"
  <2>1. RowsOf(c, row) = MatchRow(TheGraph, c, row) /\ IsPattern(c.pattern)
    BY <1>1, ClausesAssumption DEF RowsOf, IsClause
  <2>2. IsGraph(TheGraph) /\ TheGraph.nodes \subseteq N
    BY TheGraphIsOne DEF TheGraph, WInv, IInv, TypeOK
  <2>3. /\ \A path \in Range(c.pattern) : NamesNodes(path, X)
        /\ c.optional => PatternVars(c.pattern) \intersect X = {}
    BY <1>1, NamesOfClauses
  <2> HIDE DEF X, N
  <2>4. HoldingRows(MatchRow(TheGraph, c, row), X, N)
    BY <2>1, <2>2, <2>3, MatchRowHolding DEF X, N
  <2> QED
    BY <2>1, <2>4 DEF X, N
<1>2. CASE c.op = "UNWIND"
  <2> DEFINE rows == [i \in DOMAIN c.values |-> Assign(row, c.var, c.values[i])]
  <2>1. RowsOf(c, row) = rows
    BY <1>2 DEF RowsOf
  <2>2. c.values \in Seq(Range(c.values)) /\ \A x \in Range(c.values) : EntitiesOf(x) = {}
    BY <1>2, ClausesAssumption DEF IsClause
  <2>3. DOMAIN c.values = 1..Len(c.values) /\ Len(c.values) \in Nat
    BY <2>2
  <2>4. ASSUME NEW i \in DOMAIN c.values PROVE Holding(rows[i], X, N)
    <3>1. ~IsNode(c.values[i])
      BY <2>2 DEF Range, EntitiesOf
    <3>2. MayHold(c.var, c.values[i], X, N)
      BY <1>2, <3>1, NamesOfClauses DEF MayHold
    <3> QED
      BY <3>2, AssignedHolding
  <2>5. IsList(rows) /\ DOMAIN rows = DOMAIN c.values
    BY <2>3, FunctionIsList
  <2> HIDE DEF rows
  <2> QED
    BY <2>1, <2>4, <2>5 DEF Range, HoldingRows
<1> QED
  BY <1>1, <1>2 DEF Reads

LEMMA KindRowsKept ==
  ASSUME NEW l, NEW v, OnlyMergeMakes(l, v), KindInv(l, v), [WNext]_wvars
  PROVE  KindRows(l, v)'
<1> DEFINE X == MergedVars(l, v)
           F == DOMAIN labels'
           Good(row) == Holding(row, X, F)
<1>1. WInv /\ RowsKnown /\ RowsInTheirPlace /\ KindRows(l, v)
  BY DEF KindInv, WInv
<1>2. DOMAIN labels \subseteq F
  BY NodeObjectsStay
<1>3. \A row : Holding(row, X, DOMAIN labels) => Good(row)
  BY <1>2 DEF Holding
<1>4. Good(EmptyRow)
  BY DEF Holding, EmptyRow
<1>5. /\ \A row \in Range(todo) \union Range(out) : Good(row)
      /\ mode = "tasks" => Good(cur)
  BY <1>1, <1>3 DEF KindRows
<1>6. ASSUME \A row \in Range(todo') \union Range(out') : Good(row),
             mode' = "tasks" => Good(cur')
      PROVE  KindRows(l, v)'
  BY <1>6 DEF KindRows
<1> HIDE DEF Good
<1>7. ASSUME UNCHANGED <<todo, out>>, mode' = "tasks" => Good(cur') PROVE KindRows(l, v)'
  BY <1>5, <1>6, <1>7
<1>8. ASSUME UNCHANGED <<todo, out>>, mode = "tasks", UNCHANGED cur PROVE KindRows(l, v)'
  BY <1>5, <1>7, <1>8
<1>9. ASSUME todo' = <<>>, out' = <<>>, mode' # "tasks" PROVE KindRows(l, v)'
  BY <1>6, <1>9, SmallLists
<1>10. ASSUME NEW do, At(do), do \notin {"node", "path"}
       PROVE  /\ mode = "tasks" /\ task.do = do /\ task \in Range(agenda)
              /\ IsTask(task, Known) /\ Quiet(task, l, v, DOMAIN labels)
  <2>1. agenda # <<>> /\ task.do = do /\ mode = "tasks"
    BY <1>10 DEF At, task
  <2> QED
    BY <1>1, <1>10, <2>1, TheHead, KindTasksQuiet, TailList DEF WInv, AgendaOK, task
<1>11. ASSUME NEW var, NEW x, MayHold(var, x, X, F), mode = "tasks",
              UNCHANGED <<todo, out>>, cur' = AssignTo(cur, var, x)
       PROVE  KindRows(l, v)'
  <2>1. Good(cur)
    BY <1>5, <1>11
  <2>2. Good(cur')
    BY <1>11, <2>1, AssignedHolding DEF AssignTo, Good
  <2> QED
    BY <1>7, <1>11, <2>2
<1>12. CASE BeginQuery
  <2>1. todo' = <<>> /\ out' = <<EmptyRow>> /\ mode' # "tasks"
    BY <1>1, <1>12 DEF BeginQuery, RowsInTheirPlace
  <2> QED
    BY <1>4, <1>6, <2>1, SmallLists
<1>13. CASE EndQuery
  BY <1>1, <1>9, <1>13 DEF EndQuery, RowsInTheirPlace
<1>14. ASSUME NEW c \in Clauses, BeginClause(c) PROVE KindRows(l, v)'
  <2>1. todo' \in {<<EmptyRow>>, out} /\ out' = <<>> /\ mode' # "tasks"
    BY <1>14 DEF BeginClause
  <2> QED
    BY <1>4, <1>5, <1>6, <2>1, SmallLists
<1>15. CASE ReadRow
  <2> DEFINE rows == RowsOf(clause, Head(todo))
  <2>1. /\ mode = "rows" /\ todo # <<>> /\ Reads(clause) /\ mode' = mode
        /\ out' = out \o rows /\ todo' = Tail(todo)
    BY <1>15 DEF ReadRow
  <2>2. Range(todo') \subseteq Range(todo) /\ Head(todo) \in Range(todo)
    BY <1>1, <2>1, TailList DEF RowsKnown
  <2>3. clause \in Clauses /\ Holding(Head(todo), X, DOMAIN labels)
    BY <1>1, <2>1, <2>2 DEF KindRows, WInv, ClauseKnown
  <2>4. HoldingRows(rows, X, DOMAIN labels)
    BY <1>1, <2>1, <2>3, ReadRowsHolding
  <2> HIDE DEF rows
  <2>5. Range(out') = Range(out) \union Range(rows)
    BY <1>1, <2>1, <2>4, ConcatList DEF RowsKnown, HoldingRows
  <2>6. \A row \in Range(rows) : Good(row)
    BY <1>3, <2>4 DEF HoldingRows
  <2> QED
    BY <1>5, <1>6, <2>1, <2>2, <2>5, <2>6
<1>16. CASE TakeRow
  <2>1. todo # <<>> /\ cur' = Head(todo) /\ todo' = Tail(todo) /\ out' = out
    BY <1>16 DEF TakeRow
  <2>2. Range(todo') \subseteq Range(todo) /\ Head(todo) \in Range(todo)
    BY <1>1, <2>1, TailList DEF RowsKnown
  <2> QED
    BY <1>5, <1>6, <2>1, <2>2
<1>17. CASE FinishRow
  <2>1. mode = "tasks" /\ mode' # "tasks" /\ out' = Append(out, cur) /\ todo' = todo
    BY <1>17 DEF FinishRow
  <2>2. Append(out, cur) = out \o <<cur>>
    BY <1>1 DEF RowsKnown, IsList
  <2>3. Range(out') = Range(out) \union {cur}
    BY <1>1, <2>1, <2>2, SmallLists, ConcatList DEF RowsKnown
  <2> QED
    BY <1>5, <1>6, <2>1, <2>3
<1>18. CASE FinishClause
  BY <1>7, <1>18 DEF FinishClause
<1>19. CASE MakeNode
  <2>1. nextId \in F
    BY <1>19 DEF MakeNode, CreateNode
  <2>2. MayHold(task.pat.var, NodeRef(nextId), X, F)
    BY <2>1, NodeMayBeHeld
  <2> QED
    BY <1>11, <1>19, <2>2 DEF MakeNode, At, Proceed
<1>20. CASE MakeRel
  <2>1. /\ At("rel") /\ UNCHANGED <<todo, out>>
        /\ cur' = AssignTo(cur, task.pat.var, RelRef(nextId))
    BY <1>20 DEF MakeRel, Proceed
  <2>2. task.pat.var \notin X \ {NoVar} /\ mode = "tasks"
    BY <1>10, <2>1 DEF Quiet
  <2>3. CASE task.pat.var = NoVar
    BY <1>8, <2>1, <2>2, <2>3 DEF AssignTo
  <2>4. CASE task.pat.var # NoVar
    <3>1. MayHold(task.pat.var, RelRef(nextId), X, F)
      BY <2>2, <2>4 DEF MayHold, IsNode, RelRef
    <3> QED
      BY <1>11, <2>1, <2>2, <3>1
  <2> QED
    BY <2>3, <2>4
<1>21. CASE Merge
  <2> DEFINE found == MatchPattern(TheGraph, task.of.pattern, cur)
  <2>1. /\ At("merge") /\ UNCHANGED <<todo, out>>
        /\ \/ cur' = cur
           \/ found # <<>> /\ cur' = Head(found)
    BY <1>21 DEF Merge
  <2>2. /\ mode = "tasks" /\ task.of \in Clauses /\ task.of.op = "MERGE"
        /\ IsPattern(task.of.pattern)
    <3>1. IsTask(task, Known) /\ task.do = "merge" /\ mode = "tasks"
      BY <1>10, <2>1
    <3> QED
      BY <3>1, ClausesAssumption DEF IsTask, IsClause
  <2>3. CASE cur' = cur
    BY <1>8, <2>1, <2>2, <2>3
  <2>4. CASE found # <<>> /\ cur' = Head(found)
    <3>1. IsGraph(TheGraph) /\ TheGraph.nodes \subseteq DOMAIN labels
      BY <1>1, TheGraphIsOne DEF TheGraph, WInv, IInv, TypeOK
    <3>2. Holding(cur, X, DOMAIN labels)
      BY <1>1, <2>2 DEF KindRows
    <3>3. \A path \in Range(task.of.pattern) : NamesNodes(path, X)
      BY <2>2, NamesOfClauses
    <3> HIDE DEF X
    <3>4. HoldingRows(found, X, DOMAIN labels)
      BY <2>2, <3>1, <3>2, <3>3, MatchPatternHolding
    <3> HIDE DEF found
    <3>5. Good(cur')
      BY <1>3, <2>4, <3>4, TailList DEF HoldingRows
    <3> QED
      BY <1>7, <2>1, <3>5
  <2> QED
    BY <2>1, <2>3, <2>4
<1>22. CASE NextItem
  <2>1. /\ At("each") /\ task.values # <<>> /\ UNCHANGED <<todo, out>>
        /\ cur' = Assign(cur, task.var, Head(task.values))
    BY <1>22 DEF NextItem
  <2>2. /\ mode = "tasks" /\ IsList(task.values) /\ task.var \notin X
        /\ \A x \in Range(task.values) : IsNode(x) => x.node \in F
    BY <1>2, <1>10, <2>1 DEF IsTask, Quiet
  <2>3. MayHold(task.var, Head(task.values), X, F)
    BY <2>1, <2>2, TailList DEF MayHold
  <2>4. Good(cur')
    BY <1>5, <2>1, <2>2, <2>3, AssignedHolding DEF Good
  <2> QED
    BY <1>7, <2>1, <2>4
<1>23. CASE UnbindItem
  <2>1. At("unbind") /\ UNCHANGED <<todo, out>> /\ cur' = Drop(cur, {task.var})
    BY <1>23 DEF UnbindItem, Proceed
  <2>2. Good(cur')
    BY <1>5, <2>1 DEF Good, Holding, Drop, At
  <2> QED
    BY <1>7, <2>1, <2>2
<1>24. CASE OutOfIdentifiers \/ UnknownVariable
  BY <1>9, <1>24 DEF OutOfIdentifiers, UnknownVariable, Abandon
<1>25. CASE DeleteNodeItem
  BY <1>8, <1>9, <1>25 DEF DeleteNodeItem, At, Proceed, Abandon
<1>26. CASE \/ OpenPath \/ ReuseNode \/ Foreach \/ BodyClause \/ LastItem \/ SetProp \/ SetMap
            \/ SetLabel \/ RemoveLabelItem \/ DeleteRelItem \/ SkipItem
  BY <1>8, <1>26 DEF OpenPath, ReuseNode, Foreach, BodyClause, LastItem, SetProp, SetMap,
     SetLabel, RemoveLabelItem, DeleteRelItem, SkipItem, At, Proceed
<1>27. CASE UNCHANGED wvars
  BY <1>5, <1>7, <1>27 DEF wvars, queryVars, rowVars
<1> QED
  BY <1>12, <1>13, <1>14, <1>15, <1>16, <1>17, <1>18, <1>19, <1>20, <1>21, <1>22, <1>23,
     <1>24, <1>25, <1>26, <1>27 DEF WNext, Step

------------------------------------------------------------------------------
\* A list that begins with one thing.
LEMMA ListBegins ==
  ASSUME NEW x, NEW s, IsList(s)
  PROVE  <<x>> \o s # <<>> /\ Head(<<x>> \o s) = x /\ Tail(<<x>> \o s) = s
<1> DEFINE S == Range(s) \union {x}
<1>1. s \in Seq(S) /\ <<x>> \in Seq(S) /\ Len(<<x>>) = 1 /\ <<x>>[1] = x
  BY DEF IsList
<1> HIDE DEF S
<1> QED
  BY <1>1

\* MERGE that finds nothing: what it goes on to create is no node of the kind, or
\* is one by itself, and then there is none yet, or the row holds the node that
\* is taken instead.
LEMMA MergeCreates ==
  ASSUME NEW l, NEW v, OnlyMergeMakes(l, v), KindInv(l, v), mode = "tasks",
         NEW c \in Clauses, c.op = "MERGE",
         MatchPattern(TheGraph, c.pattern, cur) = <<>>
  PROVE  \/ QuietList(CreateTasks(c.pattern), l, v, DOMAIN labels)
         \/ \E t : CreateTasks(c.pattern) = <<t>> /\ Opening(t, l, v)
<1>1. IsPattern(c.pattern) /\ IsClause(c)
  BY ClausesAssumption DEF IsClause
<1>2. CASE ~MergesOne(c, l, v)
  <2>1. \A pat \in NodesOf(c.pattern) : ~Makes(pat, l, v)
    BY <1>2 DEF OnlyMergeMakes
  <2> QED
    BY <1>1, <2>1, NamesOfClauses, CreateTasksQuiet
<1>3. CASE MergesOne(c, l, v)
  <2> DEFINE pat == c.pattern[1].nodes[1]
             t == [do |-> "path", of |-> c.pattern[1]]
  <2>1. /\ Len(c.pattern) = 1 /\ c.pattern[1].hops = <<>>
        /\ pat.labels = {l} /\ Given(pat) = v /\ v # Null
    BY <1>3 DEF MergesOne, OnlyMergeMakes
  <2>2. pat.var \in MergedVars(l, v)
    BY <1>3 DEF MergedVars
  <2>3. CreateTasks(c.pattern) = <<t>>
    <3>1. c.pattern \in Seq(Range(c.pattern))
      BY <1>1 DEF IsPattern
    <3>2. DOMAIN c.pattern = 1..1
      BY <2>1, <3>1
    <3>3. CreateTasks(c.pattern) = [i \in 1..1 |-> [do |-> "path", of |-> c.pattern[i]]]
      BY <3>2 DEF CreateTasks
    <3> QED
      BY <3>3
  <2>4. t.do = "path" /\ t.of.hops = <<>> /\ LoneNode(t) = pat
    BY <2>1 DEF LoneNode
  <2>5. OfKind(l, v) = {} \/ HoldsNode(cur, pat.var)
    <3>1. CASE Bound(cur, pat.var)
      <4>1. Holding(cur, MergedVars(l, v), DOMAIN labels)
        BY DEF KindInv, KindRows
      <4> QED
        BY <2>2, <3>1, <4>1 DEF Holding, HoldsNode, Bound
    <3>2. CASE ~Bound(cur, pat.var)
      <4> SUFFICES ASSUME NEW n \in OfKind(l, v) PROVE FALSE
        OBVIOUS
      <4>1. n \in nodes /\ l \in labels[n] /\ prop[n] = v
        BY DEF OfKind
      <4>2. n \in TheGraph.nodes /\ TheGraph.labels = labels /\ TheGraph.prop = prop
        BY <4>1 DEF TheGraph
      <4>3. pat.prop = v /\ pat.prop # Null
        BY <2>1 DEF Given
      <4>4. NodeMatches(TheGraph, pat, n)
        BY <2>1, <4>1, <4>2, <4>3 DEF NodeMatches
      <4>5. IsGraph(TheGraph)
        BY TheGraphIsOne DEF KindInv
      <4> QED
        BY <1>1, <2>1, <3>2, <4>2, <4>4, <4>5, LoneNodeFound
    <3> QED
      BY <3>1, <3>2
  <2> HIDE DEF t, pat
  <2>6. Opening(t, l, v)
    BY <2>4, <2>5 DEF Opening
  <2> QED
    BY <2>3, <2>6
<1> QED
  BY <1>2, <1>3

LEMMA KindTasksKept ==
  ASSUME NEW l, NEW v, OnlyMergeMakes(l, v), KindInv(l, v), [WNext]_wvars
  PROVE  KindTasks(l, v)'
<1> DEFINE N == DOMAIN labels
           F == DOMAIN labels'
<1>1. WInv /\ AgendaOK /\ ClauseKnown /\ RowsInTheirPlace /\ KindTasks(l, v)
  BY DEF KindInv, WInv
<1>2. N \subseteq F
  BY NodeObjectsStay
<1>3. \A t : Quiet(t, l, v, N) => Quiet(t, l, v, F)
  BY <1>2, QuietKept
<1>4. ASSUME QuietList(agenda', l, v, F) PROVE KindTasks(l, v)'
  BY <1>4, TailList DEF KindTasks, QuietList, task
<1>5. ASSUME NEW t, NEW s, QuietList(s, l, v, F), agenda' = <<t>> \o s, Opening(t, l, v),
             UNCHANGED <<nodes, labels, prop, cur>>
      PROVE  KindTasks(l, v)'
  <2>1. task' = t /\ Tail(agenda') = s
    BY <1>5, ListBegins DEF QuietList, task
  <2>2. Opening(t, l, v)'
    BY <1>5 DEF Opening, OfKind, HoldsNode
  <2>3. Opening(task, l, v)'
    BY <2>1, <2>2 DEF Opening
  <2> QED
    BY <1>5, <2>1, <2>3 DEF KindTasks, QuietList
<1>6. ASSUME agenda = <<>>, agenda' \in {agenda, <<>>} PROVE KindTasks(l, v)'
  BY <1>6 DEF KindTasks
<1>7. ASSUME agenda' = <<>> PROVE KindTasks(l, v)'
  BY <1>7 DEF KindTasks
<1> DEFINE rest == Tail(agenda)
<1>8. ASSUME NEW do, At(do)
      PROVE  /\ mode = "tasks" /\ task.do = do /\ agenda # <<>>
             /\ IsTask(task, Known) /\ QuietList(rest, l, v, F)
             /\ Quiet(task, l, v, N) \/ Opening(task, l, v)
             /\ do \notin {"node", "path"} => Quiet(task, l, v, N)
  <2>1. agenda # <<>> /\ task.do = do /\ mode = "tasks"
    BY <1>8 DEF At, task
  <2>2. QuietList(rest, l, v, N)
    BY <2>1, KindTasksQuiet
  <2>3. QuietList(rest, l, v, F)
    BY <1>3, <2>2 DEF QuietList
  <2> QED
    BY <1>1, <2>1, <2>3, TheHead, KindTasksQuiet
<1> HIDE DEF N, F, rest
<1>9. ASSUME NEW do, At(do), Proceed PROVE KindTasks(l, v)'
  BY <1>4, <1>8, <1>9 DEF Proceed, rest
<1>10. ASSUME NEW s, QuietList(s, l, v, F), NEW do, At(do), agenda' = s \o rest
       PROVE  KindTasks(l, v)'
  BY <1>4, <1>8, <1>10, ConcatQuiet
<1>11. CASE TakeRow
  <2>1. clause \in UpdatingClauses
    BY <1>1, <1>11, ClausesAssumption
    DEF TakeRow, ClauseKnown, Reads, IsClause, UpdatingClauses
  <2> QED
    BY <1>4, <1>11, <2>1, TasksQuiet DEF TakeRow
<1>12. CASE OpenPath
  <2>1. At("path") /\ agenda' = PathTasks(task.of) \o rest /\ UNCHANGED <<vars, prop, cur>>
    BY <1>12 DEF OpenPath, rest
  <2>2. task.do = "path" /\ IsPathPattern(task.of) /\ QuietList(rest, l, v, F)
    BY <1>8, <2>1 DEF IsTask
  <2>3. CASE Quiet(task, l, v, N)
    <3>1. QuietList(PathTasks(task.of), l, v, F)
      BY <2>2, <2>3, PathTasksQuiet DEF Quiet
    <3> QED
      BY <1>10, <2>1, <3>1
  <2>4. CASE Opening(task, l, v)
    <3> DEFINE t == [do |-> "node", pat |-> task.of.nodes[1]]
    <3>1. task.of.hops = <<>>
      BY <2>2, <2>4 DEF Opening
    <3>2. PathTasks(task.of) = <<t>>
      <4>1. PathTasks(task.of) = [i \in 1..1 |->
              IF i = 1          THEN [do |-> "node", pat |-> task.of.nodes[1]]
              ELSE IF i % 2 = 0 THEN [do |-> "node", pat |-> task.of.nodes[i \div 2 + 1]]
              ELSE                   [do |-> "rel", pat |-> task.of.hops[i \div 2]]]
        BY <3>1 DEF PathTasks
      <4>2. \A i \in 1..1 : i = 1
        OBVIOUS
      <4>3. PathTasks(task.of) = [i \in 1..1 |-> t]
        BY <4>1, <4>2
      <4> QED
        BY <4>3
    <3>3. t.do = "node" /\ LoneNode(t) = LoneNode(task)
      BY <2>2 DEF LoneNode
    <3> HIDE DEF t
    <3>4. Opening(t, l, v)
      BY <2>4, <3>3 DEF Opening
    <3> QED
      BY <1>5, <2>1, <2>2, <3>2, <3>4 DEF vars
  <2> QED
    BY <1>8, <2>1, <2>3, <2>4
<1>13. CASE Merge
  <2> DEFINE c == task.of
             found == MatchPattern(TheGraph, c.pattern, cur)
  <2>1. /\ At("merge") /\ UNCHANGED <<vars, prop>>
        /\ \/ agenda' = c.onMatch \o rest
           \/ /\ found = <<>> /\ cur' = cur
              /\ agenda' = CreateTasks(c.pattern) \o c.onCreate \o rest
    BY <1>13 DEF Merge, rest
  <2>2. c \in Clauses /\ c.op = "MERGE" /\ mode = "tasks" /\ QuietList(rest, l, v, F)
    BY <1>8, <2>1 DEF IsTask
  <2> HIDE DEF c
  <2>3. QuietList(c.onMatch, l, v, F) /\ QuietList(c.onCreate, l, v, F)
    <3>1. AreItems(c.onMatch) /\ AreItems(c.onCreate)
      BY <2>2, ClausesAssumption DEF IsClause
    <3>2. \A t \in Range(c.onMatch) \union Range(c.onCreate) : ~Gives(t, l, v)
      BY <2>2 DEF OnlyMergeMakes, ItemsOf
    <3> QED
      BY <3>1, <3>2, ItemsQuiet
  <2>4. CASE agenda' = c.onMatch \o rest
    BY <1>10, <2>1, <2>3, <2>4
  <2>5. CASE found = <<>> /\ cur' = cur /\ agenda' = CreateTasks(c.pattern) \o c.onCreate \o rest
    <3>1. QuietList(c.onCreate \o rest, l, v, F)
      BY <2>2, <2>3, ConcatQuiet
    <3>2. \/ QuietList(CreateTasks(c.pattern), l, v, N)
          \/ \E t : CreateTasks(c.pattern) = <<t>> /\ Opening(t, l, v)
      BY <2>2, <2>5, MergeCreates DEF N
    <3>3. CASE QuietList(CreateTasks(c.pattern), l, v, N)
      <4>1. QuietList(CreateTasks(c.pattern), l, v, F)
        BY <1>3, <3>3 DEF QuietList
      <4>2. QuietList(CreateTasks(c.pattern) \o c.onCreate, l, v, F)
        BY <2>3, <4>1, ConcatQuiet
      <4> QED
        BY <1>10, <2>1, <2>5, <4>2
    <3>4. ASSUME NEW t, CreateTasks(c.pattern) = <<t>>, Opening(t, l, v) PROVE KindTasks(l, v)'
      <4>1. IsList(c.onCreate) /\ IsList(rest)
        BY <2>2, <2>3 DEF QuietList
      <4>2. (<<t>> \o c.onCreate) \o rest = <<t>> \o (c.onCreate \o rest)
        <5> DEFINE S == {t} \union Range(c.onCreate) \union Range(rest)
        <5>1. <<t>> \in Seq(S) /\ c.onCreate \in Seq(S) /\ rest \in Seq(S)
          BY <4>1 DEF IsList
        <5>2. \A p, q, r \in Seq(S) : (p \o q) \o r = p \o (q \o r)
          OBVIOUS
        <5> QED
          BY <5>1, <5>2
      <4> QED
        BY <1>5, <2>1, <2>5, <3>1, <3>4, <4>2 DEF vars
    <3> QED
      BY <3>2, <3>3, <3>4
  <2> QED
    BY <2>1, <2>4, <2>5
<1>14. CASE Foreach
  <2> DEFINE c      == task.of
             values == [i \in DOMAIN c.items |-> cur[c.items[i]]]
             each   == [do |-> "each", var |-> c.var, body |-> c.body, values |-> values]
             undo   == [do |-> "unbind", var |-> c.var]
             last   == IF Bound(cur, c.var) THEN <<>> ELSE <<undo>>
  <2>1. /\ At("foreach") /\ agenda' = <<each>> \o last \o rest
        /\ \A i \in DOMAIN c.items : Bound(cur, c.items[i])
    BY <1>14 DEF Foreach, rest
  <2>2. c \in Clauses /\ c.op = "FOREACH" /\ mode = "tasks"
    BY <1>8, <2>1 DEF IsTask
  <2>3. /\ each.do = "each" /\ each.var = c.var /\ each.values = values
        /\ undo.do = "unbind"
    OBVIOUS
  <2>4. \A x \in Range(values) : IsNode(x) => x.node \in F
    <3>1. Holding(cur, MergedVars(l, v), N)
      BY <2>2 DEF KindInv, KindRows, N
    <3>2. \A i \in DOMAIN c.items : IsNode(values[i]) => values[i].node \in F
      BY <1>2, <2>1, <3>1 DEF Holding, Bound
    <3>3. DOMAIN values = DOMAIN c.items
      OBVIOUS
    <3> HIDE DEF values, c
    <3> QED
      BY <3>2, <3>3 DEF Range
  <2> HIDE DEF c, each, undo, values
  <2>5. Quiet(each, l, v, F) /\ Quiet(undo, l, v, F)
    BY <2>2, <2>3, <2>4, NamesOfClauses DEF Quiet, Gives
  <2>6. QuietList(<<each>>, l, v, F) /\ QuietList(last, l, v, F)
    BY <2>5, SingleQuiet, EmptyQuiet
  <2>7. QuietList(<<each>> \o last, l, v, F)
    BY <2>6, ConcatQuiet
  <2> QED
    BY <1>10, <2>1, <2>7
<1>15. CASE NextItem
  <2> DEFINE body == [i \in DOMAIN task.body |-> [do |-> "clause", of |-> task.body[i]]]
             again == [task EXCEPT !.values = Tail(@)]
  <2>1. At("each") /\ task.values # <<>> /\ agenda' = body \o <<again>> \o rest
    BY <1>15 DEF NextItem, rest
  <2>2. /\ task.do = "each" /\ task.body \in Seq(UpdatingClauses)
        /\ "values" \in DOMAIN task /\ IsList(task.values)
        /\ Quiet(task, l, v, N)
    BY <1>8, <2>1 DEF IsTask
  <2>3. QuietList(body, l, v, F)
    <3> DEFINE S == {[do |-> "clause", of |-> b] : b \in UpdatingClauses}
    <3>1. body \in Seq(S)
      BY <2>2
    <3>2. \A x \in S : Quiet(x, l, v, F)
      BY DEF Quiet, Gives
    <3> HIDE DEF S
    <3>3. IsList(body) /\ Range(body) \subseteq S
      BY <3>1, ListOf
    <3> QED
      BY <3>2, <3>3 DEF QuietList
  <2>4. Range(Tail(task.values)) \subseteq Range(task.values)
    BY <2>1, <2>2, TailList
  <2>5. again.do = "each" /\ again.var = task.var /\ again.values = Tail(task.values)
    BY <2>2
  <2> HIDE DEF body, again
  <2>6. Quiet(again, l, v, F)
    <3>1. Quiet(again, l, v, N)
      BY <2>2, <2>4, <2>5 DEF Quiet, Gives
    <3> QED
      BY <1>3, <3>1
  <2>7. QuietList(body \o <<again>>, l, v, F)
    BY <2>3, <2>6, SingleQuiet, ConcatQuiet
  <2> QED
    BY <1>10, <2>1, <2>7
<1>16. CASE BodyClause
  <2>1. At("clause") /\ task.of \in UpdatingClauses /\ agenda' = Tasks(task.of) \o rest
    BY <1>8, <1>16 DEF BodyClause, IsTask, rest
  <2> QED
    BY <1>10, <2>1, TasksQuiet
<1>17. CASE \/ ReuseNode \/ MakeNode \/ MakeRel \/ LastItem \/ UnbindItem \/ SetProp \/ SetMap
            \/ SetLabel \/ RemoveLabelItem \/ DeleteRelItem \/ SkipItem
  <2>1. Proceed /\ \E do : At(do)
    BY <1>17 DEF ReuseNode, MakeNode, MakeRel, LastItem, UnbindItem, SetProp, SetMap, SetLabel,
                 RemoveLabelItem, DeleteRelItem, SkipItem
  <2> QED
    BY <1>9, <2>1
<1>18. CASE DeleteNodeItem
  <2>1. At("delete") /\ (Proceed \/ Abandon)
    BY <1>18 DEF DeleteNodeItem
  <2> QED
    BY <1>7, <1>9, <2>1 DEF Abandon
<1>19. CASE OutOfIdentifiers \/ UnknownVariable
  BY <1>7, <1>19 DEF OutOfIdentifiers, UnknownVariable, Abandon
<1>20. CASE BeginQuery \/ EndQuery \/ ReadRow \/ FinishRow \/ FinishClause
  BY <1>1, <1>6, <1>20
  DEF BeginQuery, EndQuery, ReadRow, FinishRow, FinishClause, rowVars, RowsInTheirPlace
<1>21. ASSUME NEW c \in Clauses, BeginClause(c) PROVE KindTasks(l, v)'
  BY <1>1, <1>6, <1>21 DEF BeginClause, rowVars, RowsInTheirPlace
<1>22. CASE UNCHANGED wvars
  BY <1>1, <1>22
  DEF wvars, queryVars, rowVars, vars, KindTasks, Opening, OfKind, HoldsNode, task
<1> QED
  BY <1>11, <1>12, <1>13, <1>14, <1>15, <1>16, <1>17, <1>18, <1>19, <1>20, <1>21, <1>22
  DEF WNext, Step

------------------------------------------------------------------------------
\* However many rows, iterations of FOREACH, clauses and queries ask for it,
\* MERGE makes one node of a kind that nothing else makes: for every alphabet of
\* clauses in which this is so, and whatever else these do.
THEOREM MergeAloneMakesOne == WSpec => []MergeMakesNoDuplicate
<1> DEFINE Kinds == \A l \in Label, v \in Val : OnlyMergeMakes(l, v) => KindInv(l, v)
<1>1. WInit => Kinds
  <2> SUFFICES ASSUME WInit, NEW l \in Label, NEW v \in Val PROVE KindInv(l, v)
    OBVIOUS
  <2>1. nodes = {} /\ todo = <<>> /\ out = <<>> /\ agenda = <<>> /\ mode = "idle"
    BY DEF WInit, Init
  <2>2. AtMostOneOfKind(l, v) /\ KindRows(l, v) /\ KindTasks(l, v)
    BY <2>1, SmallLists DEF AtMostOneOfKind, OfKind, KindRows, KindTasks
  <2> QED
    BY <2>2, WInitInv DEF KindInv
<1>2. Kinds /\ WInv' /\ [WNext]_wvars => Kinds'
  <2> SUFFICES ASSUME WInv', [WNext]_wvars, NEW l \in Label, NEW v \in Val,
                      OnlyMergeMakes(l, v), KindInv(l, v)
               PROVE  KindInv(l, v)'
    OBVIOUS
  <2> QED
    BY KindStaysOne, KindRowsKept, KindTasksKept DEF KindInv
<1>3. Kinds => MergeMakesNoDuplicate
  <2> SUFFICES ASSUME NEW l \in Label, NEW v \in Val, KindInv(l, v)
               PROVE  Cardinality(OfKind(l, v)) <= 1
    BY DEF MergeMakesNoDuplicate
  <2>1. CASE OfKind(l, v) = {}
    <3>1. Cardinality({}) = 0
      BY FS_EmptySet
    <3> QED
      BY <2>1, <3>1
  <2>2. CASE OfKind(l, v) # {}
    <3>1. PICK n : OfKind(l, v) = {n}
      BY <2>2 DEF KindInv, AtMostOneOfKind
    <3>2. Cardinality({n}) = 1
      BY FS_Singleton
    <3> QED
      BY <3>1, <3>2
  <2> QED
    BY <2>1, <2>2
<1> HIDE DEF Kinds
<1> QED
  BY <1>1, <1>2, <1>3, WInvariant, PTL DEF WSpec
==============================================================================
