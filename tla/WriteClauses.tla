----------------------------- MODULE WriteClauses ----------------------------
(****************************************************************************)
(* Queries that read and write: the clause loop of Engine.run_query and its *)
(* updating clauses (cypherast/executor/engine.py) on top of the store of   *)
(* PropertyGraph and the matching of PathMatch.                             *)
(*                                                                          *)
(* A clause handles the rows of the clause before it one by one, and a row  *)
(* task by task: one element of a CREATE pattern, one item of SET, DELETE   *)
(* or REMOVE.  MERGE and FOREACH put the tasks they come down to on the     *)
(* agenda.  Each task is at most one operation of the store, and an         *)
(* exception stops the query where it is: nothing is rolled back.           *)
(****************************************************************************)
EXTENDS PropertyGraph, PathMatch

CONSTANTS Val,          \* property values
          DefaultType,  \* the type REL of a created relationship without one
          Clauses,      \* the clauses queries are made of
          MaxClauses    \* bound on the clauses executed

ASSUME DefaultTypeAssumption == DefaultType \in Type

ASSUME MaxClausesAssumption == MaxClauses \in Nat

\* What the parser lets through: what is created and the items have labels, types
\* and values, UNWIND of literals yields no entities, and FOREACH goes over
\* variables and runs updating clauses.
IsItem(t) ==
  /\ t.do \in {"setProp", "setMap", "setLabel", "removeLabel", "delete"}
  /\ t.do \in {"setLabel", "removeLabel"} => t.label \in Label
  /\ t.do \in {"setProp", "setMap"} => t.value \in Val \union {Null}
  /\ t.do = "delete" => t.detach \in BOOLEAN

CanCreateNode(pat) == pat.labels \in SUBSET Label /\ pat.prop \in Val \union {Null, NoFilter}
CanCreateRel(pat)  == pat.types \in SUBSET Type /\ pat.prop \in Val \union {Null, NoFilter}

CanCreate(path) ==
  /\ \A node \in Range(path.nodes) : CanCreateNode(node)
  /\ \A hop \in Range(path.hops) : CanCreateRel(hop)

AreItems(items) == items \in Seq(Range(items)) /\ \A t \in Range(items) : IsItem(t)

Updating == {"CREATE", "MERGE", "SET", "DELETE", "REMOVE", "FOREACH"}

IsClause(c) ==
  /\ c.op \in Updating \union {"MATCH", "UNWIND"}
  /\ c.op \in {"CREATE", "MERGE", "MATCH"} => IsPattern(c.pattern)
  /\ c.op \in {"CREATE", "MERGE"} => \A path \in Range(c.pattern) : CanCreate(path)
  /\ c.op = "MERGE" => AreItems(c.onMatch) /\ AreItems(c.onCreate)
  /\ c.op \in {"SET", "DELETE", "REMOVE"} => AreItems(c.items)
  /\ c.op = "FOREACH" => /\ c.items \in Seq(Range(c.items))
                         /\ c.body \in Seq({b \in Clauses : b.op \in Updating})
  /\ c.op = "UNWIND" => /\ c.values \in Seq(Range(c.values))
                        /\ \A v \in Range(c.values) : EntitiesOf(v) = {}

ASSUME ClausesAssumption == \A c \in Clauses : IsClause(c)

VARIABLES prop,     \* props of all entities ever made: the value of one key
          mode,     \* idle, ready for a clause, at its rows, or at a row's tasks
          executed, \* clauses begun
          clause,   \* the clause being executed
          todo,     \* its rows that are not handled yet
          cur,      \* the row being handled
          agenda,   \* what is left to do for that row
          ends,     \* the last two nodes of the pattern being created
          out,      \* the rows the clause has yielded
          killed    \* the entities this query has deleted

rowVars   == <<cur, agenda, ends>>
queryVars == <<mode, executed, clause, todo, cur, agenda, ends, out, killed>>
wvars     == <<vars, prop, queryVars>>

EmptyRow == [x \in {} |-> NullRef]
NoEnd    == 0
NoClause == [op |-> "none"]

TheGraph == [nodes |-> nodes, labels |-> labels, rels |-> relationships, prop |-> prop]

WInit ==
  /\ Init
  /\ prop = [x \in Id |-> Null]
  /\ mode = "idle"
  /\ executed = 0
  /\ clause = NoClause
  /\ todo = <<>>
  /\ cur = EmptyRow
  /\ agenda = <<>>
  /\ ends = <<NoEnd, NoEnd>>
  /\ out = <<>>
  /\ killed = {}

------------------------------------------------------------------------------
\* What a clause does with a row, as tasks.

\* The nodes of a path in order, and after each but the first the relationship
\* that leads to it.
PathTasks(path) ==
  [i \in 1..(2 * Len(path.hops) + 1) |->
     IF i = 1          THEN [do |-> "node", pat |-> path.nodes[1]]
     ELSE IF i % 2 = 0 THEN [do |-> "node", pat |-> path.nodes[i \div 2 + 1]]
     ELSE                   [do |-> "rel", pat |-> path.hops[i \div 2]]]

CreateTasks(pattern) == [i \in DOMAIN pattern |-> [do |-> "path", of |-> pattern[i]]]

Tasks(c) ==
  CASE c.op = "CREATE"                      -> CreateTasks(c.pattern)
    [] c.op = "MERGE"                       -> <<[do |-> "merge", of |-> c]>>
    [] c.op = "FOREACH"                     -> <<[do |-> "foreach", of |-> c]>>
    [] c.op \in {"SET", "DELETE", "REMOVE"} -> c.items

\* The clauses that only read, and the rows they make of one.
Reads(c) == c.op \in {"MATCH", "UNWIND"}

RowsOf(c, row) ==
  CASE c.op = "MATCH"  -> MatchRow(TheGraph, c, row)
    [] c.op = "UNWIND" -> [i \in DOMAIN c.values |-> Assign(row, c.var, c.values[i])]

\* isinstance(row.get(var), Node): a node object, live or not.
HoldsNode(row, var) ==
  /\ Bound(row, var)
  /\ IsNode(row[var])
  /\ row[var].node \in DOMAIN labels

HoldsRel(row, var) ==
  /\ Bound(row, var)
  /\ IsRel(row[var])
  /\ row[var].rel \in Id

IdOf(v) == IF IsNode(v) THEN v.node ELSE v.rel

\* The value a pattern gives the property: a missing one reads as null.
Given(pat) == IF pat.prop = NoFilter THEN Null ELSE pat.prop

AssignTo(row, var, v) == IF var = NoVar THEN row ELSE Assign(row, var, v)

------------------------------------------------------------------------------
\* The clause loop.

BeginQuery ==
  /\ mode = "idle"
  /\ executed < MaxClauses
  /\ mode' = "ready"
  /\ out' = <<EmptyRow>>
  /\ killed' = {}
  /\ UNCHANGED <<vars, prop, executed, clause, todo, rowVars>>

\* CREATE without a row creates once all the same.
BeginClause(c) ==
  /\ mode = "ready"
  /\ executed < MaxClauses
  /\ mode' = "rows"
  /\ executed' = executed + 1
  /\ clause' = c
  /\ todo' = IF c.op = "CREATE" /\ out = <<>> THEN <<EmptyRow>> ELSE out
  /\ out' = <<>>
  /\ UNCHANGED <<vars, prop, rowVars, killed>>

ReadRow ==
  /\ mode = "rows" /\ todo # <<>> /\ Reads(clause)
  /\ out' = out \o RowsOf(clause, Head(todo))
  /\ todo' = Tail(todo)
  /\ UNCHANGED <<vars, prop, mode, executed, clause, rowVars, killed>>

TakeRow ==
  /\ mode = "rows" /\ todo # <<>> /\ ~Reads(clause)
  /\ mode' = "tasks"
  /\ cur' = Head(todo)
  /\ agenda' = Tasks(clause)
  /\ todo' = Tail(todo)
  /\ UNCHANGED <<vars, prop, executed, clause, ends, out, killed>>

FinishRow ==
  /\ mode = "tasks" /\ agenda = <<>>
  /\ mode' = "rows"
  /\ out' = Append(out, cur)
  /\ UNCHANGED <<vars, prop, executed, clause, todo, rowVars, killed>>

FinishClause ==
  /\ mode = "rows" /\ todo = <<>>
  /\ mode' = "ready"
  /\ UNCHANGED <<vars, prop, executed, clause, todo, rowVars, out, killed>>

EndQuery ==
  /\ mode = "ready"
  /\ mode' = "idle"
  /\ out' = <<>>
  /\ UNCHANGED <<vars, prop, executed, clause, todo, rowVars, killed>>

AbandonKeepingAgenda ==
  /\ mode' = "idle"
  /\ todo' = <<>>
  /\ cur' = EmptyRow
  /\ out' = <<>>
  /\ UNCHANGED <<executed, clause, ends, agenda>>

\* An exception: the rows are gone, what was written stays.
Abandon ==
  /\ mode' = "idle"
  /\ todo' = <<>>
  /\ agenda' = <<>>
  /\ cur' = EmptyRow
  /\ out' = <<>>
  /\ UNCHANGED <<executed, clause, ends>>

Proceed ==
  /\ agenda' = Tail(agenda)
  /\ UNCHANGED <<mode, executed, clause, todo, out>>

\* The task at the head of the agenda.
At(do) == mode = "tasks" /\ agenda # <<>> /\ Head(agenda).do = do

task == Head(agenda)

------------------------------------------------------------------------------
\* A path to be created begins without a node.
OpenPath ==
  /\ At("path")
  /\ agenda' = PathTasks(task.of) \o Tail(agenda)
  /\ ends' = <<NoEnd, NoEnd>>
  /\ UNCHANGED <<vars, prop, mode, executed, clause, todo, cur, out, killed>>

ReuseNodeForEver ==
  /\ At("node")
  /\ HoldsNode(cur, task.pat.var)
  /\ ends' = <<ends[2], cur[task.pat.var].node>>
  /\ UNCHANGED <<vars, prop, mode, executed, clause, todo, cur, agenda, out, killed>>

\* CREATE: _create_node gives back the node the variable holds, or makes one.
ReuseNode ==
  /\ At("node")
  /\ HoldsNode(cur, task.pat.var)
  /\ ends' = <<ends[2], cur[task.pat.var].node>>
  /\ Proceed
  /\ UNCHANGED <<vars, prop, cur, killed>>

MakeNode ==
  /\ At("node")
  /\ ~HoldsNode(cur, task.pat.var)
  /\ CreateNode(task.pat.labels)
  /\ prop' = [prop EXCEPT ![nextId] = Given(task.pat)]
  /\ cur' = AssignTo(cur, task.pat.var, NodeRef(nextId))
  /\ ends' = <<ends[2], nextId>>
  /\ Proceed
  /\ UNCHANGED killed

TypeToCreate(pat) == IF pat.types = {} THEN DefaultType ELSE CHOOSE t \in pat.types : TRUE

MakeRelUnswapped ==
  /\ At("rel")
  /\ CreateRel(ends[1], ends[2], TypeToCreate(task.pat))
  /\ prop' = [prop EXCEPT ![nextId] = Given(task.pat)]
  /\ cur' = AssignTo(cur, task.pat.var, RelRef(nextId))
  /\ Proceed
  /\ UNCHANGED <<ends, killed>>

\* _create_rel: an incoming arrow swaps the ends; both may be dead by now.
MakeRel ==
  /\ At("rel")
  /\ LET s == IF task.pat.dir = "IN" THEN ends[2] ELSE ends[1]
         e == IF task.pat.dir = "IN" THEN ends[1] ELSE ends[2]
     IN  CreateRel(s, e, TypeToCreate(task.pat))
  /\ prop' = [prop EXCEPT ![nextId] = Given(task.pat)]
  /\ cur' = AssignTo(cur, task.pat.var, RelRef(nextId))
  /\ Proceed
  /\ UNCHANGED <<ends, killed>>

\* The bound MaxId: a query that needs one more identifier is not followed.
OutOfIdentifiers ==
  /\ \/ At("node") /\ ~HoldsNode(cur, task.pat.var)
     \/ At("rel")
  /\ nextId \notin Id
  /\ Abandon
  /\ UNCHANGED <<vars, prop, killed>>

------------------------------------------------------------------------------
\* MERGE: the first match, or the whole pattern is created.
Merge ==
  /\ At("merge")
  /\ LET c == task.of
         found == MatchPattern(TheGraph, c.pattern, cur)
     IN  \/ /\ found # <<>>
            /\ cur' = Head(found)
            /\ agenda' = c.onMatch \o Tail(agenda)
         \/ /\ found = <<>>
            /\ cur' = cur
            /\ agenda' = CreateTasks(c.pattern) \o c.onCreate \o Tail(agenda)
  /\ UNCHANGED <<vars, prop, mode, executed, clause, todo, ends, out, killed>>

\* FOREACH: the list is evaluated once, the body runs for one item after the
\* other on the same row, and only the loop variable is taken off it again.
Foreach ==
  /\ At("foreach")
  /\ LET c == task.of
     IN  /\ \A i \in DOMAIN c.items : Bound(cur, c.items[i])
         /\ agenda' = <<[do |-> "each", var |-> c.var, body |-> c.body,
                         values |-> [i \in DOMAIN c.items |-> cur[c.items[i]]]]>>
                      \o (IF Bound(cur, c.var) THEN <<>> ELSE <<[do |-> "unbind", var |-> c.var]>>)
                      \o Tail(agenda)
  /\ UNCHANGED <<vars, prop, mode, executed, clause, todo, cur, ends, out, killed>>

NextItem ==
  /\ At("each")
  /\ task.values # <<>>
  /\ cur' = Assign(cur, task.var, Head(task.values))
  /\ agenda' = [i \in DOMAIN task.body |-> [do |-> "clause", of |-> task.body[i]]]
               \o <<[task EXCEPT !.values = Tail(@)]>> \o Tail(agenda)
  /\ UNCHANGED <<vars, prop, mode, executed, clause, todo, ends, out, killed>>

BodyClause ==
  /\ At("clause")
  /\ agenda' = Tasks(task.of) \o Tail(agenda)
  /\ UNCHANGED <<vars, prop, mode, executed, clause, todo, cur, ends, out, killed>>

LastItem ==
  /\ At("each")
  /\ task.values = <<>>
  /\ Proceed
  /\ UNCHANGED <<vars, prop, cur, ends, killed>>

UnbindItem ==
  /\ At("unbind")
  /\ cur' = Drop(cur, {task.var})
  /\ Proceed
  /\ UNCHANGED <<vars, prop, ends, killed>>

------------------------------------------------------------------------------
\* SET n.key = value, with null to remove it; REMOVE n.key is SET n.key = null.
SetProp ==
  /\ At("setProp")
  /\ HoldsNode(cur, task.var) \/ HoldsRel(cur, task.var)
  /\ prop' = [prop EXCEPT ![IdOf(cur[task.var])] = task.value]
  /\ Proceed
  /\ UNCHANGED <<vars, cur, ends, killed>>

\* SET n = map and SET n += map know nodes only.
SetMap ==
  /\ At("setMap")
  /\ HoldsNode(cur, task.var)
  /\ prop' = [prop EXCEPT ![cur[task.var].node] = task.value]
  /\ Proceed
  /\ UNCHANGED <<vars, cur, ends, killed>>

SetLabelBesideTheIndex ==
  /\ At("setLabel")
  /\ HoldsNode(cur, task.var)
  /\ AddLabelToObject(cur[task.var].node, task.label)
  /\ Proceed
  /\ UNCHANGED <<prop, cur, ends, killed>>

SetLabel ==
  /\ At("setLabel")
  /\ HoldsNode(cur, task.var)
  /\ AddLabel(cur[task.var].node, task.label)
  /\ Proceed
  /\ UNCHANGED <<prop, cur, ends, killed>>

RemoveLabelItem ==
  /\ At("removeLabel")
  /\ HoldsNode(cur, task.var)
  /\ RemoveLabel(cur[task.var].node, task.label)
  /\ Proceed
  /\ UNCHANGED <<prop, cur, ends, killed>>

\* DELETE of a node the row holds, which may be refused, and of a relationship.
Kill ==
  killed' = killed \union (nodes \ nodes') \union (DOMAIN relationships \ DOMAIN relationships')

DeleteNodeItem ==
  /\ At("delete")
  /\ HoldsNode(cur, task.var)
  /\ DeleteNode(cur[task.var].node, task.detach)
  /\ Kill
  /\ \/ ~reply'.raised /\ Proceed /\ UNCHANGED <<cur, ends>>
     \/ reply'.raised /\ Abandon
  /\ UNCHANGED prop

DeleteRelItem ==
  /\ At("delete")
  /\ HoldsRel(cur, task.var)
  /\ DeleteRel(cur[task.var].rel)
  /\ Kill
  /\ Proceed
  /\ UNCHANGED <<prop, cur, ends>>

\* An item whose variable holds nothing it applies to does nothing.  Items that
\* evaluate the variable need it bound, the others look it up with row.get.
EntityItems == {"setProp", "delete"}
NodeItems   == {"setMap", "setLabel", "removeLabel"}

SkipItem ==
  /\ \/ /\ \E do \in EntityItems : At(do)
        /\ Bound(cur, task.var)
        /\ ~HoldsNode(cur, task.var) /\ ~HoldsRel(cur, task.var)
     \/ /\ \E do \in NodeItems : At(do)
        /\ ~HoldsNode(cur, task.var)
  /\ Proceed
  /\ UNCHANGED <<vars, prop, cur, ends, killed>>

UnknownVariable ==
  /\ \/ /\ \E do \in EntityItems : At(do)
        /\ ~Bound(cur, task.var)
     \/ /\ At("foreach")
        /\ \E i \in DOMAIN task.of.items : ~Bound(cur, task.of.items[i])
  /\ Abandon
  /\ UNCHANGED <<vars, prop, killed>>

------------------------------------------------------------------------------
Step ==
  \/ ReadRow \/ TakeRow \/ FinishRow \/ FinishClause
  \/ OpenPath \/ ReuseNode \/ MakeNode \/ MakeRel \/ OutOfIdentifiers
  \/ Merge \/ Foreach \/ NextItem \/ BodyClause \/ LastItem \/ UnbindItem
  \/ SetProp \/ SetMap \/ SetLabel \/ RemoveLabelItem
  \/ DeleteNodeItem \/ DeleteRelItem
  \/ SkipItem \/ UnknownVariable

WNext ==
  \/ BeginQuery
  \/ \E c \in Clauses : BeginClause(c)
  \/ EndQuery
  \/ Step

\* run_query does not stop in the middle of a clause; whether another clause or
\* query comes is up to the caller.
WSpec == WInit /\ [][WNext]_wvars /\ WF_wvars(Step)

------------------------------------------------------------------------------
InQuery == mode # "idle"

\* All rows that are about: coming in, in work, going out.
Rows == Range(todo) \union Range(out) \union {cur : x \in {mode} \intersect {"tasks"}}

Live == nodes \union DOMAIN relationships

\* Type invariant of the clause loop; that of the store is TypeOK.
QueryTypeOK ==
  /\ prop \in [Id -> Val \union {Null}]
  /\ mode \in {"idle", "ready", "rows", "tasks"}
  /\ executed \in 0..MaxClauses
  /\ clause \in Clauses \union {NoClause}
  /\ \A row \in Rows, x \in Id :
       x \in UNION {EntitiesOf(row[v]) : v \in DOMAIN row} => x < nextId
  /\ agenda # <<>> => mode = "tasks"
  /\ killed \subseteq Id

\* A variable of a query holds an entity that is in the graph or that this very
\* query has deleted: matching never binds what an earlier query deleted, not by
\* way of a relationship that was left hanging either.
BindingsLiveOrDeletedHere ==
  \A row \in Rows : \A v \in DOMAIN row : EntitiesOf(row[v]) \subseteq Live \union killed

\* A relationship with a dead end comes only from CREATE or MERGE in a query
\* that has itself deleted that end and still holds it.
DanglingNeedsADeletionHere ==
  [][\A r \in DOMAIN relationships' \ DOMAIN relationships :
       {relationships'[r].start, relationships'[r].end} \subseteq nodes \union killed]_wvars

\* What MERGE asks for is there when it is done: on every row it yields the
\* pattern matches, provided that the nodes the row holds are live and are what
\* the pattern says.  (A node that was bound before is taken as it is.)
MergeEnsuresMatch ==
  clause.op = "MERGE" /\ mode = "rows" =>
    \A i \in DOMAIN out :
      (\A j \in DOMAIN clause.pattern : \A k \in DOMAIN clause.pattern[j].nodes :
         LET np == clause.pattern[j].nodes[k]
         IN  /\ np.prop # Null
             /\ np.var \in DOMAIN out[i] =>
                  /\ IsNode(out[i][np.var])
                  /\ out[i][np.var].node \in nodes
                  /\ NodeMatches(TheGraph, np, out[i][np.var].node))
      => MatchPattern(TheGraph, clause.pattern, out[i]) # <<>>

\* The executor touches the store only through its operations, so that what
\* PropertyGraph guarantees holds after, and in the middle of, every query,
\* also one that an exception has stopped.
OnlyThroughTheOperations == Spec

\* A clause that has begun ends: with its rows or with an exception.
ClausesEnd == mode \in {"rows", "tasks"} ~> mode \in {"ready", "idle"}

\* A node of a pattern that has, once it is created, the label and the value.
Makes(pat, l, v) == l \in pat.labels /\ Given(pat) = v

NodesOf(pattern) == UNION {Range(path.nodes) : path \in Range(pattern)}

\* MERGE of one such node, with no other label.
MergesOne(c, l, v) ==
  /\ c.op = "MERGE" /\ Len(c.pattern) = 1
  /\ c.pattern[1].hops = <<>>
  /\ c.pattern[1].nodes[1].labels = {l}
  /\ Given(c.pattern[1].nodes[1]) = v

MergedVars(l, v) ==
  {c.pattern[1].nodes[1].var : c \in {d \in Clauses : MergesOne(d, l, v)}}

ItemsOf(c) ==
  CASE c.op = "MERGE"                      -> Range(c.onMatch) \union Range(c.onCreate)
    [] c.op \in {"SET", "DELETE", "REMOVE"} -> Range(c.items)
    [] OTHER                               -> {}

Gives(t, l, v) ==
  \/ t.do = "setLabel" /\ t.label = l
  \/ t.do \in {"setProp", "setMap"} /\ t.value = v

\* The variables that a clause may bind to something that is no node.
OtherVars(c) ==
  IF c.op \in {"UNWIND", "FOREACH"} THEN {c.var}
  ELSE IF c.op \in {"CREATE", "MERGE", "MATCH"}
  THEN ((UNION {{path.var} \union {hop.var : hop \in Range(path.hops)} : path \in Range(c.pattern)})
          \ {NoVar})
       \union (IF c.op = "MATCH" /\ c.optional THEN PatternVars(c.pattern) ELSE {})
  ELSE {}

\* Nodes with the label and the value come from MERGE of such a node alone, and
\* its variable is not used for anything but nodes: a null of OPTIONAL MATCH is
\* matched by nothing, and MERGE makes a node for it each time.
OnlyMergeMakes(l, v) ==
  /\ v # Null
  /\ \A c \in Clauses :
       /\ c.op \in {"CREATE", "MERGE"} /\ (\E pat \in NodesOf(c.pattern) : Makes(pat, l, v))
            => MergesOne(c, l, v)
       /\ \A t \in ItemsOf(c) : ~Gives(t, l, v)
       /\ OtherVars(c) \intersect MergedVars(l, v) = {}

\* When nothing else makes such nodes, MERGE leaves at most one node with the
\* label and the property it asks for, however many rows, iterations or queries
\* ask for it: each row sees what the rows before it have created.
OfKind(l, v) == {n \in nodes : l \in labels[n] /\ prop[n] = v}

MergeMakesNoDuplicate ==
  \A l \in Label, v \in Val : OnlyMergeMakes(l, v) => Cardinality(OfKind(l, v)) <= 1
==============================================================================
