------------------------------ MODULE Dialects ------------------------------
(***************************************************************************)
(* What each dialect's parser accepts and its renderer refuses             *)
(* (dialects/capabilities.py, dialects/cypher.py and the dialect modules). *)
(* The dialect "none" is the plain Parser and Renderer, used without one.  *)
(***************************************************************************)
EXTENDS Naturals

Dialect == {"none", "opencypher", "neo4j5", "neo4j25", "memgraph", "puppygraph"}

NEO4J5_CAPABILITIES ==
    {"allow_call_variable_import", "allow_inline_pattern_where", "allow_label_expressions",
     "allow_load_csv"}

NEO4J25_CAPABILITIES ==
    NEO4J5_CAPABILITIES \cup
    {"allow_filter_clause", "allow_for_clause", "allow_let_clause", "allow_search_clause",
     "allow_when_query", "allow_group_by_subclause", "allow_call_in_transactions",
     "allow_optional_call", "allow_dynamic_labels"}

MEMGRAPH_CAPABILITIES ==
    NEO4J5_CAPABILITIES \cup {"allow_admin_ddl", "allow_memgraph_rel_quantifiers"}

(* openCypher 9 and PuppyGraph declare none of the surface extensions. *)
Capabilities ==
    [opencypher |-> {}, puppygraph |-> {}, neo4j5 |-> NEO4J5_CAPABILITIES,
     neo4j25 |-> NEO4J25_CAPABILITIES, memgraph |-> MEMGRAPH_CAPABILITIES]

(* Parser._dialect_allows: a parser without a dialect allows everything. *)
Allows(dialect, flag) == dialect = "none" \/ flag \in Capabilities[dialect]

(* Node types a dialect may only render when it declares the capability. *)
CAPABILITY_GATED_NODES ==
    [Filter |-> "allow_filter_clause", For |-> "allow_for_clause", Let |-> "allow_let_clause",
     GroupBy |-> "allow_group_by_subclause", Search |-> "allow_search_clause",
     WhenQuery |-> "allow_when_query", WhenBranch |-> "allow_when_query",
     LoadCsv |-> "allow_load_csv", AdminStatement |-> "allow_admin_ddl",
     RelationshipLambda |-> "allow_memgraph_rel_quantifiers"]

(* build_unsupported with the arguments of each dialect's renderer. *)
Unsupported(dialect) ==
    (IF dialect \in {"neo4j5", "neo4j25"} THEN {} ELSE {"Use", "Insert", "Next"})
    \cup (IF dialect \in {"memgraph", "none"} THEN {"QuantifiedPath"} ELSE {})
    \cup {type \in DOMAIN CAPABILITY_GATED_NODES :
              ~Allows(dialect, CAPABILITY_GATED_NODES[type])}

(* How a pattern used as a predicate is written: (p), EXISTS (p), or, by *)
(* the plain renderer, EXISTS (p) and NOT (p).                            *)
PatternPredicateStyle(dialect) ==
    CASE dialect \in {"opencypher", "puppygraph"} -> "bare"
      [] dialect = "none" -> "plain"
      [] OTHER -> "exists"
=============================================================================
