---------------------------- MODULE MCPipeline ----------------------------
(***************************************************************************)
(* Pipeline on texts that between them make every rule, every lowering and *)
(* every clause of the check for undefined variables do something, on two  *)
(* small graphs with a cycle, a loop, parallel relationships and missing   *)
(* properties.  @ keeps letters apart.                                     *)
(***************************************************************************)
EXTENDS Pipeline

RuleTexts ==
    {"MATCH (a)<-[:R]-(:A) RETURN a.x",
     "MATCH (a:A)<-[r:R]-(b) WHERE b.x = 1 AND a.y = 1 RETURN id(a) AS a, id(r) AS r",
     "MATCH (n {x: 1}) WHERE n.x = 2 OR n.y = 1 RETURN id(n)",
     "MATCH (n {x: 1}) WHERE n.x = 2 AND n.y = 1 RETURN id(n)",
     "MATCH (n), (m:A) WHERE m.x = 1 AND (n.x = 1 AND n.x = 2 OR true) RETURN id(n) AS n, id(m) AS m",
     "MATCH (n) WHERE NOT (n.x = null) OR 1 = 1 AND false RETURN n.x",
     "MATCH (n) OPTIONAL MATCH (n)-[:R]->(m) WHERE m.x = 1 RETURN id(n), m.x",
     "MATCH (n) OPTIONAL MATCH (n)-[:R]->(m)-[:S]->(k) RETURN id(n) AS n, id(k) AS k",
     "MATCH (a)-[:R]->(b) MATCH (b)-[:S]->(c) MATCH (c)-->(d) RETURN id(a) AS a, id(d) AS d",
     "MATCH (a) MATCH (a)-[:R]->(b) RETURN id(a) AS a, id(b) AS b",
     "MATCH (a)-[:R]->(b) MATCH (b:B)-->(c) RETURN id(a) AS a, id(c) AS c",
     "MATCH p = (a)-[:R]->(b) MATCH (b)-->(c) RETURN length(p)",
     "MATCH p = (a)<-[:R]-(b) RETURN p",
     "MATCH (a)<-[r*1..2]-(b) RETURN head(r)",
     "MATCH (a), (b {y: 1}) WHERE a.x = b.x RETURN id(a) AS a, id(b) AS b",
     "MATCH (a)-[:R]->(b), (b)-[:S]->(c) RETURN id(a) AS a, id(c) AS c",
     "MATCH (a:A) OPTIONAL MATCH (a)-[:R]->(b), (b)-[:S]->(c) RETURN id(a) AS a, id(b) AS b, id(c) AS c",
     "MATCH (a)-[*]->(b) RETURN id(a) AS a, id(b) AS b",
     "MATCH (a)-[*1..3]->(b) RETURN id(a) AS a, id(b) AS b",
     "MATCH (a)-[*1..2]->(b:B) RETURN id(a) AS a, id(b) AS b",
     "MATCH (n) RETURN DISTINCT n.x AS x, count(*) AS c",
     "MATCH (n)-->(m) RETURN collect(DISTINCT n.x) AS a, collect(DISTINCT m.y) AS b",
     "MATCH (n) WITH DISTINCT n.x AS x ORDER BY x DESC NULLS LAST RETURN x",
     "MATCH (n) RETURN n.y AS y ORDER BY y NULLS FIRST LIMIT 1",
     "MATCH (n) OPTIONAL MATCH (n)-[:S]->(m) RETURN id(m) AS i, size(labels(m))",
     "MATCH (n) OPTIONAL MATCH (n)-[:S]->(m) RETURN id(n) AS n, coalesce(id(m), 0) AS m",
     "MATCH (n) OPTIONAL MATCH (n)-[:S]->(m) RETURN count(id(m)) AS c, collect(id(m)) AS d",
     "MATCH (n) OPTIONAL MATCH (n)-[:S]->(m) WITH m AS k RETURN CASE WHEN k IS NULL THEN 0 ELSE id(k) END",
     "RETURN true AND 1, 1 + 2 * 3, null + 1, 2 IS NOT NULL, NOT true",
     "RETURN null AND false, null OR null, NOT null, [1] + null, 0 = 0, null IS NULL",
     "RETURN false OR 2 = 1, 1 = 1 AND null, false AND 1 = 1",
     "MATCH ()-->() RETURN *",
     "MATCH (n) WHERE (n)-->(:B) AND NOT (n)<--() RETURN n.x",
     "MATCH (_@n@_@1), (:B) RETURN id(_@n@_@1)",
     "MATCH (n) RETURN [(n)-[:R]->(:A) | n.x], [(n)<-->(m) WHERE m.x = 1 | m.y]",
     "MATCH p = shortestPath((a:A)<-[*]-(b:B)) RETURN id(a) AS a, id(b) AS b",
     "MATCH (a)<-[:R]-(b {x: a.x}) RETURN id(a) AS a, id(b) AS b",
     "MATCH (n)<-[:S]-(m) WITH m LIMIT 1 RETURN m.x",
     "MATCH (a)<-[:S]-(b)-[:R]->(c) WHERE a.x = 2 AND NOT NOT c.x = 1 RETURN id(b) AS b, [(a)<--(d) | d.x] AS d",
     "MATCH (a)-[:R]->(b) MATCH q = (b)-[:S]->(c) RETURN q",
     "MATCH (a)-[:R]->(b) MATCH (b {x: 2})-[:S]->(c) WITH a MATCH (a)-->(d) RETURN id(a) AS a, id(d) AS d",
     "MATCH (n) OPTIONAL MATCH (n)-[:S]->(m) WITH n, id(m) + 1 AS k, m RETURN k, n.x",
     "MATCH (a)-[:R]->(b), (c)-[:S]->(d) WHERE b.x = c.x AND d.y = 1 AND a.x = 1 RETURN id(a) AS a, id(d) AS d",
     "MATCH (a)-[:R]->() MATCH ()-[:S]->(b) RETURN id(a) AS a, id(b) AS b",
     "MATCH (n) WHERE (n.x = 1 OR n.y = 1) AND (true OR n.x = 2) RETURN n.x, n.y, n.x + 0 * 1",
     "UNWIND [1, null, 2] AS x WITH DISTINCT x, count(x) AS c WHERE NOT (c = 0) RETURN x, c",
     "MATCH (n) RETURN n.x AS x UNION MATCH (n) RETURN n.y AS x",
     "MATCH (x:A) MATCH (a)-->(b), (b)-->(x) RETURN id(a) AS a, id(x) AS x",
     "MATCH (a:A)-->(b:B) MATCH ()-->() RETURN id(a) AS a, id(b) AS b",
     "MATCH (a:A) OPTIONAL MATCH (a)-->(b), (c:B) RETURN id(a) AS a, id(c) AS c",
     "MATCH (a:A)<-[:R]-(a) RETURN id(a) AS a",
     "MATCH (n:A) OPTIONAL MATCH (n)-->(m) WITH n, m WHERE id(m) > 1 RETURN id(n) AS n",
     "MATCH (n:A) RETURN true AND n.x UNION MATCH (n:B) RETURN 1 + 1",
     "MATCH (n:A) OPTIONAL MATCH (n)-->(m) WITH m WHERE m IS NOT NULL AND 1 = 2 RETURN id(m) AS i",
     "MATCH (n:A) RETURN CASE WHEN n.x = 1 THEN [n.x] ELSE 1 + 1 END AS c",
     "MATCH (n) OPTIONAL MATCH (n)-[:S]->(m) RETURN CASE m.x WHEN n.y THEN 0 WHEN 1 + 1 THEN 1 ELSE 2 END AS c"}

SurfaceTexts ==
    {"UNWIND [1, 2] AS x LET y = x + 1, z = y * 2 RETURN x, z",
     "FOR x IN [1, 2, 3] FILTER (x WHERE x > 1) RETURN x",
     "FOR x IN [1, 2] LET y = x FILTER (x WHERE x > 1, y WHERE y = x) RETURN y",
     "FOR x IN [1, 2] FILTER (x WHERE 1 = 1) RETURN x",
     "MATCH (n WHERE n.x = 1)-[r:R WHERE r.x = 1]->(m) WHERE m.x = 2 RETURN id(n)",
     "MATCH (n:A) OPTIONAL MATCH (n)-->(m WHERE m.y = 1) RETURN id(n) AS n, id(m) AS m",
     "MATCH (n WHERE n.x = 1), (m WHERE m.x > n.x) RETURN id(n) AS n, id(m) AS m",
     "MATCH (n)-[*1..2 WHERE true]->(m) RETURN n",
     "MATCH (n)-[*bfs 1..2]->(m) RETURN id(n) AS n, id(m) AS m",
     "MATCH (n)-[*wShortest (e, k | e.w) t]->(m) RETURN n",
     "MATCH (n) WHERE (n)-->(m WHERE m.x = 1) RETURN n",
     "MATCH (n) RETURN [(n)-->(m WHERE m.x = 1) | m.x]",
     "MATCH (n) RETURN n.x AS x, count(*) AS c GROUP BY x",
     "MATCH (n) RETURN n.x AS x, n.y AS y, count(*) AS c GROUP BY n.x",
     "MATCH (n) RETURN n.x AS x, n.y AS y, count(*) AS c GROUP BY y, n.x",
     "MATCH (n) RETURN n.x AS x GROUP BY x",
     "MATCH (n) CALL (n) { MATCH (m) RETURN m.x AS y } IN TRANSACTIONS OF 10 ROWS RETURN n.x",
     "MATCH p = shortestPath((a)-[*]->(b WHERE b.x = 1)) RETURN a",
     "LOAD CSV FROM 'f' AS row RETURN row",
     "MATCH (n) RETURN CASE WHEN true THEN [(n)-->(m WHERE m.x = 1) | m.x] END",
     "SHOW INDEXES"}

ScopeTexts ==
    {"MATCH (n) WITH n.x AS x WHERE x > 0 RETURN x, n",
     "MATCH (n) WITH n ORDER BY n.y RETURN k",
     "MATCH (n) WHERE m.x = 1 RETURN n.x",
     "MATCH (n) WITH * RETURN n.y",
     "UNWIND [1, 2] AS x UNWIND xs AS y RETURN y",
     "UNWIND [1, 2] AS x RETURN [y IN [x] WHERE y > 1 | y + x]",
     "UNWIND [[1]] AS xs RETURN [y IN xs | y], y",
     "UNWIND [[1]] AS xs RETURN size([y IN xs | y]) + y",
     "UNWIND [1] AS x RETURN any(y IN [x] WHERE y = x), CASE WHEN x = 2 THEN z ELSE x END",
     "UNWIND [1] AS x RETURN {a: z}",
     "MATCH (n) RETURN n.x AS x, count(*) AS c ORDER BY n.y",
     "MATCH (n) RETURN n.x AS x ORDER BY n.y, x",
     "MATCH (n {x: z}) RETURN n",
     "MATCH (n) CALL { WITH n RETURN n.x AS y } RETURN n.x",
     "CALL { MATCH (m) RETURN m.x AS y } RETURN y",
     "MATCH (n) WHERE (n)-->(k) AND k.x = 1 RETURN n",
     "MATCH (n) RETURN n.x AS x UNION RETURN n AS x"}

MCSources == {Atoms(text) : text \in RuleTexts \cup SurfaceTexts \cup ScopeTexts}

PairSources == {Atoms("MATCH (n) RETURN CASE WHEN true THEN [(n)-->(m WHERE m.x = 1) | m.x] END")}

MCNames ==
    {atom \in UNION {Range(source_) : source_ \in MCSources} :
        Character(atom, 1) \in Letter} \ Keywords

MCCaps ==
    [max_var_length_hops |-> 2, allow_unbounded_var_length |-> FALSE,
     allow_cartesian_match_paths |-> FALSE, allow_distinct_with_aggregate |-> FALSE,
     max_collect_distinct_per_clause |-> 1, allow_nulls_order_modifiers |-> FALSE,
     optional_risky_functions |-> {"id", "size", "elementid"},
     rewrite_var_length_bounds |-> TRUE, rewrite_cartesian_match_paths |-> TRUE,
     rewrite_distinct_beside_aggregate |-> TRUE, rewrite_collect_distinct_cap |-> TRUE,
     rewrite_unguarded_optional_scalar_use |-> TRUE]

MCRuleLists == {<<>>, RULES, RULES \o ConstraintRules(MCCaps), OPTIONAL_RULES, ConstraintRules(MCCaps)}

A == <<"A">>  B == <<"B">>
Props(x, y) == (IF x = 0 THEN <<>> ELSE <<"x">> :> IntValue(x))
                   @@ (IF y = 0 THEN <<>> ELSE <<"y">> :> IntValue(y))
Rel(type, start, end) == [type |-> <<type>>, start |-> start, end |-> end]

(* A triangle with a parallel relationship; and a loop with a lone node. *)
MCGraphs ==
    {[nodes |-> 1..3, labels |-> <<{A}, {A, B}, {B}>>, prop |-> <<>>,
      rels |-> (4 :> Rel("R", 1, 2)) @@ (5 :> Rel("S", 2, 3)) @@ (6 :> Rel("R", 3, 1))
                   @@ (7 :> Rel("S", 1, 2)),
      props |-> <<Props(1, 0), Props(2, 1), Props(1, 1), Props(1, 0), <<>>, <<>>, <<>> >>],
     [nodes |-> 1..2, labels |-> <<{A}, {B}>>, prop |-> <<>>,
      rels |-> 3 :> Rel("R", 1, 1), props |-> <<Props(1, 0), Props(0, 1), Props(2, 0)>>]}
=============================================================================
