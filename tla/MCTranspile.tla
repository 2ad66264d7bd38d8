---------------------------- MODULE MCTranspile ----------------------------
(***************************************************************************)
(* Transpile on texts that between them reach every method of the parser,  *)
(* every scanner and every node type of the renderers, the failures        *)
(* included.  # stands for a backtick, @ keeps letters apart.              *)
(***************************************************************************)
EXTENDS Transpile

SurfaceTexts ==
    {"MATCH (n) RETURN n",
     "MATCH (:Person {name: 'Oliver Stone'})-->(movie:Movie) RETURN movie.title AS t",
     "MATCH p = (k:A {name: 'K'})-[r]->(m) RETURN *",
     "MATCH (u:p {n:'m'})-[:c]->(:s)<-[:c]-(v) WITH v MATCH (v)--(x) WHERE v.age > 30 RETURN v.name AS o",
     "UNWIND ['a', 'b'] as x RETURN x",
     "MATCH (p) CALL { WITH p MATCH (p)-[:H]->(q) RETURN q } RETURN p, q",
     "CALL mg.procedures() YIELD name AS n, s WHERE n = 1 RETURN n",
     "MATCH (a) OPTIONAL MATCH (a)-[:K|L*1..3]->(b) RETURN a, collect(DISTINCT b.t) AS m",
     "CREATE (n:A {x: 1}), (n)-[:R]->(m) RETURN n",
     "MERGE (n:A {x: 'y'}) ON CREATE SET n.c = true, n.d = null ON MATCH SET n:B:C RETURN n",
     "MATCH (n) WITH DISTINCT n ORDER BY n.x DESC NULLS LAST, n.y ASC SKIP 1 LIMIT 2 WHERE n.z RETURN n",
     "RETURN 1 + 2 * 3 - 4 / 5 % 6 ^ 7 ^ 8",
     "RETURN (1 + 2) * 3, 2 - (1 - 3), -(-1)",
     "RETURN true AND false OR NOT true XOR x",
     "MATCH (n) WHERE (n.a OR n.b) AND n.c RETURN n",
     "RETURN x STARTS WITH 'A', x ENDS WITH y, x CONTAINS z, x =~ 'r', x IN [1, 2], x IS NOT NULL, x IS NULL",
     "RETURN a < b, a <= b, a > b, a >= b, a <> b, a != b, a = b",
     "RETURN CASE WHEN a THEN 1 ELSE 2 END, CASE x WHEN 1 THEN 2 END",
     "RETURN [x IN xs WHERE x > 1 | x + 1], [x IN xs], xs[1], xs[1..2], xs[..2], xs[1..], []",
     "RETURN {a: 1, b: {c: 2}}, {}, n{.*, .a, b: 1, c}, n{}",
     "RETURN all(x IN xs WHERE x), any(x IN xs WHERE x), none(x IN xs), single(x IN xs WHERE x)",
     "RETURN reduce(a = 0, x IN xs | a + x), extract(x IN xs | x), filter(x IN xs WHERE x)",
     "RETURN COUNT { (a)-->(b) }, COUNT { MATCH (a) RETURN a }, count(*), count(DISTINCT x), coalesce(a, 1)",
     "MATCH (n) WHERE EXISTS { MATCH (n)-->(m) RETURN m } RETURN n",
     "MATCH (n) WHERE EXISTS { (n)-->(m) WHERE m.x } AND exists((n)-->()) AND exists(n.x) RETURN n",
     "MATCH (n) WHERE (n)-->(:A) AND NOT (n)<--() AND NOT ((n)--(m)) AND ((n)--()) RETURN n",
     "RETURN [(a)-->(b) WHERE b.x | b.y], [p = (a)-->(b) | p]",
     "MATCH (n:A|B), (m:A&B), (k:A:B) RETURN n",
     "MATCH (n:$p), (m:(A|B)&!C) RETURN n",
     "MATCH (n WHERE n.x = 1)-[r:R WHERE r.y]->(m) RETURN n",
     "MATCH (a)-[r:A|:B*2 {x: 1}]-(b), (a)-[*]->(b), (a)-[*..3]->(b), (a)-[*2..]->(b) RETURN r",
     "MATCH (a)<-[r]->(b), (a)<-->(b), (a)<--(b), (a)-->(b) RETURN r",
     "MATCH (a)-[*bfs 1..5]->(b), (a)-[*wShortest (e, n | e.w) t]->(b) RETURN a",
     "MATCH p = shortestPath((a)-[*]->(b)), q = allShortestPaths((a)--(b)) RETURN p",
     "MATCH ((a)-->(b)){1,3}, ((a)-->(b))+ RETURN a",
     "MATCH (n) SET n.x = 1, n += {y: 2}, (n).z = 3 REMOVE n.x, n:A DETACH DELETE n",
     "MATCH (n) DELETE n, r FOREACH (x IN xs | SET x.a = 1 CREATE (m))",
     "MATCH (n:A) USING INDEX n:A(x) RETURN n",
     "MATCH (n:A) USING SCAN n:A USING JOIN ON n WHERE n.x RETURN n",
     "RETURN 1 AS a UNION ALL RETURN 2 AS a UNION RETURN 3 AS a",
     "RETURN 1 AS a NEXT RETURN a",
     "USE g MATCH (n) RETURN n",
     "INSERT (n:A) FINISH",
     "FOR x IN [1, 2] LET y = x + 1, z = 2 FILTER (x WHERE x > 1) RETURN y",
     "LOAD CSV WITH HEADERS FROM 'f' AS row FIELDTERMINATOR ';' RETURN row",
     "MATCH (n) SEARCH n IN (VECTOR INDEX i FOR $v LIMIT 3) SCORE AS s WHERE s > 1 RETURN n",
     "WHEN x THEN { RETURN 1 AS a } ELSE { RETURN 2 AS a }",
     "CALL (x, y) { RETURN 1 AS a } IN TRANSACTIONS OF 10 ROWS RETURN a",
     "CALL (*) { RETURN 1 AS a } RETURN a",
     "OPTIONAL CALL { RETURN 1 AS a } RETURN a",
     "MATCH (n) RETURN n.x AS x, count(n) AS c GROUP BY n.x ORDER BY x",
     "SHOW INDEXES",
     "CREATE INDEX ON :A(x)",
     "CYPHER 5 MATCH (n) RETURN n",
     "RETURN 0@x@F, 0@o@7@, 1.50, .5, 1@e@3, 12@e@-2, 1.2@e@+1",
     "RETURN 'it\\'s\\@n\\@t@x\\@r@q\\\\\\@b', \"d\"",
     "RETURN #my x#, n.#a b#, #t##k#",
     "MATCH (n:#A B#)-[r:#R S#]->(m) RETURN n",
     "RETURN #match#",
     "MATCH (n:#A B#|C) RETURN n",
     "RETURN {#a b#: 1}",
     "RETURN a.b.c(1), a.b.c, f(), f(*), abs(-1)",
     "RETURN 1 // c",
     "/* a */ RETURN /* b */ 1 // c",
     "RETURN /* a *//* b */ // c /* d\n // e\n /* f **/ 1",
     "RETURN /* a",
     "RETURN 'a",
     "RETURN 0@x@, 1",
     "RETURN 1@e",
     "RETURN $",
     "RETURN $p + ~",
     "MATCH (a)-[*0@x@2]->(b) RETURN a",
     "RETURN ((((1))))",
     "RETURN (n)",
     "RETURN [[[[1]]]]",
     "RETURN (a) - (b)",
     "RETURN NOT (x - 1 > 0)",
     "RETURN size((a)-->(b))",
     "RETURN n:A, n:A AND m:B",
     "RETURN (n:A)",
     "MATCH (n",
     "RETURN",
     "RETURN 1 2"}

(* Parentheses that decide what a query means. *)
GroupedTexts ==
    {"MATCH (n) WHERE (n.a OR n.b) AND n.c RETURN n", "RETURN (1 + 2) * 3",
     "RETURN 2 - (1 - 3)", "RETURN 1 + 2 * 3", "MATCH (n) RETURN n"}

MCSources == {Atoms(text) : text \in SurfaceTexts}
GroupedSources == {Atoms(text) : text \in GroupedTexts}

MCNames ==
    {atom \in UNION {Range(Atoms(text)) : text \in SurfaceTexts \cup GroupedTexts} :
        atom # Backtick /\ Character(atom, 1) \in Letter} \ Keywords

ThereAndBack(first, second) == <<first, second, first, second>>
MCRoutes ==
    {ThereAndBack("opencypher", "neo4j25"), ThereAndBack("neo4j25", "memgraph"),
     ThereAndBack("neo4j5", "puppygraph"), ThereAndBack("none", "none")}
IdentityRoutes == {<<"opencypher", "opencypher", "opencypher">>}
=============================================================================
