----------------------------- MODULE MCSelinger -----------------------------
(* Queries for TLC: three tables of a small catalog, and at most one        *)
(* predicate between any two of them, written either way round.             *)
EXTENDS Selinger

Table(rows, pages, indexes) == [rows |-> rows, pages |-> pages, indexes |-> indexes]
Index(col, clustered, pages) == [col |-> col, clustered |-> clustered, pages |-> pages]

MCCatalog == {Table(1, 2, <<Index(0, TRUE, 1)>>), Table(3, 16, <<Index(0, FALSE, 2), Index(1, TRUE, 12)>>)}

Between(a, b, sel) ==
  {<<>>} \cup {<<[t1 |-> p[1], c1 |-> c1, t2 |-> p[2], c2 |-> c2, sel |-> sel]>> :
                 p \in {<<a, b>>, <<b, a>>}, c1 \in {0, 1}, c2 \in {0, 1}}
MCJoins == {x \o y \o z : x \in Between(0, 1, 1), y \in Between(1, 2, 3), z \in Between(0, 2, 1)}
=============================================================================
