---------------------------- MODULE CreateTable ----------------------------
(***************************************************************************)
(* The recursive-descent parsers of CREATE TABLE in src/c/flatast2.c,       *)
(* src/c/lexrdpast.c and src/odin/lexparserast1.odin, the lowering of the   *)
(* tree to a flat array in the first, and what they allocate and free.  The *)
(* parsers agree but for what they free when they give up and for whether   *)
(* they look at a failed allocation.  The input is any sequence of tokens;  *)
(* a step takes one token, makes one allocation or returns.                 *)
(***************************************************************************)
EXTENDS Naturals, Sequences

CONSTANTS
  MaxTokens    \* bound: the length of the input

Tokens == {"CREATE", "TABLE", "INT", "VARCHAR", "PRIMARY", "KEY", "identifier", "number",
           "(", ")", "comma", "semicolon", "error", "eof"}
Keywords == {"CREATE", "TABLE", "INT", "VARCHAR", "PRIMARY", "KEY"}
Versions == {"flatast2", "lexrdpast", "lexparserast1"}

ASSUME CreateTableAssumption == MaxTokens \in Nat

VARIABLES
  version,   \* which of the programs this is
  pc,        \* where the parser is
  read,      \* the tokens taken so far
  current,   \* parser->current
  col,       \* the locals of parse_column_def
  columns,   \* the list of columns parsed
  flat,      \* the columns of the flat table
  heap       \* what is allocated and not freed

vars == <<version, pc, read, current, col, columns, flat, heap>>

-----------------------------------------------------------------------------
(* A column; its name is the place of the token it is a copy of.            *)
Column == [name : 0 .. MaxTokens, type : {"INT", "VARCHAR"}, given : BOOLEAN, key : BOOLEAN]
NoColumn == [name |-> 0, type |-> "INT", given |-> FALSE, key |-> FALSE]

(* What is allocated: copies of names, list nodes (elements of the dynamic  *)
(* array in lexparserast1.odin), and the two tables.                        *)
Name(p) == <<"name", p>>
Node(p) == <<"node", p>>
Stmt == <<"stmt", 0>>
FlatTable == <<"flat", 0>>
Array == <<"array", 0>>

TablePlace == 3

Init ==
  /\ version \in Versions
  /\ pc = "create" /\ read = <<>> /\ current \in Tokens
  /\ col = NoColumn /\ columns = <<>> /\ flat = <<>> /\ heap = {}

-----------------------------------------------------------------------------
(* The other two use what malloc or the allocator gives without a look, and *)
(* are modelled where it gives something.                                   *)
MayFail == version = "flatast2"

(* parser_advance; the input ends at its bound if not before.               *)
Advance ==
  /\ read' = Append(read, current)
  /\ current' \in IF Len(read) + 1 < MaxTokens THEN Tokens ELSE {"eof"}

Here == Len(read) + 1

(* parser_match and parser_expect succeed.                                  *)
Take(from, t, to) ==
  /\ pc = from /\ current = t
  /\ Advance
  /\ pc' = to

(* What is allowed as a name by parse_identifier.  Seeded bug: KEY is not.  *)
IsNameNotKey(t) == t \in {"identifier", "TABLE"}

IsName(t) == t \in {"identifier", "TABLE", "KEY"}

Held(cs) == {Stmt, Name(TablePlace)} \cup UNION {{Node(cs[k].name), Name(cs[k].name)} : k \in DOMAIN cs}

(* parse_column_def gives up and frees its name, and parse_create_table     *)
(* frees the rest but in lexrdpast.c.  Seeded bug: the name is kept.             *)
GiveUpUnnamed(h) == IF version # "lexrdpast" THEN h \ Held(columns) ELSE h

GiveUp(h) == IF version # "lexrdpast" THEN h \ (Held(columns) \cup {Name(col.name)}) ELSE h \ {Name(col.name)}

Fail(why) ==
  /\ pc' = why /\ heap' = GiveUp(heap)
  /\ UNCHANGED <<read, current, col, columns, flat>>

(* The head of the statement, before there is anything but its name.        *)
Opening ==
  /\ Take("create", "CREATE", "table") \/ Take("table", "TABLE", "name")
     \/ Take("open", "(", "stmt")
  /\ UNCHANGED <<col, columns, flat, heap>>

OpeningFails ==
  /\ \/ pc = "create" /\ current # "CREATE"
     \/ pc = "table" /\ current # "TABLE"
     \/ pc = "name" /\ ~ IsName(current)
     \/ pc = "open" /\ current # "("
  /\ pc' = "failed" /\ heap' = heap \ {Name(TablePlace)}
  /\ UNCHANGED <<read, current, col, columns, flat>>

TableName ==
  /\ pc = "name" /\ IsName(current)
  /\ Advance
  /\ \/ pc' = "open" /\ heap' = heap \cup {Name(Here)}
     \/ MayFail /\ pc' = "nomem" /\ UNCHANGED heap
  /\ UNCHANGED <<col, columns, flat>>

AllocStmt ==
  /\ pc = "stmt"
  /\ \/ pc' = "more" /\ heap' = heap \cup {Stmt}
     \/ MayFail /\ pc' = "nomem" /\ heap' = heap \ {Name(TablePlace)}
  /\ UNCHANGED <<read, current, col, columns, flat>>

(* The loop over columns.                                                   *)
More ==
  /\ pc = "more"
  /\ pc' = IF current \in {")", "eof"} THEN "close" ELSE "column"
  /\ UNCHANGED <<read, current, col, columns, flat, heap>>

ColumnName ==
  /\ pc = "column" /\ IsName(current)
  /\ Advance
  /\ \/ /\ pc' = "type" /\ heap' = heap \cup {Name(Here)}
        /\ col' = [NoColumn EXCEPT !.name = Here]
     \/ /\ MayFail /\ pc' = "nomem" /\ heap' = GiveUp(heap)
        /\ UNCHANGED col
  /\ UNCHANGED <<columns, flat>>

ColumnType ==
  /\ \/ Take("type", "INT", "primary") /\ UNCHANGED col
     \/ Take("type", "VARCHAR", "length") /\ col' = [col EXCEPT !.type = "VARCHAR"]
     \/ Take("length", "(", "number") /\ UNCHANGED col
     \/ Take("number", "number", "closing") /\ col' = [col EXCEPT !.given = TRUE]
     \/ Take("closing", ")", "primary") /\ UNCHANGED col
  /\ UNCHANGED <<columns, flat, heap>>

ColumnKey ==
  /\ \/ Take("primary", "PRIMARY", "key") /\ UNCHANGED col
     \/ Take("key", "KEY", "node") /\ col' = [col EXCEPT !.key = TRUE]
  /\ UNCHANGED <<columns, flat, heap>>

(* An optional part, or the rest of the loop, that is not there.            *)
Skip(from, t, to) == pc = from /\ current # t /\ pc' = to

Optional ==
  /\ Skip("length", "(", "primary") \/ Skip("primary", "PRIMARY", "node")
     \/ Skip("comma", "comma", "close") \/ Skip("semicolon", "semicolon", "parsed")
  /\ UNCHANGED <<read, current, col, columns, flat, heap>>

Punctuation ==
  /\ Take("comma", "comma", "more") \/ Take("close", ")", "semicolon")
     \/ Take("semicolon", "semicolon", "parsed")
  /\ UNCHANGED <<col, columns, flat, heap>>

ColumnFails ==
  /\ \/ pc = "column" /\ ~ IsName(current)
     \/ pc = "type" /\ current \notin {"INT", "VARCHAR"}
     \/ pc = "number" /\ current # "number"
     \/ pc = "closing" /\ current # ")"
     \/ pc = "key" /\ current # "KEY"
  /\ Fail("failed")

CloseFails == pc = "close" /\ current # ")" /\ Fail("failed")

(* Seeded bug: the list is not followed to its tail.                        *)
LinkedFirst(cs, c) == <<c>> \o cs

Linked(cs, c) == Append(cs, c)

AllocNode ==
  /\ pc = "node"
  /\ \/ /\ pc' = "comma" /\ heap' = heap \cup {Node(col.name)}
        /\ columns' = Linked(columns, col) /\ col' = NoColumn
        /\ UNCHANGED <<read, current, flat>>
     \/ MayFail /\ Fail("nomem")

-----------------------------------------------------------------------------
(* lower_to_flat: the names pass to the flat table, the nodes are freed.    *)
Lowered(h) ==
  (h \cup {FlatTable, Array}) \ ({Stmt} \cup {Node(columns[k].name) : k \in DOMAIN columns})

Lower ==
  /\ version = "flatast2" /\ pc = "parsed"
  /\ \/ /\ pc' = "lowered" /\ heap' = Lowered(heap)
        /\ flat' = columns /\ columns' = <<>>
     \/ /\ MayFail
        /\ pc' = "unlowered"
        /\ UNCHANGED <<heap, flat, columns>>
  /\ UNCHANGED <<read, current, col>>

FreeFlat ==
  /\ pc = "lowered" /\ pc' = "done"
  /\ heap' = heap \ ({FlatTable, Array, Name(TablePlace)} \cup {Name(flat[k].name) : k \in DOMAIN flat})
  /\ UNCHANGED <<read, current, col, columns, flat>>

FreeTree ==
  /\ version # "flatast2" /\ pc = "parsed" /\ pc' = "done"
  /\ heap' = heap \ Held(columns)
  /\ UNCHANGED <<read, current, col, columns, flat>>

(* main returns, whatever the outcome.                                      *)
Outcomes == {"done", "failed", "nomem", "unlowered"}
Return == pc \in Outcomes /\ UNCHANGED vars

Next ==
  /\ UNCHANGED version
  /\ \/ Opening \/ OpeningFails \/ TableName \/ AllocStmt
     \/ More \/ ColumnName \/ ColumnType \/ ColumnKey \/ Optional \/ Punctuation
     \/ ColumnFails \/ CloseFails \/ AllocNode
     \/ Lower \/ FreeFlat \/ FreeTree \/ Return

Spec == Init /\ [][Next]_vars

-----------------------------------------------------------------------------
(* The language, stated without the parser: columns between commas.         *)
Names == {<<"identifier">>, <<"TABLE">>, <<"KEY">>}
Types == {<<"INT">>, <<"VARCHAR">>, <<"VARCHAR", "(", "number", ")">>}
Columns == {n \o t \o k : n \in Names, t \in Types, k \in {<<>>, <<"PRIMARY", "KEY">>}}

(* The part of a body that ends just before place p.                        *)
Segment(body, p) ==
  LET cut == {q \in 1 .. p - 1 : body[q] = "comma"} IN
  IF cut = {} THEN SubSeq(body, 1, p - 1)
  ELSE SubSeq(body, 1 + CHOOSE q \in cut : \A r \in cut : r <= q, p - 1)

IsBody(body) ==
  /\ \A p \in 1 .. Len(body) : body[p] = "comma" => Segment(body, p) \in Columns
  /\ Segment(body, Len(body) + 1) \in Columns \cup {<<>>}

IsStatement(s) ==
  LET n == IF Len(s) > 0 /\ s[Len(s)] = "semicolon" THEN Len(s) - 1 ELSE Len(s) IN
  /\ n >= 5
  /\ s[1] = "CREATE" /\ s[2] = "TABLE" /\ <<s[3]>> \in Names /\ s[4] = "(" /\ s[n] = ")"
  /\ IsBody(SubSeq(s, 5, n - 1))

(* Ways to complete what begins a statement.                                *)
Endings ==
  LET one == <<"CREATE", "TABLE", "identifier", "(", "identifier",
               "VARCHAR", "(", "number", ")", "PRIMARY", "KEY", ")">>
  IN {<<>>} \cup {SubSeq(one, k, Len(one)) : k \in 1 .. Len(one)} \cup {<<"INT", ")">>, <<")", ")">>}

BeginsStatement(s) == \E e \in Endings : IsStatement(s \o e)

-----------------------------------------------------------------------------
(* The parser takes exactly the statements of the language and stops at the *)
(* first token that no statement has there.                                 *)
Recognised ==
  /\ BeginsStatement(read)
  /\ pc \in {"parsed", "lowered", "done"} => IsStatement(read)
  /\ pc = "failed" => ~ BeginsStatement(Append(read, current))

(* The columns that the tokens taken declare: where they start, and the one *)
(* that starts at place p.                                                  *)
Starts(s) == {p \in 4 .. Len(s) - 1 : IsName(s[p]) /\ s[p + 1] \in {"INT", "VARCHAR"}}
Given(s, p) == p + 2 <= Len(s) /\ s[p + 2] = "("
After(s, p) == IF Given(s, p) THEN p + 5 ELSE p + 2
Key(s, p) == After(s, p) <= Len(s) /\ s[After(s, p)] = "PRIMARY"
ColumnAt(s, p) == [name |-> p, type |-> s[p + 1], given |-> Given(s, p), key |-> Key(s, p)]

Declares(s, cs) ==
  /\ {cs[k].name : k \in DOMAIN cs} = Starts(s)
  /\ \A k \in DOMAIN cs : cs[k] = ColumnAt(s, cs[k].name)
  /\ \A j, k \in DOMAIN cs : j < k => cs[j].name < cs[k].name

(* The table is the one the text declares: every column, in order, with its *)
(* own type, length and key; lowering changes none of it.                   *)
Translated ==
  /\ pc = "parsed" => Declares(read, columns)
  /\ pc = "lowered" => Declares(read, flat)

(* What the program can still reach, in each of its phases, and after it    *)
(* what it leaves: nothing, but for the tree that lexrdpast.c, by its own   *)
(* comment, does not free when it gives up, and the one that main of        *)
(* flatast2.c keeps when lowering fails (see TreeDiscarded).                *)
Tree == Held(columns) \cup (IF col.name = 0 THEN {} ELSE {Name(col.name)})
Reached ==
  CASE pc = "unlowered" -> Held(columns)
    [] pc = "failed" -> IF version = "lexrdpast" /\ Len(read) > TablePlace THEN Held(columns) ELSE {}
    [] pc \in {"create", "table", "name", "done", "nomem"} -> {}
    [] pc \in {"open", "stmt"} -> {Name(TablePlace)}
    [] pc = "lowered" -> {FlatTable, Array, Name(TablePlace)} \cup {Name(flat[k].name) : k \in DOMAIN flat}
    [] OTHER -> Tree

(* All that is allocated is reached from where it will be freed, and all    *)
(* that is reached is allocated: nothing but these trees leaks on any path, *)
(* whichever token or allocation ends it, and nothing is used or freed      *)
(* after it was freed.                                                      *)
Owned == heap = Reached

(* The comment of main in flatast2.c: the tree is discarded.  It does not   *)
(* hold when lowering fails.                                                *)
TreeDiscarded == pc \in Outcomes => heap = {}

(* The comment of parse_identifier in all versions: keywords may be names.  *)
(* It does not hold: only some of the keywords are accepted.                *)
KeywordsAreNames == pc = "failed" => ~ (current \in Keywords /\ BeginsStatement(Append(read, "identifier")))
=============================================================================
