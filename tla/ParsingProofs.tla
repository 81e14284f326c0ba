--------------------------- MODULE ParsingProofs ---------------------------
(***************************************************************************)
(* Proofs about CreateTable, for inputs of every length: what is allocated, *)
(* what is built, and which texts are taken.                                *)
(***************************************************************************)
EXTENDS CreateTable, WellFoundedInduction, SequenceTheorems, TLAPS

-----------------------------------------------------------------------------
(* The inductive invariant.  Where the parser is says what it has of a      *)
(* column, how far it has read and what the tokens read last were.          *)

Heading == {"create", "table", "name", "open", "stmt"}
InColumn == {"type", "length", "number", "closing", "primary", "key", "node"}
Between == {"more", "column", "comma", "close", "semicolon", "parsed"}
Pcs == Heading \cup InColumn \cup Between \cup {"lowered"} \cup Outcomes

AnyColumn == [name : Nat, type : {"INT", "VARCHAR"}, given : BOOLEAN, key : BOOLEAN]

Typed ==
  /\ version \in Versions /\ pc \in Pcs
  /\ read \in Seq(Tokens) /\ current \in Tokens
  /\ col \in AnyColumn /\ columns \in Seq(AnyColumn) /\ flat \in Seq(AnyColumn)

Counts(p, n) ==
  /\ p = "create" => n = 0
  /\ p = "table" => n = 1
  /\ p = "name" => n = 2
  /\ p = "open" => n = 3
  /\ p = "stmt" => n = 4

Counted == Counts(pc, Len(read))

Placed ==
  /\ Counted
  /\ pc \in Heading => columns = <<>>
  /\ pc \in Heading \cup Between => col = NoColumn
  /\ pc \in InColumn \cup Between => Len(read) >= 4
  /\ pc \in InColumn => col.name \in 5 .. Len(read)

Apart ==
  /\ \A k \in DOMAIN columns : columns[k].name \in 5 .. Len(read)
  /\ \A j, k \in DOMAIN columns : j < k => columns[j].name < columns[k].name
  /\ pc \in InColumn => \A k \in DOMAIN columns : columns[k].name < col.name

(* The column being read.                                                   *)
Current ==
  /\ pc = "type" => /\ col = [NoColumn EXCEPT !.name = Len(read)]
                    /\ IsName(read[Len(read)])
  /\ pc \in InColumn \ {"type"} =>
       /\ col.name + 1 \in DOMAIN read
       /\ IsName(read[col.name]) /\ read[col.name + 1] = col.type
  /\ pc = "length" => col.name + 1 = Len(read)
  /\ pc = "number" => col.name + 2 = Len(read) /\ Given(read, col.name)
  /\ pc = "closing" => col.name + 3 = Len(read) /\ Given(read, col.name)
  /\ pc \in {"length", "number"} => col.given = FALSE
  /\ pc = "closing" => col.given = TRUE
  /\ pc \in {"primary", "key", "node"} => col.given = Given(read, col.name)
  /\ pc = "primary" => After(read, col.name) = Len(read) + 1
  /\ pc = "key" => Key(read, col.name)
  /\ pc \in InColumn \ {"node"} => col.key = FALSE
  /\ pc = "node" => After(read, col.name) <= Len(read) + 1 /\ col.key = Key(read, col.name)

(* The columns cs read from s, and where further columns start: what may    *)
(* still follow cannot change them.                                         *)
Wrote(s, cs, further, end) ==
  /\ Starts(s) = {cs[k].name : k \in DOMAIN cs} \cup further
  /\ \A k \in DOMAIN cs :
       /\ cs[k] = ColumnAt(s, cs[k].name)
       /\ cs[k].name + 1 <= Len(s) /\ After(s, cs[k].name) <= end

Started == IF pc \in InColumn \ {"type"} THEN {col.name} ELSE {}
Ended == IF pc \in {"comma", "close"} THEN Len(read) + 1 ELSE Len(read)
Written ==
  /\ pc \in Heading \cup InColumn \cup Between => Wrote(read, columns, Started, Ended)
  /\ pc = "lowered" => Declares(read, flat)

Inv == Typed /\ Placed /\ Apart /\ Owned

-----------------------------------------------------------------------------
(* Sequences and records.                                                   *)

LEMMA Appended ==
  ASSUME NEW S, NEW s \in Seq(S), NEW t \in S
  PROVE  /\ Append(s, t) \in Seq(S) /\ Len(Append(s, t)) = Len(s) + 1
         /\ Len(s) \in Nat /\ DOMAIN s = 1 .. Len(s)
         /\ DOMAIN Append(s, t) = 1 .. Len(s) + 1
         /\ \A p \in 1 .. Len(s) : Append(s, t)[p] = s[p]
         /\ Append(s, t)[Len(s) + 1] = t
  OBVIOUS

LEMMA Empty ==
  ASSUME NEW S
  PROVE  <<>> \in Seq(S) /\ Len(<<>>) = 0 /\ DOMAIN <<>> = {}
  OBVIOUS

LEMMA ColumnTypes ==
  /\ NoColumn \in AnyColumn /\ NoColumn.name = 0
  /\ \A n \in Nat : [NoColumn EXCEPT !.name = n] \in AnyColumn /\ [NoColumn EXCEPT !.name = n].name = n
  /\ \A c \in AnyColumn : /\ [c EXCEPT !.type = "VARCHAR"] \in AnyColumn
                          /\ [c EXCEPT !.given = TRUE] \in AnyColumn
                          /\ [c EXCEPT !.key = TRUE] \in AnyColumn
                          /\ [c EXCEPT !.type = "VARCHAR"].name = c.name
                          /\ [c EXCEPT !.given = TRUE].name = c.name
                          /\ [c EXCEPT !.key = TRUE].name = c.name
                          /\ c.name \in Nat
  <1>1. NoColumn \in AnyColumn /\ NoColumn.name = 0
    BY DEF NoColumn, AnyColumn
  <1>2. ASSUME NEW n \in Nat
        PROVE  [NoColumn EXCEPT !.name = n] \in AnyColumn /\ [NoColumn EXCEPT !.name = n].name = n
    BY DEF NoColumn, AnyColumn
  <1>3. ASSUME NEW c \in AnyColumn
        PROVE  /\ [c EXCEPT !.type = "VARCHAR"] \in AnyColumn
               /\ [c EXCEPT !.given = TRUE] \in AnyColumn
               /\ [c EXCEPT !.key = TRUE] \in AnyColumn
    BY DEF AnyColumn
  <1>4. ASSUME NEW c \in AnyColumn
        PROVE  /\ [c EXCEPT !.type = "VARCHAR"].name = c.name
               /\ [c EXCEPT !.given = TRUE].name = c.name
               /\ [c EXCEPT !.key = TRUE].name = c.name
               /\ c.name \in Nat
    BY DEF AnyColumn
  <1> QED
    BY <1>1, <1>2, <1>3, <1>4

LEMMA TypedInit == Init => Typed
  BY ColumnTypes DEF Init, Typed, Pcs, Heading

LEMMA TypedNext == Typed /\ [Next]_vars => Typed'
  <1> SUFFICES ASSUME Typed, [Next]_vars PROVE Typed'
    OBVIOUS
  <1> USE DEF Typed
  <1>1. Advance => read' \in Seq(Tokens) /\ current' \in Tokens
    <2>1. {"eof"} \subseteq Tokens
      BY DEF Tokens
    <2> QED
      BY <2>1, Appended DEF Advance
  <1>2. Here \in Nat
    BY DEF Here
  <1> USE DEF Pcs, Heading, InColumn, Between, Outcomes
  <1>3. CASE Opening /\ UNCHANGED version
    BY <1>1, <1>3 DEF Opening, Take
  <1>4. CASE OpeningFails /\ UNCHANGED version
    BY <1>4 DEF OpeningFails
  <1>5. CASE TableName /\ UNCHANGED version
    BY <1>1, <1>5 DEF TableName
  <1>6. CASE AllocStmt /\ UNCHANGED version
    BY <1>6 DEF AllocStmt
  <1>7. CASE More /\ UNCHANGED version
    BY <1>7 DEF More
  <1>8. CASE ColumnName /\ UNCHANGED version
    BY <1>1, <1>2, <1>8, ColumnTypes DEF ColumnName
  <1>9. CASE ColumnType /\ UNCHANGED version
    <2>1. col' \in AnyColumn
      BY <1>9, ColumnTypes DEF ColumnType
    <2>2. Advance /\ pc' \in Pcs /\ UNCHANGED <<version, columns, flat>>
      BY <1>9 DEF ColumnType, Take
    <2> QED
      BY <2>1, <2>2, <1>1
  <1>10. CASE ColumnKey /\ UNCHANGED version
    <2>1. col' \in AnyColumn
      BY <1>10, ColumnTypes DEF ColumnKey
    <2>2. Advance /\ pc' \in Pcs /\ UNCHANGED <<version, columns, flat>>
      BY <1>10 DEF ColumnKey, Take
    <2> QED
      BY <2>1, <2>2, <1>1
  <1>11. CASE Optional /\ UNCHANGED version
    BY <1>11 DEF Optional, Skip
  <1>12. CASE Punctuation /\ UNCHANGED version
    BY <1>1, <1>12 DEF Punctuation, Take
  <1>13. CASE ColumnFails /\ UNCHANGED version
    BY <1>13 DEF ColumnFails, Fail
  <1>14. CASE CloseFails /\ UNCHANGED version
    BY <1>14 DEF CloseFails, Fail
  <1>15. CASE AllocNode /\ UNCHANGED version
    <2>1. Append(columns, col) \in Seq(AnyColumn)
      BY Appended
    <2>2. columns' \in Seq(AnyColumn) /\ col' \in AnyColumn
      BY <2>1, <1>15, ColumnTypes DEF AllocNode, Fail, Linked
    <2>3. pc' \in Pcs /\ UNCHANGED <<read, current, flat>>
      BY <1>15 DEF AllocNode, Fail
    <2> QED
      BY <2>2, <2>3, <1>15
  <1>16. CASE (Lower \/ FreeFlat \/ FreeTree \/ Return) /\ UNCHANGED version
    <2>1. columns' \in {<<>>, columns} /\ flat' \in {columns, flat}
      BY <1>16 DEF Lower, FreeFlat, FreeTree, Return, vars
    <2>2. pc' \in Pcs /\ UNCHANGED <<read, current, col>>
      BY <1>16 DEF Lower, FreeFlat, FreeTree, Return, vars
    <2>3. <<>> \in Seq(AnyColumn)
      BY Empty
    <2>4. columns' \in Seq(AnyColumn)
      BY <2>1, <2>3
    <2>5. flat' \in Seq(AnyColumn)
      BY <2>1
    <2> QED
      BY <2>2, <2>4, <2>5, <1>16
  <1>17. CASE UNCHANGED vars
    BY <1>17 DEF vars
  <1> QED
    BY <1>3, <1>4, <1>5, <1>6, <1>7, <1>8, <1>9, <1>10, <1>11, <1>12, <1>13, <1>14,
       <1>15, <1>16, <1>17 DEF Next

-----------------------------------------------------------------------------
(* What is reached.                                                         *)

LEMMA Things ==
  /\ \A p, q : Name(p) = Name(q) => p = q
  /\ \A p, q : Node(p) = Node(q) => p = q
  /\ \A p, q : Name(p) # Node(q)
  /\ \A p : Name(p) \notin {Stmt, FlatTable, Array} /\ Node(p) \notin {Stmt, FlatTable, Array}
  /\ Stmt \notin {FlatTable, Array}
  BY DEF Name, Node, Stmt, FlatTable, Array

LEMMA HeldIs ==
  \A cs, x : x \in Held(cs) <=> \/ x = Stmt \/ x = Name(TablePlace)
                                \/ \E k \in DOMAIN cs : x = Node(cs[k].name) \/ x = Name(cs[k].name)
  BY DEF Held

LEMMA HeldAppend ==
  ASSUME NEW cs \in Seq(AnyColumn), NEW c \in AnyColumn
  PROVE  Held(Append(cs, c)) = Held(cs) \cup {Node(c.name), Name(c.name)}
  <1>1. /\ DOMAIN Append(cs, c) = DOMAIN cs \cup {Len(cs) + 1}
        /\ \A k \in DOMAIN cs : Append(cs, c)[k] = cs[k]
        /\ Append(cs, c)[Len(cs) + 1] = c
    OBVIOUS
  <1> DEFINE both == Append(cs, c)
  <1>2. ASSUME NEW x
        PROVE  x \in Held(both) <=> x \in Held(cs) \cup {Node(c.name), Name(c.name)}
    <2> HIDE DEF both
    <2>1. x \in Held(both) <=> \/ x = Stmt \/ x = Name(TablePlace)
                               \/ \E k \in DOMAIN both : x = Node(both[k].name) \/ x = Name(both[k].name)
      BY HeldIs
    <2>2. x \in Held(cs) <=> \/ x = Stmt \/ x = Name(TablePlace)
                             \/ \E k \in DOMAIN cs : x = Node(cs[k].name) \/ x = Name(cs[k].name)
      BY HeldIs
    <2>3. /\ DOMAIN both = DOMAIN cs \cup {Len(cs) + 1}
          /\ \A k \in DOMAIN cs : both[k] = cs[k]
          /\ both[Len(cs) + 1] = c
      BY <1>1 DEF both
    <2> QED
      BY <2>1, <2>2, <2>3
  <1> HIDE DEF both
  <1>3. Held(both) = Held(cs) \cup {Node(c.name), Name(c.name)}
    BY <1>2
  <1> QED
    BY <1>3 DEF both

ReachedBy ==
  /\ pc \in {"create", "table", "name", "done", "nomem"} => Reached = {}
  /\ pc \in {"open", "stmt"} => Reached = {Name(TablePlace)}
  /\ pc \in Between /\ col = NoColumn => Reached = Held(columns)
  /\ pc \in InColumn /\ col.name # 0 => Reached = Held(columns) \cup {Name(col.name)}
  /\ pc = "lowered" =>
       Reached = {FlatTable, Array, Name(TablePlace)} \cup {Name(flat[k].name) : k \in DOMAIN flat}
  /\ pc = "unlowered" => Reached = Held(columns)
  /\ pc = "failed" =>
       Reached = IF version = "lexrdpast" /\ Len(read) > TablePlace THEN Held(columns) ELSE {}

LEMMA ReachedSimply == ReachedBy
  <1>1. pc \in Between /\ col = NoColumn => Reached = Held(columns)
    BY ColumnTypes DEF Reached, Tree, Between
  <1>2. pc \in InColumn /\ col.name # 0 => Reached = Held(columns) \cup {Name(col.name)}
    BY DEF Reached, Tree, InColumn
  <1>3. pc \in {"create", "table", "name", "done", "nomem"} => Reached = {}
    BY DEF Reached
  <1>4. pc \in {"open", "stmt"} => Reached = {Name(TablePlace)}
    BY DEF Reached
  <1>5. pc = "lowered" =>
       Reached = {FlatTable, Array, Name(TablePlace)} \cup {Name(flat[k].name) : k \in DOMAIN flat}
    BY DEF Reached
  <1>6. pc = "unlowered" => Reached = Held(columns)
    BY DEF Reached
  <1>7. pc = "failed" =>
       Reached = IF version = "lexrdpast" /\ Len(read) > TablePlace THEN Held(columns) ELSE {}
    BY DEF Reached
  <1> QED
    BY <1>1, <1>2, <1>3, <1>4, <1>5, <1>6, <1>7 DEF ReachedBy

(* What giving up leaves of a tree.                                         *)
LEMMA GivenUp ==
  ASSUME Typed, Placed, Apart, Owned, pc \in InColumn \cup Between
  PROVE  GiveUp(heap) = IF version = "lexrdpast" THEN Held(columns) ELSE {}
  <1>1. CASE pc \in InColumn
    <2>1. col.name \in Nat /\ col.name >= 5 /\ \A k \in DOMAIN columns : columns[k].name # col.name
      BY <1>1 DEF Typed, Placed, Apart, AnyColumn
    <2>2. heap = Held(columns) \cup {Name(col.name)}
      BY <1>1, <2>1, ReachedSimply DEF ReachedBy, Owned
    <2>3. Name(col.name) \notin Held(columns)
      BY <2>1, Things, HeldIs DEF TablePlace
    <2> QED
      BY <2>2, <2>3 DEF GiveUp
  <1>2. CASE pc \in Between
    <2>1. col = NoColumn /\ col.name = 0
      BY <1>2, ColumnTypes DEF Placed, Counted, Counts
    <2>2. heap = Held(columns)
      BY <1>2, <2>1, ReachedSimply DEF ReachedBy, Owned
    <2>3. \A k \in DOMAIN columns : columns[k].name # 0
      BY DEF Apart
    <2>4. Name(col.name) \notin Held(columns)
      BY <2>1, <2>3, Things, HeldIs DEF TablePlace
    <2> QED
      BY <2>2, <2>4 DEF GiveUp
  <1> QED
    BY <1>1, <1>2

-----------------------------------------------------------------------------
(* Every step keeps the invariant.                                          *)

LEMMA InvInit == Init => Inv
  <1> SUFFICES ASSUME Init PROVE Inv
    OBVIOUS
  <1>1. Placed /\ Apart
    BY Empty DEF Init, Placed, Counted, Counts, Apart, Heading, InColumn, Between
  <1>2. Owned
    BY ReachedSimply DEF Init, ReachedBy, Owned
  <1> QED
    BY <1>1, <1>2, TypedInit DEF Inv

LEMMA CountsFacts ==
  ASSUME NEW p, NEW q, NEW n, Counts(p, n)
  PROVE  /\ p \in {"create", "table", "name", "open"} => n <= 3
         /\ p = "name" => n = 2
         /\ p = "stmt" => n = 4
         /\ (p = "create" /\ q = "table") \/ (p = "table" /\ q = "name")
              \/ (p = "name" /\ q = "open") \/ (p = "open" /\ q = "stmt") => Counts(q, n + 1)
  BY DEF Counts

(* A token is taken, and no more than that.                                 *)
LEMMA Advanced ==
  ASSUME Typed, Advance
  PROVE  Len(read') = Len(read) + 1 /\ Len(read) \in Nat
  BY Appended DEF Typed, Advance

LEMMA HeadingNext ==
  ASSUME Inv, Typed', ReachedBy', UNCHANGED version,
         Opening \/ OpeningFails \/ TableName \/ AllocStmt
  PROVE  Placed' /\ Apart' /\ Owned'
  <1> USE DEF Heading, InColumn, Between
  <1>1. pc \in {"create", "table", "name", "open", "stmt"} /\ columns = <<>> /\ col = NoColumn
    BY DEF Inv, Placed, Opening, Take, OpeningFails, TableName, AllocStmt
  <1>2. columns' = <<>> /\ col' = NoColumn /\ NoColumn.name = 0
    BY <1>1, ColumnTypes DEF Opening, OpeningFails, TableName, AllocStmt
  <1>3. Apart'
    BY <1>2, Empty DEF Inv, Apart
  <1>4. heap = IF pc \in {"open", "stmt"} THEN {Name(TablePlace)} ELSE {}
    BY <1>1, ReachedSimply DEF ReachedBy, Inv, Owned
  <1>5. Held(<<>>) = {Stmt, Name(TablePlace)}
    BY Empty, HeldIs
  <1>6. CASE Opening
    <2>1. Len(read') = Len(read) + 1 /\ Len(read) \in Nat /\ heap' = heap
      BY <1>6, Advanced DEF Opening, Take, Inv
    <2>2. /\ Counted
          /\ \/ pc = "create" /\ pc' = "table"
             \/ pc = "table" /\ pc' = "name"
             \/ pc = "open" /\ pc' = "stmt"
      BY <1>6 DEF Inv, Placed, Opening, Take
    <2>3. Counted'
      BY <2>1, <2>2, CountsFacts DEF Counted
    <2>4. Placed'
      BY <1>2, <2>2, <2>3 DEF Placed
    <2>5. pc' \in {"table", "name", "stmt"} /\ (pc' = "stmt" <=> pc = "open") /\ pc # "stmt"
      BY <2>2
    <2> QED
      BY <1>3, <1>4, <2>1, <2>4, <2>5 DEF ReachedBy, Owned
  <1>7. CASE OpeningFails
    <2>1. pc' = "failed" /\ heap' = {} /\ Len(read) <= 3 /\ read' = read
      <3>1. pc' = "failed" /\ heap' = heap \ {Name(TablePlace)} /\ read' = read /\ pc # "stmt"
        BY <1>7 DEF OpeningFails
      <3>2. Len(read) <= 3
        <4>1. Counted /\ pc \in {"create", "table", "name", "open"}
          BY <1>1, <3>1 DEF Inv, Placed
        <4> QED
          BY <4>1, CountsFacts DEF Counted
      <3> QED
        BY <3>1, <3>2, <1>4
    <2>2. Placed'
      BY <2>1 DEF Placed, Counted, Counts
    <2> QED
      BY <1>3, <2>1, <2>2 DEF ReachedBy, Owned, TablePlace, Inv, Typed
  <1>8. CASE TableName
    <2>1. Len(read') = 3 /\ Here = TablePlace /\ pc' \in {"open", "nomem"}
      <3>1. pc = "name" /\ Advance /\ pc' \in {"open", "nomem"}
        BY <1>8 DEF TableName
      <3>2. Len(read) = 2
        BY <3>1 DEF Inv, Placed, Counted, Counts
      <3>3. Len(read') = Len(read) + 1
        BY <3>1, Advanced DEF Inv
      <3> QED
        BY <3>1, <3>2, <3>3 DEF Here, TablePlace
    <2>2. Placed'
      BY <1>2, <2>1 DEF Placed, Counted, Counts
    <2>3. heap' = IF pc' = "open" THEN {Name(TablePlace)} ELSE {}
      BY <1>8, <1>4, <2>1 DEF TableName
    <2> QED
      BY <1>3, <2>1, <2>2, <2>3 DEF ReachedBy, Owned
  <1>9. CASE AllocStmt
    <2>1. pc' \in {"more", "nomem"} /\ read' = read /\ Len(read) = 4
      <3>1. pc = "stmt" /\ pc' \in {"more", "nomem"} /\ read' = read
        BY <1>9 DEF AllocStmt
      <3>2. Counts("stmt", Len(read))
        BY <3>1 DEF Inv, Placed, Counted
      <3>3. Len(read) = 4
        BY <3>2 DEF Counts
      <3> QED
        BY <3>1, <3>3
    <2>2. Placed'
      BY <1>2, <2>1 DEF Placed, Counted, Counts
    <2>3. heap' = IF pc' = "more" THEN Held(<<>>) ELSE {}
      BY <1>9, <1>4, <1>5 DEF AllocStmt
    <2> QED
      BY <1>2, <1>3, <2>1, <2>2, <2>3 DEF ReachedBy, Owned
  <1> QED
    BY <1>6, <1>7, <1>8, <1>9

LEMMA LoopNext ==
  ASSUME Inv, Typed', ReachedBy', UNCHANGED version,
         More \/ Optional \/ Punctuation \/ ColumnType \/ ColumnKey
  PROVE  Placed' /\ Apart' /\ Owned'
  <1> USE DEF Heading, InColumn, Between
  <1>1. pc \in InColumn \cup Between /\ Len(read) >= 4 /\ Len(read) \in Nat
    BY DEF Inv, Placed, Typed, More, Optional, Skip, Punctuation, ColumnType, ColumnKey, Take
  <1>2. /\ pc' \in InColumn \cup Between
        /\ pc' \in InColumn <=> pc \in InColumn
    BY DEF More, Optional, Skip, Punctuation, ColumnType, ColumnKey, Take
  <1>3. columns' = columns /\ heap' = heap /\ Len(read') \in {Len(read), Len(read) + 1}
    BY Advanced DEF More, Optional, Skip, Punctuation, ColumnType, ColumnKey, Take, Inv
  <1>4. col' \in AnyColumn /\ col'.name = col.name /\ col.name \in Nat
    BY ColumnTypes DEF More, Optional, Skip, Punctuation, ColumnType, ColumnKey, Inv, Typed
  <1>5. pc \in Between => col = NoColumn /\ col' = NoColumn
    BY DEF More, Optional, Skip, Punctuation, ColumnType, ColumnKey, Take, Inv, Placed
  <1>6. Placed'
    <2>1. pc \in InColumn => col'.name \in 5 .. Len(read')
      BY <1>1, <1>3, <1>4 DEF Inv, Placed, Counted, Counts
    <2>2. Len(read') >= 4
      BY <1>1, <1>3
    <2>3. pc' \in InColumn => col'.name \in 5 .. Len(read')
      BY <1>2, <2>1
    <2>4. pc' \in Between => col' = NoColumn
      BY <1>1, <1>2, <1>5
    <2>5. pc' \notin {"create", "table", "name", "open", "stmt"}
      BY <1>2
    <2> QED
      BY <2>2, <2>3, <2>4, <2>5 DEF Placed, Counted, Counts
  <1>7. Apart'
    <2>1. \A k \in DOMAIN columns : columns[k].name \in 5 .. Len(read')
      BY <1>1, <1>3 DEF Inv, Apart
    <2>2. pc \in InColumn => \A k \in DOMAIN columns : columns[k].name < col'.name
      BY <1>4 DEF Inv, Apart
    <2> QED
      BY <1>2, <1>3, <2>1, <2>2 DEF Apart, Inv
  <1>8. Owned'
    <2>1. CASE pc \in InColumn
      <3>1. col.name # 0
        BY <2>1, <1>4 DEF Inv, Placed, Counted, Counts
      <3> QED
        BY <2>1, <3>1, <1>2, <1>3, <1>4, ReachedSimply DEF ReachedBy, Inv, Owned
    <2>2. CASE pc \in Between
      BY <2>2, <1>2, <1>3, <1>5, ReachedSimply DEF ReachedBy, Inv, Owned
    <2> QED
      BY <2>1, <2>2, <1>1
  <1> QED
    BY <1>6, <1>7, <1>8

LEMMA FailNext ==
  ASSUME Inv, Typed', ReachedBy', UNCHANGED version,
         ColumnFails \/ CloseFails \/ (AllocNode /\ pc' = "nomem") \/ (ColumnName /\ pc' = "nomem")
  PROVE  Placed' /\ Apart' /\ Owned'
  <1> USE DEF Heading, InColumn, Between
  <1>1. /\ pc \in InColumn \cup Between /\ Len(read) >= 4 /\ Len(read) \in Nat
        /\ pc' \in {"failed", "nomem"} /\ (pc' = "nomem" => version = "flatast2")
    BY DEF Inv, Placed, Typed, ColumnFails, CloseFails, AllocNode, ColumnName, Fail, MayFail
  <1>2. columns' = columns /\ Len(read') \in {Len(read), Len(read) + 1}
    BY Advanced DEF ColumnFails, CloseFails, AllocNode, ColumnName, Fail, Inv
  <1>3. heap' = GiveUp(heap)
    BY DEF ColumnFails, CloseFails, AllocNode, ColumnName, Fail
  <1>4. Placed'
    BY <1>1 DEF Placed, Counted, Counts
  <1>5. Apart'
    BY <1>1, <1>2 DEF Inv, Apart
  <1>6. Owned'
    <2>1. heap' = IF version = "lexrdpast" THEN Held(columns) ELSE {}
      BY <1>1, <1>3, GivenUp DEF Inv
    <2>2. Len(read') > TablePlace
      BY <1>1, <1>2 DEF TablePlace
    <2> QED
      BY <1>1, <1>2, <2>1, <2>2 DEF ReachedBy, Owned
  <1> QED
    BY <1>4, <1>5, <1>6

LEMMA ColumnNameNext ==
  ASSUME Inv, Typed', ReachedBy', UNCHANGED version, ColumnName, pc' # "nomem"
  PROVE  Placed' /\ Apart' /\ Owned'
  <1> USE DEF Heading, InColumn, Between
  <1>1. pc = "column" /\ pc' = "type" /\ columns' = columns /\ heap' = heap \cup {Name(Here)}
    BY DEF ColumnName
  <1>2. Len(read) \in Nat /\ Len(read) >= 4 /\ Len(read') = Len(read) + 1 /\ col = NoColumn
    BY <1>1, Advanced DEF Inv, Placed, ColumnName
  <1>3. Here = Len(read) + 1 /\ Here \in Nat
    BY <1>2 DEF Here
  <1>4. col'.name = Here
    BY <1>1, <1>3, ColumnTypes DEF ColumnName
  <1>5. Placed'
    BY <1>1, <1>2, <1>3, <1>4 DEF Placed, Counted, Counts
  <1>6. Apart'
    BY <1>1, <1>2, <1>3, <1>4 DEF Inv, Apart
  <1>7. heap = Held(columns)
    BY <1>1, <1>2, ReachedSimply DEF ReachedBy, Inv, Owned
  <1>8. Owned'
    BY <1>1, <1>2, <1>3, <1>4, <1>7 DEF ReachedBy, Owned
  <1> QED
    BY <1>5, <1>6, <1>8

LEMMA AllocNodeNext ==
  ASSUME Inv, Typed', ReachedBy', UNCHANGED version, AllocNode, pc' # "nomem"
  PROVE  Placed' /\ Apart' /\ Owned'
  <1> USE DEF Heading, InColumn, Between
  <1>1. /\ pc = "node" /\ pc' = "comma" /\ heap' = heap \cup {Node(col.name)}
        /\ columns' = Append(columns, col) /\ col' = NoColumn /\ read' = read
    BY DEF AllocNode, Fail, Linked
  <1>2. /\ col \in AnyColumn /\ columns \in Seq(AnyColumn)
        /\ Len(read) \in Nat /\ Len(read) >= 4 /\ col.name \in 5 .. Len(read)
    BY <1>1 DEF Inv, Typed, Placed
  <1>3. /\ DOMAIN columns' = 1 .. Len(columns) + 1 /\ DOMAIN columns = 1 .. Len(columns)
        /\ Len(columns) \in Nat
        /\ \A k \in DOMAIN columns : columns'[k] = columns[k]
        /\ columns'[Len(columns) + 1] = col
    BY <1>1, <1>2, Appended
  <1>4. Placed'
    BY <1>1, <1>2 DEF Placed, Counted, Counts
  <1>5. Apart'
    <2>1. \A k \in DOMAIN columns' : columns'[k].name \in 5 .. Len(read')
      BY <1>1, <1>2, <1>3 DEF Inv, Apart
    <2>2. \A k \in DOMAIN columns : columns[k].name < col.name
      BY <1>1 DEF Inv, Apart
    <2>3. ASSUME NEW j \in DOMAIN columns', NEW k \in DOMAIN columns', j < k
          PROVE  columns'[j].name < columns'[k].name
      <3>1. j \in DOMAIN columns /\ columns'[j] = columns[j]
        BY <1>3, <2>3
      <3>2. k \in DOMAIN columns => columns'[k] = columns[k] /\ columns[j].name < columns[k].name
        BY <3>1, <1>3, <2>3 DEF Inv, Apart
      <3>3. k \notin DOMAIN columns => columns'[k] = col
        BY <1>3
      <3> QED
        BY <3>1, <3>2, <3>3, <2>2
    <2> QED
      BY <1>1, <2>1, <2>3 DEF Apart
  <1>6. Owned'
    <2>1. heap = Held(columns) \cup {Name(col.name)}
      BY <1>1, <1>2, ReachedSimply DEF ReachedBy, Inv, Owned
    <2>2. Held(columns') = Held(columns) \cup {Node(col.name), Name(col.name)}
      BY <1>1, <1>2, HeldAppend
    <2> QED
      BY <1>1, <2>1, <2>2 DEF ReachedBy, Owned
  <1> QED
    BY <1>4, <1>5, <1>6

LEMMA EndNext ==
  ASSUME Inv, Typed', ReachedBy', UNCHANGED version, Lower \/ FreeFlat \/ FreeTree
  PROVE  Placed' /\ Apart' /\ Owned'
  <1> USE DEF Heading, InColumn, Between
  <1>1. pc' \in {"lowered", "unlowered", "done"} /\ read' = read /\ columns' \in {columns, <<>>}
    BY DEF Lower, FreeFlat, FreeTree
  <1>2. Placed'
    BY <1>1 DEF Placed, Counted, Counts
  <1>3. Apart'
    BY <1>1, Empty DEF Inv, Apart
  <1>4. pc = "parsed" => heap = Held(columns)
    BY ReachedSimply DEF ReachedBy, Inv, Owned, Placed
  <1>5. CASE Lower /\ pc' = "lowered"
    <2>1. pc = "parsed" /\ heap' = Lowered(heap) /\ flat' = columns
      BY <1>5 DEF Lower
    <2>2. heap' = {FlatTable, Array, Name(TablePlace)} \cup {Name(columns[k].name) : k \in DOMAIN columns}
      BY <2>1, <1>4, Things, HeldIs DEF Lowered
    <2> QED
      BY <1>2, <1>3, <1>5, <2>1, <2>2 DEF ReachedBy, Owned
  <1>6. CASE Lower /\ pc' = "unlowered"
    BY <1>2, <1>3, <1>4, <1>6 DEF Lower, ReachedBy, Owned
  <1>7. CASE FreeFlat
    <2>1. heap' = {} /\ pc' = "done"
      BY <1>7, ReachedSimply DEF FreeFlat, ReachedBy, Inv, Owned
    <2> QED
      BY <1>2, <1>3, <2>1 DEF ReachedBy, Owned
  <1>8. CASE FreeTree
    <2>1. heap' = {} /\ pc' = "done"
      BY <1>8, <1>4 DEF FreeTree
    <2> QED
      BY <1>2, <1>3, <2>1 DEF ReachedBy, Owned
  <1> QED
    BY <1>5, <1>6, <1>7, <1>8 DEF Lower

LEMMA InvNext == Inv /\ [Next]_vars => Inv'
  <1> SUFFICES ASSUME Inv, [Next]_vars PROVE Inv'
    OBVIOUS
  <1>1. Typed'
    BY TypedNext DEF Inv
  <1>2. ReachedBy'
    BY ReachedSimply, PTL
  <1>3. CASE UNCHANGED vars
    BY <1>3, <1>1 DEF vars, Inv, Placed, Counted, Apart, Owned, Reached, Tree, Held
  <1>4. CASE Next /\ ~ UNCHANGED vars
    <2>1. UNCHANGED version
      BY <1>4 DEF Next
    <2>2. CASE Opening \/ OpeningFails \/ TableName \/ AllocStmt
      BY <2>2, <2>1, <1>1, <1>2, HeadingNext DEF Inv
    <2>3. CASE More \/ Optional \/ Punctuation \/ ColumnType \/ ColumnKey
      BY <2>3, <2>1, <1>1, <1>2, LoopNext DEF Inv
    <2>4. CASE ColumnFails \/ CloseFails
      BY <2>4, <2>1, <1>1, <1>2, FailNext DEF Inv
    <2>5. CASE ColumnName
      BY <2>5, <2>1, <1>1, <1>2, FailNext, ColumnNameNext DEF Inv
    <2>6. CASE AllocNode
      BY <2>6, <2>1, <1>1, <1>2, FailNext, AllocNodeNext DEF Inv
    <2>7. CASE Lower \/ FreeFlat \/ FreeTree
      BY <2>7, <2>1, <1>1, <1>2, EndNext DEF Inv
    <2> QED
      BY <1>4, <2>2, <2>3, <2>4, <2>5, <2>6, <2>7 DEF Next, Return
  <1> QED
    BY <1>3, <1>4

(* Whatever token or allocation ends the parse, what is allocated is what   *)
(* will be freed, for inputs of every length.                               *)
THEOREM NothingLeaks == Spec => []Owned
  <1>1. Inv => Owned
    BY DEF Inv
  <1> QED
    BY <1>1, InvInit, InvNext, PTL DEF Spec

-----------------------------------------------------------------------------
(* What one more token changes of the columns read.                         *)

LEMMA Truths ==
  ASSUME NEW s, NEW u, NEW p, NEW q
  PROVE  /\ Given(s, p) \in BOOLEAN /\ Key(s, p) \in BOOLEAN
         /\ (Given(s, p) <=> Given(u, q)) => Given(s, p) = Given(u, q)
         /\ (Key(s, p) <=> Key(u, q)) => Key(s, p) = Key(u, q)
  BY Zenon DEF Given, Key

LEMMA StartsAppended ==
  ASSUME NEW s \in Seq(Tokens), NEW t \in Tokens
  PROVE  Starts(Append(s, t)) =
           Starts(s) \cup (IF Len(s) >= 4 /\ IsName(s[Len(s)]) /\ t \in {"INT", "VARCHAR"}
                            THEN {Len(s)} ELSE {})
  <1> DEFINE u == Append(s, t)
  <1>1. /\ Len(u) = Len(s) + 1 /\ Len(s) \in Nat
        /\ \A p \in 1 .. Len(s) : u[p] = s[p]
        /\ u[Len(s) + 1] = t
    BY Appended
  <1> HIDE DEF u
  <1>2. ASSUME NEW p
        PROVE  p \in Starts(u) <=> \/ p \in Starts(s)
                                   \/ p = Len(s) /\ p >= 4 /\ IsName(s[p]) /\ t \in {"INT", "VARCHAR"}
    <2>1. p \in Starts(u) <=> p \in 4 .. Len(s) /\ IsName(u[p]) /\ u[p + 1] \in {"INT", "VARCHAR"}
      BY <1>1 DEF Starts
    <2>2. CASE p = Len(s)
      BY <1>1, <2>1, <2>2 DEF Starts
    <2>3. CASE p \in 4 .. Len(s) - 1
      <3>1. u[p] = s[p] /\ u[p + 1] = s[p + 1]
        BY <1>1, <2>3
      <3> QED
        BY <1>1, <2>1, <2>3, <3>1 DEF Starts
    <2>4. CASE p # Len(s) /\ p \notin 4 .. Len(s) - 1
      BY <1>1, <2>1, <2>4 DEF Starts
    <2> QED
      BY <2>2, <2>3, <2>4
  <1>3. Starts(u) = Starts(s) \cup (IF Len(s) >= 4 /\ IsName(s[Len(s)]) /\ t \in {"INT", "VARCHAR"}
                                   THEN {Len(s)} ELSE {})
    BY <1>2, <1>1
  <1> QED
    BY <1>3 DEF u

LEMMA ColumnAppended ==
  ASSUME NEW s \in Seq(Tokens), NEW t \in Tokens, NEW p \in Nat, p >= 1, p + 1 <= Len(s)
  PROVE  /\ p + 2 <= Len(s) => (Given(Append(s, t), p) <=> Given(s, p))
         /\ p + 2 > Len(s) => (Given(Append(s, t), p) <=> t = "(") /\ ~ Given(s, p)
         /\ Append(s, t)[p] = s[p] /\ Append(s, t)[p + 1] = s[p + 1]
         /\ After(s, p) <= Len(s) + 1 /\ (After(s, p) = Len(s) + 1 => t \notin {"(", "PRIMARY"}) =>
              /\ Given(Append(s, t), p) <=> Given(s, p)
              /\ After(Append(s, t), p) = After(s, p)
              /\ Key(Append(s, t), p) <=> Key(s, p)
  <1> DEFINE u == Append(s, t)
  <1>1. /\ Len(u) = Len(s) + 1 /\ Len(s) \in Nat
        /\ \A q \in 1 .. Len(s) : u[q] = s[q]
        /\ u[Len(s) + 1] = t
    BY Appended
  <1> HIDE DEF u
  <1>2. p + 2 <= Len(s) => (Given(u, p) <=> Given(s, p))
    BY <1>1 DEF Given
  <1>3. p + 2 > Len(s) => (Given(u, p) <=> t = "(") /\ ~ Given(s, p)
    <2>1. p + 2 > Len(s) => p + 2 = Len(s) + 1
      BY <1>1
    <2> QED
      BY <1>1, <2>1 DEF Given
  <1>4. u[p] = s[p] /\ u[p + 1] = s[p + 1]
    BY <1>1
  <1>5. ASSUME After(s, p) <= Len(s) + 1, After(s, p) = Len(s) + 1 => t \notin {"(", "PRIMARY"}
        PROVE  /\ Given(u, p) <=> Given(s, p)
               /\ After(u, p) = After(s, p)
               /\ Key(u, p) <=> Key(s, p)
    <2>1. Given(u, p) <=> Given(s, p)
      <3>1. CASE p + 2 <= Len(s)
        BY <3>1, <1>2
      <3>2. CASE p + 2 > Len(s)
        <4>1. After(s, p) = Len(s) + 1
          BY <1>1, <1>3, <3>2 DEF After
        <4> QED
          BY <4>1, <1>3, <1>5, <3>2
      <3> QED
        BY <3>1, <3>2, <1>1
    <2>2. After(u, p) = After(s, p) /\ After(s, p) \in Nat /\ After(s, p) >= 1
      BY <2>1 DEF After
    <2>3. Key(u, p) <=> Key(s, p)
      <3>1. CASE After(s, p) = Len(s) + 1
        BY <3>1, <2>2, <1>1, <1>5 DEF Key
      <3>2. CASE After(s, p) <= Len(s)
        <4>1. u[After(s, p)] = s[After(s, p)]
          BY <3>2, <2>2, <1>1
        <4> QED
          BY <4>1, <3>2, <2>2, <1>1 DEF Key
      <3> QED
        BY <3>1, <3>2, <2>2, <1>1, <1>5
    <2> QED
      BY <2>1, <2>2, <2>3
  <1> QED
    BY <1>2, <1>3, <1>4, <1>5 DEF u

LEMMA WroteAppended ==
  ASSUME NEW s \in Seq(Tokens), NEW t \in Tokens, NEW cs \in Seq(AnyColumn), NEW further, NEW end,
         Wrote(s, cs, further, end), \A k \in DOMAIN cs : cs[k].name \in 5 .. Len(s),
         end \in {Len(s), Len(s) + 1}, end = Len(s) + 1 => t \notin {"(", "PRIMARY"},
         NEW new,
         new = IF Len(s) >= 4 /\ IsName(s[Len(s)]) /\ t \in {"INT", "VARCHAR"} THEN {Len(s)} ELSE {}
  PROVE  Wrote(Append(s, t), cs, further \cup new, Len(s) + 1)
  <1> DEFINE u == Append(s, t)
  <1>1. Len(u) = Len(s) + 1 /\ Len(s) \in Nat
    BY Appended
  <1>2. Starts(u) = {cs[k].name : k \in DOMAIN cs} \cup (further \cup new)
    BY StartsAppended DEF Wrote
  <1>3. ASSUME NEW k \in DOMAIN cs
        PROVE  /\ cs[k] = ColumnAt(u, cs[k].name)
               /\ cs[k].name + 1 <= Len(u) /\ After(u, cs[k].name) <= Len(s) + 1
    <2> DEFINE p == cs[k].name
    <2>1. /\ p \in Nat /\ p >= 1 /\ p + 1 <= Len(s) /\ After(s, p) <= end
          /\ cs[k] = ColumnAt(s, p)
      BY DEF Wrote
    <2> HIDE DEF p
    <2>2. After(s, p) \in Nat
      BY <2>1 DEF After
    <2>3. After(s, p) <= Len(s) + 1 /\ (After(s, p) = Len(s) + 1 => t \notin {"(", "PRIMARY"})
      BY <1>1, <2>1, <2>2
    <2>4. /\ u[p + 1] = s[p + 1] /\ After(u, p) = After(s, p)
          /\ Given(u, p) <=> Given(s, p)
          /\ Key(u, p) <=> Key(s, p)
      BY <2>1, <2>3, ColumnAppended
    <2> HIDE DEF u
    <2>5. ColumnAt(u, p) = ColumnAt(s, p)
      <3>1. Given(u, p) = Given(s, p)
        BY <2>4, Truths
      <3>2. Key(u, p) = Key(s, p)
        BY <2>4, Truths
      <3> QED
        BY <2>4, <3>1, <3>2 DEF ColumnAt
    <2>6. p + 1 <= Len(u) /\ After(u, p) <= Len(s) + 1
      BY <1>1, <2>1, <2>3, <2>4
    <2> QED
      BY <2>1, <2>5, <2>6 DEF p
  <1> HIDE DEF u
  <1>4. Wrote(u, cs, further \cup new, Len(s) + 1)
    BY <1>2, <1>3 DEF Wrote
  <1> QED
    BY <1>4 DEF u

(* Further end, and the columns read are still the columns read.            *)
LEMMA WroteLater ==
  ASSUME NEW s \in Seq(Tokens), NEW cs \in Seq(AnyColumn), NEW further,
         Wrote(s, cs, further, Len(s))
  PROVE  Wrote(s, cs, further, Len(s) + 1)
  <1>1. ASSUME NEW k \in DOMAIN cs
        PROVE  After(s, cs[k].name) <= Len(s) + 1
    <2>1. cs[k].name \in Nat /\ Len(s) \in Nat /\ After(s, cs[k].name) <= Len(s)
      <3>1. cs[k] \in AnyColumn
        OBVIOUS
      <3>2. cs[k].name \in Nat
        BY <3>1, ColumnTypes
      <3>3. After(s, cs[k].name) <= Len(s)
        BY DEF Wrote
      <3>4. Len(s) \in Nat
        OBVIOUS
      <3> QED
        BY <3>2, <3>3, <3>4
    <2>2. After(s, cs[k].name) \in Nat
      BY <2>1 DEF After
    <2> QED
      BY <2>1, <2>2
  <1> QED
    BY <1>1 DEF Wrote

(* A step that takes a token.                                               *)
LEMMA TokenWritten ==
  ASSUME Inv, Written, Advance, pc \in Heading \cup InColumn \cup Between,
         pc \in {"comma", "close"} => current \notin {"(", "PRIMARY"}
  PROVE  /\ current \notin {"INT", "VARCHAR"} => Wrote(read', columns, Started, Len(read'))
         /\ /\ current \in {"INT", "VARCHAR"} /\ Len(read) >= 4 /\ IsName(read[Len(read)])
            => Wrote(read', columns, Started \cup {Len(read)}, Len(read'))
  <1>1. /\ read \in Seq(Tokens) /\ current \in Tokens /\ columns \in Seq(AnyColumn)
        /\ read' = Append(read, current)
        /\ \A k \in DOMAIN columns : columns[k].name \in 5 .. Len(read)
    BY DEF Inv, Typed, Apart, Advance
  <1>2. Len(read') = Len(read) + 1 /\ Len(read) \in Nat
    BY <1>1, Appended
  <1>3. Wrote(read, columns, Started, Ended)
    BY DEF Written
  <1>4. Ended \in {Len(read), Len(read) + 1} /\ (Ended = Len(read) + 1 => current \notin {"(", "PRIMARY"})
    BY <1>2 DEF Ended
  <1> DEFINE new == IF Len(read) >= 4 /\ IsName(read[Len(read)]) /\ current \in {"INT", "VARCHAR"}
                    THEN {Len(read)} ELSE {}
  <1> HIDE DEF new
  <1>5. new = IF Len(read) >= 4 /\ IsName(read[Len(read)]) /\ current \in {"INT", "VARCHAR"}
              THEN {Len(read)} ELSE {}
    BY DEF new
  <1>6. Wrote(read', columns, Started \cup new, Len(read'))
    BY <1>1, <1>2, <1>3, <1>4, <1>5, WroteAppended
  <1>7. current \notin {"INT", "VARCHAR"} => Started \cup new = Started
    BY <1>5
  <1> QED
    BY <1>5, <1>6, <1>7

LEMMA HeadingWritten ==
  ASSUME Inv, Written, Opening \/ OpeningFails \/ TableName \/ AllocStmt
  PROVE  Written'
  <1> USE DEF Heading, InColumn, Between
  <1>1. pc \in {"create", "table", "name", "open", "stmt"}
    BY DEF Opening, OpeningFails, TableName, AllocStmt, Take
  <1>2. pc' \in {"table", "name", "open", "stmt", "more", "failed", "nomem"} /\ columns' = columns
    BY DEF Opening, OpeningFails, TableName, AllocStmt, Take
  <1>3. Started = {} /\ Started' = {} /\ Ended = Len(read) /\ Ended' = Len(read')
    BY <1>1, <1>2 DEF Started, Ended
  <1>4. \/ read' = read
        \/ Advance /\ current \notin {"INT", "VARCHAR"}
    BY DEF Opening, OpeningFails, TableName, AllocStmt, Take, IsName
  <1>5. Wrote(read, columns, {}, Len(read))
    BY <1>1, <1>3 DEF Written
  <1>6. Wrote(read', columns, {}, Len(read'))
    BY <1>1, <1>3, <1>4, <1>5, TokenWritten
  <1> QED
    BY <1>2, <1>3, <1>6 DEF Written

LEMMA LoopWritten ==
  ASSUME Inv, Written, More \/ Optional \/ Punctuation \/ ColumnKey
  PROVE  Written'
  <1> USE DEF Heading, InColumn, Between
  <1>1. /\ pc \in InColumn \cup Between /\ pc' \in InColumn \cup Between
        /\ pc \in InColumn \ {"type"} <=> pc' \in InColumn \ {"type"}
        /\ columns' = columns
    BY DEF More, Optional, Skip, Punctuation, ColumnKey, Take
  <1>2. col' = col \/ col' = [col EXCEPT !.key = TRUE]
    BY DEF More, Optional, Skip, Punctuation, ColumnKey
  <1>3. col'.name = col.name
    BY <1>2, ColumnTypes DEF Inv, Typed
  <1>4. Started' = Started
    BY <1>1, <1>3 DEF Started
  <1>5. CASE More \/ Optional
    <2>1. Wrote(read, columns, Started, Ended)
      BY <1>1 DEF Written
    <2>2. \/ Ended' = Ended
          \/ Ended = Len(read) /\ Ended' = Len(read) + 1
      <3>1. (pc \in {"comma", "close"} => pc' \in {"comma", "close"}) /\ read' = read
        BY <1>5 DEF More, Optional, Skip
      <3> QED
        BY <3>1 DEF Ended
    <2>3. read' = read /\ read \in Seq(Tokens) /\ columns \in Seq(AnyColumn)
      BY <1>5 DEF More, Optional, Skip, Inv, Typed
    <2>4. Wrote(read, columns, Started, Ended')
      BY <2>1, <2>2, <2>3, WroteLater
    <2> QED
      BY <1>1, <1>4, <2>3, <2>4 DEF Written
  <1>6. CASE Punctuation \/ ColumnKey
    <2>1. Advance /\ current \in {"comma", ")", "semicolon", "PRIMARY", "KEY"}
      BY <1>6 DEF Punctuation, ColumnKey, Take
    <2>2. pc \in {"comma", "close"} => current \notin {"(", "PRIMARY"}
      BY <1>6 DEF Punctuation, ColumnKey, Take
    <2>3. pc' \notin {"comma", "close"}
      BY <1>6 DEF Punctuation, ColumnKey, Take
    <2>4. Wrote(read', columns, Started, Len(read'))
      BY <2>1, <2>2, <1>1, TokenWritten
    <2> QED
      BY <1>1, <1>4, <2>3, <2>4 DEF Written, Ended
  <1> QED
    BY <1>5, <1>6

LEMMA ColumnWritten ==
  ASSUME Inv, Written, Current, ColumnName \/ ColumnType
  PROVE  Written'
  <1> USE DEF Heading, InColumn, Between
  <1>1. Advance \/ pc' = "nomem"
    BY DEF ColumnName, ColumnType, Take
  <1>2. CASE ColumnName
    <2>1. pc = "column" /\ current \notin {"INT", "VARCHAR"} /\ columns' = columns
      BY <1>2 DEF ColumnName, IsName
    <2>2. pc' \in {"type", "nomem"} /\ Advance
      BY <1>2 DEF ColumnName
    <2>3. Wrote(read', columns, Started, Len(read'))
      BY <2>1, <2>2, TokenWritten
    <2>4. Started = {} /\ Started' = {} /\ Ended' = Len(read')
      BY <2>1, <2>2 DEF Started, Ended
    <2> QED
      BY <2>1, <2>2, <2>3, <2>4 DEF Written
  <1>3. CASE ColumnType
    <2>1. /\ pc \in {"type", "length", "number", "closing"} /\ columns' = columns /\ Advance
          /\ pc' \in {"primary", "length", "number", "closing"}
      BY <1>3 DEF ColumnType, Take
    <2>2. col'.name = col.name
      BY <1>3, ColumnTypes DEF ColumnType, Inv, Typed
    <2>3. Started' = {col.name} /\ Ended' = Len(read')
      BY <2>1, <2>2 DEF Started, Ended
    <2>4. CASE pc = "type"
      <3>1. current \in {"INT", "VARCHAR"}
        BY <1>3, <2>4 DEF ColumnType, Take
      <3>2. Len(read) \in Nat /\ Len(read) >= 4
        BY <2>4 DEF Inv, Typed, Placed
      <3>3. col.name = Len(read) /\ IsName(read[Len(read)])
        BY <2>4, <3>2, ColumnTypes DEF Current
      <3>4. Wrote(read', columns, Started \cup {Len(read)}, Len(read'))
        BY <2>1, <3>1, <3>2, <3>3, TokenWritten
      <3>5. Started = {}
        BY <2>4 DEF Started
      <3> QED
        BY <2>1, <2>3, <3>3, <3>4, <3>5 DEF Written
    <2>5. CASE pc # "type"
      <3>1. current \notin {"INT", "VARCHAR"}
        BY <1>3, <2>5 DEF ColumnType, Take
      <3>2. Wrote(read', columns, Started, Len(read')) /\ Started = {col.name}
        BY <2>1, <2>5, <3>1, TokenWritten DEF Started
      <3> QED
        BY <2>1, <2>3, <3>2 DEF Written
    <2> QED
      BY <2>4, <2>5
  <1> QED
    BY <1>2, <1>3

(* The column read is added to the columns.                                 *)
LEMMA AllocNodeWritten ==
  ASSUME Inv, Written, Current, AllocNode, pc' # "nomem"
  PROVE  Written'
  <1> USE DEF Heading, InColumn, Between
  <1>1. /\ pc = "node" /\ pc' = "comma" /\ columns' = Append(columns, col) /\ read' = read
        /\ columns \in Seq(AnyColumn) /\ col \in AnyColumn
    BY DEF AllocNode, Fail, Linked, Inv, Typed
  <1>2. /\ DOMAIN columns' = DOMAIN columns \cup {Len(columns) + 1}
        /\ \A k \in DOMAIN columns : columns'[k] = columns[k]
        /\ columns'[Len(columns) + 1] = col
    BY <1>1
  <1>3. Started = {col.name} /\ Started' = {} /\ Ended = Len(read) /\ Ended' = Len(read) + 1
    BY <1>1 DEF Started, Ended
  <1>4. Wrote(read, columns, {col.name}, Len(read) + 1)
    <2>1. Wrote(read, columns, {col.name}, Len(read)) /\ read \in Seq(Tokens)
      BY <1>1, <1>3 DEF Written, Inv, Typed
    <2> QED
      BY <1>1, <2>1, WroteLater
  <1>5. col = ColumnAt(read, col.name)
    <2>1. read[col.name + 1] = col.type /\ col.given = Given(read, col.name) /\ col.key = Key(read, col.name)
      BY <1>1 DEF Current
    <2> QED
      BY <1>1, <2>1 DEF ColumnAt, AnyColumn
  <1>6. col.name + 1 <= Len(read) /\ After(read, col.name) <= Len(read) + 1
    <2>1. col.name + 1 \in DOMAIN read /\ After(read, col.name) <= Len(read) + 1
      BY <1>1 DEF Current
    <2>2. read \in Seq(Tokens)
      BY DEF Inv, Typed
    <2> QED
      BY <2>1, <2>2
  <1>7. Wrote(read, columns', {}, Len(read) + 1)
    <2>1. {columns'[k].name : k \in DOMAIN columns'} = {columns[k].name : k \in DOMAIN columns} \cup {col.name}
      BY <1>2
    <2>2. Starts(read) = {columns'[k].name : k \in DOMAIN columns'} \cup {}
      BY <1>4, <2>1 DEF Wrote
    <2>3. ASSUME NEW k \in DOMAIN columns'
          PROVE  /\ columns'[k] = ColumnAt(read, columns'[k].name)
                 /\ columns'[k].name + 1 <= Len(read) /\ After(read, columns'[k].name) <= Len(read) + 1
      <3>1. CASE k \in DOMAIN columns
        BY <3>1, <1>2, <1>4 DEF Wrote
      <3>2. CASE k \notin DOMAIN columns
        BY <3>2, <1>2, <1>5, <1>6
      <3> QED
        BY <3>1, <3>2
    <2> QED
      BY <2>2, <2>3 DEF Wrote
  <1> QED
    BY <1>1, <1>3, <1>7 DEF Written

LEMMA WrittenDeclares ==
  ASSUME Inv, Written, pc = "parsed"
  PROVE  Declares(read, columns)
  <1>1. Wrote(read, columns, {}, Len(read))
    BY DEF Written, Started, Ended, Heading, InColumn, Between
  <1> QED
    BY <1>1 DEF Wrote, Declares, Inv, Apart

LEMMA WrittenNext ==
  ASSUME Inv, Written, Current, Next
  PROVE  Written'
  <1> USE DEF Heading, InColumn, Between
  <1>1. CASE Opening \/ OpeningFails \/ TableName \/ AllocStmt
    BY <1>1, HeadingWritten
  <1>2. CASE More \/ Optional \/ Punctuation \/ ColumnKey
    BY <1>2, LoopWritten
  <1>3. CASE ColumnName \/ ColumnType
    BY <1>3, ColumnWritten
  <1>4. CASE pc' \in {"failed", "nomem", "unlowered", "done"}
    BY <1>4 DEF Written
  <1>5. CASE AllocNode
    BY <1>4, <1>5, AllocNodeWritten
  <1>6. CASE Lower
    BY <1>4, <1>6, WrittenDeclares DEF Lower, Written
  <1>7. CASE Return
    BY <1>7 DEF Return, vars, Written, Started, Ended, Wrote
  <1>8. CASE ColumnFails \/ CloseFails \/ FreeFlat \/ FreeTree
    BY <1>4, <1>8 DEF ColumnFails, CloseFails, Fail, FreeFlat, FreeTree
  <1> QED
    BY <1>1, <1>2, <1>3, <1>5, <1>6, <1>7, <1>8 DEF Next

-----------------------------------------------------------------------------
(* The column being read.                                                   *)

(* A token taken within a column.                                           *)
LEMMA TokenInColumn ==
  ASSUME Inv, Current, Advance, pc \in InColumn
  PROVE  /\ Len(read') = Len(read) + 1 /\ Len(read) \in Nat
         /\ DOMAIN read' = 1 .. Len(read) + 1 /\ read'[Len(read) + 1] = current
         /\ col.name \in Nat /\ col.name >= 5 /\ col.name <= Len(read) /\ col \in AnyColumn
         /\ IsName(read'[col.name])
  <1>1. read \in Seq(Tokens) /\ current \in Tokens /\ read' = Append(read, current) /\ col \in AnyColumn
    BY DEF Inv, Typed, Advance
  <1>2. /\ Len(read') = Len(read) + 1 /\ Len(read) \in Nat
        /\ DOMAIN read' = 1 .. Len(read) + 1 /\ read'[Len(read) + 1] = current
        /\ \A p \in 1 .. Len(read) : read'[p] = read[p]
    BY <1>1, Appended
  <1>3. col.name \in Nat /\ col.name >= 5 /\ col.name <= Len(read)
    BY <1>2 DEF Inv, Placed
  <1>4. IsName(read[col.name])
    <2>1. CASE pc = "type"
      BY <1>2, <2>1, ColumnTypes DEF Current
    <2>2. CASE pc # "type"
      BY <2>2 DEF Current
    <2> QED
      BY <2>1, <2>2
  <1> QED
    BY <1>1, <1>2, <1>3, <1>4

LEMMA TypeCurrent ==
  ASSUME Inv, Current, Typed', ColumnType
  PROVE  Current'
  <1> USE DEF InColumn
  <1>1. pc \in {"type", "length", "number", "closing"} /\ Advance
    BY DEF ColumnType, Take
  <1>2. /\ Len(read') = Len(read) + 1 /\ Len(read) \in Nat
        /\ DOMAIN read' = 1 .. Len(read) + 1 /\ read'[Len(read) + 1] = current
        /\ col.name \in Nat /\ col.name >= 5 /\ col.name <= Len(read) /\ col \in AnyColumn
        /\ IsName(read'[col.name])
    BY <1>1, TokenInColumn
  <1>3. CASE pc = "type"
    <2>1. col = [NoColumn EXCEPT !.name = Len(read)] /\ col.name = Len(read)
      BY <1>2, <1>3, ColumnTypes DEF Current
    <2>2. col.type = "INT" /\ col.given = FALSE /\ col.key = FALSE
      BY <2>1 DEF NoColumn
    <2>3. \/ pc' = "primary" /\ col' = col /\ current = "INT"
          \/ pc' = "length" /\ col' = [col EXCEPT !.type = "VARCHAR"] /\ current = "VARCHAR"
      BY <1>3 DEF ColumnType, Take
    <2>4. col'.name = Len(read) /\ col'.type = current /\ col'.given = FALSE /\ col'.key = FALSE
      BY <1>2, <2>1, <2>2, <2>3 DEF AnyColumn
    <2>5. ~ Given(read', col'.name) /\ After(read', col'.name) = Len(read') + 1
      BY <1>2, <2>4 DEF Given, After
    <2>6. col'.name + 1 \in DOMAIN read' /\ read'[col'.name + 1] = current
      BY <1>2, <2>4
    <2>7. col'.given = Given(read', col'.name)
      BY <2>4, <2>5, Truths, Zenon
    <2> QED
      BY <1>2, <2>1, <2>3, <2>4, <2>5, <2>6, <2>7 DEF Current
  <1>4. CASE pc # "type"
    <2> DEFINE p == col.name
    <2>1. /\ col.key = FALSE /\ p + 1 <= Len(read) /\ read[p + 1] = col.type
          /\ pc = "length" => p + 1 = Len(read) /\ col.given = FALSE
          /\ pc = "number" => p + 2 = Len(read) /\ col.given = FALSE /\ Given(read, p)
          /\ pc = "closing" => p + 3 = Len(read) /\ col.given = TRUE /\ Given(read, p)
      <3>1. p + 1 \in DOMAIN read /\ read \in Seq(Tokens)
        BY <1>1, <1>4 DEF Current, Inv, Typed
      <3> QED
        BY <1>1, <1>4, <3>1 DEF Current
    <2>2. /\ pc = "length" => pc' = "number" /\ current = "(" /\ col' = col
          /\ pc = "number" => pc' = "closing" /\ col' = [col EXCEPT !.given = TRUE]
          /\ pc = "closing" => pc' = "primary" /\ col' = col
      BY <1>4 DEF ColumnType, Take
    <2>3. /\ col'.name = p /\ col'.type = col.type /\ col'.key = FALSE
          /\ col'.given = IF pc = "length" THEN FALSE ELSE TRUE
      BY <1>1, <1>2, <1>4, <2>1, <2>2 DEF AnyColumn
    <2>4. p \in Nat /\ p >= 1 /\ read \in Seq(Tokens) /\ current \in Tokens /\ read' = Append(read, current)
      BY <1>1, <1>2 DEF Inv, Typed, Advance
    <2> HIDE DEF p
    <2>5. Given(read', p) /\ read'[p + 1] = col.type
      <3>1. /\ p + 2 <= Len(read) => (Given(read', p) <=> Given(read, p))
            /\ p + 2 > Len(read) => (Given(read', p) <=> current = "(")
            /\ read'[p + 1] = read[p + 1]
        BY <2>1, <2>4, ColumnAppended
      <3>2. CASE pc = "length"
        BY <1>2, <2>1, <2>2, <2>4, <3>1, <3>2
      <3>3. CASE pc \in {"number", "closing"}
        BY <1>2, <2>1, <2>2, <2>4, <3>1, <3>3
      <3> QED
        BY <1>1, <1>4, <3>2, <3>3
    <2>6. p + 1 \in DOMAIN read' /\ IsName(read'[p])
      BY <1>2, <2>1, <2>4 DEF p
    <2>7. CASE pc \in {"length", "number"}
      BY <1>2, <2>1, <2>2, <2>3, <2>4, <2>5, <2>6, <2>7 DEF Current
    <2>8. CASE pc = "closing"
      <3>1. After(read', p) = Len(read') + 1
        BY <1>2, <2>1, <2>4, <2>5, <2>8 DEF After
      <3>2. col'.given = Given(read', p)
        BY <2>3, <2>5, <2>8, Truths, Zenon
      <3> QED
        BY <2>2, <2>3, <2>5, <2>6, <2>8, <3>1, <3>2 DEF Current
    <2> QED
      BY <1>1, <1>4, <2>7, <2>8
  <1> QED
    BY <1>3, <1>4

LEMMA KeyCurrent ==
  ASSUME Inv, Current, Typed', ColumnKey
  PROVE  Current'
  <1> USE DEF InColumn
  <1>1. /\ Advance
        /\ \/ pc = "primary" /\ pc' = "key" /\ current = "PRIMARY" /\ col' = col
           \/ pc = "key" /\ pc' = "node" /\ current = "KEY" /\ col' = [col EXCEPT !.key = TRUE]
    BY DEF ColumnKey, Take
  <1>2. /\ Len(read') = Len(read) + 1 /\ Len(read) \in Nat
        /\ DOMAIN read' = 1 .. Len(read) + 1 /\ read'[Len(read) + 1] = current
        /\ col.name \in Nat /\ col.name >= 5 /\ col.name <= Len(read) /\ col \in AnyColumn
        /\ IsName(read'[col.name])
    BY <1>1, TokenInColumn
  <1> DEFINE p == col.name
  <1>3. /\ col.key = FALSE /\ p + 1 <= Len(read) /\ read[p + 1] = col.type
        /\ col.given = Given(read, p)
        /\ pc = "primary" => After(read, p) = Len(read) + 1
        /\ pc = "key" => Key(read, p)
    <2>1. p + 1 \in DOMAIN read /\ read \in Seq(Tokens)
      BY <1>1 DEF Current, Inv, Typed
    <2> QED
      BY <1>1, <2>1 DEF Current
  <1>4. p \in Nat /\ p >= 1 /\ read \in Seq(Tokens) /\ current \in Tokens /\ read' = Append(read, current)
    BY <1>1, <1>2 DEF Inv, Typed, Advance
  <1>5. /\ col'.name = p /\ col'.type = col.type /\ col'.given = col.given
        /\ col'.key = IF pc = "primary" THEN FALSE ELSE TRUE
    BY <1>1, <1>2, <1>3 DEF AnyColumn
  <1>6. p + 1 \in DOMAIN read' /\ IsName(read'[p])
    BY <1>2, <1>3, <1>4
  <1> HIDE DEF p
  <1>7. /\ p + 2 <= Len(read) => (Given(read', p) <=> Given(read, p))
        /\ p + 2 > Len(read) => (Given(read', p) <=> current = "(") /\ ~ Given(read, p)
        /\ read'[p + 1] = read[p + 1]
        /\ After(read, p) <= Len(read) => /\ After(read', p) = After(read, p)
                                          /\ Key(read', p) <=> Key(read, p)
    <2>1. After(read, p) \in Nat
      BY <1>4 DEF After
    <2> QED
      BY <1>2, <1>3, <1>4, <2>1, ColumnAppended
  <1>8. Given(read', p) <=> Given(read, p)
    BY <1>1, <1>2, <1>4, <1>7
  <1>9. col'.given = Given(read', p)
    BY <1>3, <1>5, <1>8, Truths, Zenon
  <1>10. CASE pc = "primary"
    <2>1. After(read', p) = Len(read) + 1
      BY <1>3, <1>8, <1>10 DEF After
    <2>2. Key(read', p)
      BY <1>1, <1>2, <1>10, <2>1 DEF Key
    <2> QED
      BY <1>1, <1>3, <1>5, <1>6, <1>7, <1>9, <1>10, <2>2 DEF Current
  <1>11. CASE pc = "key"
    <2>1. After(read, p) <= Len(read)
      BY <1>3, <1>11 DEF Key
    <2>2. Key(read', p) /\ After(read', p) <= Len(read') + 1
      <3>1. After(read, p) \in Nat
        BY <1>4 DEF After
      <3> QED
        BY <1>2, <1>3, <1>7, <1>11, <2>1, <3>1
    <2>3. col'.key = Key(read', p)
      BY <1>5, <1>11, <2>2, Truths, Zenon
    <2> QED
      BY <1>1, <1>3, <1>5, <1>6, <1>7, <1>9, <1>11, <2>2, <2>3 DEF Current
  <1> QED
    BY <1>1, <1>10, <1>11

(* A part of a column that is not there.                                    *)
LEMMA OptionalCurrent ==
  ASSUME Inv, Current, Optional
  PROVE  Current'
  <1> USE DEF InColumn
  <1>1. /\ read' = read /\ col' = col
        /\ \/ pc = "length" /\ pc' = "primary"
           \/ pc = "primary" /\ pc' = "node"
           \/ pc' \in {"close", "parsed"}
    BY DEF Optional, Skip
  <1>2. pc \in InColumn => col.name \in Nat /\ Len(read) \in Nat
    BY DEF Inv, Typed, AnyColumn
  <1>3. CASE pc = "length" /\ pc' = "primary"
    <2>1. /\ col.name + 1 \in DOMAIN read /\ IsName(read[col.name]) /\ read[col.name + 1] = col.type
          /\ col.name + 1 = Len(read) /\ col.given = FALSE /\ col.key = FALSE
      BY <1>3 DEF Current
    <2>2. ~ Given(read, col.name) /\ After(read, col.name) = Len(read) + 1
      BY <1>2, <1>3, <2>1 DEF Given, After
    <2>3. col.given = Given(read, col.name)
      BY <2>1, <2>2, Truths, Zenon
    <2> QED
      BY <1>1, <1>3, <2>1, <2>2, <2>3 DEF Current
  <1>4. CASE pc = "primary" /\ pc' = "node"
    <2>1. /\ col.name + 1 \in DOMAIN read /\ IsName(read[col.name]) /\ read[col.name + 1] = col.type
          /\ col.given = Given(read, col.name) /\ col.key = FALSE
          /\ After(read, col.name) = Len(read) + 1
      BY <1>4 DEF Current
    <2>2. ~ Key(read, col.name)
      BY <1>2, <1>4, <2>1 DEF Key
    <2>3. col.key = Key(read, col.name)
      BY <2>1, <2>2, Truths, Zenon
    <2>4. After(read, col.name) <= Len(read) + 1
      BY <1>2, <1>4, <2>1
    <2> QED
      BY <1>1, <1>4, <2>1, <2>3, <2>4 DEF Current
  <1>5. CASE pc' \in {"close", "parsed"}
    BY <1>5 DEF Current
  <1> QED
    BY <1>1, <1>3, <1>4, <1>5

LEMMA NameCurrent ==
  ASSUME Inv, Current, ColumnName
  PROVE  Current'
  <1> USE DEF InColumn
  <1>1. /\ Advance /\ IsName(current) /\ pc' \in {"type", "nomem"}
        /\ pc' = "type" => col' = [NoColumn EXCEPT !.name = Here]
    BY DEF ColumnName
  <1>2. read' = Append(read, current) /\ read \in Seq(Tokens) /\ current \in Tokens
    BY <1>1 DEF Inv, Typed, Advance
  <1>3. Here = Len(read') /\ read'[Len(read')] = current
    BY <1>2, Appended DEF Here
  <1>4. [NoColumn EXCEPT !.name = Here].key = FALSE
    BY DEF NoColumn
  <1>5. CASE pc' = "type"
    <2>1. col' = [NoColumn EXCEPT !.name = Len(read')] /\ col'.key = FALSE /\ IsName(read'[Len(read')])
      BY <1>1, <1>3, <1>4, <1>5
    <2> QED
      BY <1>5, <2>1 DEF Current
  <1>6. CASE pc' = "nomem"
    BY <1>6 DEF Current
  <1> QED
    BY <1>1, <1>5, <1>6

LEMMA CurrentNext ==
  ASSUME Inv, Current, Next, Typed'
  PROVE  Current'
  <1> USE DEF InColumn
  <1>1. CASE pc' \notin InColumn
    BY <1>1 DEF Current
  <1>2. CASE Opening \/ OpeningFails \/ TableName \/ AllocStmt \/ More \/ Punctuation
             \/ Lower \/ FreeFlat \/ FreeTree
    BY <1>1, <1>2 DEF Opening, OpeningFails, TableName, AllocStmt, More, Punctuation, Take,
                      Lower, FreeFlat, FreeTree
  <1>3. CASE ColumnFails \/ CloseFails \/ AllocNode
    BY <1>1, <1>3 DEF ColumnFails, CloseFails, AllocNode, Fail
  <1>4. CASE Return
    BY <1>1, <1>4 DEF Return, Outcomes, vars
  <1> QED
    BY <1>2, <1>3, <1>4, TypeCurrent, KeyCurrent, OptionalCurrent, NameCurrent DEF Next

(* The table that comes out of the parser and of the lowering is the one    *)
(* that the tokens declare, for inputs of every length.                     *)
THEOREM AsDeclared == Spec => []Translated
  <1>1. Init => Inv /\ Current /\ Written
    <2> SUFFICES ASSUME Init PROVE Inv /\ Current /\ Written
      OBVIOUS
    <2>1. Current
      BY DEF Init, Current, InColumn
    <2>2. Wrote(<<>>, <<>>, {}, Len(<<>>))
      BY Empty DEF Wrote, Starts
    <2>3. Written
      BY <2>2 DEF Init, Written, Started, Ended, InColumn
    <2> QED
      BY <2>1, <2>3, InvInit
  <1>2. Inv /\ Current /\ Written /\ [Next]_vars => (Inv /\ Current /\ Written)'
    <2> SUFFICES ASSUME Inv, Current, Written, [Next]_vars PROVE (Inv /\ Current /\ Written)'
      OBVIOUS
    <2>1. Inv' /\ Typed'
      BY InvNext DEF Inv
    <2>2. CASE Next
      BY <2>1, <2>2, WrittenNext, CurrentNext
    <2>3. CASE UNCHANGED vars
      BY <2>1, <2>3 DEF vars, Current, Written, Wrote, Started, Ended
    <2> QED
      BY <2>2, <2>3
  <1>3. Inv /\ Written => Translated
    BY WrittenDeclares DEF Translated, Written
  <1> QED
    BY <1>1, <1>2, <1>3, PTL DEF Spec

-----------------------------------------------------------------------------
(* What the parser recognises.                                              *)

(* The least of a set of numbers is one of them.                            *)
LEMMA Least ==
  ASSUME NEW S, S \subseteq Nat, S # {}
  PROVE  \E n \in S : \A m \in S : n <= m
  <1>1. \E x \in S : \A y \in S : ~ <<y, x>> \in OpToRel(<, Nat)
    <2>1. IsWellFoundedOn(OpToRel(<, Nat), Nat)
      BY NatLessThanWellFounded
    <2> HIDE DEF OpToRel
    <2> QED
      BY <2>1, WFMin
  <1>2. PICK x \in S : \A y \in S : ~ <<y, x>> \in OpToRel(<, Nat)
    BY <1>1
  <1>3. ASSUME NEW y \in S PROVE ~ y < x
    <2>1. y < x => <<y, x>> \in OpToRel(<, Nat)
      BY DEF OpToRel
    <2> QED
      BY <1>2, <2>1
  <1> QED
    BY <1>3

-----------------------------------------------------------------------------
(* The language, by places in the tokens: from 5 on, up to n, is the body.  *)
(* A part of it starts at a and goes up to p, where a comma or the end is.  *)
IsPart(s, a, p) ==
  /\ a \in 5 .. p /\ (a = 5 \/ s[a - 1] = "comma")
  /\ \A q \in a .. p - 1 : s[q] # "comma"

(* The token at q of a column that starts at a; and where one may end.      *)
Fits(s, a, q, t) ==
  /\ q = a => IsName(t)
  /\ q = a + 1 => t \in {"INT", "VARCHAR"}
  /\ q = a + 2 => t = "PRIMARY" \/ (t = "(" /\ s[a + 1] = "VARCHAR")
  /\ q = a + 3 => t = (IF s[a + 2] = "(" THEN "number" ELSE "KEY")
  /\ q = a + 4 => t = ")" /\ s[a + 2] = "("
  /\ q = a + 5 => t = "PRIMARY"
  /\ q = a + 6 => t = "KEY"
  /\ q < a + 7
Complete(s, a, p) == p - a \in {2, 5, 7} \/ (p - a = 4 /\ s[a + 3] = "KEY")
IsColumn(s, a, p) == Complete(s, a, p) /\ \A q \in a .. p - 1 : Fits(s, a, q, s[q])

Parted(s, n) ==
  \A p \in 5 .. n, a \in 5 .. n : IsPart(s, a, p) /\ (p = n \/ s[p] = "comma")
                                   => IsColumn(s, a, p) \/ (p = n /\ a = n)

Opener(i, t) ==
  /\ i = 1 => t = "CREATE"
  /\ i = 2 => t = "TABLE"
  /\ i = 3 => IsName(t)
  /\ i = 4 => t = "("

LEMMA NameIs == \A t : IsName(t) <=> <<t>> \in Names
  <1>1. ASSUME NEW t PROVE <<t>>[1] = t
    OBVIOUS
  <1> QED
    BY <1>1 DEF IsName, Names

(* The parts of a column one after the other.                               *)
Keyed == {<<>>, <<"PRIMARY", "KEY">>}
Joint(n, t, k) == n \o t \o k

LEMMA ColumnsJoint == \A x : x \in Columns <=> \E n \in Names, t \in Types, k \in Keyed : x = Joint(n, t, k)
  <1>1. Columns = {Joint(n, t, k) : n \in Names, t \in Types, k \in {<<>>, <<"PRIMARY", "KEY">>}}
    BY SMT DEF Columns, Joint
  <1>2. Columns = {Joint(n, t, k) : n \in Names, t \in Types, k \in Keyed}
    BY <1>1 DEF Keyed
  <1> QED
    BY <1>2, SMT

LEMMA Joined ==
  ASSUME NEW n \in Names, NEW t \in Types, NEW k \in Keyed,
         NEW x, x = Joint(n, t, k)
  PROVE  /\ x \in Seq(Tokens) /\ Len(x) = 1 + Len(t) + Len(k)
         /\ IsName(n[1]) /\ x[1] = n[1]
         /\ \A i \in 1 .. Len(t) : x[1 + i] = t[i]
         /\ \A i \in 1 .. Len(k) : x[1 + Len(t) + i] = k[i]
         /\ Len(t) \in Nat /\ Len(k) \in Nat
  <1>0. IsName(n[1])
    BY DEF Names, IsName
  <1>1. n \in Seq(Tokens) /\ Len(n) = 1
    <2>1. \A v \in Tokens : <<v>> \in Seq(Tokens) /\ Len(<<v>>) = 1
      OBVIOUS
    <2>2. \E v \in Tokens : n = <<v>>
      BY DEF Names, Tokens
    <2> QED
      BY <2>1, <2>2, Zenon
  <1>2. t \in Seq(Tokens) /\ k \in Seq(Tokens) /\ Len(t) \in Nat /\ Len(k) \in Nat
    <2>1. <<"INT">> \in Seq(Tokens) /\ <<"VARCHAR">> \in Seq(Tokens)
      BY DEF Tokens
    <2>2. <<"VARCHAR", "(", "number", ")">> \in Seq(Tokens)
      BY DEF Tokens
    <2>3. <<"PRIMARY", "KEY">> \in Seq(Tokens) /\ <<>> \in Seq(Tokens)
      BY DEF Tokens
    <2>4. t \in Seq(Tokens) /\ k \in Seq(Tokens)
      BY <2>1, <2>2, <2>3 DEF Types, Keyed
    <2> QED
      BY <2>4
  <1>3. /\ n \o t \in Seq(Tokens) /\ Len(n \o t) = 1 + Len(t)
        /\ \A i \in 1 .. 1 + Len(t) : (n \o t)[i] = IF i <= 1 THEN n[i] ELSE t[i - 1]
    <2>1. /\ n \o t \in Seq(Tokens) /\ Len(n \o t) = Len(n) + Len(t)
          /\ \A i \in 1 .. Len(n) + Len(t) : (n \o t)[i] = IF i <= Len(n) THEN n[i] ELSE t[i - Len(n)]
      BY <1>1, <1>2, ConcatProperties
    <2> QED
      BY <1>1, <2>1
  <1> DEFINE y == n \o t
  <1> HIDE DEF y
  <1>4. /\ y \o k \in Seq(Tokens) /\ Len(y \o k) = 1 + Len(t) + Len(k)
        /\ \A i \in 1 .. 1 + Len(t) + Len(k) : (y \o k)[i] = IF i <= 1 + Len(t) THEN y[i] ELSE k[i - (1 + Len(t))]
    <2>1. y \in Seq(Tokens)
      BY <1>3 DEF y
    <2>3. Len(y) = 1 + Len(t)
      BY <1>3 DEF y
    <2>4. k \in Seq(Tokens)
      BY <1>2
    <2>2. /\ y \o k \in Seq(Tokens) /\ Len(y \o k) = Len(y) + Len(k)
          /\ \A i \in 1 .. Len(y) + Len(k) : (y \o k)[i] = IF i <= Len(y) THEN y[i] ELSE k[i - Len(y)]
      BY <2>1, <2>4, ConcatProperties
    <2> QED
      BY <2>1, <2>2, <2>3
  <1>5. (y \o k)[1] = n[1]
    BY <1>2, <1>3, <1>4 DEF y
  <1>6. ASSUME NEW i \in 1 .. Len(t) PROVE (y \o k)[1 + i] = t[i]
    <2>1. (y \o k)[1 + i] = y[1 + i]
      BY <1>2, <1>4
    <2>2. y[1 + i] = t[(1 + i) - 1]
      BY <1>2, <1>3 DEF y
    <2> QED
      BY <2>1, <2>2, <1>2
  <1>7. ASSUME NEW i \in 1 .. Len(k) PROVE (y \o k)[1 + Len(t) + i] = k[i]
    <2>1. (y \o k)[1 + Len(t) + i] = k[(1 + Len(t) + i) - (1 + Len(t))]
      BY <1>2, <1>4
    <2> QED
      BY <2>1, <1>2
  <1>8. x = y \o k
    BY DEF y, Joint
  <1> QED
    BY <1>0, <1>2, <1>4, <1>5, <1>6, <1>7, <1>8

(* The columns, token by token.                                             *)
LEMMA ColumnIs ==
  ASSUME NEW x, NEW n \in Nat, IsName(x[1]), x[2] \in {"INT", "VARCHAR"},
         \/ n = 2
         \/ n = 4 /\ x[3] = "PRIMARY" /\ x[4] = "KEY"
         \/ /\ n \in {5, 7} /\ x[2] = "VARCHAR" /\ x[3] = "(" /\ x[4] = "number" /\ x[5] = ")"
            /\ n = 7 => x[6] = "PRIMARY" /\ x[7] = "KEY"
  PROVE  IsColumn(x, 1, n + 1)
  <1>1. Complete(x, 1, n + 1)
    BY DEF Complete
  <1>2. Fits(x, 1, 1, x[1]) /\ Fits(x, 1, 2, x[2])
    BY DEF Fits
  <1>3. n > 2 => Fits(x, 1, 3, x[3]) /\ Fits(x, 1, 4, x[4])
    BY DEF Fits
  <1>4. n > 4 => Fits(x, 1, 5, x[5])
    BY DEF Fits
  <1>5. n > 5 => x[6] = "PRIMARY" /\ x[7] = "KEY"
    OBVIOUS
  <1>6. n > 5 => Fits(x, 1, 6, x[6]) /\ Fits(x, 1, 7, x[7])
    BY <1>5 DEF Fits
  <1>7. n \in {2, 4, 5, 7}
    OBVIOUS
  <1>8. ASSUME NEW q \in 1 .. n PROVE Fits(x, 1, q, x[q])
    <2>1. q \in {1, 2, 3, 4, 5, 6, 7} /\ (q \in {3, 4} => n > 2) /\ (q = 5 => n > 4) /\ (q \in {6, 7} => n > 5)
      BY <1>7
    <2> QED
      BY <2>1, <1>2, <1>3, <1>4, <1>6
  <1> QED
    BY <1>1, <1>8 DEF IsColumn

LEMMA IsColumnThen ==
  ASSUME NEW x, Len(x) \in Nat, IsColumn(x, 1, Len(x) + 1)
  PROVE  /\ Len(x) >= 2 /\ IsName(x[1]) /\ x[2] \in {"INT", "VARCHAR"}
         /\ \/ Len(x) = 2
            \/ Len(x) = 4 /\ x[3] = "PRIMARY" /\ x[4] = "KEY"
            \/ /\ Len(x) \in {5, 7} /\ x[2] = "VARCHAR" /\ x[3] = "(" /\ x[4] = "number" /\ x[5] = ")"
               /\ Len(x) = 7 => x[6] = "PRIMARY" /\ x[7] = "KEY"
  <1>1. Len(x) \in {2, 5, 7} \/ (Len(x) = 4 /\ x[4] = "KEY")
    BY DEF IsColumn, Complete
  <1>2. \A q \in 1 .. Len(x) : Fits(x, 1, q, x[q])
    BY DEF IsColumn
  <1>3. Fits(x, 1, 1, x[1]) /\ Fits(x, 1, 2, x[2])
    BY <1>1, <1>2
  <1>4. Len(x) > 2 => Fits(x, 1, 3, x[3]) /\ Fits(x, 1, 4, x[4])
    BY <1>1, <1>2
  <1>5. Len(x) > 4 => Fits(x, 1, 5, x[5])
    BY <1>1, <1>2
  <1>6. Len(x) > 5 => Fits(x, 1, 6, x[6]) /\ Fits(x, 1, 7, x[7])
    BY <1>1, <1>2
  <1> QED
    BY <1>1, <1>3, <1>4, <1>5, <1>6 DEF Fits

LEMMA TypeParts ==
  ASSUME NEW t \in Types
  PROVE  \/ Len(t) = 1 /\ t[1] \in {"INT", "VARCHAR"}
         \/ Len(t) = 4 /\ t[1] = "VARCHAR" /\ t[2] = "(" /\ t[3] = "number" /\ t[4] = ")"
  BY DEF Types

LEMMA KeyParts ==
  ASSUME NEW k \in Keyed
  PROVE  Len(k) = 0 \/ (Len(k) = 2 /\ k[1] = "PRIMARY" /\ k[2] = "KEY")
  BY DEF Keyed

LEMMA ColumnThen ==
  ASSUME NEW n \in Names, NEW t \in Types, NEW k \in Keyed, NEW x, x = Joint(n, t, k)
  PROVE  IsColumn(x, 1, Len(x) + 1)
  <1>1. /\ Len(x) = 1 + Len(t) + Len(k) /\ IsName(x[1])
        /\ \A i \in 1 .. Len(t) : x[1 + i] = t[i]
        /\ \A i \in 1 .. Len(k) : x[1 + Len(t) + i] = k[i]
    BY Joined
  <1>2. CASE Len(t) = 1 /\ t[1] \in {"INT", "VARCHAR"}
    <2>1. x[2] = t[1]
      BY <1>1, <1>2
    <2>2. CASE Len(k) = 0
      <3>1. Len(x) = 2 /\ 2 \in Nat
        BY <1>1, <1>2, <2>2
      <3>2. IsColumn(x, 1, 2 + 1)
        BY <1>1, <1>2, <2>1, ColumnIs
      <3> QED
        BY <3>1, <3>2
    <2>3. CASE Len(k) = 2 /\ k[1] = "PRIMARY" /\ k[2] = "KEY"
      <3>1. x[3] = "PRIMARY" /\ x[4] = "KEY" /\ Len(x) = 4 /\ 4 \in Nat
        BY <1>1, <1>2, <2>3
      <3>2. IsColumn(x, 1, 4 + 1)
        BY <1>1, <1>2, <2>1, <3>1, ColumnIs
      <3> QED
        BY <3>1, <3>2
    <2> QED
      BY <2>2, <2>3, KeyParts
  <1>3. CASE Len(t) = 4 /\ t[1] = "VARCHAR" /\ t[2] = "(" /\ t[3] = "number" /\ t[4] = ")"
    <2>1. x[2] = "VARCHAR" /\ x[3] = "(" /\ x[4] = "number" /\ x[5] = ")"
      BY <1>1, <1>3
    <2>2. CASE Len(k) = 0
      <3>1. Len(x) = 5 /\ 5 \in Nat /\ 5 \in {5, 7} /\ 5 # 7
        BY <1>1, <1>3, <2>2
      <3>2. IsColumn(x, 1, 5 + 1)
        BY <1>1, <2>1, <3>1, ColumnIs
      <3> QED
        BY <3>1, <3>2
    <2>3. CASE Len(k) = 2 /\ k[1] = "PRIMARY" /\ k[2] = "KEY"
      <3>1. x[6] = "PRIMARY" /\ x[7] = "KEY" /\ Len(x) = 7 /\ 7 \in Nat /\ 7 \in {5, 7}
        BY <1>1, <1>3, <2>3
      <3>2. IsColumn(x, 1, 7 + 1)
        BY <1>1, <2>1, <3>1, ColumnIs
      <3> QED
        BY <3>1, <3>2
    <2> QED
      BY <2>2, <2>3, KeyParts
  <1> QED
    BY <1>2, <1>3, TypeParts

LEMMA ThenColumn ==
  ASSUME NEW x \in Seq(Tokens), NEW t \in Types, NEW k \in Keyed,
         Len(x) = 1 + Len(t) + Len(k), IsName(x[1]),
         \A i \in 1 .. Len(t) : x[1 + i] = t[i],
         \A i \in 1 .. Len(k) : x[1 + Len(t) + i] = k[i]
  PROVE  x \in Columns
  <1>1. PICK n \in Names : n[1] = x[1]
    <2>1. <<x[1]>> \in Names /\ <<x[1]>>[1] = x[1]
      BY NameIs
    <2> QED
      BY <2>1
  <1>2. PICK y : y = Joint(n, t, k)
    OBVIOUS
  <1>3. /\ y \in Seq(Tokens) /\ Len(y) = 1 + Len(t) + Len(k) /\ y[1] = n[1]
        /\ Len(t) \in Nat /\ Len(k) \in Nat
        /\ \A i \in 1 .. Len(t) : y[1 + i] = t[i]
        /\ \A i \in 1 .. Len(k) : y[1 + Len(t) + i] = k[i]
    BY <1>2, Joined
  <1>4. y \in Columns
    BY <1>2, ColumnsJoint
  <1>5. ASSUME NEW i \in 1 .. Len(x) PROVE x[i] = y[i]
    <2>1. CASE i = 1
      BY <2>1, <1>1, <1>3
    <2>2. ASSUME NEW j \in 1 .. Len(t), i = 1 + j PROVE x[i] = y[i]
      BY <2>2, <1>3
    <2>3. ASSUME NEW j \in 1 .. Len(k), i = 1 + Len(t) + j PROVE x[i] = y[i]
      BY <2>3, <1>3
    <2>4. i = 1 \/ i - 1 \in 1 .. Len(t) \/ i - (1 + Len(t)) \in 1 .. Len(k)
      BY <1>3
    <2>5. i = 1 + (i - 1) /\ i = 1 + Len(t) + (i - (1 + Len(t)))
      BY <1>3
    <2> QED
      BY <2>1, <2>2, <2>3, <2>4, <2>5
  <1>6. x = y
    BY <1>3, <1>5, SeqEqual
  <1> QED
    BY <1>4, <1>6

LEMMA ColumnsSeq ==
  ASSUME NEW x \in Seq(Tokens)
  PROVE  x \in Columns <=> IsColumn(x, 1, Len(x) + 1)
  <1>1. ASSUME x \in Columns
        PROVE  IsColumn(x, 1, Len(x) + 1)
    <2>1. PICK n \in Names, t \in Types, k \in Keyed : x = Joint(n, t, k)
      BY <1>1, ColumnsJoint
    <2> QED
      BY <2>1, ColumnThen
  <1>2. ASSUME IsColumn(x, 1, Len(x) + 1)
        PROVE  x \in Columns
    <2>0. Len(x) \in Nat
      OBVIOUS
    <2>1. /\ Len(x) >= 2 /\ IsName(x[1]) /\ x[2] \in {"INT", "VARCHAR"}
          /\ \/ Len(x) = 2
             \/ Len(x) = 4 /\ x[3] = "PRIMARY" /\ x[4] = "KEY"
             \/ /\ Len(x) \in {5, 7} /\ x[2] = "VARCHAR" /\ x[3] = "(" /\ x[4] = "number" /\ x[5] = ")"
                /\ Len(x) = 7 => x[6] = "PRIMARY" /\ x[7] = "KEY"
      BY <1>2, <2>0, IsColumnThen
    <2>2. PICK t \in Types : /\ \/ Len(t) = 1 /\ Len(x) \in {2, 4}
                                \/ Len(t) = 4 /\ Len(x) \in {5, 7}
                             /\ \A i \in 1 .. Len(t) : x[1 + i] = t[i]
      <3>1. CASE Len(x) \in {2, 4}
        <4>1. <<x[2]>> \in Types /\ Len(<<x[2]>>) = 1 /\ <<x[2]>>[1] = x[2]
          BY <2>1 DEF Types
        <4> QED
          BY <3>1, <4>1
      <3>2. CASE Len(x) \in {5, 7}
        <4> DEFINE v == <<"VARCHAR", "(", "number", ")">>
        <4>1. v \in Types /\ Len(v) = 4 /\ v[1] = x[2] /\ v[2] = x[3] /\ v[3] = x[4] /\ v[4] = x[5]
          BY <2>1, <3>2 DEF Types
        <4> HIDE DEF v
        <4>2. \A i \in 1 .. Len(v) : x[1 + i] = v[i]
          BY <4>1
        <4> QED
          BY <3>2, <4>1, <4>2
      <3> QED
        BY <2>1, <3>1, <3>2
    <2>3. PICK k \in Keyed : /\ \/ Len(k) = 0 /\ Len(x) \in {2, 5}
                                \/ Len(k) = 2 /\ Len(x) \in {4, 7}
                             /\ \A i \in 1 .. Len(k) : x[1 + Len(t) + i] = k[i]
      <3>1. CASE Len(x) \in {2, 5}
        <4>1. <<>> \in Keyed /\ Len(<<>>) = 0
          BY DEF Keyed
        <4> QED
          BY <3>1, <4>1
      <3>2. CASE Len(x) \in {4, 7}
        <4> DEFINE v == <<"PRIMARY", "KEY">>
        <4>3. v \in Keyed /\ Len(v) = 2 /\ v[1] = "PRIMARY" /\ v[2] = "KEY"
          BY DEF Keyed
        <4>4. x[2 + Len(t)] = "PRIMARY" /\ x[3 + Len(t)] = "KEY" /\ Len(t) \in Nat
          <5>1. CASE Len(x) = 4
            <6>1. Len(t) = 1
              BY <2>2, <5>1
            <6> QED
              BY <2>1, <5>1, <6>1
          <5>2. CASE Len(x) = 7
            <6>1. Len(t) = 4
              BY <2>2, <5>2
            <6> QED
              BY <2>1, <5>2, <6>1
          <5> QED
            BY <3>2, <5>1, <5>2
        <4>1. v \in Keyed /\ Len(v) = 2 /\ v[1] = x[2 + Len(t)] /\ v[2] = x[3 + Len(t)] /\ Len(t) \in Nat
          BY <4>3, <4>4
        <4> HIDE DEF v
        <4>2. \A i \in 1 .. Len(v) : x[1 + Len(t) + i] = v[i]
          BY <2>2, <3>2, <4>1
        <4> QED
          BY <3>2, <4>1, <4>2
      <3> QED
        BY <2>1, <3>1, <3>2
    <2>4. Len(x) = 1 + Len(t) + Len(k)
      <3> DEFINE l == Len(x)
                 lt == Len(t)
                 lk == Len(k)
      <3>1. (lt = 1 /\ l \in {2, 4}) \/ (lt = 4 /\ l \in {5, 7})
        BY <2>2
      <3>2. (lk = 0 /\ l \in {2, 5}) \/ (lk = 2 /\ l \in {4, 7})
        BY <2>3
      <3> HIDE DEF l, lt, lk
      <3>3. l = 1 + lt + lk
        BY <3>1, <3>2
      <3> QED
        BY <3>3 DEF l, lt, lk
    <2> QED
      BY <2>1, <2>2, <2>3, <2>4, ThenColumn
  <1> QED
    BY <1>1, <1>2

-----------------------------------------------------------------------------
(* The part of a body before place p starts after the last comma there.     *)
From(b, a, p) ==
  /\ a \in 1 .. p /\ (a = 1 \/ b[a - 1] = "comma")
  /\ \A q \in a .. p - 1 : b[q] # "comma"

LEMMA SegmentIs ==
  ASSUME NEW b, NEW p \in Nat, NEW a, From(b, a, p)
  PROVE  Segment(b, p) = SubSeq(b, a, p - 1)
  <1> DEFINE cut == {q \in 1 .. p - 1 : b[q] = "comma"}
  <1>1. CASE a = 1
    <2>1. cut = {}
      BY <1>1 DEF From
    <2> QED
      BY <1>1, <2>1 DEF Segment
  <1>2. CASE a # 1
    <2>1. a - 1 \in cut /\ \A q \in cut : q <= a - 1
      BY <1>2 DEF From
    <2>2. \A q \in cut : (\A r \in cut : r <= q) => q = a - 1
      BY <2>1
    <2> DEFINE last == CHOOSE q \in cut : \A r \in cut : r <= q
    <2>3. last = a - 1
      BY <2>1, <2>2
    <2>4. Segment(b, p) = SubSeq(b, 1 + last, p - 1)
      BY <2>1 DEF Segment
    <2> HIDE DEF last
    <2>5. 1 + last = a
      BY <2>3 DEF From
    <2> QED
      BY <2>4, <2>5
  <1> QED
    BY <1>1, <1>2

LEMMA FromSome ==
  ASSUME NEW b, NEW p \in Nat \ {0}
  PROVE  \E a : From(b, a, p)
  <1> DEFINE S == {a \in 1 .. p : \A q \in a .. p - 1 : b[q] # "comma"}
  <1>1. p \in S /\ S \subseteq Nat
    OBVIOUS
  <1>2. PICK a \in S : \A m \in S : a <= m
    <2> HIDE DEF S
    <2> QED
      BY <1>1, Least
  <1>3. CASE a = 1
    BY <1>3 DEF From
  <1>4. CASE a # 1 /\ b[a - 1] # "comma"
    <2>1. a - 1 \in 1 .. p /\ ~ a <= a - 1
      BY <1>4
    <2>2. ASSUME NEW q \in a - 1 .. p - 1 PROVE b[q] # "comma"
      BY <1>4, <2>2
    <2> QED
      BY <1>2, <2>1, <2>2
  <1>5. CASE a # 1 /\ b[a - 1] = "comma"
    BY <1>5 DEF From
  <1> QED
    BY <1>3, <1>4, <1>5

(* A column is the same at another place.                                   *)
LEMMA Shifted ==
  ASSUME NEW x, NEW w, NEW a \in Nat, NEW p \in Nat, NEW d \in Int, a + d \in Nat,
         \A q \in a .. p - 1 : x[q] = w[q + d]
  PROVE  IsColumn(x, a, p) <=> IsColumn(w, a + d, p + d)
  <1>1. Complete(x, a, p) <=> Complete(w, a + d, p + d)
    BY DEF Complete
  <1>2. ASSUME NEW q \in a .. p - 1
        PROVE  Fits(x, a, q, x[q]) <=> Fits(w, a + d, q + d, w[q + d])
    <2>1. x[q] = w[q + d]
      OBVIOUS
    <2>2. q >= a + 1 => x[a + 1] = w[(a + d) + 1]
      OBVIOUS
    <2>3. q >= a + 2 => x[a + 2] = w[(a + d) + 2]
      OBVIOUS
    <2>4. \A i \in Nat : q = a + i <=> q + d = (a + d) + i
      OBVIOUS
    <2>5. q < a + 7 <=> q + d < (a + d) + 7
      OBVIOUS
    <2> QED
      BY <2>1, <2>2, <2>3, <2>4, <2>5 DEF Fits
  <1>3. ASSUME IsColumn(x, a, p) PROVE IsColumn(w, a + d, p + d)
    <2>1. ASSUME NEW q \in a + d .. (p + d) - 1 PROVE Fits(w, a + d, q, w[q])
      <3>1. q - d \in a .. p - 1 /\ (q - d) + d = q
        OBVIOUS
      <3> QED
        BY <3>1, <1>2, <1>3 DEF IsColumn
    <2> QED
      BY <1>1, <1>3, <2>1 DEF IsColumn
  <1>4. ASSUME IsColumn(w, a + d, p + d) PROVE IsColumn(x, a, p)
    <2>1. ASSUME NEW q \in a .. p - 1 PROVE Fits(x, a, q, x[q])
      <3>1. q + d \in a + d .. (p + d) - 1
        OBVIOUS
      <3> QED
        BY <3>1, <1>2, <1>4 DEF IsColumn
    <2> QED
      BY <1>1, <1>4, <2>1 DEF IsColumn
  <1> QED
    BY <1>3, <1>4

LEMMA SubTokens ==
  ASSUME NEW w \in Seq(Tokens), NEW m \in 1 .. Len(w) + 1, NEW n \in m - 1 .. Len(w)
  PROVE  /\ SubSeq(w, m, n) \in Seq(Tokens) /\ Len(SubSeq(w, m, n)) = n - m + 1
         /\ \A i \in 1 .. n - m + 1 : SubSeq(w, m, n)[i] = w[m + i - 1]
  <1>1. \A i \in m .. n : w[i] \in Tokens
    OBVIOUS
  <1> QED
    BY <1>1, SubSeqProperties

LEMMA SegmentColumn ==
  ASSUME NEW b \in Seq(Tokens), NEW p \in 1 .. Len(b) + 1, NEW a, From(b, a, p)
  PROVE  /\ Segment(b, p) \in Columns <=> IsColumn(b, a, p)
         /\ Segment(b, p) = <<>> <=> a = p
  <1>0. a \in 1 .. Len(b) + 1 /\ p - 1 \in a - 1 .. Len(b) /\ p \in Nat /\ a \in Nat /\ a <= p /\ a >= 1
    BY DEF From
  <1>1. PICK x : x = SubSeq(b, a, p - 1)
    OBVIOUS
  <1>2. /\ x \in Seq(Tokens) /\ Len(x) = p - a
        /\ \A i \in 1 .. p - a : x[i] = b[a + i - 1]
    <2>1. /\ SubSeq(b, a, p - 1) \in Seq(Tokens) /\ Len(SubSeq(b, a, p - 1)) = (p - 1) - a + 1
          /\ \A i \in 1 .. (p - 1) - a + 1 : SubSeq(b, a, p - 1)[i] = b[a + i - 1]
      BY <1>0, SubTokens
    <2>2. (p - 1) - a + 1 = p - a
      BY <1>0
    <2> QED
      BY <1>1, <2>1, <2>2
  <1>3. Segment(b, p) = x
    BY <1>0, <1>1, SegmentIs
  <1>4. x = <<>> <=> a = p
    <2>1. x = <<>> <=> Len(x) = 0
      BY <1>2
    <2> QED
      BY <1>0, <1>2, <2>1
  <1>5. IsColumn(x, 1, Len(x) + 1) <=> IsColumn(b, a, p)
    <2>1. \A q \in 1 .. (p - a + 1) - 1 : x[q] = b[q + (a - 1)]
      BY <1>0, <1>2
    <2>2. 1 + (a - 1) = a /\ (p - a + 1) + (a - 1) = p /\ p - a + 1 \in Nat /\ a - 1 \in Int /\ 1 + (a - 1) \in Nat
      BY <1>0
    <2>3. IsColumn(x, 1, p - a + 1) <=> IsColumn(b, 1 + (a - 1), (p - a + 1) + (a - 1))
      BY <2>1, <2>2, Shifted
    <2> QED
      BY <1>2, <2>2, <2>3
  <1> QED
    BY <1>2, <1>3, <1>4, <1>5, ColumnsSeq

LEMMA BodyIs ==
  ASSUME NEW w \in Seq(Tokens), NEW n \in 5 .. Len(w)
  PROVE  IsBody(SubSeq(w, 5, n - 1)) <=> Parted(w, n)
  <1>1. PICK b : b = SubSeq(w, 5, n - 1)
    OBVIOUS
  <1>2. /\ b \in Seq(Tokens) /\ Len(b) = n - 5
        /\ \A i \in 1 .. n - 5 : b[i] = w[i + 4]
    <2>1. 5 \in 1 .. Len(w) + 1 /\ n - 1 \in 5 - 1 .. Len(w)
      OBVIOUS
    <2>2. /\ SubSeq(w, 5, n - 1) \in Seq(Tokens) /\ Len(SubSeq(w, 5, n - 1)) = (n - 1) - 5 + 1
          /\ \A i \in 1 .. (n - 1) - 5 + 1 : SubSeq(w, 5, n - 1)[i] = w[5 + i - 1]
      BY <2>1, SubTokens
    <2>3. (n - 1) - 5 + 1 = n - 5 /\ \A i \in 1 .. n - 5 : 5 + i - 1 = i + 4
      OBVIOUS
    <2> QED
      BY <1>1, <2>2, <2>3
  <1>3. ASSUME NEW a \in Nat, NEW p \in 1 .. n - 4 PROVE From(b, a, p) <=> IsPart(w, a + 4, p + 4)
    <2>1. ASSUME NEW q \in 1 .. p - 1 PROVE b[q] = w[q + 4]
      BY <1>2
    <2>2. ASSUME From(b, a, p) PROVE IsPart(w, a + 4, p + 4)
      <3>1. a \in 1 .. p /\ (a = 1 \/ b[a - 1] = "comma")
        BY <2>2 DEF From
      <3>2. a # 1 => w[(a + 4) - 1] = "comma"
        <4>1. a # 1 => a - 1 \in 1 .. p - 1 /\ (a - 1) + 4 = (a + 4) - 1
          BY <3>1
        <4> QED
          BY <2>1, <3>1, <4>1
      <3>3. ASSUME NEW q \in a + 4 .. (p + 4) - 1 PROVE w[q] # "comma"
        <4>1. q - 4 \in a .. p - 1 /\ q - 4 \in 1 .. p - 1 /\ (q - 4) + 4 = q
          BY <3>1
        <4> QED
          BY <2>1, <2>2, <4>1 DEF From
      <3> QED
        BY <3>1, <3>2, <3>3 DEF IsPart
    <2>3. ASSUME IsPart(w, a + 4, p + 4) PROVE From(b, a, p)
      <3>1. a \in 1 .. p /\ (a = 1 \/ w[(a + 4) - 1] = "comma")
        BY <2>3 DEF IsPart
      <3>2. a # 1 => b[a - 1] = "comma"
        <4>1. a # 1 => a - 1 \in 1 .. p - 1 /\ (a - 1) + 4 = (a + 4) - 1
          BY <3>1
        <4> QED
          BY <2>1, <3>1, <4>1
      <3>3. ASSUME NEW q \in a .. p - 1 PROVE b[q] # "comma"
        <4>1. q + 4 \in a + 4 .. (p + 4) - 1 /\ q \in 1 .. p - 1
          BY <3>1
        <4> QED
          BY <2>1, <2>3, <4>1 DEF IsPart
      <3> QED
        BY <3>1, <3>2, <3>3 DEF From
    <2> QED
      BY <2>2, <2>3
  <1>4. ASSUME NEW a \in Nat, NEW p \in 1 .. n - 4, From(b, a, p)
        PROVE  IsColumn(b, a, p) <=> IsColumn(w, a + 4, p + 4)
    <2>1. \A q \in a .. p - 1 : b[q] = w[q + 4]
      BY <1>2, <1>4 DEF From
    <2>2. a \in Nat /\ p \in Nat /\ 4 \in Int /\ a + 4 \in Nat
      OBVIOUS
    <2> QED
      BY <2>1, <2>2, Shifted
  <1>5. ASSUME IsBody(b), NEW p \in 5 .. n, NEW a \in 5 .. n, IsPart(w, a, p), p = n \/ w[p] = "comma"
        PROVE  IsColumn(w, a, p) \/ (p = n /\ a = n)
    <2>1. /\ a - 4 \in Nat /\ p - 4 \in 1 .. n - 4 /\ (a - 4) + 4 = a /\ (p - 4) + 4 = p
          /\ p - 4 \in 1 .. Len(b) + 1
      BY <1>2
    <2>2. From(b, a - 4, p - 4)
      BY <1>3, <1>5, <2>1
    <2>3. IsColumn(b, a - 4, p - 4) <=> IsColumn(w, a, p)
      BY <1>4, <2>1, <2>2
    <2>4. /\ Segment(b, p - 4) \in Columns <=> IsColumn(b, a - 4, p - 4)
          /\ Segment(b, p - 4) = <<>> <=> a - 4 = p - 4
      BY <1>2, <2>1, <2>2, SegmentColumn
    <2>5. CASE p # n
      <3>1. b[p - 4] = "comma" /\ p - 4 \in 1 .. Len(b)
        BY <1>2, <1>5, <2>1, <2>5
      <3> QED
        BY <1>5, <2>3, <2>4, <3>1 DEF IsBody
    <2>6. CASE p = n
      <3>1. p - 4 = Len(b) + 1
        BY <1>2, <2>6
      <3>2. Segment(b, p - 4) \in Columns \/ Segment(b, p - 4) = <<>>
        BY <1>5, <3>1 DEF IsBody
      <3>3. a - 4 = p - 4 => a = p
        OBVIOUS
      <3> QED
        BY <2>3, <2>4, <2>6, <3>2, <3>3
    <2> QED
      BY <2>5, <2>6
  <1>6. ASSUME Parted(w, n), NEW p \in 1 .. n - 4, p = n - 4 \/ b[p] = "comma"
        PROVE  Segment(b, p) \in Columns \/ (p = n - 4 /\ Segment(b, p) = <<>>)
    <2>1. PICK a : From(b, a, p)
      <3>1. p \in Nat \ {0}
        OBVIOUS
      <3> QED
        BY <3>1, FromSome
    <2>2. a \in Nat /\ a + 4 \in 5 .. n /\ p + 4 \in 5 .. n /\ p \in 1 .. Len(b) + 1
      BY <1>2, <2>1 DEF From
    <2>3. IsPart(w, a + 4, p + 4)
      BY <1>3, <2>1, <2>2
    <2>4. p + 4 = n \/ w[p + 4] = "comma"
      <3>1. p # n - 4 => b[p] = w[p + 4]
        BY <1>2
      <3> QED
        BY <1>6, <3>1
    <2>5. IsColumn(w, a + 4, p + 4) \/ (p + 4 = n /\ a + 4 = n)
      BY <1>6, <2>2, <2>3, <2>4 DEF Parted
    <2>6. IsColumn(b, a, p) <=> IsColumn(w, a + 4, p + 4)
      BY <1>4, <2>1, <2>2
    <2>7. /\ Segment(b, p) \in Columns <=> IsColumn(b, a, p)
          /\ Segment(b, p) = <<>> <=> a = p
      BY <1>2, <2>1, <2>2, SegmentColumn
    <2>8. p + 4 = n /\ a + 4 = n => a = p /\ p = n - 4
      BY <2>2
    <2> QED
      BY <2>5, <2>6, <2>7, <2>8
  <1>7. IsBody(b) => Parted(w, n)
    BY <1>5 DEF Parted
  <1>8. Parted(w, n) => IsBody(b)
    <2> SUFFICES ASSUME Parted(w, n) PROVE IsBody(b)
      OBVIOUS
    <2>1. ASSUME NEW p \in 1 .. Len(b), b[p] = "comma" PROVE Segment(b, p) \in Columns
      <3>1. p \in 1 .. n - 4 /\ p # n - 4
        BY <1>2
      <3> QED
        BY <1>6, <2>1, <3>1
    <2>2. Segment(b, Len(b) + 1) \in Columns \cup {<<>>}
      <3>1. PICK p : p = Len(b) + 1
        OBVIOUS
      <3>2. p \in 1 .. n - 4 /\ p = n - 4
        BY <1>2, <3>1
      <3>3. Segment(b, p) \in Columns \/ Segment(b, p) = <<>>
        BY <1>6, <3>2
      <3> QED
        BY <3>1, <3>3
    <2> QED
      BY <2>1, <2>2 DEF IsBody
  <1> QED
    BY <1>1, <1>7, <1>8

-----------------------------------------------------------------------------
(* A statement, by the place n of its last parenthesis.                     *)
Opened(s) == \A i \in 1 .. 4 : i <= Len(s) => Opener(i, s[i])
Stated(s, n) ==
  /\ n \in 5 .. Len(s) /\ (n = Len(s) \/ (n = Len(s) - 1 /\ s[Len(s)] = "semicolon"))
  /\ Opened(s) /\ s[n] = ")" /\ Parted(s, n)

LEMMA OpenedIs ==
  ASSUME NEW s, Len(s) \in Nat, Len(s) >= 4
  PROVE  Opened(s) <=> s[1] = "CREATE" /\ s[2] = "TABLE" /\ <<s[3]>> \in Names /\ s[4] = "("
  <1>1. <<s[3]>> \in Names <=> IsName(s[3])
    BY NameIs
  <1>2. Opened(s) <=> Opener(1, s[1]) /\ Opener(2, s[2]) /\ Opener(3, s[3]) /\ Opener(4, s[4])
    BY DEF Opened
  <1> QED
    BY <1>1, <1>2 DEF Opener

LEMMA StatementIs ==
  ASSUME NEW s \in Seq(Tokens)
  PROVE  IsStatement(s) <=> \E n : Stated(s, n)
  <1> DEFINE m == IF Len(s) > 0 /\ s[Len(s)] = "semicolon" THEN Len(s) - 1 ELSE Len(s)
             A(n) == /\ n >= 5
                     /\ s[1] = "CREATE" /\ s[2] = "TABLE" /\ <<s[3]>> \in Names /\ s[4] = "(" /\ s[n] = ")"
                     /\ IsBody(SubSeq(s, 5, n - 1))
  <1>1. IsStatement(s) <=> A(m)
    BY DEF IsStatement
  <1>2. ASSUME NEW n \in 5 .. Len(s), n = m
        PROVE  A(n) <=> Stated(s, n)
    <2>1. IsBody(SubSeq(s, 5, n - 1)) <=> Parted(s, n)
      BY BodyIs
    <2>2. Opened(s) <=> s[1] = "CREATE" /\ s[2] = "TABLE" /\ <<s[3]>> \in Names /\ s[4] = "("
      BY OpenedIs
    <2>3. n = Len(s) \/ (n = Len(s) - 1 /\ s[Len(s)] = "semicolon")
      BY <1>2
    <2> QED
      BY <2>1, <2>2, <2>3 DEF Stated
  <1>3. ASSUME NEW n, Stated(s, n) PROVE n = m /\ n \in 5 .. Len(s)
    BY <1>3 DEF Stated
  <1>4. m >= 5 => m \in 5 .. Len(s)
    OBVIOUS
  <1>5. A(m) => m >= 5
    OBVIOUS
  <1> HIDE DEF m, A
  <1> QED
    BY <1>1, <1>2, <1>3, <1>4, <1>5

-----------------------------------------------------------------------------
(* What more tokens leave of what was read.                                 *)
Extends(w, s) == Len(w) >= Len(s) /\ \A i \in 1 .. Len(s) : w[i] = s[i]

LEMMA PartKept ==
  ASSUME NEW s \in Seq(Tokens), NEW w \in Seq(Tokens), Extends(w, s), NEW a, NEW p \in 1 .. Len(s) + 1
  PROVE  IsPart(s, a, p) <=> IsPart(w, a, p)
  <1>1. ASSUME a \in 5 .. p PROVE IsPart(s, a, p) <=> IsPart(w, a, p)
    <2>1. a - 1 \in 1 .. Len(s) /\ \A q \in a .. p - 1 : q \in 1 .. Len(s)
      BY <1>1
    <2> QED
      BY <1>1, <2>1 DEF IsPart, Extends
  <1> QED
    BY <1>1 DEF IsPart

LEMMA FitsKept ==
  ASSUME NEW s \in Seq(Tokens), NEW w \in Seq(Tokens), Extends(w, s),
         NEW a \in Nat \ {0}, NEW q \in 1 .. Len(s) + 1, NEW t
  PROVE  Fits(s, a, q, t) <=> Fits(w, a, q, t)
  <1>1. q >= a + 2 => s[a + 1] = w[a + 1]
    BY DEF Extends
  <1>2. q >= a + 3 => s[a + 2] = w[a + 2]
    BY DEF Extends
  <1> QED
    BY <1>1, <1>2 DEF Fits

LEMMA CompleteKept ==
  ASSUME NEW s \in Seq(Tokens), NEW w \in Seq(Tokens), Extends(w, s),
         NEW a \in Nat \ {0}, NEW p \in 1 .. Len(s) + 1
  PROVE  Complete(s, a, p) <=> Complete(w, a, p)
  <1>1. p - a = 4 => s[a + 3] = w[a + 3]
    BY DEF Extends
  <1> QED
    BY <1>1 DEF Complete

LEMMA ColumnKept ==
  ASSUME NEW s \in Seq(Tokens), NEW w \in Seq(Tokens), Extends(w, s),
         NEW a \in Nat \ {0}, NEW p \in 1 .. Len(s) + 1
  PROVE  IsColumn(s, a, p) <=> IsColumn(w, a, p)
  <1>1. Complete(s, a, p) <=> Complete(w, a, p)
    BY CompleteKept
  <1>2. ASSUME NEW q \in a .. p - 1 PROVE Fits(s, a, q, s[q]) <=> Fits(w, a, q, w[q])
    <2>1. q \in 1 .. Len(s) + 1 /\ s[q] = w[q]
      BY DEF Extends
    <2>2. Fits(s, a, q, s[q]) <=> Fits(w, a, q, s[q])
      BY <2>1, FitsKept
    <2> QED
      BY <2>1, <2>2
  <1> QED
    BY <1>1, <1>2 DEF IsColumn

LEMMA OnePart ==
  ASSUME NEW s, NEW p \in Nat, NEW a, NEW c, IsPart(s, a, p), IsPart(s, c, p)
  PROVE  a = c
  <1>1. a \in Nat /\ c \in Nat /\ a >= 5 /\ c >= 5 /\ a <= p /\ c <= p
    BY DEF IsPart
  <1>2. CASE a < c
    <2>1. c - 1 \in a .. p - 1 /\ c # 5
      BY <1>1, <1>2
    <2> QED
      BY <2>1 DEF IsPart
  <1>3. CASE c < a
    <2>1. a - 1 \in c .. p - 1 /\ a # 5
      BY <1>1, <1>3
    <2> QED
      BY <2>1 DEF IsPart
  <1> QED
    BY <1>1, <1>2, <1>3

LEMMA ExtendsAppend ==
  ASSUME NEW s \in Seq(Tokens), NEW t \in Tokens
  PROVE  /\ Append(s, t) \in Seq(Tokens) /\ Len(Append(s, t)) = Len(s) + 1
         /\ Append(s, t)[Len(s) + 1] = t /\ Extends(Append(s, t), s)
         /\ Len(s) \in Nat
  BY DEF Extends

-----------------------------------------------------------------------------
(* The head and the body read so far: its columns, and the part from a on.  *)
Closed(s) ==
  \A p \in 5 .. Len(s), c \in 5 .. Len(s) : IsPart(s, c, p) /\ s[p] = "comma" => IsColumn(s, c, p)

Body(s, a) ==
  /\ Len(s) >= 4 /\ Opened(s) /\ Closed(s)
  /\ IsPart(s, a, Len(s) + 1)
  /\ \A q \in a .. Len(s) : Fits(s, a, q, s[q])

(* All of the part is there: a comma or the last parenthesis may follow.    *)
Whole(s, a) == Complete(s, a, Len(s) + 1)
Fresh(s, a) == a = Len(s) + 1
Follows(s, a, t) == Fits(s, a, Len(s) + 1, t)

LEMMA BodyFacts ==
  ASSUME NEW s \in Seq(Tokens), NEW a, Body(s, a)
  PROVE  a \in Nat \ {0} /\ a \in 5 .. Len(s) + 1 /\ Len(s) \in Nat /\ Len(s) >= 4
  BY DEF Body, IsPart

LEMMA OpenedKept ==
  ASSUME NEW s \in Seq(Tokens), NEW w \in Seq(Tokens), Extends(w, s), Len(s) >= 4
  PROVE  Opened(s) <=> Opened(w)
  BY DEF Opened, Extends

LEMMA ClosedKept ==
  ASSUME NEW s \in Seq(Tokens), NEW w \in Seq(Tokens), Extends(w, s), Closed(s),
         NEW p \in 5 .. Len(s), NEW c, IsPart(w, c, p), w[p] = "comma"
  PROVE  IsColumn(w, c, p)
  <1>1. c \in 5 .. Len(s) /\ c \in Nat \ {0} /\ p \in 1 .. Len(s) + 1
    BY DEF IsPart
  <1>2. s[p] = "comma"
    BY DEF Extends
  <1>3. IsPart(s, c, p)
    BY <1>1, PartKept
  <1>4. IsColumn(s, c, p)
    BY <1>1, <1>2, <1>3 DEF Closed
  <1> QED
    BY <1>1, <1>4, ColumnKept

LEMMA WholeIsColumn ==
  ASSUME NEW s \in Seq(Tokens), NEW a, Body(s, a), Whole(s, a)
  PROVE  IsColumn(s, a, Len(s) + 1)
  <1>1. \A q \in a .. (Len(s) + 1) - 1 : Fits(s, a, q, s[q])
    BY BodyFacts DEF Body
  <1> QED
    BY <1>1 DEF IsColumn, Whole

LEMMA Grow ==
  ASSUME NEW s \in Seq(Tokens), NEW a, Body(s, a), NEW t \in Tokens, Follows(s, a, t)
  PROVE  Body(Append(s, t), a)
  <1>1. PICK w : w = Append(s, t)
    OBVIOUS
  <1>2. PICK n : n = Len(s)
    OBVIOUS
  <1>3. w \in Seq(Tokens) /\ Len(w) = n + 1 /\ w[n + 1] = t /\ Extends(w, s) /\ n \in Nat
    BY <1>1, <1>2, ExtendsAppend
  <1>4. a \in Nat \ {0} /\ a \in 5 .. n + 1 /\ n >= 4
    BY <1>2, BodyFacts
  <1>5. t # "comma"
    <2>1. n + 1 - a \in 0 .. 6
      BY <1>2, <1>4 DEF Follows, Fits
    <2>2. "comma" \notin {"identifier", "TABLE", "KEY", "INT", "VARCHAR", "PRIMARY", "(", "number", ")"}
      OBVIOUS
    <2>3. t \in {"identifier", "TABLE", "KEY", "INT", "VARCHAR", "PRIMARY", "(", "number", ")"}
      BY <1>2, <1>4, <2>1 DEF Follows, Fits, IsName
    <2> QED
      BY <2>2, <2>3
  <1>6. Opened(w)
    BY <1>2, <1>3, <1>4, OpenedKept DEF Body
  <1>7. Closed(w)
    <2> SUFFICES ASSUME NEW p \in 5 .. Len(w), NEW c \in 5 .. Len(w), IsPart(w, c, p), w[p] = "comma"
                 PROVE  IsColumn(w, c, p)
      BY DEF Closed
    <2>1. p \in 5 .. Len(s)
      BY <1>2, <1>3, <1>5
    <2> QED
      BY <1>3, <2>1, ClosedKept DEF Body
  <1>8. IsPart(w, a, Len(w) + 1)
    <2>1. IsPart(s, a, n + 1)
      BY <1>2 DEF Body
    <2>2. IsPart(w, a, n + 1)
      BY <1>2, <1>3, <2>1, PartKept
    <2>3. \A q \in a .. (n + 2) - 1 : w[q] # "comma"
      BY <1>3, <1>4, <1>5, <2>2 DEF IsPart
    <2>4. IsPart(w, a, n + 2)
      BY <1>3, <1>4, <2>2, <2>3 DEF IsPart
    <2>5. Len(w) + 1 = n + 2
      BY <1>3
    <2> QED
      BY <2>4, <2>5
  <1>9. ASSUME NEW q \in a .. Len(w) PROVE Fits(w, a, q, w[q])
    <2>1. CASE q = n + 1
      <3>1. Fits(s, a, q, t)
        BY <1>2, <2>1 DEF Follows
      <3>2. q \in 1 .. Len(s) + 1
        BY <1>2, <1>3, <2>1
      <3>3. Fits(w, a, q, t)
        BY <1>3, <1>4, <3>1, <3>2, FitsKept
      <3> QED
        BY <1>3, <2>1, <3>3
    <2>2. CASE q # n + 1
      <3>1. q \in a .. Len(s) /\ q \in 1 .. Len(s) + 1 /\ q \in 1 .. Len(s)
        BY <1>2, <1>3, <1>4, <2>2
      <3>2. Fits(s, a, q, s[q]) /\ w[q] = s[q]
        BY <1>3, <3>1 DEF Body, Extends
      <3>3. Fits(w, a, q, s[q])
        BY <1>3, <1>4, <3>1, <3>2, FitsKept
      <3> QED
        BY <3>2, <3>3
    <2> QED
      BY <2>1, <2>2
  <1> QED
    BY <1>1, <1>3, <1>4, <1>6, <1>7, <1>8, <1>9 DEF Body

LEMMA Comma ==
  ASSUME NEW s \in Seq(Tokens), NEW a, Body(s, a), Whole(s, a)
  PROVE  Body(Append(s, "comma"), Len(s) + 2)
  <1>1. PICK w : w = Append(s, "comma")
    OBVIOUS
  <1>2. PICK n : n = Len(s)
    OBVIOUS
  <1>3. w \in Seq(Tokens) /\ Len(w) = n + 1 /\ w[n + 1] = "comma" /\ Extends(w, s) /\ n \in Nat
    <2>1. "comma" \in Tokens
      BY DEF Tokens
    <2> QED
      BY <1>1, <1>2, <2>1, ExtendsAppend
  <1>4. a \in Nat \ {0} /\ a \in 5 .. n + 1 /\ n >= 4
    BY <1>2, BodyFacts
  <1>5. Opened(w)
    BY <1>2, <1>3, <1>4, OpenedKept DEF Body
  <1>6. IsPart(w, a, n + 1)
    <2>1. IsPart(s, a, n + 1)
      BY <1>2 DEF Body
    <2> QED
      BY <1>2, <1>3, <2>1, PartKept
  <1>7. IsColumn(w, a, n + 1)
    <2>1. IsColumn(s, a, n + 1)
      BY <1>2, WholeIsColumn
    <2> QED
      BY <1>2, <1>3, <1>4, <2>1, ColumnKept
  <1>8. Closed(w)
    <2> SUFFICES ASSUME NEW p \in 5 .. Len(w), NEW c \in 5 .. Len(w), IsPart(w, c, p), w[p] = "comma"
                 PROVE  IsColumn(w, c, p)
      BY DEF Closed
    <2>1. CASE p \in 5 .. Len(s)
      BY <1>3, <2>1, ClosedKept DEF Body
    <2>2. CASE p = n + 1
      <3>1. c = a
        BY <1>3, <1>6, <2>2, OnePart
      <3> QED
        BY <1>7, <2>2, <3>1
    <2> QED
      BY <1>2, <1>3, <2>1, <2>2
  <1>9. IsPart(w, n + 2, n + 2)
    BY <1>3, <1>4 DEF IsPart
  <1>10. n + 2 = Len(s) + 2 /\ Len(w) + 1 = n + 2 /\ Len(w) >= 4 /\ \A q \in n + 2 .. Len(w) : FALSE
    BY <1>2, <1>3, <1>4
  <1> QED
    BY <1>1, <1>5, <1>8, <1>9, <1>10 DEF Body

LEMMA Close ==
  ASSUME NEW s \in Seq(Tokens), NEW a, Body(s, a), Whole(s, a) \/ Fresh(s, a)
  PROVE  Stated(Append(s, ")"), Len(s) + 1)
  <1>1. PICK w : w = Append(s, ")")
    OBVIOUS
  <1>2. PICK n : n = Len(s)
    OBVIOUS
  <1>3. w \in Seq(Tokens) /\ Len(w) = n + 1 /\ w[n + 1] = ")" /\ Extends(w, s) /\ n \in Nat
    <2>1. ")" \in Tokens
      BY DEF Tokens
    <2> QED
      BY <1>1, <1>2, <2>1, ExtendsAppend
  <1>4. a \in Nat \ {0} /\ a \in 5 .. n + 1 /\ n >= 4
    BY <1>2, BodyFacts
  <1>5. Opened(w)
    BY <1>2, <1>3, <1>4, OpenedKept DEF Body
  <1>6. IsPart(w, a, n + 1)
    <2>1. IsPart(s, a, n + 1)
      BY <1>2 DEF Body
    <2> QED
      BY <1>2, <1>3, <2>1, PartKept
  <1>7. IsColumn(w, a, n + 1) \/ a = n + 1
    <2>1. CASE Whole(s, a)
      <3>1. IsColumn(s, a, n + 1)
        BY <1>2, <2>1, WholeIsColumn
      <3> QED
        BY <1>2, <1>3, <1>4, <3>1, ColumnKept
    <2>2. CASE Fresh(s, a)
      BY <1>2, <2>2 DEF Fresh
    <2> QED
      BY <2>1, <2>2
  <1>8. Parted(w, n + 1)
    <2> SUFFICES ASSUME NEW p \in 5 .. n + 1, NEW c \in 5 .. n + 1, IsPart(w, c, p), p = n + 1 \/ w[p] = "comma"
                 PROVE  IsColumn(w, c, p) \/ (p = n + 1 /\ c = n + 1)
      BY DEF Parted
    <2>1. CASE p # n + 1
      <3>1. p \in 5 .. Len(s)
        BY <1>2, <1>3, <2>1
      <3> QED
        BY <1>3, <2>1, <3>1, ClosedKept DEF Body
    <2>2. CASE p = n + 1
      <3>1. c = a
        BY <1>3, <1>6, <2>2, OnePart
      <3> QED
        BY <1>7, <2>2, <3>1
    <2> QED
      BY <2>1, <2>2
  <1> QED
    BY <1>1, <1>2, <1>3, <1>4, <1>5, <1>8 DEF Stated

LEMMA Semicolon ==
  ASSUME NEW s \in Seq(Tokens), Stated(s, Len(s))
  PROVE  Stated(Append(s, "semicolon"), Len(s))
  <1>1. PICK w : w = Append(s, "semicolon")
    OBVIOUS
  <1>2. PICK n : n = Len(s)
    OBVIOUS
  <1>3. w \in Seq(Tokens) /\ Len(w) = n + 1 /\ w[n + 1] = "semicolon" /\ Extends(w, s) /\ n \in Nat
    <2>1. "semicolon" \in Tokens
      BY DEF Tokens
    <2> QED
      BY <1>1, <1>2, <2>1, ExtendsAppend
  <1>4. n \in 5 .. Len(w) /\ n \in 5 .. Len(s) /\ s[n] = ")" /\ Opened(s) /\ Parted(s, n)
    BY <1>2, <1>3 DEF Stated
  <1>5. Opened(w) /\ w[n] = ")"
    <2>1. w[n] = s[n]
      BY <1>2, <1>3, <1>4 DEF Extends
    <2> QED
      BY <1>2, <1>3, <1>4, <2>1, OpenedKept
  <1>6. Parted(w, n)
    <2> SUFFICES ASSUME NEW p \in 5 .. n, NEW c \in 5 .. n, IsPart(w, c, p), p = n \/ w[p] = "comma"
                 PROVE  IsColumn(w, c, p) \/ (p = n /\ c = n)
      BY DEF Parted
    <2>1. p \in 1 .. Len(s) + 1 /\ c \in Nat \ {0} /\ w[p] = s[p]
      BY <1>2, <1>3 DEF Extends
    <2>2. IsPart(s, c, p)
      BY <1>3, <2>1, PartKept
    <2>3. IsColumn(s, c, p) \/ (p = n /\ c = n)
      BY <1>4, <2>1, <2>2 DEF Parted
    <2>4. IsColumn(s, c, p) <=> IsColumn(w, c, p)
      BY <1>3, <2>1, ColumnKept
    <2> QED
      BY <2>3, <2>4
  <1> QED
    BY <1>1, <1>2, <1>3, <1>4, <1>5, <1>6 DEF Stated

LEMMA Start ==
  ASSUME NEW s \in Seq(Tokens), Len(s) = 3, Opened(s)
  PROVE  Body(Append(s, "("), 5)
  <1>1. PICK w : w = Append(s, "(")
    OBVIOUS
  <1>3. w \in Seq(Tokens) /\ Len(w) = 4 /\ w[4] = "(" /\ Extends(w, s)
    <2>1. "(" \in Tokens
      BY DEF Tokens
    <2>2. PICK n : n = Len(s) + 1
      OBVIOUS
    <2>3. w \in Seq(Tokens) /\ Len(w) = n /\ w[n] = "(" /\ Extends(w, s)
      BY <1>1, <2>1, <2>2, ExtendsAppend
    <2>4. n = 4
      BY <2>2
    <2> QED
      BY <2>3, <2>4
  <1>4. Opened(w)
    <2> SUFFICES ASSUME NEW i \in 1 .. 4 PROVE Opener(i, w[i])
      BY DEF Opened
    <2>1. CASE i = 4
      BY <1>3, <2>1 DEF Opener
    <2>2. CASE i # 4
      <3>1. w[i] = s[i] /\ i <= Len(s)
        BY <1>3, <2>2 DEF Extends
      <3> QED
        BY <3>1 DEF Opened
    <2> QED
      BY <2>1, <2>2
  <1>5. Closed(w)
    BY <1>3 DEF Closed
  <1>6. IsPart(w, 5, 5)
    BY DEF IsPart
  <1>7. Len(w) + 1 = 5 /\ Len(w) >= 4 /\ \A q \in 5 .. Len(w) : FALSE
    BY <1>3
  <1> QED
    BY <1>1, <1>4, <1>5, <1>6, <1>7 DEF Body

-----------------------------------------------------------------------------
(* What a statement has after a body read so far.                           *)
LEMMA NotEnded ==
  ASSUME NEW s \in Seq(Tokens), NEW a, Body(s, a),
         NEW w \in Seq(Tokens), Extends(w, s), Len(w) > Len(s), NEW n, Stated(w, n)
  PROVE  n > Len(s)
  <1>1. PICK m : m = Len(s)
    OBVIOUS
  <1>2. a \in Nat \ {0} /\ a \in 5 .. m + 1 /\ m \in Nat /\ m >= 4
    BY <1>1, BodyFacts
  <1> SUFFICES ASSUME ~ n > m PROVE FALSE
    BY <1>1
  <1>3. n = m /\ n >= 5 /\ w[n] = ")" /\ Parted(w, n) /\ n \in Nat
    BY <1>1, <1>2 DEF Stated
  <1>4. s[n] = ")"
    BY <1>1, <1>2, <1>3 DEF Extends
  <1>5. CASE a = m + 1
    <2>1. a # 5 /\ s[a - 1] = "comma"
      BY <1>1, <1>3, <1>5 DEF Body, IsPart
    <2> QED
      BY <1>3, <1>4, <1>5, <2>1
  <1>6. CASE a <= m
    <2>1. Fits(s, a, n, ")")
      BY <1>1, <1>2, <1>3, <1>4, <1>6 DEF Body
    <2>2. n = a + 4 /\ s[a + 2] = "("
      <3>1. n - a \in 0 .. 6
        BY <1>2, <1>3, <1>6, <2>1 DEF Fits
      <3>2. n # a
        BY <2>1 DEF Fits, IsName
      <3>3. n # a + 1 /\ n # a + 2 /\ n # a + 3 /\ n # a + 5 /\ n # a + 6
        BY <1>2, <2>1 DEF Fits
      <3>4. n = a + 4
        BY <1>2, <1>3, <3>1, <3>2, <3>3
      <3> QED
        BY <2>1, <3>4 DEF Fits
    <2>3. IsPart(s, a, n)
      <3>1. IsPart(s, a, m + 1)
        BY <1>1 DEF Body
      <3> QED
        BY <1>2, <1>3, <1>6, <3>1 DEF IsPart
    <2>4. IsPart(w, a, n)
      <3>1. n \in 1 .. Len(s) + 1
        BY <1>1, <1>3
      <3> QED
        BY <2>3, <3>1, PartKept
    <2>5. IsColumn(w, a, n)
      <3>1. a \in 5 .. n /\ n \in 5 .. n /\ a # n
        BY <1>2, <1>3, <1>6, <2>2
      <3> QED
        BY <1>3, <2>4, <3>1 DEF Parted
    <2>6. w[a + 3] = "KEY"
      <3>1. n - a = 4
        BY <1>2, <1>3, <2>2
      <3> QED
        BY <2>5, <3>1 DEF IsColumn, Complete
    <2>7. w[a + 3] = s[a + 3] /\ a + 3 \in a .. Len(s)
      BY <1>1, <1>2, <1>3, <2>2 DEF Extends
    <2>8. Fits(s, a, a + 3, "KEY")
      BY <2>6, <2>7 DEF Body
    <2> QED
      BY <1>2, <2>2, <2>8 DEF Fits
  <1> QED
    BY <1>2, <1>5, <1>6

LEMMA NextStop ==
  ASSUME NEW w \in Seq(Tokens), NEW n \in Nat, NEW p \in 1 .. n
  PROVE  \E r \in p .. n : (r = n \/ w[r] = "comma") /\ \A q \in p .. r - 1 : w[q] # "comma"
  <1> DEFINE S == {r \in p .. n : r = n \/ w[r] = "comma"}
  <1>1. n \in S /\ S \subseteq Nat
    OBVIOUS
  <1>2. PICK r \in S : \A m \in S : r <= m
    <2> HIDE DEF S
    <2> QED
      BY <1>1, Least
  <1>3. ASSUME NEW q \in p .. r - 1 PROVE w[q] # "comma"
    BY <1>2
  <1> QED
    BY <1>3

LEMMA Viable ==
  ASSUME NEW s \in Seq(Tokens), NEW a, Body(s, a), NEW t,
         NEW w \in Seq(Tokens), Extends(w, s), Len(w) > Len(s), w[Len(s) + 1] = t, NEW n, Stated(w, n)
  PROVE  \/ t = "comma" /\ Whole(s, a)
         \/ t = ")" /\ (Whole(s, a) \/ Fresh(s, a))
         \/ Follows(s, a, t)
  <1>1. PICK p : p = Len(s) + 1
    OBVIOUS
  <1>2. a \in Nat \ {0} /\ a \in 5 .. p /\ p \in Nat /\ p >= 5 /\ p \in 1 .. Len(s) + 1
    BY <1>1, BodyFacts
  <1>3. p <= n /\ n \in 5 .. Len(w) /\ w[n] = ")" /\ w[p] = t /\ Parted(w, n)
    BY <1>1, <1>2, NotEnded DEF Stated
  <1>4. IsPart(w, a, p)
    BY <1>1, <1>2, PartKept DEF Body
  <1>5. CASE t = "comma"
    <2>1. p \in 5 .. n /\ a \in 5 .. n /\ p # n
      BY <1>2, <1>3, <1>5
    <2>2. IsColumn(w, a, p)
      BY <1>3, <1>4, <1>5, <2>1 DEF Parted
    <2>3. Complete(s, a, p)
      BY <1>2, <2>2, CompleteKept DEF IsColumn
    <2> QED
      BY <1>1, <1>5, <2>3 DEF Whole
  <1>6. CASE p = n
    <2>1. p \in 5 .. n /\ a \in 5 .. n
      BY <1>2, <1>3, <1>6
    <2>2. IsColumn(w, a, p) \/ a = p
      BY <1>3, <1>4, <1>6, <2>1 DEF Parted
    <2>3. Complete(s, a, p) \/ a = p
      BY <1>2, <2>2, CompleteKept DEF IsColumn
    <2> QED
      BY <1>1, <1>3, <1>6, <2>3 DEF Whole, Fresh
  <1>7. CASE t # "comma" /\ p # n
    <2>1. PICK r \in p .. n : (r = n \/ w[r] = "comma") /\ \A q \in p .. r - 1 : w[q] # "comma"
      <3>1. n \in Nat /\ p \in 1 .. n
        BY <1>2, <1>3
      <3> QED
        BY <3>1, NextStop
    <2>2. r > p /\ r \in 5 .. n /\ a \in 5 .. n /\ a < r /\ r \in Nat
      BY <1>2, <1>3, <1>7, <2>1
    <2>3. IsPart(w, a, r)
      <3>1. \A q \in a .. r - 1 : w[q] # "comma"
        <4>1. \A q \in a .. r - 1 : q \in a .. p - 1 \/ q \in p .. r - 1
          BY <1>2, <2>2
        <4> QED
          BY <1>4, <2>1, <4>1 DEF IsPart
      <3> QED
        BY <1>2, <1>4, <2>2, <3>1 DEF IsPart
    <2>4. IsColumn(w, a, r)
      BY <1>3, <2>1, <2>2, <2>3 DEF Parted
    <2>5. p \in a .. r - 1
      BY <1>2, <2>2
    <2>6. Fits(w, a, p, t)
      BY <1>3, <2>4, <2>5 DEF IsColumn
    <2>7. Fits(s, a, p, t)
      BY <1>2, <2>6, FitsKept
    <2> QED
      BY <1>1, <2>7 DEF Follows
  <1> QED
    BY <1>5, <1>6, <1>7

-----------------------------------------------------------------------------
(* The longest ending, and what it leaves after its first tokens.           *)
One == <<"CREATE", "TABLE", "identifier", "(", "identifier",
         "VARCHAR", "(", "number", ")", "PRIMARY", "KEY", ")">>
Rest(k) == SubSeq(One, k, 12)
Ends(s, k) == IsStatement(s \o Rest(k))

LEMMA OneIs ==
  /\ One \in Seq(Tokens) /\ Len(One) = 12
  /\ One[1] = "CREATE" /\ One[2] = "TABLE" /\ One[3] = "identifier" /\ One[4] = "("
  /\ One[5] = "identifier" /\ One[6] = "VARCHAR" /\ One[7] = "(" /\ One[8] = "number"
  /\ One[9] = ")" /\ One[10] = "PRIMARY" /\ One[11] = "KEY" /\ One[12] = ")"
  <1>1. One \in Seq(Tokens)
    BY DEF One, Tokens
  <1> QED
    BY <1>1 DEF One

LEMMA RestIs ==
  ASSUME NEW k \in 1 .. 13
  PROVE  /\ Rest(k) \in Seq(Tokens) /\ Len(Rest(k)) = 13 - k
         /\ \A i \in 1 .. 13 - k : Rest(k)[i] = One[k + i - 1]
  <1>1. PICK o : o = One
    OBVIOUS
  <1>2. o \in Seq(Tokens) /\ Len(o) = 12
    BY <1>1, OneIs
  <1>3. k \in 1 .. Len(o) + 1 /\ 12 \in k - 1 .. Len(o) /\ 12 - k + 1 = 13 - k
    BY <1>2
  <1>4. /\ SubSeq(o, k, 12) \in Seq(Tokens) /\ Len(SubSeq(o, k, 12)) = 12 - k + 1
        /\ \A i \in 1 .. 12 - k + 1 : SubSeq(o, k, 12)[i] = o[k + i - 1]
    BY <1>2, <1>3, SubTokens
  <1> QED
    BY <1>1, <1>3, <1>4 DEF Rest

LEMMA EndingsAre ==
  /\ \A k \in 1 .. 13 : Rest(k) \in Endings
  /\ Endings \subseteq Seq(Tokens)
  <1>1. Endings = {<<>>} \cup {SubSeq(One, k, Len(One)) : k \in 1 .. Len(One)}
                    \cup {<<"INT", ")">>, <<")", ")">>}
    BY DEF Endings, One
  <1>2. Endings = {<<>>} \cup {Rest(k) : k \in 1 .. 12} \cup {<<"INT", ")">>, <<")", ")">>}
    BY <1>1, OneIs DEF Rest
  <1>3. Rest(13) = <<>>
    <2>1. Rest(13) \in Seq(Tokens) /\ Len(Rest(13)) = 0
      <3>1. 13 \in 1 .. 13 /\ 13 - 13 = 0
        OBVIOUS
      <3>2. Rest(13) \in Seq(Tokens) /\ Len(Rest(13)) = 13 - 13
        BY <3>1, RestIs
      <3> QED
        BY <3>1, <3>2
    <2> QED
      BY <2>1
  <1>4. \A k \in 1 .. 13 : k = 13 \/ k \in 1 .. 12
    OBVIOUS
  <1>5. <<>> \in Seq(Tokens) /\ <<"INT", ")">> \in Seq(Tokens) /\ <<")", ")">> \in Seq(Tokens)
    BY DEF Tokens
  <1>6. ASSUME NEW k \in 1 .. 12 PROVE Rest(k) \in Seq(Tokens)
    <2>1. k \in 1 .. 13
      OBVIOUS
    <2> QED
      BY <2>1, RestIs
  <1> QED
    BY <1>2, <1>3, <1>4, <1>5, <1>6

Concat(s, e) == s \o e

LEMMA ConcatIs ==
  ASSUME NEW s \in Seq(Tokens), NEW e \in Seq(Tokens)
  PROVE  /\ Concat(s, e) \in Seq(Tokens) /\ Len(Concat(s, e)) = Len(s) + Len(e)
         /\ \A i \in 1 .. Len(s) : Concat(s, e)[i] = s[i]
         /\ \A i \in 1 .. Len(e) : Concat(s, e)[Len(s) + i] = e[i]
  <1>1. /\ s \o e \in Seq(Tokens) /\ Len(s \o e) = Len(s) + Len(e)
        /\ \A i \in 1 .. Len(s) + Len(e) : (s \o e)[i] = IF i <= Len(s) THEN s[i] ELSE e[i - Len(s)]
    BY ConcatProperties
  <1>2. Concat(s, e) = s \o e
    BY DEF Concat
  <1>3. Len(s) \in Nat /\ Len(e) \in Nat
    OBVIOUS
  <1>4. ASSUME NEW i \in 1 .. Len(s) PROVE (s \o e)[i] = s[i]
    BY <1>1, <1>3
  <1>5. ASSUME NEW i \in 1 .. Len(e) PROVE (s \o e)[Len(s) + i] = e[i]
    <2>1. Len(s) + i \in 1 .. Len(s) + Len(e) /\ ~ Len(s) + i <= Len(s) /\ (Len(s) + i) - Len(s) = i
      BY <1>3
    <2> QED
      BY <1>1, <2>1
  <1> QED
    BY <1>1, <1>2, <1>4, <1>5

LEMMA Chain ==
  ASSUME NEW s \in Seq(Tokens), NEW k \in 1 .. 12, Ends(Append(s, One[k]), k + 1)
  PROVE  Ends(s, k)
  <1>1. PICK x : x = Append(s, One[k])
    OBVIOUS
  <1>2. PICK n \in Nat : n = Len(s)
    OBVIOUS
  <1>3. PICK t \in Tokens : t = One[k]
    <2>1. PICK o : o = One
      OBVIOUS
    <2>2. o \in Seq(Tokens) /\ Len(o) = 12
      BY <2>1, OneIs
    <2>3. o[k] \in Tokens
      <3>1. k \in 1 .. Len(o) /\ o \in Seq(Tokens)
        BY <2>2
      <3> QED
        BY <3>1, Zenon, ElementOfSeq
    <2> QED
      BY <2>1, <2>3
  <1>4. x \in Seq(Tokens) /\ Len(x) = n + 1 /\ x[n + 1] = t /\ \A i \in 1 .. n : x[i] = s[i]
    BY <1>1, <1>2, <1>3, ExtendsAppend DEF Extends
  <1>5. /\ Rest(k) \in Seq(Tokens) /\ Len(Rest(k)) = 13 - k
        /\ \A i \in 1 .. 13 - k : Rest(k)[i] = One[k + i - 1]
    <2>1. k \in 1 .. 13
      OBVIOUS
    <2> QED
      BY <2>1, RestIs
  <1>6. /\ Rest(k + 1) \in Seq(Tokens) /\ Len(Rest(k + 1)) = 12 - k
        /\ \A i \in 1 .. 12 - k : Rest(k + 1)[i] = One[k + i]
    <2>1. PICK l \in 1 .. 13 : l = k + 1
      OBVIOUS
    <2>2. /\ Rest(l) \in Seq(Tokens) /\ Len(Rest(l)) = 13 - l
          /\ \A i \in 1 .. 13 - l : Rest(l)[i] = One[l + i - 1]
      BY <2>1, RestIs
    <2>3. 13 - l = 12 - k /\ \A i \in 1 .. 12 - k : l + i - 1 = k + i
      BY <2>1
    <2> QED
      BY <2>1, <2>2, <2>3
  <1>7. PICK y : y = Concat(s, Rest(k))
    OBVIOUS
  <1>8. PICK z : z = Concat(x, Rest(k + 1))
    OBVIOUS
  <1>9. /\ y \in Seq(Tokens) /\ Len(y) = n + 13 - k
        /\ \A i \in 1 .. n : y[i] = s[i]
        /\ \A i \in 1 .. 13 - k : y[n + i] = One[k + i - 1]
    <2>1. PICK e : e = Rest(k)
      OBVIOUS
    <2>2. e \in Seq(Tokens) /\ Len(e) = 13 - k
      BY <1>5, <2>1
    <2>3. /\ y \in Seq(Tokens) /\ Len(y) = Len(s) + Len(e)
          /\ \A i \in 1 .. Len(s) : y[i] = s[i]
          /\ \A i \in 1 .. Len(e) : y[Len(s) + i] = e[i]
      BY <1>7, <2>1, <2>2, ConcatIs
    <2> QED
      BY <1>2, <1>5, <2>1, <2>2, <2>3
  <1>10. /\ z \in Seq(Tokens) /\ Len(z) = n + 1 + (12 - k)
         /\ \A i \in 1 .. n + 1 : z[i] = x[i]
         /\ \A i \in 1 .. 12 - k : z[n + 1 + i] = One[k + i]
    <2>1. PICK e : e = Rest(k + 1)
      OBVIOUS
    <2>2. e \in Seq(Tokens) /\ Len(e) = 12 - k
      BY <1>6, <2>1
    <2>4. x \in Seq(Tokens) /\ e \in Seq(Tokens)
      BY <1>4, <2>2
    <2>5. z = Concat(x, e)
      BY <1>8, <2>1
    <2>6. /\ Concat(x, e) \in Seq(Tokens) /\ Len(Concat(x, e)) = Len(x) + Len(e)
          /\ \A i \in 1 .. Len(x) : Concat(x, e)[i] = x[i]
          /\ \A i \in 1 .. Len(e) : Concat(x, e)[Len(x) + i] = e[i]
      BY <2>4, ConcatIs
    <2>3. /\ z \in Seq(Tokens) /\ Len(z) = Len(x) + Len(e)
          /\ \A i \in 1 .. Len(x) : z[i] = x[i]
          /\ \A i \in 1 .. Len(e) : z[Len(x) + i] = e[i]
      BY <2>5, <2>6
    <2> QED
      BY <1>4, <1>6, <2>1, <2>2, <2>3
  <1>11. ASSUME NEW i \in 1 .. Len(y) PROVE y[i] = z[i]
    <2>1. CASE i \in 1 .. n
      BY <2>1, <1>4, <1>9, <1>10
    <2>2. CASE i = n + 1
      <3>1. y[n + 1] = One[k + 1 - 1] /\ k + 1 - 1 = k
        BY <1>9
      <3> QED
        BY <2>2, <3>1, <1>3, <1>4, <1>10
    <2>3. CASE i > n + 1
      <3>1. PICK j \in 1 .. 12 - k : i = n + 1 + j
        <4>1. i - (n + 1) \in 1 .. 12 - k /\ i = n + 1 + (i - (n + 1))
          BY <2>3, <1>9
        <4> QED
          BY <4>1
      <3>2. j + 1 \in 1 .. 13 - k /\ n + (j + 1) = i /\ k + (j + 1) - 1 = k + j
        BY <3>1
      <3>3. y[n + (j + 1)] = One[k + (j + 1) - 1]
        BY <1>9, <3>2
      <3> QED
        BY <1>10, <3>1, <3>2, <3>3
    <2> QED
      BY <2>1, <2>2, <2>3
  <1>12. y = z
    <2>1. Len(y) = Len(z)
      BY <1>9, <1>10
    <2> QED
      BY <1>9, <1>10, <1>11, <2>1, SeqEqual
  <1>13. IsStatement(z)
    BY <1>1, <1>8 DEF Ends, Concat
  <1> QED
    BY <1>7, <1>12, <1>13 DEF Ends, Concat

LEMMA EndsBegins ==
  ASSUME NEW s, NEW k \in 1 .. 13, Ends(s, k)
  PROVE  BeginsStatement(s)
  BY EndingsAre, Zenon DEF Ends, BeginsStatement

LEMMA StatementBegins ==
  ASSUME NEW s \in Seq(Tokens), IsStatement(s)
  PROVE  Ends(s, 13)
  <1>1. Rest(13) = <<>>
    <2>1. 13 \in 1 .. 13 /\ 13 - 13 = 0
      OBVIOUS
    <2>2. Rest(13) \in Seq(Tokens) /\ Len(Rest(13)) = 13 - 13
      BY <2>1, RestIs
    <2> QED
      BY <2>1, <2>2
  <1>2. s \o <<>> = s
    BY ConcatEmptySeq
  <1> QED
    BY <1>1, <1>2, Zenon DEF Ends

(* One more token of the longest ending.                                    *)
LEMMA ChainGrow ==
  ASSUME NEW s \in Seq(Tokens), NEW a, Body(s, a), NEW t, NEW k \in 1 .. 12,
         t = One[k], t \in Tokens, Follows(s, a, t),
         Body(Append(s, t), a) => Ends(Append(s, t), k + 1)
  PROVE  Ends(s, k)
  <1>1. Body(Append(s, t), a)
    BY Grow
  <1>2. Ends(Append(s, One[k]), k + 1)
    BY <1>1
  <1> QED
    BY <1>2, Chain

LEMMA Ends12 ==
  ASSUME NEW s \in Seq(Tokens), NEW a, Body(s, a), Whole(s, a) \/ Fresh(s, a)
  PROVE  Ends(s, 12)
  <1>1. PICK x : x = Append(s, ")")
    OBVIOUS
  <1>2. ")" \in Tokens /\ One[12] = ")" /\ 12 \in 1 .. 12 /\ 12 + 1 = 13
    BY OneIs DEF Tokens
  <1>3. x \in Seq(Tokens)
    BY <1>1, <1>2, ExtendsAppend
  <1>4. Stated(x, Len(s) + 1)
    BY <1>1, Close
  <1>5. Ends(x, 13)
    BY <1>3, <1>4, StatementIs, StatementBegins
  <1>6. Ends(Append(s, One[12]), 12 + 1)
    BY <1>1, <1>2, <1>5
  <1> QED
    BY <1>2, <1>6, Chain

(* The part that starts at a has m tokens.                                  *)
Has(s, a, m) == Len(s) + 1 = a + m

Longer(w, s, t) == Len(w) = Len(s) + 1 /\ w[Len(s) + 1] = t /\ Extends(w, s)

LEMMA LongerIs ==
  ASSUME NEW s \in Seq(Tokens), NEW t \in Tokens, NEW w, w = Append(s, t)
  PROVE  Longer(w, s, t)
  BY ExtendsAppend DEF Longer

LEMMA HasMore ==
  ASSUME NEW s \in Seq(Tokens), NEW a, Body(s, a), NEW t, NEW w, Longer(w, s, t)
  PROVE  /\ Has(s, a, 0) => Has(w, a, 1)
         /\ Has(s, a, 1) => Has(w, a, 2) /\ w[a + 1] = t
         /\ Has(s, a, 2) => Has(w, a, 3) /\ w[a + 1] = s[a + 1] /\ w[a + 2] = t
         /\ Has(s, a, 3) => Has(w, a, 4) /\ w[a + 2] = s[a + 2] /\ w[a + 3] = t
         /\ Has(s, a, 4) => Has(w, a, 5)
         /\ Has(s, a, 5) => Has(w, a, 6) /\ w[a + 5] = t
         /\ Has(s, a, 6) => Has(w, a, 7)
  <1>1. PICK n \in Nat : n = Len(s)
    OBVIOUS
  <1>2. Len(w) = n + 1 /\ w[n + 1] = t /\ \A i \in 1 .. n : w[i] = s[i]
    BY <1>1 DEF Extends, Longer
  <1>3. a \in Nat /\ a >= 5
    BY BodyFacts
  <1>4. \A m \in Nat : n + 1 = a + m => (n + 1) + 1 = a + (m + 1) /\ a + m = n + 1
    BY <1>3
  <1> QED
    BY <1>1, <1>2, <1>3, <1>4 DEF Has

LEMMA Amounts ==
  ASSUME NEW s \in Seq(Tokens), NEW a, Body(s, a)
  PROVE  /\ Fresh(s, a) <=> Has(s, a, 0)
         /\ Whole(s, a) <=> \/ Has(s, a, 2) \/ Has(s, a, 5) \/ Has(s, a, 7)
                            \/ Has(s, a, 4) /\ s[a + 3] = "KEY"
         /\ \A t : Follows(s, a, t) <=>
              \/ Has(s, a, 0) /\ IsName(t)
              \/ Has(s, a, 1) /\ t \in {"INT", "VARCHAR"}
              \/ Has(s, a, 2) /\ (t = "PRIMARY" \/ (t = "(" /\ s[a + 1] = "VARCHAR"))
              \/ Has(s, a, 3) /\ t = IF s[a + 2] = "(" THEN "number" ELSE "KEY"
              \/ Has(s, a, 4) /\ t = ")" /\ s[a + 2] = "("
              \/ Has(s, a, 5) /\ t = "PRIMARY"
              \/ Has(s, a, 6) /\ t = "KEY"
         /\ \A i, j \in Nat : Has(s, a, i) /\ Has(s, a, j) => i = j
  <1>1. PICK n \in Nat : n = Len(s)
    OBVIOUS
  <1>2. a \in Nat /\ a <= n + 1
    BY <1>1, BodyFacts
  <1>3. PICK m \in Nat : n + 1 = a + m
    <2>1. n + 1 - a \in Nat /\ n + 1 = a + (n + 1 - a)
      BY <1>2
    <2> QED
      BY <2>1
  <1>4. \A i \in Nat : (n + 1 = a + i <=> i = m) /\ (n + 1 - a = i <=> i = m)
    BY <1>2, <1>3
  <1>5. \A i \in Nat : Has(s, a, i) <=> i = m
    BY <1>1, <1>4 DEF Has
  <1>6. Fresh(s, a) <=> m = 0
    BY <1>1, <1>2, <1>3 DEF Fresh
  <1>7. Whole(s, a) <=> m \in {2, 5, 7} \/ (m = 4 /\ s[a + 3] = "KEY")
    <2>1. /\ (n + 1) - a = 2 <=> m = 2
          /\ (n + 1) - a = 4 <=> m = 4
          /\ (n + 1) - a = 5 <=> m = 5
          /\ (n + 1) - a = 7 <=> m = 7
      BY <1>2, <1>3
    <2>2. Whole(s, a) <=> (n + 1) - a \in {2, 5, 7} \/ ((n + 1) - a = 4 /\ s[a + 3] = "KEY")
      BY <1>1 DEF Whole, Complete
    <2> QED
      BY <2>1, <2>2
  <1>8. ASSUME NEW t
        PROVE  Follows(s, a, t) <=>
              \/ m = 0 /\ IsName(t)
              \/ m = 1 /\ t \in {"INT", "VARCHAR"}
              \/ m = 2 /\ (t = "PRIMARY" \/ (t = "(" /\ s[a + 1] = "VARCHAR"))
              \/ m = 3 /\ t = IF s[a + 2] = "(" THEN "number" ELSE "KEY"
              \/ m = 4 /\ t = ")" /\ s[a + 2] = "("
              \/ m = 5 /\ t = "PRIMARY"
              \/ m = 6 /\ t = "KEY"
    <2>1. /\ n + 1 = a <=> m = 0
          /\ n + 1 = a + 1 <=> m = 1
          /\ n + 1 = a + 2 <=> m = 2
          /\ n + 1 = a + 3 <=> m = 3
          /\ n + 1 = a + 4 <=> m = 4
          /\ n + 1 = a + 5 <=> m = 5
          /\ n + 1 = a + 6 <=> m = 6
          /\ n + 1 < a + 7 <=> m < 7
      BY <1>2, <1>3
    <2>2. m < 7 <=> m \in {0, 1, 2, 3, 4, 5, 6}
      OBVIOUS
    <2>3. Follows(s, a, t) <=>
            /\ m = 0 => IsName(t)
            /\ m = 1 => t \in {"INT", "VARCHAR"}
            /\ m = 2 => t = "PRIMARY" \/ (t = "(" /\ s[a + 1] = "VARCHAR")
            /\ m = 3 => t = (IF s[a + 2] = "(" THEN "number" ELSE "KEY")
            /\ m = 4 => t = ")" /\ s[a + 2] = "("
            /\ m = 5 => t = "PRIMARY"
            /\ m = 6 => t = "KEY"
            /\ m < 7
      BY <1>1, <2>1 DEF Follows, Fits
    <2> QED
      BY <2>2, <2>3
  <1>9. 0 \in Nat /\ 1 \in Nat /\ 2 \in Nat /\ 3 \in Nat /\ 4 \in Nat /\ 5 \in Nat /\ 6 \in Nat /\ 7 \in Nat
    OBVIOUS
  <1> QED
    BY <1>5, <1>6, <1>7, <1>8, <1>9

LEMMA Ends11 ==
  ASSUME NEW s \in Seq(Tokens), NEW a, Body(s, a),
         Has(s, a, 6) \/ (Has(s, a, 3) /\ s[a + 2] = "PRIMARY")
  PROVE  Ends(s, 11)
  <1>0. PICK t : t = "KEY"
    OBVIOUS
  <1>1. PICK w : w = Append(s, t)
    OBVIOUS
  <1>2. t \in Tokens /\ t = One[11] /\ 11 \in 1 .. 12 /\ 11 + 1 = 12
    BY <1>0, OneIs DEF Tokens
  <1>7. Longer(w, s, t)
    BY <1>1, <1>2, LongerIs
  <1>3. Follows(s, a, t)
    BY <1>0, Amounts
  <1>4. Body(w, a) /\ w \in Seq(Tokens)
    BY <1>1, <1>2, <1>3, Grow, ExtendsAppend
  <1>5. Has(w, a, 7) \/ (Has(w, a, 4) /\ w[a + 3] = "KEY")
    <2>1. CASE Has(s, a, 6)
      BY <1>7, <2>1, HasMore
    <2>2. CASE Has(s, a, 3)
      <3>1. Has(s, a, 3) => Has(w, a, 4) /\ w[a + 3] = t
        BY <1>7, HasMore
      <3> QED
        BY <1>0, <2>2, <3>1
    <2> QED
      BY <2>1, <2>2
  <1>6. Ends(w, 12)
    BY <1>4, <1>5, Amounts, Ends12
  <1> QED
    BY <1>1, <1>2, <1>3, <1>6, ChainGrow

LEMMA Ends10 ==
  ASSUME NEW s \in Seq(Tokens), NEW a, Body(s, a), Has(s, a, 5)
  PROVE  Ends(s, 10)
  <1>0. PICK t : t = "PRIMARY"
    OBVIOUS
  <1>1. PICK w : w = Append(s, t)
    OBVIOUS
  <1>2. t \in Tokens /\ t = One[10] /\ 10 \in 1 .. 12 /\ 10 + 1 = 11
    BY <1>0, OneIs DEF Tokens
  <1>7. Longer(w, s, t)
    BY <1>1, <1>2, LongerIs
  <1>3. Follows(s, a, t)
    BY <1>0, Amounts
  <1>4. Body(w, a) /\ w \in Seq(Tokens)
    BY <1>1, <1>2, <1>3, Grow, ExtendsAppend
  <1>5. Has(w, a, 6)
    BY <1>0, <1>7, HasMore
  <1>6. Ends(w, 11)
    BY <1>4, <1>5, Ends11
  <1> QED
    BY <1>1, <1>2, <1>3, <1>6, ChainGrow

LEMMA Ends9 ==
  ASSUME NEW s \in Seq(Tokens), NEW a, Body(s, a), Has(s, a, 4) /\ s[a + 2] = "("
  PROVE  Ends(s, 9)
  <1>0. PICK t : t = ")"
    OBVIOUS
  <1>1. PICK w : w = Append(s, t)
    OBVIOUS
  <1>2. t \in Tokens /\ t = One[9] /\ 9 \in 1 .. 12 /\ 9 + 1 = 10
    BY <1>0, OneIs DEF Tokens
  <1>7. Longer(w, s, t)
    BY <1>1, <1>2, LongerIs
  <1>3. Follows(s, a, t)
    BY <1>0, Amounts
  <1>4. Body(w, a) /\ w \in Seq(Tokens)
    BY <1>1, <1>2, <1>3, Grow, ExtendsAppend
  <1>5. Has(w, a, 5)
    BY <1>0, <1>7, HasMore
  <1>6. Ends(w, 10)
    BY <1>4, <1>5, Ends10
  <1> QED
    BY <1>1, <1>2, <1>3, <1>6, ChainGrow

LEMMA Ends8 ==
  ASSUME NEW s \in Seq(Tokens), NEW a, Body(s, a), Has(s, a, 3) /\ s[a + 2] = "("
  PROVE  Ends(s, 8)
  <1>0. PICK t : t = "number"
    OBVIOUS
  <1>1. PICK w : w = Append(s, t)
    OBVIOUS
  <1>2. t \in Tokens /\ t = One[8] /\ 8 \in 1 .. 12 /\ 8 + 1 = 9
    BY <1>0, OneIs DEF Tokens
  <1>7. Longer(w, s, t)
    BY <1>1, <1>2, LongerIs
  <1>3. Follows(s, a, t)
    BY <1>0, Amounts
  <1>4. Body(w, a) /\ w \in Seq(Tokens)
    BY <1>1, <1>2, <1>3, Grow, ExtendsAppend
  <1>5. Has(w, a, 4) /\ w[a + 2] = "("
    <2>1. Has(s, a, 3) => Has(w, a, 4) /\ w[a + 2] = s[a + 2]
      BY <1>7, HasMore
    <2> QED
      BY <1>0, <2>1
  <1>6. Ends(w, 9)
    BY <1>4, <1>5, Ends9
  <1> QED
    BY <1>1, <1>2, <1>3, <1>6, ChainGrow

LEMMA Ends7 ==
  ASSUME NEW s \in Seq(Tokens), NEW a, Body(s, a), Has(s, a, 2) /\ s[a + 1] = "VARCHAR"
  PROVE  Ends(s, 7)
  <1>0. PICK t : t = "("
    OBVIOUS
  <1>1. PICK w : w = Append(s, t)
    OBVIOUS
  <1>2. t \in Tokens /\ t = One[7] /\ 7 \in 1 .. 12 /\ 7 + 1 = 8
    BY <1>0, OneIs DEF Tokens
  <1>7. Longer(w, s, t)
    BY <1>1, <1>2, LongerIs
  <1>3. Follows(s, a, t)
    BY <1>0, Amounts
  <1>4. Body(w, a) /\ w \in Seq(Tokens)
    BY <1>1, <1>2, <1>3, Grow, ExtendsAppend
  <1>5. Has(w, a, 3) /\ w[a + 2] = "("
    <2>1. Has(s, a, 2) => Has(w, a, 3) /\ w[a + 2] = t
      BY <1>7, HasMore
    <2> QED
      BY <1>0, <2>1
  <1>6. Ends(w, 8)
    BY <1>4, <1>5, Ends8
  <1> QED
    BY <1>1, <1>2, <1>3, <1>6, ChainGrow

LEMMA Ends6 ==
  ASSUME NEW s \in Seq(Tokens), NEW a, Body(s, a), Has(s, a, 1)
  PROVE  Ends(s, 6)
  <1>0. PICK t : t = "VARCHAR"
    OBVIOUS
  <1>1. PICK w : w = Append(s, t)
    OBVIOUS
  <1>2. t \in Tokens /\ t = One[6] /\ 6 \in 1 .. 12 /\ 6 + 1 = 7
    BY <1>0, OneIs DEF Tokens
  <1>7. Longer(w, s, t)
    BY <1>1, <1>2, LongerIs
  <1>3. Follows(s, a, t)
    BY <1>0, Amounts
  <1>4. Body(w, a) /\ w \in Seq(Tokens)
    BY <1>1, <1>2, <1>3, Grow, ExtendsAppend
  <1>5. Has(w, a, 2) /\ w[a + 1] = "VARCHAR"
    <2>1. Has(s, a, 1) => Has(w, a, 2) /\ w[a + 1] = t
      BY <1>7, HasMore
    <2> QED
      BY <1>0, <2>1
  <1>6. Ends(w, 7)
    BY <1>4, <1>5, Ends7
  <1> QED
    BY <1>1, <1>2, <1>3, <1>6, ChainGrow

LEMMA Ends5 ==
  ASSUME NEW s \in Seq(Tokens), NEW a, Body(s, a), Has(s, a, 0)
  PROVE  Ends(s, 5)
  <1>0. PICK t : t = "identifier"
    OBVIOUS
  <1>1. PICK w : w = Append(s, t)
    OBVIOUS
  <1>2. t \in Tokens /\ t = One[5] /\ 5 \in 1 .. 12 /\ 5 + 1 = 6
    BY <1>0, OneIs DEF Tokens
  <1>7. Longer(w, s, t)
    BY <1>1, <1>2, LongerIs
  <1>3. Follows(s, a, t)
    BY <1>0, Amounts DEF IsName
  <1>4. Body(w, a) /\ w \in Seq(Tokens)
    BY <1>1, <1>2, <1>3, Grow, ExtendsAppend
  <1>5. Has(w, a, 1)
    BY <1>0, <1>7, HasMore
  <1>6. Ends(w, 6)
    BY <1>4, <1>5, Ends6
  <1> QED
    BY <1>1, <1>2, <1>3, <1>6, ChainGrow

(* Before the body.                                                         *)
LEMMA OpenedMore ==
  ASSUME NEW s \in Seq(Tokens), Opened(s), Len(s) \in 0 .. 3,
         NEW t \in Tokens, Opener(Len(s) + 1, t), NEW w, w = Append(s, t)
  PROVE  w \in Seq(Tokens) /\ Len(w) = Len(s) + 1 /\ Opened(w)
  <1>1. PICK n \in 0 .. 3 : n = Len(s)
    OBVIOUS
  <1>2. w \in Seq(Tokens) /\ Len(w) = n + 1 /\ w[n + 1] = t /\ \A i \in 1 .. n : w[i] = s[i]
    BY <1>1, ExtendsAppend DEF Extends
  <1>3. ASSUME NEW i \in 1 .. 4, i <= n + 1 PROVE Opener(i, w[i])
    <2>1. CASE i = n + 1
      BY <1>1, <1>2, <2>1
    <2>2. CASE i # n + 1
      <3>1. i <= n /\ i \in 1 .. n
        BY <1>3, <2>2
      <3>2. Opener(i, s[i])
        BY <1>1, <3>1 DEF Opened
      <3> QED
        BY <1>2, <3>1, <3>2
    <2> QED
      BY <2>1, <2>2
  <1>4. Opened(w)
    BY <1>2, <1>3 DEF Opened
  <1> QED
    BY <1>1, <1>2, <1>4

LEMMA Ends4 ==
  ASSUME NEW s \in Seq(Tokens), Opened(s), Len(s) = 3
  PROVE  Ends(s, 4)
  <1>0. PICK t : t = "("
    OBVIOUS
  <1>1. PICK w : w = Append(s, t)
    OBVIOUS
  <1>2. t \in Tokens /\ t = One[4] /\ 4 \in 1 .. 12 /\ 4 + 1 = 5
    BY <1>0, OneIs DEF Tokens
  <1>3. w \in Seq(Tokens) /\ Len(w) = 4
    <2>1. PICK n \in Nat : n = Len(s)
      OBVIOUS
    <2>2. w \in Seq(Tokens) /\ Len(w) = n + 1
      BY <1>1, <1>2, <2>1, ExtendsAppend
    <2> QED
      BY <2>1, <2>2
  <1>4. Body(w, 5)
    BY <1>0, <1>1, Start
  <1>5. Has(w, 5, 0)
    BY <1>3 DEF Has
  <1>6. Ends(w, 5)
    BY <1>3, <1>4, <1>5, Ends5
  <1>7. Ends(Append(s, One[4]), 4 + 1)
    BY <1>1, <1>2, <1>6
  <1> QED
    BY <1>2, <1>7, Chain

LEMMA Ends3 ==
  ASSUME NEW s \in Seq(Tokens), Opened(s), Len(s) = 2
  PROVE  Ends(s, 3)
  <1>0. PICK t : t = "identifier"
    OBVIOUS
  <1>1. PICK w : w = Append(s, t)
    OBVIOUS
  <1>2. t \in Tokens /\ t = One[3] /\ 3 \in 1 .. 12 /\ 3 + 1 = 4
    BY <1>0, OneIs DEF Tokens
  <1>3. w \in Seq(Tokens) /\ Len(w) = 3 /\ Opened(w)
    <2>1. Opener(3, t)
      BY <1>0 DEF Opener, IsName
    <2>2. Len(s) \in 0 .. 3 /\ Len(s) + 1 = 3
      OBVIOUS
    <2> QED
      BY <1>1, <1>2, <2>1, <2>2, OpenedMore
  <1>4. Ends(w, 4)
    BY <1>3, Ends4
  <1>5. Ends(Append(s, One[3]), 3 + 1)
    BY <1>1, <1>2, <1>4
  <1> QED
    BY <1>2, <1>5, Chain

LEMMA Ends2 ==
  ASSUME NEW s \in Seq(Tokens), Opened(s), Len(s) = 1
  PROVE  Ends(s, 2)
  <1>0. PICK t : t = "TABLE"
    OBVIOUS
  <1>1. PICK w : w = Append(s, t)
    OBVIOUS
  <1>2. t \in Tokens /\ t = One[2] /\ 2 \in 1 .. 12 /\ 2 + 1 = 3
    BY <1>0, OneIs DEF Tokens
  <1>3. w \in Seq(Tokens) /\ Len(w) = 2 /\ Opened(w)
    <2>1. Opener(2, t)
      BY <1>0 DEF Opener, IsName
    <2>2. Len(s) \in 0 .. 3 /\ Len(s) + 1 = 2
      OBVIOUS
    <2> QED
      BY <1>1, <1>2, <2>1, <2>2, OpenedMore
  <1>4. Ends(w, 3)
    BY <1>3, Ends3
  <1>5. Ends(Append(s, One[2]), 2 + 1)
    BY <1>1, <1>2, <1>4
  <1> QED
    BY <1>2, <1>5, Chain

LEMMA Ends1 ==
  ASSUME NEW s \in Seq(Tokens), Opened(s), Len(s) = 0
  PROVE  Ends(s, 1)
  <1>0. PICK t : t = "CREATE"
    OBVIOUS
  <1>1. PICK w : w = Append(s, t)
    OBVIOUS
  <1>2. t \in Tokens /\ t = One[1] /\ 1 \in 1 .. 12 /\ 1 + 1 = 2
    BY <1>0, OneIs DEF Tokens
  <1>3. w \in Seq(Tokens) /\ Len(w) = 1 /\ Opened(w)
    <2>1. Opener(1, t)
      BY <1>0 DEF Opener, IsName
    <2>2. Len(s) \in 0 .. 3 /\ Len(s) + 1 = 1
      OBVIOUS
    <2> QED
      BY <1>1, <1>2, <2>1, <2>2, OpenedMore
  <1>4. Ends(w, 2)
    BY <1>3, Ends2
  <1>5. Ends(Append(s, One[1]), 1 + 1)
    BY <1>1, <1>2, <1>4
  <1> QED
    BY <1>2, <1>5, Chain

-----------------------------------------------------------------------------
(* Where the parser is, by what it has of the column that starts at a.      *)
At(p, s, a, t) ==
  /\ p \in {"stmt", "more", "column"} => Has(s, a, 0)
  /\ p = "column" => t \notin {")", "eof"}
  /\ p = "type" => Has(s, a, 1)
  /\ p = "length" => Has(s, a, 2) /\ s[a + 1] = "VARCHAR"
  /\ p = "number" => Has(s, a, 3) /\ s[a + 2] = "("
  /\ p = "closing" => Has(s, a, 4) /\ s[a + 2] = "(" /\ s[a + 3] = "number"
  /\ p = "primary" => Has(s, a, 5) \/ (Has(s, a, 2) /\ ~ (s[a + 1] = "VARCHAR" /\ t = "("))
  /\ p = "key" => Has(s, a, 6) \/ (Has(s, a, 3) /\ s[a + 2] = "PRIMARY")
  /\ p \in {"node", "comma"} => Whole(s, a) /\ ~ Follows(s, a, t)
  /\ p = "close" => \/ Has(s, a, 0) /\ t \in {")", "eof"}
                    \/ Whole(s, a) /\ ~ Follows(s, a, t) /\ t # "comma"

InBody == {"stmt", "more", "column", "type", "length", "number", "closing", "primary", "key",
           "node", "comma", "close"}

LEMMA BodyBegins ==
  ASSUME NEW s \in Seq(Tokens), NEW a, Body(s, a), NEW p \in InBody, NEW t, At(p, s, a, t)
  PROVE  BeginsStatement(s)
  <1>1. \E k \in 1 .. 13 : Ends(s, k)
    <2>0. 12 \in 1 .. 13 /\ 11 \in 1 .. 13 /\ 9 \in 1 .. 13 /\ 8 \in 1 .. 13 /\ 6 \in 1 .. 13
      OBVIOUS
    <2>1. CASE Has(s, a, 0) \/ Has(s, a, 2) \/ Has(s, a, 5) \/ Whole(s, a)
      BY <2>0, <2>1, Amounts, Ends12
    <2>2. CASE Has(s, a, 1)
      BY <2>0, <2>2, Ends6
    <2>3. CASE Has(s, a, 3) /\ s[a + 2] = "("
      BY <2>0, <2>3, Ends8
    <2>4. CASE Has(s, a, 4) /\ s[a + 2] = "("
      BY <2>0, <2>4, Ends9
    <2>5. CASE Has(s, a, 6) \/ (Has(s, a, 3) /\ s[a + 2] = "PRIMARY")
      BY <2>0, <2>5, Ends11
    <2> QED
      BY <2>1, <2>2, <2>3, <2>4, <2>5 DEF At, InBody
  <1> QED
    BY <1>1, EndsBegins

LEMMA HeadBegins ==
  ASSUME NEW s \in Seq(Tokens), Opened(s), Len(s) \in 0 .. 3
  PROVE  BeginsStatement(s)
  <1>0. 1 \in 1 .. 13 /\ 2 \in 1 .. 13 /\ 3 \in 1 .. 13 /\ 4 \in 1 .. 13
    OBVIOUS
  <1>1. CASE Len(s) = 0
    BY <1>0, <1>1, Ends1, EndsBegins
  <1>2. CASE Len(s) = 1
    BY <1>0, <1>2, Ends2, EndsBegins
  <1>3. CASE Len(s) = 2
    BY <1>0, <1>3, Ends3, EndsBegins
  <1>4. CASE Len(s) = 3
    BY <1>0, <1>4, Ends4, EndsBegins
  <1> QED
    BY <1>1, <1>2, <1>3, <1>4

(* A token taken in a column.                                               *)
Takes(p, t, q) ==
  \/ p = "column" /\ IsName(t) /\ q = "type"
  \/ p = "type" /\ t = "INT" /\ q = "primary"
  \/ p = "type" /\ t = "VARCHAR" /\ q = "length"
  \/ p = "length" /\ t = "(" /\ q = "number"
  \/ p = "number" /\ t = "number" /\ q = "closing"
  \/ p = "closing" /\ t = ")" /\ q = "primary"
  \/ p = "primary" /\ t = "PRIMARY" /\ q = "key"
  \/ p = "key" /\ t = "KEY" /\ q = "node"

LEMMA TakenAt ==
  ASSUME NEW s \in Seq(Tokens), NEW a, Body(s, a), NEW p, NEW t \in Tokens, At(p, s, a, t),
         NEW q, Takes(p, t, q), NEW w \in Seq(Tokens), Body(w, a), Longer(w, s, t), NEW u
  PROVE  At(q, w, a, u)
  <1>2. Body(w, a) /\ w \in Seq(Tokens)
    OBVIOUS
  <1>3. Longer(w, s, t)
    OBVIOUS
  <1>4. CASE p = "column" /\ q = "type"
    <2>1. Has(w, a, 1)
      BY <1>3, <1>4, HasMore DEF At
    <2> QED
      BY <1>2, <1>4, <2>1 DEF At
  <1>5. CASE p = "type" /\ t = "INT" /\ q = "primary"
    <2>1. Has(w, a, 2) /\ w[a + 1] = "INT"
      BY <1>3, <1>5, HasMore DEF At
    <2> QED
      BY <1>2, <1>5, <2>1 DEF At
  <1>6. CASE p = "type" /\ t = "VARCHAR" /\ q = "length"
    <2>1. Has(w, a, 2) /\ w[a + 1] = "VARCHAR"
      BY <1>3, <1>6, HasMore DEF At
    <2> QED
      BY <1>2, <1>6, <2>1 DEF At
  <1>7. CASE p = "length" /\ t = "(" /\ q = "number"
    <2>1. Has(w, a, 3) /\ w[a + 2] = "("
      BY <1>3, <1>7, HasMore DEF At
    <2> QED
      BY <1>2, <1>7, <2>1 DEF At
  <1>8. CASE p = "number" /\ t = "number" /\ q = "closing"
    <2>1. Has(w, a, 4) /\ w[a + 2] = "(" /\ w[a + 3] = "number"
      BY <1>3, <1>8, HasMore DEF At
    <2> QED
      BY <1>2, <1>8, <2>1 DEF At
  <1>9. CASE p = "closing" /\ q = "primary"
    <2>1. Has(w, a, 5)
      BY <1>3, <1>9, HasMore DEF At
    <2> QED
      BY <1>2, <1>9, <2>1 DEF At
  <1>10. CASE p = "primary" /\ t = "PRIMARY" /\ q = "key"
    <2>1. Has(w, a, 6) \/ (Has(w, a, 3) /\ w[a + 2] = "PRIMARY")
      BY <1>3, <1>10, HasMore DEF At
    <2> QED
      BY <1>2, <1>10, <2>1 DEF At
  <1>11. CASE p = "key" /\ t = "KEY" /\ q = "node"
    <2>1. Has(w, a, 7) \/ (Has(w, a, 4) /\ w[a + 3] = "KEY" /\ w[a + 2] = "PRIMARY")
      BY <1>3, <1>11, HasMore DEF At
    <2>2. Whole(w, a) /\ ~ Follows(w, a, u)
      <3>1. 7 \in Nat /\ 4 \in Nat /\ 0 \in Nat /\ 1 \in Nat /\ 2 \in Nat /\ 3 \in Nat /\ 5 \in Nat /\ 6 \in Nat
        OBVIOUS
      <3> QED
        BY <1>2, <2>1, <3>1, Amounts
    <2> QED
      BY <1>2, <1>11, <2>2 DEF At
  <1> QED
    BY <1>4, <1>5, <1>6, <1>7, <1>8, <1>9, <1>10, <1>11 DEF Takes

LEMMA Taken ==
  ASSUME NEW s \in Seq(Tokens), NEW a, Body(s, a), NEW p, NEW t \in Tokens, At(p, s, a, t),
         NEW q, Takes(p, t, q), NEW w, w = Append(s, t), NEW u
  PROVE  Body(w, a) /\ At(q, w, a, u)
  <1>1. Follows(s, a, t)
    BY Amounts DEF Takes, At
  <1>2. Body(w, a) /\ w \in Seq(Tokens)
    BY <1>1, Grow, ExtendsAppend
  <1>3. Longer(w, s, t)
    BY LongerIs
  <1> QED
    BY <1>2, <1>3, TakenAt

(* A step that takes no token.                                              *)
Passes(p, t, q) ==
  \/ p = "stmt" /\ q = "more"
  \/ p = "more" /\ q = (IF t \in {")", "eof"} THEN "close" ELSE "column")
  \/ p = "length" /\ t # "(" /\ q = "primary"
  \/ p = "primary" /\ t # "PRIMARY" /\ q = "node"
  \/ p = "node" /\ q = "comma"
  \/ p = "comma" /\ t # "comma" /\ q = "close"

LEMMA Passed ==
  ASSUME NEW s \in Seq(Tokens), NEW a, Body(s, a), NEW p, NEW t, At(p, s, a, t), NEW q, Passes(p, t, q)
  PROVE  At(q, s, a, t)
  <1>0. 7 \in Nat /\ 4 \in Nat /\ 0 \in Nat /\ 1 \in Nat /\ 2 \in Nat /\ 3 \in Nat /\ 5 \in Nat /\ 6 \in Nat
    OBVIOUS
  <1>1. CASE p = "primary" /\ t # "PRIMARY" /\ q = "node"
    <2>1. Has(s, a, 5) \/ (Has(s, a, 2) /\ ~ (s[a + 1] = "VARCHAR" /\ t = "("))
      BY <1>1 DEF At
    <2>2. Whole(s, a) /\ ~ Follows(s, a, t)
      BY <1>0, <1>1, <2>1, Amounts
    <2> QED
      BY <1>1, <2>2 DEF At
  <1>2. CASE p # "primary"
    BY <1>2 DEF At, Passes
  <1> QED
    BY <1>1, <1>2 DEF Passes

(* Where the parser gives up, no statement goes on.                         *)
Refuses(p, t) ==
  \/ p = "column" /\ ~ IsName(t)
  \/ p = "type" /\ t \notin {"INT", "VARCHAR"}
  \/ p = "number" /\ t # "number"
  \/ p = "closing" /\ t # ")"
  \/ p = "key" /\ t # "KEY"
  \/ p = "close" /\ t # ")"

LEMMA Refused ==
  ASSUME NEW s \in Seq(Tokens), NEW a, Body(s, a), NEW p, NEW t \in Tokens, At(p, s, a, t), Refuses(p, t)
  PROVE  ~ BeginsStatement(Append(s, t))
  <1>0. 7 \in Nat /\ 4 \in Nat /\ 0 \in Nat /\ 1 \in Nat /\ 2 \in Nat /\ 3 \in Nat /\ 5 \in Nat /\ 6 \in Nat
    OBVIOUS
  <1>1. ~ (\/ t = "comma" /\ Whole(s, a)
           \/ t = ")" /\ (Whole(s, a) \/ Fresh(s, a))
           \/ Follows(s, a, t))
    <2>1. ASSUME NEW m \in {0, 1, 3, 4, 6}, Has(s, a, m) PROVE \A i \in Nat : Has(s, a, i) => i = m
      BY <2>1, Amounts
    <2>2. CASE p = "column" /\ ~ IsName(t)
      BY <1>0, <2>1, <2>2, Amounts DEF At
    <2>3. CASE p = "type" /\ t \notin {"INT", "VARCHAR"}
      BY <1>0, <2>1, <2>3, Amounts DEF At
    <2>4. CASE p = "number" /\ t # "number"
      BY <1>0, <2>1, <2>4, Amounts DEF At
    <2>5. CASE p = "closing" /\ t # ")"
      BY <1>0, <2>1, <2>5, Amounts DEF At
    <2>6. CASE p = "key" /\ t # "KEY"
      BY <1>0, <2>1, <2>6, Amounts DEF At
    <2>7. CASE p = "close" /\ t # ")"
      BY <1>0, <2>1, <2>7, Amounts DEF At, IsName
    <2> QED
      BY <2>2, <2>3, <2>4, <2>5, <2>6, <2>7 DEF Refuses
  <1>2. ASSUME NEW e \in Endings, IsStatement(Append(s, t) \o e) PROVE FALSE
    <2>1. PICK x : x = Append(s, t)
      OBVIOUS
    <2>2. PICK w : w = Concat(x, e)
      OBVIOUS
    <2>3. PICK l \in Nat : l = Len(s)
      OBVIOUS
    <2>4. x \in Seq(Tokens) /\ Len(x) = l + 1 /\ x[l + 1] = t /\ \A i \in 1 .. l : x[i] = s[i]
      BY <2>1, <2>3, ExtendsAppend DEF Extends
    <2>5. e \in Seq(Tokens) /\ Len(e) \in Nat
      BY EndingsAre
    <2>6. w \in Seq(Tokens) /\ Len(w) = Len(x) + Len(e) /\ \A i \in 1 .. Len(x) : w[i] = x[i]
      <3>1. x \in Seq(Tokens)
        BY <2>4
      <3> QED
        BY <2>2, <2>5, <3>1, ConcatIs
    <2>7. Len(w) > Len(s) /\ w[Len(s) + 1] = t /\ Extends(w, s)
      BY <2>3, <2>4, <2>5, <2>6 DEF Extends
    <2>8. IsStatement(w)
      BY <1>2, <2>1, <2>2 DEF Concat
    <2>9. PICK n : Stated(w, n)
      BY <2>6, <2>8, StatementIs
    <2> QED
      BY <1>1, <2>6, <2>7, <2>9, Viable
  <1> QED
    BY <1>2 DEF BeginsStatement

-----------------------------------------------------------------------------
(* What has been read of a statement where the parser is at p with token t. *)
InColumns(p, s, t) == \E a : Body(s, a) /\ At(p, s, a, t)
Goes(p, s, t) ==
  /\ p \in {"create", "table", "name", "open"} => Opened(s)
  /\ p \in InBody => InColumns(p, s, t)
  /\ p = "semicolon" => Stated(s, Len(s))
  /\ BeginsStatement(s)
  /\ p \in {"parsed", "lowered", "done"} => IsStatement(s)
  /\ p = "failed" => ~ BeginsStatement(Append(s, t))

Progress == Goes(pc, read, current)

LEMMA GoesOpening ==
  ASSUME NEW p, NEW s \in Seq(Tokens), NEW t \in Tokens, Goes(p, s, t), NEW q, NEW w, w = Append(s, t),
         NEW u, Counts(p, Len(s)),
         \/ p = "create" /\ t = "CREATE" /\ q = "table"
         \/ p = "table" /\ t = "TABLE" /\ q = "name"
         \/ p = "name" /\ IsName(t) /\ q \in {"open", "nomem"}
  PROVE  Goes(q, w, u)
  <1>1. PICK n : n = Len(s)
    OBVIOUS
  <1>2. n \in 0 .. 3 /\ Opener(n + 1, t) /\ n + 1 \in 0 .. 3
    BY <1>1 DEF Counts, Opener
  <1>3. Opened(s)
    BY DEF Goes
  <1>4. w \in Seq(Tokens) /\ Len(w) = n + 1 /\ Opened(w)
    BY <1>1, <1>2, <1>3, OpenedMore
  <1>5. BeginsStatement(w)
    BY <1>2, <1>4, HeadBegins
  <1> QED
    BY <1>4, <1>5 DEF Goes, InBody

LEMMA GoesStart ==
  ASSUME NEW s \in Seq(Tokens), Len(s) = 3, Goes("open", s, "("), NEW w, w = Append(s, "("), NEW u
  PROVE  Goes("stmt", w, u)
  <1>1. "(" \in Tokens
    BY DEF Tokens
  <1>2. w \in Seq(Tokens) /\ Len(w) = 4
    <2>1. PICK n \in Nat : n = Len(s)
      OBVIOUS
    <2>2. w \in Seq(Tokens) /\ Len(w) = n + 1
      BY <1>1, <2>1, ExtendsAppend
    <2> QED
      BY <2>1, <2>2
  <1>3. Body(w, 5)
    BY Start DEF Goes
  <1>4. At("stmt", w, 5, u)
    BY <1>2 DEF At, Has
  <1>5. BeginsStatement(w)
    BY <1>2, <1>3, <1>4, BodyBegins DEF InBody
  <1> QED
    BY <1>3, <1>4, <1>5 DEF Goes, InColumns, InBody

LEMMA GoesTake ==
  ASSUME NEW p, NEW s \in Seq(Tokens), NEW t \in Tokens, Goes(p, s, t), NEW w, w = Append(s, t), NEW u,
         NEW q, Takes(p, t, q)
  PROVE  Goes(q, w, u)
  <1>1. PICK a : Body(s, a) /\ At(p, s, a, t)
    BY DEF Goes, InColumns, Takes, InBody
  <1>2. Body(w, a) /\ At(q, w, a, u) /\ w \in Seq(Tokens)
    BY <1>1, Taken, ExtendsAppend
  <1>3. q \in InBody
    BY DEF Takes, InBody
  <1>4. BeginsStatement(w)
    BY <1>2, <1>3, BodyBegins
  <1>5. q \notin {"create", "table", "name", "open", "semicolon", "parsed", "lowered", "done", "failed"}
    BY DEF Takes
  <1> QED
    BY <1>2, <1>4, <1>5 DEF Goes, InColumns

LEMMA GoesPass ==
  ASSUME NEW p, NEW s \in Seq(Tokens), NEW t, Goes(p, s, t), NEW q, Passes(p, t, q)
  PROVE  Goes(q, s, t)
  <1>1. PICK a : Body(s, a) /\ At(p, s, a, t)
    BY DEF Goes, InColumns, Passes, InBody
  <1>2. At(q, s, a, t)
    BY <1>1, Passed
  <1>3. q \notin {"create", "table", "name", "open", "semicolon", "parsed", "lowered", "done", "failed"}
    BY DEF Passes
  <1> QED
    BY <1>1, <1>2, <1>3 DEF Goes, InColumns

LEMMA GoesComma ==
  ASSUME NEW s \in Seq(Tokens), Goes("comma", s, "comma"), NEW w, w = Append(s, "comma"), NEW u
  PROVE  Goes("more", w, u)
  <1>1. PICK a : Body(s, a) /\ At("comma", s, a, "comma")
    BY DEF Goes, InColumns, InBody
  <1>2. "comma" \in Tokens
    BY DEF Tokens
  <1>3. PICK n \in Nat : n = Len(s)
    OBVIOUS
  <1>4. w \in Seq(Tokens) /\ Len(w) = n + 1
    BY <1>2, <1>3, ExtendsAppend
  <1>5. Body(w, n + 2)
    BY <1>1, <1>3, Comma DEF At
  <1>6. At("more", w, n + 2, u)
    BY <1>4 DEF At, Has
  <1>7. BeginsStatement(w)
    BY <1>4, <1>5, <1>6, BodyBegins DEF InBody
  <1> QED
    BY <1>5, <1>6, <1>7 DEF Goes, InColumns, InBody

LEMMA StatedBegins ==
  ASSUME NEW s \in Seq(Tokens), NEW n, Stated(s, n)
  PROVE  IsStatement(s) /\ BeginsStatement(s)
  <1>1. IsStatement(s)
    BY StatementIs
  <1>2. 13 \in 1 .. 13
    OBVIOUS
  <1> QED
    BY <1>1, <1>2, StatementBegins, EndsBegins

LEMMA GoesClose ==
  ASSUME NEW s \in Seq(Tokens), Goes("close", s, ")"), NEW w, w = Append(s, ")"), NEW u
  PROVE  Goes("semicolon", w, u)
  <1>1. PICK a : Body(s, a) /\ At("close", s, a, ")")
    BY DEF Goes, InColumns, InBody
  <1>2. ")" \in Tokens
    BY DEF Tokens
  <1>3. PICK n \in Nat : n = Len(s)
    OBVIOUS
  <1>4. w \in Seq(Tokens) /\ Len(w) = n + 1
    BY <1>2, <1>3, ExtendsAppend
  <1>5. Stated(w, n + 1)
    BY <1>1, <1>3, Close, Amounts DEF At
  <1>6. BeginsStatement(w)
    BY <1>4, <1>5, StatedBegins
  <1> QED
    BY <1>4, <1>5, <1>6 DEF Goes, InBody

LEMMA GoesEnd ==
  ASSUME NEW s \in Seq(Tokens), NEW t, Goes("semicolon", s, t), NEW w,
         w = s \/ w = Append(s, "semicolon"), NEW u
  PROVE  Goes("parsed", w, u)
  <1>1. "semicolon" \in Tokens
    BY DEF Tokens
  <1>2. w \in Seq(Tokens)
    BY <1>1, ExtendsAppend
  <1>3. Stated(w, Len(s))
    BY Semicolon DEF Goes
  <1>4. IsStatement(w) /\ BeginsStatement(w)
    BY <1>2, <1>3, StatedBegins
  <1> QED
    BY <1>4 DEF Goes, InBody

LEMMA GoesRefused ==
  ASSUME NEW p, NEW s \in Seq(Tokens), NEW t \in Tokens, Goes(p, s, t), Refuses(p, t)
  PROVE  Goes("failed", s, t)
  <1>1. PICK a : Body(s, a) /\ At(p, s, a, t)
    BY DEF Goes, InColumns, Refuses, InBody
  <1>2. ~ BeginsStatement(Append(s, t))
    BY <1>1, Refused
  <1> QED
    BY <1>2 DEF Goes, InBody

LEMMA GoesUnopened ==
  ASSUME NEW p, NEW s \in Seq(Tokens), NEW t \in Tokens, Goes(p, s, t), Counts(p, Len(s)),
         \/ p = "create" /\ t # "CREATE"
         \/ p = "table" /\ t # "TABLE"
         \/ p = "name" /\ ~ IsName(t)
         \/ p = "open" /\ t # "("
  PROVE  Goes("failed", s, t)
  <1>1. PICK n : n = Len(s)
    OBVIOUS
  <1>2. n \in 0 .. 3 /\ ~ Opener(n + 1, t)
    <2>1. CASE p = "create" /\ t # "CREATE"
      BY <1>1, <2>1 DEF Counts, Opener
    <2>2. CASE p = "table" /\ t # "TABLE"
      BY <1>1, <2>2 DEF Counts, Opener
    <2>3. CASE p = "name" /\ ~ IsName(t)
      <3>1. n = 2 /\ n + 1 = 3
        BY <1>1, <2>3 DEF Counts
      <3>2. ~ Opener(3, t)
        BY <2>3 DEF Opener
      <3> QED
        BY <3>1, <3>2
    <2>4. CASE p = "open" /\ t # "("
      <3>1. n = 3 /\ n + 1 = 4
        <4>1. Counts("open", n)
          BY <1>1, <2>4
        <4>2. n = 3
          BY <4>1 DEF Counts
        <4> QED
          BY <4>2
      <3>2. ~ Opener(4, t)
        BY <2>4 DEF Opener
      <3> QED
        BY <3>1, <3>2
    <2> QED
      BY <2>1, <2>2, <2>3, <2>4
  <1>3. ASSUME NEW e \in Endings, IsStatement(Append(s, t) \o e) PROVE FALSE
    <2>1. PICK x : x = Append(s, t)
      OBVIOUS
    <2>2. PICK w : w = Concat(x, e)
      OBVIOUS
    <2>3. x \in Seq(Tokens) /\ Len(x) = n + 1 /\ x[n + 1] = t
      BY <1>1, <2>1, ExtendsAppend
    <2>4. e \in Seq(Tokens) /\ Len(e) \in Nat
      BY EndingsAre
    <2>5. w \in Seq(Tokens) /\ Len(w) = Len(x) + Len(e) /\ \A i \in 1 .. Len(x) : w[i] = x[i]
      <3>1. x \in Seq(Tokens)
        BY <2>3
      <3> QED
        BY <2>2, <2>4, <3>1, ConcatIs
    <2>6. IsStatement(w)
      BY <1>3, <2>1, <2>2 DEF Concat
    <2>7. PICK m : Stated(w, m)
      BY <2>5, <2>6, StatementIs
    <2>8. w[n + 1] = t /\ n + 1 \in 1 .. 4 /\ n + 1 <= Len(w)
      BY <1>2, <2>3, <2>4, <2>5
    <2> QED
      BY <1>2, <2>7, <2>8 DEF Stated, Opened
  <1>4. ~ BeginsStatement(Append(s, t))
    BY <1>3 DEF BeginsStatement
  <1> QED
    BY <1>4 DEF Goes, InBody

LEMMA GoesLeft ==
  ASSUME NEW p, NEW s, NEW t, Goes(p, s, t), NEW q,
         q \in {"nomem", "unlowered"} \/ (q \in {"lowered", "done"} /\ p \in {"parsed", "lowered"})
  PROVE  Goes(q, s, t)
  BY DEF Goes, InBody

LEMMA ProgressInit == Init => Progress
  <1> SUFFICES ASSUME Init PROVE Progress
    OBVIOUS
  <1>1. PICK s : s = read
    OBVIOUS
  <1>2. s = <<>> /\ s \in Seq(Tokens) /\ Len(s) = 0
    BY <1>1, Empty DEF Init
  <1>3. Opened(s)
    BY <1>2 DEF Opened
  <1>4. BeginsStatement(s)
    <2>1. s \in Seq(Tokens) /\ Len(s) \in 0 .. 3
      BY <1>2
    <2> QED
      BY <1>3, <2>1, HeadBegins
  <1> QED
    BY <1>1, <1>3, <1>4 DEF Progress, Goes, Init, InBody

LEMMA ProgressNext == Typed /\ Counted /\ Progress /\ [Next]_vars => Progress'
  <1> SUFFICES ASSUME Typed, Counted, Progress, [Next]_vars PROVE Progress'
    OBVIOUS
  <1>1. read \in Seq(Tokens) /\ current \in Tokens /\ Goes(pc, read, current) /\ Counts(pc, Len(read))
    BY DEF Typed, Counted, Progress
  <1>2. SUFFICES Goes(pc', read', current')
    BY DEF Progress
  <1>3. CASE Opening
    <2>1. CASE pc = "open" /\ current = "(" /\ pc' = "stmt" /\ read' = Append(read, current)
      <3>1. Len(read) = 3 /\ Goes("open", read, "(") /\ read' = Append(read, "(")
        BY <1>1, <2>1 DEF Counts
      <3> QED
        BY <1>1, <2>1, <3>1, GoesStart
    <2>2. CASE /\ read' = Append(read, current)
               /\ \/ pc = "create" /\ current = "CREATE" /\ pc' = "table"
                  \/ pc = "table" /\ current = "TABLE" /\ pc' = "name"
      BY <1>1, <2>2, GoesOpening
    <2> QED
      BY <1>3, <2>1, <2>2 DEF Opening, Take, Advance
  <1>4. CASE OpeningFails
    <2>1. pc' = "failed" /\ read' = read /\ current' = current
      BY <1>4 DEF OpeningFails
    <2> QED
      BY <1>1, <1>4, <2>1, GoesUnopened DEF OpeningFails
  <1>5. CASE TableName
    <2>1. read' = Append(read, current) /\ pc = "name" /\ IsName(current) /\ pc' \in {"open", "nomem"}
      BY <1>5 DEF TableName, Advance
    <2> QED
      BY <1>1, <2>1, GoesOpening
  <1>6. CASE AllocStmt
    <2>1. UNCHANGED <<read, current>> /\ (Passes(pc, current, pc') \/ pc' = "nomem")
      BY <1>6 DEF AllocStmt, Passes
    <2> QED
      BY <1>1, <2>1, GoesPass, GoesLeft
  <1>7. CASE More
    <2>1. UNCHANGED <<read, current>> /\ Passes(pc, current, pc')
      BY <1>7 DEF More, Passes
    <2> QED
      BY <1>1, <2>1, GoesPass
  <1>8. CASE ColumnName
    <2>1. read' = Append(read, current) /\ pc = "column" /\ IsName(current) /\ pc' \in {"type", "nomem"}
      BY <1>8 DEF ColumnName, Advance
    <2>2. Goes("type", read', current')
      BY <1>1, <2>1, GoesTake DEF Takes
    <2> QED
      BY <2>1, <2>2, GoesLeft
  <1>9. CASE ColumnType
    <2>1. read' = Append(read, current) /\ Takes(pc, current, pc')
      BY <1>9 DEF ColumnType, Take, Advance, Takes
    <2> QED
      BY <1>1, <2>1, GoesTake
  <1>10. CASE ColumnKey
    <2>1. read' = Append(read, current) /\ Takes(pc, current, pc')
      BY <1>10 DEF ColumnKey, Take, Advance, Takes
    <2> QED
      BY <1>1, <2>1, GoesTake
  <1>11. CASE Optional
    <2>1. CASE Skip("semicolon", "semicolon", "parsed")
      <3>1. read' = read /\ pc = "semicolon" /\ pc' = "parsed"
        BY <1>11, <2>1 DEF Optional, Skip
      <3> QED
        BY <1>1, <3>1, GoesEnd
    <2>2. CASE ~ Skip("semicolon", "semicolon", "parsed")
      <3>1. UNCHANGED <<read, current>> /\ Passes(pc, current, pc')
        BY <1>11, <2>2 DEF Optional, Skip, Passes
      <3> QED
        BY <1>1, <3>1, GoesPass
    <2> QED
      BY <2>1, <2>2
  <1>12. CASE Punctuation
    <2>1. read' = Append(read, current)
      BY <1>12 DEF Punctuation, Take, Advance
    <2>2. CASE pc = "comma" /\ current = "comma" /\ pc' = "more"
      BY <1>1, <2>1, <2>2, GoesComma
    <2>3. CASE pc = "close" /\ current = ")" /\ pc' = "semicolon"
      BY <1>1, <2>1, <2>3, GoesClose
    <2>4. CASE pc = "semicolon" /\ current = "semicolon" /\ pc' = "parsed"
      BY <1>1, <2>1, <2>4, GoesEnd
    <2> QED
      BY <1>12, <2>2, <2>3, <2>4 DEF Punctuation, Take
  <1>13. CASE ColumnFails \/ CloseFails
    <2>1. Refuses(pc, current) /\ pc' = "failed" /\ read' = read /\ current' = current
      BY <1>13 DEF ColumnFails, CloseFails, Fail, Refuses
    <2> QED
      BY <1>1, <2>1, GoesRefused
  <1>14. CASE AllocNode
    <2>1. UNCHANGED <<read, current>> /\ (Passes(pc, current, pc') \/ pc' = "nomem")
      BY <1>14 DEF AllocNode, Fail, Passes
    <2> QED
      BY <1>1, <2>1, GoesPass, GoesLeft
  <1>15. CASE Lower
    <2>1. UNCHANGED <<read, current>> /\ pc = "parsed" /\ pc' \in {"lowered", "unlowered"}
      BY <1>15 DEF Lower
    <2> QED
      BY <1>1, <2>1, GoesLeft
  <1>16. CASE FreeFlat \/ FreeTree
    <2>1. UNCHANGED <<read, current>> /\ pc \in {"parsed", "lowered"} /\ pc' = "done"
      BY <1>16 DEF FreeFlat, FreeTree
    <2> QED
      BY <1>1, <2>1, GoesLeft
  <1>17. CASE Return \/ UNCHANGED vars
    BY <1>1, <1>17 DEF Return, vars
  <1> QED
    BY <1>3, <1>4, <1>5, <1>6, <1>7, <1>8, <1>9, <1>10, <1>11, <1>12, <1>13, <1>14, <1>15, <1>16, <1>17
       DEF Next

(* The parser takes exactly the statements of the language, of any length,  *)
(* and stops at the first token with which no statement goes on.            *)
THEOREM ExactlyStatements == Spec => []Recognised
  <1>1. Progress => Recognised
    BY DEF Progress, Goes, Recognised
  <1>2. Inv => Typed /\ Counted
    BY DEF Inv, Placed
  <1> QED
    BY <1>1, <1>2, InvInit, InvNext, ProgressInit, ProgressNext, PTL DEF Spec
=============================================================================
