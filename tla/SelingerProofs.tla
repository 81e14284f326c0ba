--------------------------- MODULE SelingerProofs ---------------------------
(***************************************************************************)
(* For every query: what the optimiser keeps is as good as anything it       *)
(* could choose from, it finds a plan exactly where the predicates connect   *)
(* the tables, the one it returns is the cheapest for the order asked for,   *)
(* and where a column number means one column, its rows come in that order. *)
(***************************************************************************)
EXTENDS Selinger, FiniteSetTheorems, TLAPS

-----------------------------------------------------------------------------
(* Sets of tables, by size.                                                 *)

LEMMA LeastNat ==
  ASSUME NEW B \in SUBSET Nat, B # {}
  PROVE  \E b \in B : \A c \in B : b <= c
<1>1. PICK b \in B : \A c \in B : ~ <<c, b>> \in OpToRel(<, Nat)
  <2>1. IsWellFoundedOn(OpToRel(<, Nat), Nat)
    BY NatLessThanWellFounded
  <2>2. IsWellFoundedOn(OpToRel(<, Nat), B)
    BY <2>1, IsWellFoundedOnSubset
  <2> QED
    BY <2>2, WFMin
<1>2. ASSUME NEW c \in B PROVE b <= c
  <2>1. b \in Nat /\ c \in Nat
    BY <1>2
  <2>2. ~ c < b
    BY <1>1, <1>2, <2>1 DEF OpToRel
  <2> QED
    BY <2>1, <2>2
<1> QED
  BY <1>1, <1>2

LEMMA TablesFinite ==
  /\ IsFiniteSet(Tables) /\ Cardinality(Tables) = NumTables
  /\ Tables \in NodeSets /\ NumTables \in Nat \ {0}
<1>1. NumTables \in Nat \ {0}
  BY QueryAssumption DEF QueryAssumption
<1>2. IsFiniteSet(0 .. NumTables - 1) /\ Cardinality(0 .. NumTables - 1) = NumTables
  BY <1>1, FS_Interval
<1>3. 0 \in Tables
  BY <1>1 DEF Tables
<1> QED
  BY <1>1, <1>2, <1>3 DEF Tables, NodeSets

LEMMA Sized ==
  ASSUME NEW S \in NodeSets
  PROVE  /\ IsFiniteSet(S) /\ Cardinality(S) \in Nat \ {0} /\ Cardinality(S) <= NumTables
         /\ Cardinality(S) = 1 <=> \E t \in Tables : S = {t}
         /\ \A t \in S : t \in Tables
<1>1. S \in SUBSET Tables /\ S # {}
  BY DEF NodeSets
<1>2. IsFiniteSet(S) /\ Cardinality(S) <= NumTables
  BY <1>1, TablesFinite, FS_Subset
<1>3. Cardinality(S) \in Nat
  BY <1>2, FS_CardinalityType
<1>4. Cardinality(S) # 0
  BY <1>1, <1>2, FS_EmptySet
<1>5. Cardinality(S) = 1 <=> \E t : S = {t}
  BY <1>2, FS_Singleton
<1> QED
  BY <1>1, <1>2, <1>3, <1>4, <1>5

LEMMA OneLess ==
  ASSUME NEW S \in NodeSets, NEW t \in S
  PROVE  /\ {t} \in NodeSets /\ Cardinality({t}) = 1
         /\ S # {t} => /\ S \ {t} \in NodeSets /\ Cardinality(S) > 1
                       /\ Cardinality(S \ {t}) = Cardinality(S) - 1
<1>1. S \in SUBSET Tables
  BY DEF NodeSets
<1>2. {t} \in NodeSets
  BY <1>1 DEF NodeSets
<1>3. Cardinality({t}) = 1
  BY FS_Singleton
<1>4. IsFiniteSet(S) /\ Cardinality(S) \in Nat \ {0}
  BY Sized
<1>5. Cardinality(S \ {t}) = Cardinality(S) - 1
  BY <1>4, FS_RemoveElement
<1>6. ASSUME S # {t} PROVE S \ {t} \in NodeSets /\ Cardinality(S) > 1
  <2>1. Cardinality(S) # 1
    <3>1. SUFFICES ASSUME Cardinality(S) = 1 PROVE FALSE
      OBVIOUS
    <3>2. PICK u \in Tables : S = {u}
      BY <3>1, Sized
    <3> QED
      BY <3>2, <1>6
  <2> QED
    BY <1>1, <1>4, <1>6, <2>1 DEF NodeSets
<1> QED
  BY <1>2, <1>3, <1>5, <1>6

(* Both sides of a join are smaller than it.                                *)
LEMMA Smaller ==
  ASSUME NEW S \in NodeSets, NEW t \in S, S # {t}
  PROVE  /\ S \ {t} \in NodeSets /\ Cardinality(S \ {t}) < Cardinality(S)
         /\ {t} \in NodeSets /\ Cardinality({t}) < Cardinality(S)
<1>1. /\ {t} \in NodeSets /\ Cardinality({t}) = 1 /\ S \ {t} \in NodeSets
      /\ Cardinality(S) > 1 /\ Cardinality(S \ {t}) = Cardinality(S) - 1
  BY OneLess
<1>2. Cardinality(S) \in Nat
  BY Sized
<1> QED
  BY <1>1, <1>2

(* Of some sets, one as small as any.                                       *)
LEMMA LeastSet ==
  ASSUME NEW B \in SUBSET NodeSets, B # {}
  PROVE  \E S \in B : \A T \in NodeSets : Cardinality(T) < Cardinality(S) => T \notin B
<1> DEFINE C == {Cardinality(S) : S \in B}
<1>1. C \in SUBSET Nat /\ C # {}
  BY Sized
<1>2. PICK c \in C : \A d \in C : c <= d
  BY <1>1, LeastNat
<1>3. PICK S \in B : Cardinality(S) = c
  BY <1>2
<1>4. ASSUME NEW T \in NodeSets, Cardinality(T) < Cardinality(S) PROVE T \notin B
  <2>1. SUFFICES ASSUME T \in B PROVE FALSE
    OBVIOUS
  <2>2. c <= Cardinality(T)
    BY <1>2, <2>1
  <2> QED
    BY <1>3, <1>4, <2>2, Sized
<1> QED
  BY <1>3, <1>4

(* Of some indices of a sequence, the first and one of the least cost.      *)
LEMMA LeastIndex ==
  ASSUME NEW I \in SUBSET Nat, I # {}
  PROVE  Min(I) \in I /\ \A i \in I : Min(I) <= i
<1>1. \E b \in I : \A c \in I : b <= c
  BY LeastNat
<1> QED
  BY <1>1 DEF Min

-----------------------------------------------------------------------------
(* Plans, and their types.                                                  *)

Plans == [type : PlanTypes, cost : Nat, card : Int, order : Int, sorted : SUBSET (Int \X Int)]

LEMMA Powers ==
  ASSUME NEW n \in Nat
  PROVE  2^n \in Nat \ {0}
<1>1. n = 0 => IsFiniteSet(1 .. n) /\ Cardinality(1 .. n) = n
  BY FS_EmptySet
<1>2. IsFiniteSet(1 .. n) /\ Cardinality(1 .. n) = n
  BY <1>1, FS_Interval
<1>3. IsFiniteSet(SUBSET (1 .. n)) /\ Cardinality(SUBSET (1 .. n)) = 2^n
  BY <1>2, FS_SUBSET
<1>4. 2^n \in Nat
  BY <1>3, FS_CardinalityType
<1>5. {} \in SUBSET (1 .. n)
  OBVIOUS
<1>6. 2^n # 0
  BY <1>3, <1>5, FS_EmptySet
<1> QED
  BY <1>4, <1>6

LEMMA Constants ==
  /\ 2^Frac \in Nat \ {0} /\ PAGE_IO_COST \in Nat /\ PAGE_IO_COST \div 2^Frac \in Nat
  /\ \A e \in Int : Amount(e) \in Nat
<1>1. Frac \in Nat
  BY QueryAssumption DEF QueryAssumption
<1>2. 2^Frac \in Nat \ {0}
  BY <1>1, Powers
<1>3. PAGE_IO_COST \in Nat
  BY <1>2 DEF PAGE_IO_COST
<1>4. PICK p \in Nat, f \in Nat \ {0} : p = PAGE_IO_COST /\ f = 2^Frac
  BY <1>2, <1>3
<1>5. p \div f \in Nat
  BY <1>4
<1>6. ASSUME NEW e \in Int PROVE Amount(e) \in Nat
  <2>1. CASE e + Frac < 0
    BY <2>1 DEF Amount
  <2>2. CASE ~ e + Frac < 0
    <3>1. e + Frac \in Nat
      BY <1>1, <2>2
    <3>2. 2^(e + Frac) \in Nat
      BY <3>1, Powers
    <3> QED
      BY <2>2, <3>2 DEF Amount
  <2> QED
    BY <2>1, <2>2
<1> QED
  BY <1>2, <1>3, <1>4, <1>5, <1>6

LEMMA Product ==
  ASSUME NEW a \in Nat, NEW b \in Nat
  PROVE  a * b \in Nat
  OBVIOUS

LEMMA Quotient ==
  ASSUME NEW x \in Nat, NEW d \in Nat \ {0}
  PROVE  /\ x \div d \in Nat
         /\ \A y \in Nat : x <= y => x \div d <= y \div d
  OBVIOUS

LEMMA ElementIn ==
  ASSUME NEW X, NEW s \in Seq(X), NEW k \in DOMAIN s
  PROVE  s[k] \in X
  OBVIOUS

LEMMA PlanTyped ==
  ASSUME NEW ty \in PlanTypes, NEW c \in Nat, NEW n \in Int, NEW o \in Int,
         NEW w \in SUBSET (Int \X Int)
  PROVE  Plan(ty, c, n, o, w) \in Plans
  BY DEF Plan, Plans

(* Reading a plan that was just written.                                    *)
LEMMA PlanParts ==
  ASSUME NEW ty, NEW c, NEW n, NEW o, NEW w
  PROVE  /\ Plan(ty, c, n, o, w).type = ty /\ Plan(ty, c, n, o, w).cost = c
         /\ Plan(ty, c, n, o, w).card = n /\ Plan(ty, c, n, o, w).order = o
         /\ Plan(ty, c, n, o, w).sorted = w
  BY DEF Plan

LEMMA ScansTyped ==
  ASSUME NEW i \in Tables, NEW t \in TableRecs
  PROVE  /\ AccessPaths(i, t) \in Seq(Plans) /\ Len(AccessPaths(i, t)) = Len(t.indexes) + 1
         /\ \A k \in DOMAIN AccessPaths(i, t) :
              \/ k = 1 /\ AccessPaths(i, t)[k] = SeqScan(t)
              \/ /\ k - 1 \in DOMAIN t.indexes
                 /\ AccessPaths(i, t)[k] = IndexScan(i, t, t.indexes[k - 1])
<1>1. /\ t.rows \in Nat /\ t.pages \in Nat /\ t.indexes \in Seq(IndexRecs)
  BY DEF TableRecs
<1>2. Amount(t.rows) \in Nat /\ PAGE_IO_COST \in Nat /\ CPU_TUPLE_COST \in Nat /\ 2^t.rows \in Nat
  <2>1. t.rows \in Int
    BY <1>1
  <2>2. Amount(t.rows) \in Nat /\ PAGE_IO_COST \in Nat
    BY <2>1, Constants
  <2>3. 2^t.rows \in Nat
    BY <1>1, Powers
  <2> QED
    BY <2>2, <2>3 DEF CPU_TUPLE_COST
<1>3. Amount(t.rows) * CPU_TUPLE_COST \in Nat
  BY <1>2, Product
<1>4. SeqScan(t) \in Plans
  <2>1. t.pages * PAGE_IO_COST \in Nat
    BY <1>1, <1>2, Product
  <2>2. t.pages * PAGE_IO_COST + Amount(t.rows) * CPU_TUPLE_COST \in Nat
    BY <2>1, <1>3
  <2> QED
    BY <1>1, <2>2, PlanTyped DEF SeqScan, PlanTypes, NO_ORDER
<1>5. ASSUME NEW k \in DOMAIN t.indexes PROVE IndexScan(i, t, t.indexes[k]) \in Plans
  <2> DEFINE x == t.indexes[k]
  <2>1. x.col \in Nat /\ x.pages \in Nat
    <3>1. x \in [col : Nat, clustered : BOOLEAN, pages : Nat]
      BY <1>1, <1>5, ElementIn DEF IndexRecs
    <3> QED
      BY <3>1
  <2>2. x.pages * PAGE_IO_COST \in Nat /\ 2^t.rows * PAGE_IO_COST \in Nat
    BY <1>2, <2>1, Product
  <2>3. PICK io : io = IF x.clustered THEN x.pages * PAGE_IO_COST
                       ELSE x.pages * PAGE_IO_COST + 2^t.rows * PAGE_IO_COST
    OBVIOUS
  <2>4. io \in Nat
    BY <2>2, <2>3
  <2>5. io + Amount(t.rows) * CPU_TUPLE_COST \in Nat
    BY <2>4, <1>3
  <2>6. {<<i, x.col>>} \in SUBSET (Int \X Int)
    BY <2>1, TablesFinite DEF Tables
  <2>7. x.col \in Int
    BY <2>1
  <2> QED
    BY <1>1, <2>3, <2>5, <2>6, <2>7, PlanTyped DEF IndexScan, PlanTypes
<1>6. Len(t.indexes) \in Nat /\ DOMAIN t.indexes = 1 .. Len(t.indexes)
  BY <1>1
<1>7. \A k \in 1 .. Len(t.indexes) + 1 : k # 1 => k - 1 \in DOMAIN t.indexes
  BY <1>6
<1>8. PICK f : f = AccessPaths(i, t)
  OBVIOUS
<1>9. /\ f = [k \in 1 .. Len(t.indexes) + 1 |-> IF k = 1 THEN SeqScan(t) ELSE IndexScan(i, t, t.indexes[k - 1])]
  BY <1>8 DEF AccessPaths
<1>10. \A k \in 1 .. Len(t.indexes) + 1 : f[k] \in Plans
  BY <1>4, <1>5, <1>7, <1>9
<1>11. f \in [1 .. Len(t.indexes) + 1 -> Plans]
  BY <1>9, <1>10
<1>12. Len(t.indexes) + 1 \in Nat
  BY <1>6
<1>13. f \in Seq(Plans) /\ Len(f) = Len(t.indexes) + 1
  BY <1>11, <1>12
<1> QED
  BY <1>7, <1>8, <1>9, <1>13

(* The operators, their costs where the cardinalities are known.            *)
LEMMA OperatorsTyped ==
  ASSUME NEW l \in Plans, NEW r \in Plans, NEW jp \in Predicates
  PROVE  /\ HashJoin(l, r, jp) \in Plans /\ NestedLoopJoin(l, r, jp) \in Plans
         /\ IndexJoin(l, r, jp) \in Plans
<1>1. /\ l.cost \in Nat /\ l.card \in Int /\ l.order \in Int /\ l.sorted \in SUBSET (Int \X Int)
      /\ r.cost \in Nat /\ r.card \in Int
  BY DEF Plans
<1>2. /\ jp.sel \in Int /\ jp.t1 \in Int /\ jp.t2 \in Int /\ jp.c1 \in Nat /\ jp.c2 \in Nat
  BY TablesFinite DEF Predicates, Tables
<1>3. JoinCard(l, r, jp) \in Int
  BY <1>1, <1>2 DEF JoinCard
<1>4. Carried(l.sorted, jp) \in SUBSET (Int \X Int)
  BY <1>1, <1>2 DEF Carried
<1>5. Amount(l.card) \in Nat /\ Amount(r.card) \in Nat
  BY <1>1, Constants
<1>6. HashJoin(l, r, jp) \in Plans
  <2>1. Amount(r.card) * HASH_BUILD_COST \in Nat /\ Amount(l.card) * HASH_PROBE_COST \in Nat
    BY <1>5, Product DEF HASH_BUILD_COST, HASH_PROBE_COST
  <2>2. l.cost + r.cost + Amount(r.card) * HASH_BUILD_COST + Amount(l.card) * HASH_PROBE_COST \in Nat
    BY <1>1, <2>1
  <2> QED
    BY <1>3, <2>2, PlanTyped DEF HashJoin, NO_ORDER, PlanTypes
<1>7. NestedLoopJoin(l, r, jp) \in Plans
  <2>1. r.cost \div 2^Frac \in Nat
    BY <1>1, Constants, Quotient
  <2>2. Amount(l.card) * (r.cost \div 2^Frac) \in Nat
    BY <1>5, <2>1, Product
  <2>3. l.cost + Amount(l.card) * (r.cost \div 2^Frac) \in Nat
    BY <1>1, <2>2
  <2> QED
    BY <1>1, <1>3, <1>4, <2>3, PlanTyped DEF NestedLoopJoin, PlanTypes
<1>8. IndexJoin(l, r, jp) \in Plans
  <2>1. 3 * (PAGE_IO_COST \div 2^Frac) + CPU_TUPLE_COST \in Nat
    BY Constants DEF CPU_TUPLE_COST
  <2>2. Amount(l.card) * (3 * (PAGE_IO_COST \div 2^Frac) + CPU_TUPLE_COST) \in Nat
    BY <1>5, <2>1, Product
  <2>3. l.cost + Amount(l.card) * (3 * (PAGE_IO_COST \div 2^Frac) + CPU_TUPLE_COST) \in Nat
    BY <1>1, <2>2
  <2> QED
    BY <1>1, <1>3, <1>4, <2>3, PlanTyped DEF IndexJoin, PlanTypes
<1> QED
  BY <1>6, <1>7, <1>8

Indexed(r, jp) == r.type = "Index_Scan" /\ r.order = jp.c2

LEMMA OperatorsTried ==
  ASSUME NEW l \in Plans, NEW r \in Plans, NEW jp \in Predicates
  PROVE  /\ Operators(l, r, jp) \in Seq(Plans)
         /\ \A p : p \in ToSet(Operators(l, r, jp)) <=>
              \/ p = HashJoin(l, r, jp) \/ p = NestedLoopJoin(l, r, jp)
              \/ Indexed(r, jp) /\ p = IndexJoin(l, r, jp)
<1>1. PICK h \in Plans, n \in Plans, x \in Plans :
        h = HashJoin(l, r, jp) /\ n = NestedLoopJoin(l, r, jp) /\ x = IndexJoin(l, r, jp)
  BY OperatorsTyped
<1>2. CASE Indexed(r, jp)
  <2>1. Operators(l, r, jp) = <<h, n, x>>
    BY <1>1, <1>2 DEF Operators, Indexed
  <2>2. <<h, n, x>> \in Seq(Plans) /\ ToSet(<<h, n, x>>) = {h, n, x}
    BY DEF ToSet
  <2> QED
    BY <1>1, <1>2, <2>1, <2>2
<1>3. CASE ~ Indexed(r, jp)
  <2>1. Operators(l, r, jp) = <<h, n>>
    BY <1>1, <1>3 DEF Operators, Indexed
  <2>2. <<h, n>> \in Seq(Plans) /\ ToSet(<<h, n>>) = {h, n}
    BY DEF ToSet
  <2> QED
    BY <1>1, <1>3, <2>1, <2>2
<1> QED
  BY <1>2, <1>3

LEMMA PredicateFound ==
  ASSUME NEW q \in Seq(Predicates), NEW S, NEW t
  PROVE  LET k == find_join_predicate(q, S, t) IN
         /\ k # 0 => /\ k \in DOMAIN q /\ q[k] \in Predicates
                     /\ \/ q[k].t1 \in S /\ q[k].t2 = t
                        \/ q[k].t2 \in S /\ q[k].t1 = t
         /\ k = 0 => \A j \in DOMAIN q : ~ (\/ q[j].t1 \in S /\ q[j].t2 = t
                                            \/ q[j].t2 \in S /\ q[j].t1 = t)
<1> DEFINE fits == {k \in DOMAIN q : \/ q[k].t1 \in S /\ q[k].t2 = t
                                     \/ q[k].t2 \in S /\ q[k].t1 = t}
<1>1. find_join_predicate(q, S, t) = IF fits = {} THEN 0 ELSE Min(fits)
  BY DEF find_join_predicate
<1>2. fits \in SUBSET Nat /\ DOMAIN q \subseteq Nat \ {0}
  OBVIOUS
<1>3. CASE fits = {}
  BY <1>1, <1>3
<1>4. CASE fits # {}
  <2>1. PICK k : k = find_join_predicate(q, S, t)
    OBVIOUS
  <2>2. k = Min(fits)
    BY <1>1, <1>4, <2>1
  <2>3. k \in fits
    BY <1>2, <1>4, <2>2, LeastIndex
  <2>4. k \in DOMAIN q /\ ((q[k].t1 \in S /\ q[k].t2 = t) \/ (q[k].t2 \in S /\ q[k].t1 = t))
    BY <2>3
  <2>5. k # 0 /\ q[k] \in Predicates
    BY <1>2, <2>4
  <2> HIDE DEF fits
  <2> QED
    BY <2>1, <2>4, <2>5
<1> QED
  BY <1>3, <1>4

-----------------------------------------------------------------------------
(* The plans there are: the recursion has a solution, and it is typed.      *)

(* p joins a plan f gives for the rest of S with one it gives for t.        *)
JoinOf(q, S, t, f, p) ==
  LET k == find_join_predicate(q, S \ {t}, t) IN
  k # 0 /\ \E l \in f[S \ {t}], r \in f[{t}] : p \in ToSet(Operators(l, r, q[k]))

LEMMA WaysToJoin ==
  ASSUME NEW ts, NEW q, NEW S \in NodeSets, NEW f, NEW p
  PROVE  p \in PlansFor(ts, q, S, f) <=>
           \/ \E t \in Tables : S = {t} /\ p \in ToSet(AccessPaths(t, ts[t]))
           \/ \E t \in S : S # {t} /\ JoinOf(q, S, t, f, p)
<1>1. CASE Cardinality(S) = 1
  <2>1. PICK t \in Tables : S = {t}
    BY <1>1, Sized
  <2>2. p \in PlansFor(ts, q, S, f) <=> p \in ToSet(AccessPaths(t, ts[t]))
    BY <1>1, <2>1 DEF PlansFor
  <2> QED
    BY <2>1, <2>2
<1>2. CASE Cardinality(S) # 1
  <2>1. p \in PlansFor(ts, q, S, f) <=> \E t \in S : JoinOf(q, S, t, f, p)
    <3>1. p \in PlansFor(ts, q, S, f) <=> \E t \in S : p \in JoinsWith(q, S, t, f)
      BY <1>2 DEF PlansFor
    <3>2. ASSUME NEW t \in S PROVE p \in JoinsWith(q, S, t, f) <=> JoinOf(q, S, t, f, p)
      <4>1. PICK k : k = find_join_predicate(q, S \ {t}, t)
        OBVIOUS
      <4>2. CASE k = 0
        BY <4>1, <4>2 DEF JoinsWith, JoinOf
      <4>3. CASE k # 0
        <5>1. p \in JoinsWith(q, S, t, f) <=> \E l \in f[S \ {t}] : p \in JoinsOf(l, f[{t}], q[k])
          BY <4>1, <4>3 DEF JoinsWith
        <5>2. \A l : p \in JoinsOf(l, f[{t}], q[k]) <=> \E r \in f[{t}] : p \in ToSet(Operators(l, r, q[k]))
          BY DEF JoinsOf
        <5> QED
          BY <4>1, <4>3, <5>1, <5>2 DEF JoinOf
      <4> QED
        BY <4>2, <4>3
    <3> QED
      BY <3>1, <3>2
  <2>2. \A t \in Tables : S # {t}
    BY <1>2, Sized
  <2>3. \A t \in S : S # {t}
    BY <2>2, Sized
  <2> QED
    BY <2>1, <2>2, <2>3
<1> QED
  BY <1>1, <1>2

LEMMA WaysToJoinLocal ==
  ASSUME NEW ts, NEW q, NEW S \in NodeSets, NEW f, NEW g,
         \A T \in NodeSets : Cardinality(T) < Cardinality(S) => f[T] = g[T]
  PROVE  PlansFor(ts, q, S, f) = PlansFor(ts, q, S, g)
<1>1. ASSUME NEW t \in S, S # {t} PROVE f[S \ {t}] = g[S \ {t}] /\ f[{t}] = g[{t}]
  <2>1. /\ S \ {t} \in NodeSets /\ Cardinality(S \ {t}) < Cardinality(S)
        /\ {t} \in NodeSets /\ Cardinality({t}) < Cardinality(S)
    BY <1>1, Smaller
  <2> QED
    BY <2>1
<1>2. ASSUME NEW p PROVE p \in PlansFor(ts, q, S, f) <=> p \in PlansFor(ts, q, S, g)
  <2>1. ASSUME NEW t \in S, S # {t} PROVE JoinOf(q, S, t, f, p) <=> JoinOf(q, S, t, g, p)
    BY <1>1, <2>1 DEF JoinOf
  <2> QED
    BY <2>1, WaysToJoin
<1> QED
  <2>1. PICK a, b : a = PlansFor(ts, q, S, f) /\ b = PlansFor(ts, q, S, g)
    OBVIOUS
  <2>2. \A p : p \in a <=> p \in b
    BY <1>2, <2>1
  <2>3. a = b
    <3>1. a \subseteq b /\ b \subseteq a
      BY <2>2
    <3> QED
      BY <3>1
  <2> QED
    BY <2>1, <2>3

SolvesTo(ts, q, n, f) ==
  \A S \in NodeSets : Cardinality(S) <= n => f[S] = PlansFor(ts, q, S, f)

LEMMA SolvesNext ==
  ASSUME NEW ts, NEW q, NEW n \in Nat, NEW f, SolvesTo(ts, q, n, f)
  PROVE  \E g : SolvesTo(ts, q, n + 1, g)
<1>1. PICK g : g = [S \in NodeSets |-> IF Cardinality(S) <= n THEN f[S] ELSE PlansFor(ts, q, S, f)]
  OBVIOUS
<1>2. ASSUME NEW S \in NodeSets, Cardinality(S) <= n + 1 PROVE g[S] = PlansFor(ts, q, S, g)
  <2>1. Cardinality(S) \in Nat
    BY Sized
  <2>2. g[S] = PlansFor(ts, q, S, f)
    BY <1>1 DEF SolvesTo
  <2>3. ASSUME NEW T \in NodeSets, Cardinality(T) < Cardinality(S) PROVE f[T] = g[T]
    <3>1. Cardinality(T) \in Nat
      BY Sized
    <3>2. Cardinality(T) <= n
      BY <1>2, <2>1, <2>3, <3>1
    <3> QED
      BY <1>1, <3>2
  <2>4. PlansFor(ts, q, S, f) = PlansFor(ts, q, S, g)
    BY <2>3, WaysToJoinLocal
  <2> QED
    BY <2>2, <2>4
<1> QED
  BY <1>2 DEF SolvesTo

LEMMA Solution ==
  ASSUME NEW ts, NEW q
  PROVE  \E f : f = [S \in NodeSets |-> PlansFor(ts, q, S, f)]
<1> DEFINE Bad == {n \in Nat : \A f : ~ SolvesTo(ts, q, n, f)}
<1>1. ASSUME Bad # {} PROVE FALSE
  <2>1. PICK n \in Bad : \A m \in Bad : n <= m
    BY <1>1, LeastNat
  <2>2. n # 0
    <3>1. SUFFICES ASSUME n = 0 PROVE FALSE
      OBVIOUS
    <3>2. \A S \in NodeSets : ~ Cardinality(S) <= 0
      BY Sized
    <3>3. SolvesTo(ts, q, 0, 0)
      BY <3>2 DEF SolvesTo
    <3> QED
      BY <3>1, <3>3
  <2>3. n - 1 \in Nat /\ n - 1 \notin Bad
    BY <2>1, <2>2
  <2>4. PICK f : SolvesTo(ts, q, n - 1, f)
    BY <2>3
  <2>5. PICK m \in Nat : m = n - 1 /\ n = m + 1
    BY <2>3
  <2>6. \E g : SolvesTo(ts, q, m + 1, g)
    BY <2>4, <2>5, SolvesNext
  <2> QED
    BY <2>1, <2>5, <2>6
<1>2. PICK f : SolvesTo(ts, q, NumTables, f)
  BY <1>1, TablesFinite
<1>3. PICK g : g = [S \in NodeSets |-> f[S]]
  OBVIOUS
<1>4. ASSUME NEW S \in NodeSets PROVE g[S] = PlansFor(ts, q, S, g)
  <2>1. f[S] = PlansFor(ts, q, S, f)
    BY <1>2, Sized DEF SolvesTo
  <2>2. PlansFor(ts, q, S, f) = PlansFor(ts, q, S, g)
    BY <1>3, WaysToJoinLocal
  <2> QED
    BY <1>3, <2>1, <2>2
<1>5. g = [S \in NodeSets |-> PlansFor(ts, q, S, g)]
  BY <1>3, <1>4
<1> QED
  BY <1>5

LEMMA AllPlansAre ==
  ASSUME NEW ts, NEW q
  PROVE  /\ DOMAIN AllPlans(ts, q) = NodeSets
         /\ \A S \in NodeSets : AllPlans(ts, q)[S] = PlansFor(ts, q, S, AllPlans(ts, q))
<1>1. AllPlans(ts, q) = CHOOSE f : f = [S \in NodeSets |-> PlansFor(ts, q, S, f)]
  BY DEF AllPlans
<1>2. AllPlans(ts, q) = [S \in NodeSets |-> PlansFor(ts, q, S, AllPlans(ts, q))]
  BY <1>1, Solution
<1>3. PICK f : f = AllPlans(ts, q)
  OBVIOUS
<1>4. f = [S \in NodeSets |-> PlansFor(ts, q, S, f)]
  BY <1>2, <1>3
<1>5. DOMAIN f = NodeSets /\ \A S \in NodeSets : f[S] = PlansFor(ts, q, S, f)
  BY <1>4
<1> QED
  BY <1>3, <1>5

LEMMA AllPlansTyped ==
  ASSUME NEW ts \in [Tables -> TableRecs], NEW q \in Seq(Predicates), NEW S \in NodeSets
  PROVE  AllPlans(ts, q)[S] \subseteq Plans
<1>1. PICK all : all = AllPlans(ts, q)
  OBVIOUS
<1> DEFINE Bad == {T \in NodeSets : ~ all[T] \subseteq Plans}
<1>2. SUFFICES ASSUME Bad # {} PROVE FALSE
  BY <1>1
<1>3. PICK T \in Bad : \A U \in NodeSets : Cardinality(U) < Cardinality(T) => U \notin Bad
  BY <1>2, LeastSet
<1>4. ASSUME NEW p \in all[T] PROVE p \in Plans
  <2>1. p \in PlansFor(ts, q, T, all)
    BY <1>1, <1>4, AllPlansAre
  <2>2. CASE \E t \in Tables : T = {t} /\ p \in ToSet(AccessPaths(t, ts[t]))
    <3>1. PICK t \in Tables : p \in ToSet(AccessPaths(t, ts[t]))
      BY <2>2
    <3>2. AccessPaths(t, ts[t]) \in Seq(Plans)
      BY ScansTyped
    <3> QED
      BY <3>1, <3>2, ElementIn DEF ToSet
  <2>3. CASE \E t \in T : T # {t} /\ JoinOf(q, T, t, all, p)
    <3>1. PICK t \in T : T # {t} /\ JoinOf(q, T, t, all, p)
      BY <2>3
    <3>2. /\ T \ {t} \in NodeSets /\ Cardinality(T \ {t}) < Cardinality(T)
          /\ {t} \in NodeSets /\ Cardinality({t}) < Cardinality(T)
      <4>1. T \in NodeSets
        BY <1>3
      <4> QED
        BY <3>1, <4>1, Smaller
    <3>3. all[T \ {t}] \subseteq Plans /\ all[{t}] \subseteq Plans
      BY <1>3, <3>2
    <3>4. PICK k : k = find_join_predicate(q, T \ {t}, t)
      OBVIOUS
    <3>5. PICK l \in all[T \ {t}], r \in all[{t}] : k # 0 /\ p \in ToSet(Operators(l, r, q[k]))
      BY <3>1, <3>4 DEF JoinOf
    <3>6. q[k] \in Predicates
      BY <3>4, <3>5, PredicateFound
    <3>7. Operators(l, r, q[k]) \in Seq(Plans)
      BY <3>3, <3>5, <3>6, OperatorsTried
    <3> QED
      BY <3>5, <3>7, ElementIn DEF ToSet
  <2> QED
    BY <2>1, <2>2, <2>3, WaysToJoin
<1> QED
  BY <1>3, <1>4

-----------------------------------------------------------------------------
(* Pruning: what a list of plans covers, and what the loops make of it.     *)

Covers(plans, p) == \E i \in DOMAIN plans : plans[i].order = p.order /\ plans[i].cost <= p.cost

(* From the plans a, and with those of C, the list b was made: it covers    *)
(* what a covered and what C offers, and holds nothing else.                *)
Improves(a, C, b) ==
  /\ b \in Seq(Plans)
  /\ \A i \in DOMAIN b : b[i] \in C \/ \E j \in DOMAIN a : a[j] = b[i]
  /\ \A p \in Plans : Covers(a, p) => Covers(b, p)
  /\ \A p \in C : Covers(b, p)

LEMMA CoversSelf ==
  ASSUME NEW a \in Seq(Plans), NEW i \in DOMAIN a
  PROVE  Covers(a, a[i])
<1>1. a[i] \in Plans
  BY ElementIn
<1>2. a[i].cost <= a[i].cost
  BY <1>1 DEF Plans
<1> QED
  BY <1>2 DEF Covers

LEMMA PruneImproves ==
  ASSUME NEW a \in Seq(Plans), NEW c \in Plans
  PROVE  Improves(a, {c}, prune_or_add_plan(a, c))
<1>1. PICK b : b = prune_or_add_plan(a, c)
  OBVIOUS
<1> DEFINE same == {i \in DOMAIN a : SameOrder(a[i], c)}
<1>2. Len(a) \in Nat /\ DOMAIN a = 1 .. Len(a) /\ \A i \in DOMAIN a : a[i] \in Plans
  OBVIOUS
<1>3. c.cost \in Nat /\ c.order \in Int
  BY DEF Plans
<1>4. \A i \in DOMAIN a : a[i].cost \in Nat
  BY <1>2 DEF Plans
<1>5. CASE same = {}
  <2>1. b = Append(a, c)
    BY <1>1, <1>5 DEF prune_or_add_plan
  <2>2. /\ b \in Seq(Plans) /\ DOMAIN b = 1 .. Len(a) + 1 /\ b[Len(a) + 1] = c
        /\ \A i \in DOMAIN a : i \in DOMAIN b /\ b[i] = a[i]
    BY <1>2, <2>1
  <2>3. \A i \in DOMAIN b : b[i] = c \/ \E j \in DOMAIN a : a[j] = b[i]
    BY <1>2, <2>2
  <2>4. \A p \in Plans : Covers(a, p) => Covers(b, p)
    BY <2>2 DEF Covers
  <2>5. Covers(b, c)
    <3>1. Len(a) + 1 \in DOMAIN b
      BY <1>2, <2>2
    <3> QED
      BY <2>2, <3>1, CoversSelf
  <2> QED
    BY <1>1, <2>2, <2>3, <2>4, <2>5 DEF Improves
<1>6. CASE same # {}
  <2>1. PICK i : i = Min(same)
    OBVIOUS
  <2>2. i \in DOMAIN a /\ a[i].order = c.order
    <3>1. same \in SUBSET Nat
      BY <1>2
    <3>2. i \in same
      BY <1>6, <2>1, <3>1, LeastIndex
    <3> QED
      BY <3>2 DEF SameOrder
  <2>3. CASE c.cost < a[i].cost
    <3>1. b = [a EXCEPT ![i] = c]
      BY <1>1, <1>6, <2>1, <2>3 DEF prune_or_add_plan
    <3>2. /\ b \in Seq(Plans) /\ DOMAIN b = DOMAIN a /\ b[i] = c
          /\ \A j \in DOMAIN a : j # i => b[j] = a[j]
      BY <2>2, <3>1
    <3>3. \A j \in DOMAIN b : b[j] = c \/ \E k \in DOMAIN a : a[k] = b[j]
      BY <3>2
    <3>4. Covers(b, c)
      BY <2>2, <3>2, CoversSelf
    <3>5. ASSUME NEW p \in Plans, Covers(a, p) PROVE Covers(b, p)
      <4>1. PICK j \in DOMAIN a : a[j].order = p.order /\ a[j].cost <= p.cost
        BY <3>5 DEF Covers
      <4>2. CASE j = i
        <5>1. c.order = p.order
          BY <2>2, <4>1, <4>2
        <5>2. c.cost <= p.cost
          <6>1. p.cost \in Nat
            BY DEF Plans
          <6> QED
            BY <1>3, <1>4, <2>3, <4>1, <4>2, <6>1
        <5> QED
          BY <2>2, <3>2, <5>1, <5>2 DEF Covers
      <4>3. CASE j # i
        BY <3>2, <4>1, <4>3 DEF Covers
      <4> QED
        BY <4>2, <4>3
    <3> QED
      BY <1>1, <3>2, <3>3, <3>4, <3>5 DEF Improves
  <2>4. CASE ~ c.cost < a[i].cost
    <3>1. b = a
      BY <1>1, <1>6, <2>1, <2>4 DEF prune_or_add_plan
    <3>2. a[i].cost <= c.cost
      BY <1>3, <1>4, <2>2, <2>4
    <3>3. Covers(a, c)
      BY <2>2, <3>2 DEF Covers
    <3> QED
      BY <1>1, <3>1, <3>3 DEF Improves
  <2> QED
    BY <2>3, <2>4
<1> QED
  BY <1>5, <1>6

LEMMA ImprovesTwice ==
  ASSUME NEW a \in Seq(Plans), NEW C \in SUBSET Plans, NEW b \in Seq(Plans), Improves(a, C, b),
         NEW D \in SUBSET Plans, NEW c, Improves(b, D, c)
  PROVE  Improves(a, C \cup D, c)
  BY DEF Improves

(* A loop of n steps, each of which offers some plans: step k makes of a    *)
(* list y the list G[<<y, k>>], with the plans of C[k].                     *)
Gains(n, C, G) == \A y \in Seq(Plans), k \in 1 .. n : Improves(y, C[k], G[<<y, k>>])
Follows(x, n, G, h) == h[0] = x /\ \A k \in 1 .. n : h[k] = G[<<h[k - 1], k>>]
Gained(n, C) == UNION {C[k] : k \in 1 .. n}

LEMMA LoopImproves ==
  ASSUME NEW x \in Seq(Plans), NEW n \in Nat, NEW C \in [1 .. n -> SUBSET Plans],
         NEW G \in [Seq(Plans) \X (1 .. n) -> Seq(Plans)],
         Gains(n, C, G)
  PROVE  \E h \in [0 .. n -> Seq(Plans)] : Follows(x, n, G, h) /\ Improves(x, Gained(n, C), h[n])
<1> DEFINE Runs(m, h) == /\ h \in [0 .. m -> Seq(Plans)] /\ h[0] = x
                         /\ \A k \in 1 .. m : h[k] = G[<<h[k - 1], k>>]
                         /\ Improves(x, UNION {C[k] : k \in 1 .. m}, h[m])
           Bad == {m \in 0 .. n : \A h : ~ Runs(m, h)}
<1> HIDE DEF Runs
<1>1. ASSUME Bad # {} PROVE FALSE
  <2>1. Bad \in SUBSET Nat
    OBVIOUS
  <2>2. PICK m \in Bad : \A l \in Bad : m <= l
    BY <1>1, <2>1, LeastNat
  <2>3. CASE m = 0
    <3>1. PICK h : h = [k \in 0 .. 0 |-> x]
      OBVIOUS
    <3>2. h \in [0 .. 0 -> Seq(Plans)] /\ h[0] = x /\ \A k \in 1 .. 0 : FALSE
      BY <3>1
    <3>3. UNION {C[k] : k \in 1 .. 0} = {}
      OBVIOUS
    <3>4. Improves(x, {}, x)
      BY DEF Improves
    <3>5. Runs(0, h)
      BY <3>2, <3>3, <3>4 DEF Runs
    <3> QED
      BY <2>2, <2>3, <3>5
  <2>4. CASE m # 0
    <3>1. m \in 1 .. n /\ m - 1 \in 0 .. n /\ m - 1 \notin Bad
      <4>1. m \in 0 .. n
        BY <2>2
      <4>2. m \in 1 .. n /\ m - 1 \in 0 .. n /\ ~ m <= m - 1
        BY <2>4, <4>1
      <4> QED
        BY <2>2, <4>2
    <3>2. PICK g : Runs(m - 1, g)
      BY <3>1
    <3>3. PICK y \in Seq(Plans) : y = g[m - 1]
      BY <3>1, <3>2 DEF Runs
    <3>4. G[<<y, m>>] \in Seq(Plans)
      BY <3>1
    <3>5. PICK z \in Seq(Plans) : z = G[<<y, m>>]
      BY <3>4
    <3>6. PICK h : h = [k \in 0 .. m |-> IF k = m THEN z ELSE g[k]]
      OBVIOUS
    <3>7. h \in [0 .. m -> Seq(Plans)]
      BY <3>1, <3>2, <3>6 DEF Runs
    <3>8. h[0] = x /\ h[m] = z /\ \A k \in 1 .. m : h[k] = G[<<h[k - 1], k>>]
      <4>1. \A k \in 0 .. m - 1 : h[k] = g[k]
        BY <3>1, <3>6
      <4>2. g[0] = x /\ \A k \in 1 .. m - 1 : g[k] = G[<<g[k - 1], k>>]
        BY <3>2 DEF Runs
      <4>3. h[0] = x /\ h[m] = z
        BY <3>1, <3>6, <4>1, <4>2
      <4>4. ASSUME NEW k \in 1 .. m PROVE h[k] = G[<<h[k - 1], k>>]
        <5>1. CASE k = m
          <6>1. h[m - 1] = y
            BY <3>1, <3>3, <4>1
          <6> QED
            BY <3>5, <4>3, <5>1, <6>1
        <5>2. CASE k # m
          <6>1. k \in 1 .. m - 1 /\ k - 1 \in 0 .. m - 1 /\ k \in 0 .. m - 1
            BY <3>1, <5>2
          <6> QED
            BY <4>1, <4>2, <6>1
        <5> QED
          BY <5>1, <5>2
      <4> QED
        BY <4>3, <4>4
    <3>9. Improves(x, UNION {C[k] : k \in 1 .. m}, z)
      <4>1. PICK U : U = UNION {C[k] : k \in 1 .. m - 1}
        OBVIOUS
      <4>2. U \in SUBSET Plans /\ C[m] \in SUBSET Plans
        BY <3>1, <4>1
      <4>3. UNION {C[k] : k \in 1 .. m} = U \cup C[m]
        BY <3>1, <4>1
      <4>4. Improves(x, U, y)
        BY <3>2, <3>3, <4>1 DEF Runs
      <4>5. Improves(y, C[m], z)
        BY <3>1, <3>5 DEF Gains
      <4>6. Improves(x, U \cup C[m], z)
        BY <4>2, <4>4, <4>5, ImprovesTwice
      <4> QED
        BY <4>3, <4>6
    <3>10. Runs(m, h)
      BY <3>7, <3>8, <3>9 DEF Runs
    <3> QED
      BY <2>2, <3>10
  <2> QED
    BY <2>3, <2>4
<1>2. n \notin Bad /\ n \in 0 .. n
  <2> HIDE DEF Bad
  <2>1. Bad = {}
    BY <1>1
  <2> QED
    BY <2>1
<1>3. PICK h : Runs(n, h)
  BY <1>2
<1> QED
  BY <1>3 DEF Runs, Follows, Gained

(* Nothing else solves the equations of the loop.                           *)
Obeys(x, n, G, f) == f[0] = x /\ \A k \in 1 .. n : f[k - 1] \in Seq(Plans) => f[k] = G[<<f[k - 1], k>>]

LEMMA LoopUnique ==
  ASSUME NEW x, NEW n \in Nat, NEW G, NEW h \in [0 .. n -> Seq(Plans)], NEW f,
         Follows(x, n, G, h), Obeys(x, n, G, f)
  PROVE  f[n] = h[n]
<1> USE DEF Follows, Obeys
<1> DEFINE Bad == {k \in 0 .. n : f[k] # h[k]}
<1>1. SUFFICES ASSUME f[n] # h[n] PROVE FALSE
  OBVIOUS
<1>2. Bad \in SUBSET Nat
  OBVIOUS
<1>3. PICK k \in Bad : \A l \in Bad : k <= l
  <2>1. n \in Bad
    BY <1>1
  <2> QED
    BY <1>2, <2>1, LeastNat
<1>4. k # 0 /\ k \in 1 .. n /\ k - 1 \in 0 .. n /\ k - 1 \notin Bad
  BY <1>2, <1>3
<1>5. f[k - 1] = h[k - 1] /\ h[k - 1] \in Seq(Plans)
  BY <1>4
<1>6. f[k] = G[<<f[k - 1], k>>] /\ h[k] = G[<<h[k - 1], k>>]
  BY <1>4, <1>5
<1> QED
  BY <1>3, <1>5, <1>6

(* The loops of the code, one inside the other.                             *)
LEMMA OfferImproves ==
  ASSUME NEW x \in Seq(Plans), NEW c \in Seq(Plans)
  PROVE  Improves(x, ToSet(c), Offer(x, c))
<1> DEFINE n == Len(c)
           Step(y, k) == prune_or_add_plan(y, c[k])
           Gain(k) == {c[k]}
<1>1. n \in Nat /\ DOMAIN c = 1 .. n
  OBVIOUS
<1>2. ASSUME NEW y \in Seq(Plans), NEW k \in 1 .. n
      PROVE  Gain(k) \in SUBSET Plans /\ Improves(y, Gain(k), Step(y, k)) /\ Step(y, k) \in Seq(Plans)
  <2>1. c[k] \in Plans
    BY <1>1, ElementIn
  <2> QED
    BY <2>1, PruneImproves DEF Improves
<1> HIDE DEF Step, Gain, n
<1>3. PICK C : C = [k \in 1 .. n |-> Gain(k)]
  OBVIOUS
<1>4. PICK G : G = [u \in Seq(Plans) \X (1 .. n) |-> Step(u[1], u[2])]
  OBVIOUS
<1>5. C \in [1 .. n -> SUBSET Plans] /\ G \in [Seq(Plans) \X (1 .. n) -> Seq(Plans)]
  BY <1>2, <1>3, <1>4
<1>6. \A y \in Seq(Plans), k \in 1 .. n : G[<<y, k>>] = Step(y, k)
  BY <1>4
<1>7. \A y \in Seq(Plans), k \in 1 .. n : Improves(y, C[k], G[<<y, k>>])
  BY <1>2, <1>3, <1>6
<1>8. PICK h \in [0 .. n -> Seq(Plans)] : Follows(x, n, G, h) /\ Improves(x, Gained(n, C), h[n])
  <2>1. Gains(n, C, G)
    BY <1>7 DEF Gains
  <2> QED
    BY <1>1, <1>5, <2>1, LoopImproves
<1>9. Gained(n, C) = ToSet(c)
  BY <1>1, <1>3 DEF ToSet, Gain, Gained
<1> DEFINE Solves(f) == f = [k \in 0 .. n |-> IF k = 0 THEN x ELSE Step(f[k - 1], k)]
<1>10. Solves(h)
  <2>1. ASSUME NEW k \in 0 .. n PROVE h[k] = IF k = 0 THEN x ELSE Step(h[k - 1], k)
    <3>1. CASE k = 0
      BY <1>8, <3>1 DEF Follows
    <3>2. CASE k # 0
      <4>1. k \in 1 .. n /\ k - 1 \in 0 .. n
        BY <1>1, <3>2
      <4>2. h[k - 1] \in Seq(Plans)
        BY <4>1
      <4>3. G[<<h[k - 1], k>>] = Step(h[k - 1], k)
        BY <1>6, <4>1, <4>2
      <4> QED
        BY <1>8, <3>2, <4>1, <4>3 DEF Follows
    <3> QED
      BY <3>1, <3>2
  <2> QED
    BY <2>1
<1>11. PICK f : f = CHOOSE g : Solves(g)
  OBVIOUS
<1>12. Solves(f)
  BY <1>10, <1>11
<1>13. Offer(x, c) = f[n]
  BY <1>11 DEF Offer, n, Step
<1>14. f[n] = h[n]
  <2>1. f[0] = x
    BY <1>1, <1>12
  <2>2. ASSUME NEW k \in 1 .. n, f[k - 1] \in Seq(Plans) PROVE f[k] = G[<<f[k - 1], k>>]
    <3>1. f[k] = Step(f[k - 1], k)
      BY <1>1, <1>12
    <3> QED
      BY <1>6, <2>2, <3>1
  <2>3. Obeys(x, n, G, f)
    BY <2>1, <2>2 DEF Obeys
  <2>4. h \in [0 .. n -> Seq(Plans)] /\ Follows(x, n, G, h)
    BY <1>8
  <2>5. n \in Nat
    BY <1>1
  <2> HIDE DEF Solves
  <2> QED
    BY <2>3, <2>4, <2>5, LoopUnique
<1> QED
  BY <1>8, <1>9, <1>13, <1>14

LEMMA RightsImprove ==
  ASSUME NEW x \in Seq(Plans), NEW l \in Plans, NEW rights \in Seq(Plans), NEW jp \in Predicates
  PROVE  Improves(x, JoinsOf(l, ToSet(rights), jp), OfferRights(x, l, rights, jp))
<1> DEFINE n == Len(rights)
           Step(y, k) == Offer(y, Operators(l, rights[k], jp))
           Gain(k) == ToSet(Operators(l, rights[k], jp))
<1>1. n \in Nat /\ DOMAIN rights = 1 .. n
  OBVIOUS
<1>2. ASSUME NEW y \in Seq(Plans), NEW k \in 1 .. n
      PROVE  Gain(k) \in SUBSET Plans /\ Improves(y, Gain(k), Step(y, k)) /\ Step(y, k) \in Seq(Plans)
  <2>1. rights[k] \in Plans
    BY <1>1, ElementIn
  <2>2. Operators(l, rights[k], jp) \in Seq(Plans)
    BY <2>1, OperatorsTried
  <2>3. ToSet(Operators(l, rights[k], jp)) \in SUBSET Plans
    BY <2>2, ElementIn DEF ToSet
  <2> QED
    BY <2>2, <2>3, OfferImproves DEF Improves
<1> HIDE DEF Step, Gain, n
<1>3. PICK C : C = [k \in 1 .. n |-> Gain(k)]
  OBVIOUS
<1>4. PICK G : G = [u \in Seq(Plans) \X (1 .. n) |-> Step(u[1], u[2])]
  OBVIOUS
<1>5. C \in [1 .. n -> SUBSET Plans] /\ G \in [Seq(Plans) \X (1 .. n) -> Seq(Plans)]
  BY <1>2, <1>3, <1>4
<1>6. \A y \in Seq(Plans), k \in 1 .. n : G[<<y, k>>] = Step(y, k)
  BY <1>4
<1>7. \A y \in Seq(Plans), k \in 1 .. n : Improves(y, C[k], G[<<y, k>>])
  BY <1>2, <1>3, <1>6
<1>8. PICK h \in [0 .. n -> Seq(Plans)] : Follows(x, n, G, h) /\ Improves(x, Gained(n, C), h[n])
  <2>1. Gains(n, C, G)
    BY <1>7 DEF Gains
  <2> QED
    BY <1>1, <1>5, <2>1, LoopImproves
<1>9. Gained(n, C) = JoinsOf(l, ToSet(rights), jp)
  <2>1. ASSUME NEW p PROVE p \in JoinsOf(l, ToSet(rights), jp) <=> \E k \in 1 .. n : p \in Gain(k)
    <3>1. \A r : r \in ToSet(rights) <=> \E k \in 1 .. n : r = rights[k]
      BY <1>1 DEF ToSet
    <3>2. p \in JoinsOf(l, ToSet(rights), jp) <=> \E r \in ToSet(rights) : p \in ToSet(Operators(l, r, jp))
      BY DEF JoinsOf
    <3> QED
      BY <3>1, <3>2 DEF Gain
  <2>2. ASSUME NEW p PROVE p \in Gained(n, C) <=> \E k \in 1 .. n : p \in Gain(k)
    BY <1>3 DEF Gained
  <2> QED
    BY <2>1, <2>2
<1> DEFINE Solves(f) == f = [k \in 0 .. n |-> IF k = 0 THEN x ELSE Step(f[k - 1], k)]
<1>10. Solves(h)
  <2>1. ASSUME NEW k \in 0 .. n PROVE h[k] = IF k = 0 THEN x ELSE Step(h[k - 1], k)
    <3>1. CASE k = 0
      BY <1>8, <3>1 DEF Follows
    <3>2. CASE k # 0
      <4>1. k \in 1 .. n /\ k - 1 \in 0 .. n
        BY <1>1, <3>2
      <4>2. h[k - 1] \in Seq(Plans)
        BY <4>1
      <4>3. G[<<h[k - 1], k>>] = Step(h[k - 1], k)
        BY <1>6, <4>1, <4>2
      <4> QED
        BY <1>8, <3>2, <4>1, <4>3 DEF Follows
    <3> QED
      BY <3>1, <3>2
  <2> QED
    BY <2>1
<1>11. PICK f : f = CHOOSE g : Solves(g)
  OBVIOUS
<1>12. Solves(f)
  BY <1>10, <1>11
<1>13. OfferRights(x, l, rights, jp) = f[n]
  BY <1>11 DEF OfferRights, n, Step
<1>14. f[n] = h[n]
  <2>1. f[0] = x
    BY <1>1, <1>12
  <2>2. ASSUME NEW k \in 1 .. n, f[k - 1] \in Seq(Plans) PROVE f[k] = G[<<f[k - 1], k>>]
    <3>1. f[k] = Step(f[k - 1], k)
      BY <1>1, <1>12
    <3> QED
      BY <1>6, <2>2, <3>1
  <2>3. Obeys(x, n, G, f)
    BY <2>1, <2>2 DEF Obeys
  <2>4. h \in [0 .. n -> Seq(Plans)] /\ Follows(x, n, G, h)
    BY <1>8
  <2>5. n \in Nat
    BY <1>1
  <2> HIDE DEF Solves
  <2> QED
    BY <2>3, <2>4, <2>5, LoopUnique
<1> QED
  BY <1>8, <1>9, <1>13, <1>14

LEMMA JoinsImprove ==
  ASSUME NEW x \in Seq(Plans), NEW lefts \in Seq(Plans), NEW rights \in Seq(Plans), NEW jp \in Predicates
  PROVE  Improves(x, UNION {JoinsOf(l, ToSet(rights), jp) : l \in ToSet(lefts)}, OfferJoins(x, lefts, rights, jp))
<1> DEFINE n == Len(lefts)
           Step(y, k) == OfferRights(y, lefts[k], rights, jp)
           Gain(k) == JoinsOf(lefts[k], ToSet(rights), jp)
<1>1. n \in Nat /\ DOMAIN lefts = 1 .. n
  OBVIOUS
<1>2. ASSUME NEW y \in Seq(Plans), NEW k \in 1 .. n
      PROVE  Gain(k) \in SUBSET Plans /\ Improves(y, Gain(k), Step(y, k)) /\ Step(y, k) \in Seq(Plans)
  <2>1. lefts[k] \in Plans
    BY <1>1, ElementIn
  <2>2. Improves(y, Gain(k), Step(y, k))
    BY <2>1, RightsImprove
  <2>3. JoinsOf(lefts[k], ToSet(rights), jp) \in SUBSET Plans
    <3>1. ASSUME NEW r \in ToSet(rights) PROVE ToSet(Operators(lefts[k], r, jp)) \subseteq Plans
      <4>1. r \in Plans
        BY <3>1, ElementIn DEF ToSet
      <4>2. Operators(lefts[k], r, jp) \in Seq(Plans)
        BY <2>1, <4>1, OperatorsTried
      <4> QED
        BY <4>2, ElementIn DEF ToSet
    <3> QED
      BY <3>1 DEF JoinsOf
  <2> QED
    BY <2>2, <2>3 DEF Improves
<1> HIDE DEF Step, Gain, n
<1>3. PICK C : C = [k \in 1 .. n |-> Gain(k)]
  OBVIOUS
<1>4. PICK G : G = [u \in Seq(Plans) \X (1 .. n) |-> Step(u[1], u[2])]
  OBVIOUS
<1>5. C \in [1 .. n -> SUBSET Plans] /\ G \in [Seq(Plans) \X (1 .. n) -> Seq(Plans)]
  BY <1>2, <1>3, <1>4
<1>6. \A y \in Seq(Plans), k \in 1 .. n : G[<<y, k>>] = Step(y, k)
  BY <1>4
<1>7. \A y \in Seq(Plans), k \in 1 .. n : Improves(y, C[k], G[<<y, k>>])
  BY <1>2, <1>3, <1>6
<1>8. PICK h \in [0 .. n -> Seq(Plans)] : Follows(x, n, G, h) /\ Improves(x, Gained(n, C), h[n])
  <2>1. Gains(n, C, G)
    BY <1>7 DEF Gains
  <2> QED
    BY <1>1, <1>5, <2>1, LoopImproves
<1>9. Gained(n, C) = UNION {JoinsOf(l, ToSet(rights), jp) : l \in ToSet(lefts)}
  <2>1. \A l : l \in ToSet(lefts) <=> \E k \in 1 .. n : l = lefts[k]
    BY <1>1 DEF ToSet
  <2>2. ASSUME NEW p PROVE p \in Gained(n, C) <=> \E k \in 1 .. n : p \in JoinsOf(lefts[k], ToSet(rights), jp)
    BY <1>3 DEF Gain, Gained
  <2>3. ASSUME NEW p PROVE p \in UNION {JoinsOf(l, ToSet(rights), jp) : l \in ToSet(lefts)} <=>
                             \E l \in ToSet(lefts) : p \in JoinsOf(l, ToSet(rights), jp)
    OBVIOUS
  <2> QED
    BY <2>1, <2>2, <2>3
<1> DEFINE Solves(f) == f = [k \in 0 .. n |-> IF k = 0 THEN x ELSE Step(f[k - 1], k)]
<1>10. Solves(h)
  <2>1. ASSUME NEW k \in 0 .. n PROVE h[k] = IF k = 0 THEN x ELSE Step(h[k - 1], k)
    <3>1. CASE k = 0
      BY <1>8, <3>1 DEF Follows
    <3>2. CASE k # 0
      <4>1. k \in 1 .. n /\ k - 1 \in 0 .. n
        BY <1>1, <3>2
      <4>2. h[k - 1] \in Seq(Plans)
        BY <4>1
      <4>3. G[<<h[k - 1], k>>] = Step(h[k - 1], k)
        BY <1>6, <4>1, <4>2
      <4> QED
        BY <1>8, <3>2, <4>1, <4>3 DEF Follows
    <3> QED
      BY <3>1, <3>2
  <2> QED
    BY <2>1
<1>11. PICK f : f = CHOOSE g : Solves(g)
  OBVIOUS
<1>12. Solves(f)
  BY <1>10, <1>11
<1>13. OfferJoins(x, lefts, rights, jp) = f[n]
  BY <1>11 DEF OfferJoins, n, Step
<1>14. f[n] = h[n]
  <2>1. f[0] = x
    BY <1>1, <1>12
  <2>2. ASSUME NEW k \in 1 .. n, f[k - 1] \in Seq(Plans) PROVE f[k] = G[<<f[k - 1], k>>]
    <3>1. f[k] = Step(f[k - 1], k)
      BY <1>1, <1>12
    <3> QED
      BY <1>6, <2>2, <3>1
  <2>3. Obeys(x, n, G, f)
    BY <2>1, <2>2 DEF Obeys
  <2>4. h \in [0 .. n -> Seq(Plans)] /\ Follows(x, n, G, h)
    BY <1>8
  <2>5. n \in Nat
    BY <1>1
  <2> HIDE DEF Solves
  <2> QED
    BY <2>3, <2>4, <2>5, LoopUnique
<1> QED
  BY <1>8, <1>9, <1>13, <1>14

-----------------------------------------------------------------------------
(* The inductive invariant: every plan kept is one there is, the turns are  *)
(* taken by size, and what a turn taken had to offer is still covered.      *)

Offered(ts, q, dp, S, t) ==
  IF S = {t} THEN ToSet(AccessPaths(t, ts[t]))
  ELSE LET k == find_join_predicate(q, S \ {t}, t) IN
       IF k = 0 THEN {}
       ELSE UNION {JoinsOf(l, ToSet(dp[{t}]), q[k]) : l \in ToSet(dp[S \ {t}])}

Query(ts, q) == ts \in [Tables -> TableRecs] /\ q \in Seq(Predicates)

Smallest(pend, S) == \A v \in pend : Cardinality(S) <= Cardinality(v[1])

Searched(ts, q, pend, dp) ==
  /\ pend \in SUBSET Turns /\ dp \in [NodeSets -> Seq(Plans)]
  /\ \A S \in NodeSets : ToSet(dp[S]) \subseteq AllPlans(ts, q)[S]
  /\ \A u \in Turns \ pend : /\ Smallest(pend, u[1])
                             /\ \A p \in Offered(ts, q, dp, u[1], u[2]) : Covers(dp[u[1]], p)

SelInv ==
  /\ Query(tables, joins) /\ Searched(tables, joins, pending, dp_table)
  /\ result.required \in {NO_ORDER, 0}
  /\ ~ result.done => result.plan = <<>>
  /\ result.done => /\ pending = {}
                    /\ result.plan = IF dp_table[Tables] = <<>> THEN <<>>
                                     ELSE <<BestPlan(dp_table[Tables], result.required)>>

(* Where the sets of the rest and of the table are the same, so is the offer.*)
LEMMA OfferedSame ==
  ASSUME NEW ts, NEW q, NEW dp, NEW d, NEW S, NEW t,
         S # {t} => d[S \ {t}] = dp[S \ {t}] /\ d[{t}] = dp[{t}]
  PROVE  Offered(ts, q, d, S, t) = Offered(ts, q, dp, S, t)
<1>1. CASE S = {t}
  BY <1>1 DEF Offered
<1>2. CASE S # {t}
  <2>1. d[S \ {t}] = dp[S \ {t}] /\ d[{t}] = dp[{t}]
    BY <1>2
  <2> QED
    BY <1>2, <2>1 DEF Offered
<1> QED
  BY <1>1, <1>2

LEMMA OfferedIsChoice ==
  ASSUME NEW ts, NEW q, Query(ts, q), NEW dp, NEW S \in NodeSets, NEW t \in S,
         \A T \in NodeSets : ToSet(dp[T]) \subseteq AllPlans(ts, q)[T]
  PROVE  Offered(ts, q, dp, S, t) \subseteq AllPlans(ts, q)[S]
<1>1. PICK all : all = AllPlans(ts, q)
  OBVIOUS
<1>2. t \in Tables
  BY Sized
<1>3. SUFFICES ASSUME NEW p \in Offered(ts, q, dp, S, t) PROVE p \in PlansFor(ts, q, S, all)
  BY <1>1, AllPlansAre
<1>4. CASE S = {t}
  <2>1. p \in ToSet(AccessPaths(t, ts[t]))
    BY <1>3, <1>4 DEF Offered
  <2> QED
    BY <1>2, <1>4, <2>1, WaysToJoin
<1>5. CASE S # {t}
  <2>1. PICK k : k = find_join_predicate(q, S \ {t}, t)
    OBVIOUS
  <2>2. k # 0
    BY <1>3, <1>5, <2>1 DEF Offered
  <2>3. p \in UNION {JoinsOf(l, ToSet(dp[{t}]), q[k]) : l \in ToSet(dp[S \ {t}])}
    BY <1>3, <1>5, <2>1, <2>2 DEF Offered
  <2>4. PICK l \in ToSet(dp[S \ {t}]) : p \in JoinsOf(l, ToSet(dp[{t}]), q[k])
    BY <2>3
  <2>5. PICK r \in ToSet(dp[{t}]) : p \in ToSet(Operators(l, r, q[k]))
    BY <2>4 DEF JoinsOf
  <2>6. S \ {t} \in NodeSets /\ {t} \in NodeSets
    BY <1>5, OneLess
  <2>7. l \in all[S \ {t}] /\ r \in all[{t}]
    BY <1>1, <2>4, <2>5, <2>6
  <2>8. JoinOf(q, S, t, all, p)
    BY <2>1, <2>2, <2>5, <2>7 DEF JoinOf
  <2> QED
    BY <1>5, <2>8, WaysToJoin
<1> QED
  BY <1>4, <1>5

LEMMA TurnTaken ==
  ASSUME NEW ts, NEW q, Query(ts, q), NEW pend, NEW dp, Searched(ts, q, pend, dp),
         NEW S \in NodeSets, NEW t, <<S, t>> \in pend, Smallest(pend, S),
         NEW new, Improves(dp[S], Offered(ts, q, dp, S, t), new)
  PROVE  Searched(ts, q, pend \ {<<S, t>>}, [dp EXCEPT ![S] = new])
<1>1. PICK all : all = AllPlans(ts, q)
  OBVIOUS
<1>2. PICK d : d = [dp EXCEPT ![S] = new]
  OBVIOUS
<1>3. PICK rest : rest = pend \ {<<S, t>>}
  OBVIOUS
<1>4. pend \in SUBSET Turns /\ dp \in [NodeSets -> Seq(Plans)]
  BY DEF Searched
<1>5. t \in S /\ \A u \in Turns : u[1] \in NodeSets /\ u[2] \in u[1] /\ u = <<u[1], u[2]>>
  BY <1>4 DEF Turns
<1>6. new \in Seq(Plans)
  BY DEF Improves
<1>7. /\ d \in [NodeSets -> Seq(Plans)] /\ d[S] = new
      /\ \A T \in NodeSets : T # S => d[T] = dp[T]
  BY <1>2, <1>4, <1>6
<1>8. \A T \in NodeSets : ToSet(dp[T]) \subseteq all[T]
  BY <1>1 DEF Searched
<1>9. ASSUME NEW T \in NodeSets PROVE ToSet(d[T]) \subseteq all[T]
  <2>1. CASE T # S
    BY <1>7, <1>8, <2>1
  <2>2. CASE T = S
    <3>1. Offered(ts, q, dp, S, t) \subseteq all[S]
      BY <1>1, <1>5, <1>8, OfferedIsChoice
    <3>2. ASSUME NEW i \in DOMAIN new PROVE new[i] \in all[S]
      <4>1. new[i] \in Offered(ts, q, dp, S, t) \/ \E j \in DOMAIN dp[S] : dp[S][j] = new[i]
        BY <3>2 DEF Improves
      <4> QED
        BY <1>8, <3>1, <4>1 DEF ToSet
    <3> QED
      BY <1>7, <2>2, <3>2 DEF ToSet
  <2> QED
    BY <2>1, <2>2
<1>10. ASSUME NEW u \in Turns \ rest
       PROVE  /\ Smallest(rest, u[1])
              /\ \A p \in Offered(ts, q, d, u[1], u[2]) : Covers(d[u[1]], p)
  <2>1. PICK U \in NodeSets, w \in Tables : w \in U /\ u = <<U, w>>
    BY <1>5, <1>10, Sized
  <2>2. u = <<S, t>> \/ u \in Turns \ pend
    BY <1>3, <1>10
  <2>3. Smallest(pend, U) /\ Cardinality(U) <= Cardinality(S)
    <3>1. CASE u = <<S, t>>
      BY <2>1, <3>1, Sized
    <3>2. CASE u \in Turns \ pend
      <4>1. Smallest(pend, U)
        BY <2>1, <3>2 DEF Searched
      <4> QED
        BY <4>1 DEF Smallest
    <3> QED
      BY <2>2, <3>1, <3>2
  <2>4. ASSUME U # {w} PROVE d[U \ {w}] = dp[U \ {w}] /\ d[{w}] = dp[{w}]
    <3>1. /\ U \ {w} \in NodeSets /\ {w} \in NodeSets /\ Cardinality({w}) = 1
          /\ Cardinality(U) > 1 /\ Cardinality(U \ {w}) = Cardinality(U) - 1
      BY <2>1, <2>4, OneLess
    <3>2. Cardinality(U) \in Nat /\ Cardinality(S) \in Nat
      BY Sized
    <3>3. Cardinality(U \ {w}) # Cardinality(S) /\ Cardinality({w}) # Cardinality(S)
      BY <2>3, <3>1, <3>2
    <3> QED
      BY <1>7, <3>1, <3>3
  <2>5. Offered(ts, q, d, U, w) = Offered(ts, q, dp, U, w)
    BY <2>4, OfferedSame
  <2>6. ASSUME NEW p \in Offered(ts, q, dp, U, w) PROVE Covers(d[U], p)
    <3>1. CASE u = <<S, t>>
      <4>1. U = S /\ w = t
        BY <2>1, <3>1
      <4> QED
        BY <1>7, <2>6, <4>1 DEF Improves
    <3>2. CASE u \in Turns \ pend
      <4>1. Covers(dp[U], p)
        BY <2>1, <2>6, <3>2 DEF Searched
      <4>2. p \in Plans
        <5>1. p \in all[U]
          BY <1>1, <1>8, <2>1, <2>6, OfferedIsChoice
        <5>2. all[U] \subseteq Plans
          BY <1>1, AllPlansTyped DEF Query
        <5> QED
          BY <5>1, <5>2
      <4>3. CASE U = S
        BY <1>7, <4>1, <4>2, <4>3 DEF Improves
      <4>4. CASE U # S
        BY <1>7, <4>1, <4>4
      <4> QED
        BY <4>3, <4>4
    <3> QED
      BY <2>2, <3>1, <3>2
  <2>7. Smallest(rest, U)
    BY <1>3, <2>3 DEF Smallest
  <2> QED
    BY <2>1, <2>5, <2>6, <2>7
<1>11. rest \in SUBSET Turns
  BY <1>3, <1>4
<1>12. Searched(ts, q, rest, d)
  BY <1>1, <1>7, <1>9, <1>10, <1>11 DEF Searched
<1> QED
  BY <1>2, <1>3, <1>12

LEMMA TurnIsSmallest ==
  ASSUME pending \in SUBSET Turns, NEW S \in NodeSets, NEW t, ItsTurn(S, t)
  PROVE  <<S, t>> \in pending /\ Smallest(pending, S)
<1>1. ASSUME NEW v \in pending PROVE Cardinality(S) <= Cardinality(v[1])
  <2>1. v[1] \in NodeSets
    BY DEF Turns
  <2>2. Cardinality(S) \in Nat /\ Cardinality(v[1]) \in Nat
    BY <2>1, Sized
  <2>3. Before(S, v[1]) \/ S = v[1]
    BY DEF ItsTurn
  <2> QED
    BY <2>2, <2>3 DEF Before
<1> QED
  BY <1>1 DEF ItsTurn, Smallest

LEMMA SelBegins ==
  ASSUME Init
  PROVE  SelInv
<1>1. Query(tables, joins)
  BY QueryAssumption DEF Init, Query, QueryAssumption
<1>2. Searched(tables, joins, pending, dp_table)
  <2>1. pending = Turns /\ dp_table \in [NodeSets -> Seq(Plans)]
    BY DEF Init
  <2>2. ASSUME NEW S \in NodeSets PROVE ToSet(dp_table[S]) = {}
    BY DEF Init, ToSet
  <2> QED
    BY <2>1, <2>2 DEF Searched
<1> QED
  BY <1>1, <1>2 DEF Init, SelInv

(* A turn leaves the result alone, and it was not there.                    *)
LEMMA TurnKeeps ==
  ASSUME SelInv, NEW S \in NodeSets, NEW t, ItsTurn(S, t), NEW new,
         Improves(dp_table[S], Offered(tables, joins, dp_table, S, t), new),
         dp_table' = [dp_table EXCEPT ![S] = new], pending' = pending \ {<<S, t>>},
         UNCHANGED <<tables, joins, result>>
  PROVE  SelInv'
<1>1. Query(tables, joins) /\ Searched(tables, joins, pending, dp_table)
  BY DEF SelInv
<1>2. pending \in SUBSET Turns
  BY <1>1 DEF Searched
<1>3. <<S, t>> \in pending /\ Smallest(pending, S)
  BY <1>2, TurnIsSmallest
<1>4. Searched(tables, joins, pending \ {<<S, t>>}, [dp_table EXCEPT ![S] = new])
  BY <1>1, <1>3, TurnTaken
<1>5. ~ result.done
  BY <1>3 DEF SelInv
<1>6. Query(tables, joins)' /\ Searched(tables, joins, pending, dp_table)'
  BY <1>1, <1>4
<1> QED
  BY <1>5, <1>6 DEF SelInv

LEMMA SelSingle ==
  ASSUME SelInv, EnumerateSingle
  PROVE  SelInv'
<1>1. PICK t \in Tables :
        /\ ItsTurn({t}, t)
        /\ dp_table' = [dp_table EXCEPT ![{t}] = Offer(@, AccessPaths(t, tables[t]))]
        /\ pending' = pending \ {<<{t}, t>>} /\ UNCHANGED <<tables, joins, result>>
  BY DEF EnumerateSingle
<1>2. {t} \in NodeSets
  BY DEF NodeSets
<1>3. tables[t] \in TableRecs /\ dp_table \in [NodeSets -> Seq(Plans)]
  BY DEF SelInv, Query, Searched
<1>4. dp_table[{t}] \in Seq(Plans)
  BY <1>2, <1>3
<1>5. AccessPaths(t, tables[t]) \in Seq(Plans)
  BY <1>3, ScansTyped
<1>6. PICK new : new = Offer(dp_table[{t}], AccessPaths(t, tables[t]))
  OBVIOUS
<1>7. Improves(dp_table[{t}], ToSet(AccessPaths(t, tables[t])), new)
  BY <1>4, <1>5, <1>6, OfferImproves
<1>8. Offered(tables, joins, dp_table, {t}, t) = ToSet(AccessPaths(t, tables[t]))
  BY DEF Offered
<1>9. dp_table' = [dp_table EXCEPT ![{t}] = new]
  BY <1>1, <1>6
<1> QED
  BY <1>1, <1>2, <1>7, <1>8, <1>9, TurnKeeps

LEMMA TurnsWithin ==
  ASSUME SelInv, NEW S \in NodeSets, NEW t, S # {t}, ItsTurn(S, t)
  PROVE  t \in S /\ S \ {t} \in NodeSets /\ {t} \in NodeSets
<1>1. <<S, t>> \in Turns
  BY DEF ItsTurn, SelInv, Searched
<1>2. t \in S
  BY <1>1 DEF Turns
<1> QED
  BY <1>2, OneLess

LEMMA SelJoins ==
  ASSUME SelInv, EnumerateJoins
  PROVE  SelInv'
<1>1. PICK S \in NodeSets, t \in Tables :
        /\ S # {t} /\ ItsTurn(S, t)
        /\ LET k == find_join_predicate(joins, S \ {t}, t) IN
           /\ k # 0
           /\ dp_table' = [dp_table EXCEPT ![S] =
                             OfferJoins(@, dp_table[S \ {t}], dp_table[{t}], joins[k])]
        /\ pending' = pending \ {<<S, t>>} /\ UNCHANGED <<tables, joins, result>>
  BY DEF EnumerateJoins
<1>2. S \ {t} \in NodeSets /\ {t} \in NodeSets
  BY <1>1, TurnsWithin
<1>3. joins \in Seq(Predicates) /\ dp_table \in [NodeSets -> Seq(Plans)]
  BY DEF SelInv, Query, Searched
<1>4. dp_table[S] \in Seq(Plans) /\ dp_table[S \ {t}] \in Seq(Plans) /\ dp_table[{t}] \in Seq(Plans)
  BY <1>2, <1>3
<1>5. PICK k : k = find_join_predicate(joins, S \ {t}, t)
  OBVIOUS
<1>6. k # 0 /\ joins[k] \in Predicates
  BY <1>1, <1>3, <1>5, PredicateFound
<1>7. PICK new : new = OfferJoins(dp_table[S], dp_table[S \ {t}], dp_table[{t}], joins[k])
  OBVIOUS
<1>8. Improves(dp_table[S], UNION {JoinsOf(l, ToSet(dp_table[{t}]), joins[k]) : l \in ToSet(dp_table[S \ {t}])}, new)
  BY <1>4, <1>6, <1>7, JoinsImprove
<1>9. Offered(tables, joins, dp_table, S, t) =
        UNION {JoinsOf(l, ToSet(dp_table[{t}]), joins[k]) : l \in ToSet(dp_table[S \ {t}])}
  BY <1>1, <1>5, <1>6 DEF Offered
<1>10. dp_table' = [dp_table EXCEPT ![S] = new]
  BY <1>1, <1>5, <1>7
<1>11. Improves(dp_table[S], Offered(tables, joins, dp_table, S, t), new)
  BY <1>8, <1>9
<1> QED
  BY <1>1, <1>10, <1>11, TurnKeeps

LEMMA SelSkip ==
  ASSUME SelInv, SkipUnconnected
  PROVE  SelInv'
<1>1. PICK S \in NodeSets, t \in Tables :
        /\ S # {t} /\ ItsTurn(S, t)
        /\ find_join_predicate(joins, S \ {t}, t) = 0
        /\ pending' = pending \ {<<S, t>>} /\ UNCHANGED <<tables, joins, dp_table, result>>
  BY DEF SkipUnconnected
<1>2. dp_table \in [NodeSets -> Seq(Plans)] /\ dp_table[S] \in Seq(Plans)
  BY DEF SelInv, Searched
<1>3. Offered(tables, joins, dp_table, S, t) = {}
  BY <1>1 DEF Offered
<1>4. Improves(dp_table[S], {}, dp_table[S])
  BY <1>2 DEF Improves
<1>5. dp_table' = [dp_table EXCEPT ![S] = dp_table[S]]
  BY <1>1, <1>2
<1>6. Improves(dp_table[S], Offered(tables, joins, dp_table, S, t), dp_table[S])
  BY <1>3, <1>4
<1> QED
  BY <1>1, <1>5, <1>6, TurnKeeps

LEMMA SelFinds ==
  ASSUME SelInv, FindBestPlan
  PROVE  SelInv'
<1>1. /\ pending = {} /\ UNCHANGED <<tables, joins, pending, dp_table>>
      /\ \E required \in {NO_ORDER, 0} :
           result' = [done |-> TRUE, required |-> required,
                      plan |-> IF dp_table[Tables] = <<>> THEN <<>>
                               ELSE <<BestPlan(dp_table[Tables], required)>>]
  BY DEF FindBestPlan
<1>2. PICK required \in {NO_ORDER, 0} :
        result' = [done |-> TRUE, required |-> required,
                   plan |-> IF dp_table[Tables] = <<>> THEN <<>>
                            ELSE <<BestPlan(dp_table[Tables], required)>>]
  BY <1>1
<1>3. /\ result'.done = TRUE /\ result'.required = required
      /\ result'.plan = IF dp_table[Tables] = <<>> THEN <<>>
                        ELSE <<BestPlan(dp_table[Tables], required)>>
  BY <1>2
<1>4. Query(tables, joins)' /\ Searched(tables, joins, pending, dp_table)'
  BY <1>1 DEF SelInv
<1>5. pending' = {} /\ dp_table' = dp_table
  BY <1>1
<1> QED
  BY <1>2, <1>3, <1>4, <1>5 DEF SelInv

LEMMA SelInductive == Spec => []SelInv
<1>1. Init => SelInv
  BY SelBegins
<1>2. SelInv /\ [Next]_vars => SelInv'
  <2>1. SUFFICES ASSUME SelInv, [Next]_vars PROVE SelInv'
    OBVIOUS
  <2>2. CASE UNCHANGED vars
    BY <2>1, <2>2 DEF vars, SelInv
  <2> QED
    BY <2>1, <2>2, SelSingle, SelJoins, SelSkip, SelFinds DEF Next
<1> QED
  BY <1>1, <1>2, PTL DEF Spec

-----------------------------------------------------------------------------
(* Pruning loses nothing.                                                   *)

LEMMA TimesMonotone ==
  ASSUME NEW a \in Nat, NEW x \in Nat, NEW y \in Nat, x <= y
  PROVE  a * x <= a * y
  OBVIOUS

(* Cheaper parts of the same cardinalities make a cheaper join.             *)
LEMMA OperatorsMonotone ==
  ASSUME NEW l \in Plans, NEW r \in Plans, NEW jp \in Predicates, NEW ll \in Plans, NEW rr \in Plans,
         ll.cost <= l.cost, ll.card = l.card, ll.order = l.order, rr.cost <= r.cost, rr.card = r.card
  PROVE  /\ HashJoin(ll, rr, jp).cost <= HashJoin(l, r, jp).cost
         /\ HashJoin(ll, rr, jp).order = HashJoin(l, r, jp).order
         /\ NestedLoopJoin(ll, rr, jp).cost <= NestedLoopJoin(l, r, jp).cost
         /\ NestedLoopJoin(ll, rr, jp).order = NestedLoopJoin(l, r, jp).order
         /\ IndexJoin(ll, rr, jp).cost <= IndexJoin(l, r, jp).cost
         /\ IndexJoin(ll, rr, jp).order = IndexJoin(l, r, jp).order
<1>1. l.cost \in Nat /\ ll.cost \in Nat /\ r.cost \in Nat /\ rr.cost \in Nat /\ l.card \in Int /\ r.card \in Int
  BY DEF Plans
<1>2. PICK a \in Nat, b \in Nat : a = Amount(l.card) /\ b = Amount(r.card)
  BY <1>1, Constants
<1>3. PICK e \in Nat : e = b * HASH_BUILD_COST + a * HASH_PROBE_COST
  BY Product DEF HASH_BUILD_COST, HASH_PROBE_COST
<1>4. b * HASH_BUILD_COST \in Nat /\ a * HASH_PROBE_COST \in Nat
  BY Product DEF HASH_BUILD_COST, HASH_PROBE_COST
<1>5. HashJoin(ll, rr, jp).cost <= HashJoin(l, r, jp).cost
  <2>1. /\ HashJoin(l, r, jp).cost = l.cost + r.cost + b * HASH_BUILD_COST + a * HASH_PROBE_COST
        /\ HashJoin(ll, rr, jp).cost = ll.cost + rr.cost + b * HASH_BUILD_COST + a * HASH_PROBE_COST
    BY <1>2, PlanParts DEF HashJoin
  <2> QED
    BY <1>1, <1>4, <2>1
<1>6. NestedLoopJoin(ll, rr, jp).cost <= NestedLoopJoin(l, r, jp).cost
  <2>1. PICK f \in Nat \ {0} : f = 2^Frac
    BY Constants
  <2>2. PICK x \in Nat, y \in Nat : x = rr.cost \div f /\ y = r.cost \div f /\ x <= y
    BY <1>1, <2>1, Quotient
  <2>3. a * x <= a * y /\ a * x \in Nat /\ a * y \in Nat
    BY <2>2, TimesMonotone, Product
  <2>4. /\ NestedLoopJoin(l, r, jp).cost = l.cost + a * y
        /\ NestedLoopJoin(ll, rr, jp).cost = ll.cost + a * x
    BY <1>2, <2>1, <2>2, PlanParts DEF NestedLoopJoin
  <2> QED
    BY <1>1, <2>3, <2>4
<1>7. IndexJoin(ll, rr, jp).cost <= IndexJoin(l, r, jp).cost
  <2>1. PICK c \in Nat : c = 3 * (PAGE_IO_COST \div 2^Frac) + CPU_TUPLE_COST
    BY Constants DEF CPU_TUPLE_COST
  <2>2. a * c \in Nat
    BY Product
  <2>3. /\ IndexJoin(l, r, jp).cost = l.cost + a * c
        /\ IndexJoin(ll, rr, jp).cost = ll.cost + a * c
    BY <1>2, <2>1, PlanParts DEF IndexJoin
  <2> QED
    BY <1>1, <2>2, <2>3
<1>8. /\ HashJoin(ll, rr, jp).order = HashJoin(l, r, jp).order
      /\ NestedLoopJoin(ll, rr, jp).order = NestedLoopJoin(l, r, jp).order
      /\ IndexJoin(ll, rr, jp).order = IndexJoin(l, r, jp).order
  BY PlanParts DEF HashJoin, NestedLoopJoin, IndexJoin
<1> QED
  BY <1>5, <1>6, <1>7, <1>8

(* What there is of one table: it has an order exactly if an index gave it. *)
LEMMA SinglePlans ==
  ASSUME NEW ts, NEW q, Query(ts, q), NEW t \in Tables, NEW p \in AllPlans(ts, q)[{t}]
  PROVE  \/ p = SeqScan(ts[t]) /\ p.order = NO_ORDER
         \/ \E k \in DOMAIN ts[t].indexes :
              /\ p = IndexScan(t, ts[t], ts[t].indexes[k])
              /\ p.type = "Index_Scan" /\ p.order = ts[t].indexes[k].col
<1>1. {t} \in NodeSets
  BY DEF NodeSets
<1>2. p \in PlansFor(ts, q, {t}, AllPlans(ts, q))
  BY <1>1, AllPlansAre
<1>3. \E u \in Tables : {t} = {u} /\ p \in ToSet(AccessPaths(u, ts[u]))
  BY <1>1, <1>2, WaysToJoin
<1>4. PICK k \in DOMAIN AccessPaths(t, ts[t]) : p = AccessPaths(t, ts[t])[k]
  BY <1>3 DEF ToSet
<1>5. ts[t] \in TableRecs
  BY DEF Query
<1>6. \/ p = SeqScan(ts[t])
      \/ k - 1 \in DOMAIN ts[t].indexes /\ p = IndexScan(t, ts[t], ts[t].indexes[k - 1])
  BY <1>4, <1>5, ScansTyped
<1>7. SeqScan(ts[t]).order = NO_ORDER
  BY PlanParts DEF SeqScan
<1>8. \A j : /\ IndexScan(t, ts[t], ts[t].indexes[j]).type = "Index_Scan"
             /\ IndexScan(t, ts[t], ts[t].indexes[j]).order = ts[t].indexes[j].col
  BY PlanParts DEF IndexScan
<1> QED
  BY <1>6, <1>7, <1>8

(* p is one way to join l and r; as it is made of them, so is m of ll, rr.   *)
LEMMA SameWay ==
  ASSUME NEW l \in Plans, NEW r \in Plans, NEW jp \in Predicates, NEW ll \in Plans, NEW rr \in Plans,
         ll.cost <= l.cost, ll.card = l.card, ll.order = l.order, rr.cost <= r.cost, rr.card = r.card,
         Indexed(r, jp) => Indexed(rr, jp), NEW p \in ToSet(Operators(l, r, jp))
  PROVE  \E m \in ToSet(Operators(ll, rr, jp)) : m.order = p.order /\ m.cost <= p.cost
<1>1. PICK h, n, x, hh, nn, xx :
        /\ h = HashJoin(l, r, jp) /\ n = NestedLoopJoin(l, r, jp) /\ x = IndexJoin(l, r, jp)
        /\ hh = HashJoin(ll, rr, jp) /\ nn = NestedLoopJoin(ll, rr, jp) /\ xx = IndexJoin(ll, rr, jp)
  OBVIOUS
<1>2. /\ hh.cost <= h.cost /\ hh.order = h.order /\ nn.cost <= n.cost /\ nn.order = n.order
      /\ xx.cost <= x.cost /\ xx.order = x.order
  BY <1>1, OperatorsMonotone
<1>3. p = h \/ p = n \/ (Indexed(r, jp) /\ p = x)
  BY <1>1, OperatorsTried
<1>4. /\ hh \in ToSet(Operators(ll, rr, jp)) /\ nn \in ToSet(Operators(ll, rr, jp))
      /\ Indexed(rr, jp) => xx \in ToSet(Operators(ll, rr, jp))
  BY <1>1, OperatorsTried
<1> QED
  BY <1>2, <1>3, <1>4

(* A turn that found l and r kept offered their joins.                      *)
LEMMA JoinsOffered ==
  ASSUME NEW ts, NEW q, NEW dp, NEW S, NEW t, S # {t}, NEW k, k = find_join_predicate(q, S \ {t}, t), k # 0,
         NEW l \in ToSet(dp[S \ {t}]), NEW r \in ToSet(dp[{t}]), NEW m \in ToSet(Operators(l, r, q[k]))
  PROVE  m \in Offered(ts, q, dp, S, t)
<1>1. m \in JoinsOf(l, ToSet(dp[{t}]), q[k])
  BY DEF JoinsOf
<1>2. Offered(ts, q, dp, S, t) = UNION {JoinsOf(a, ToSet(dp[{t}]), q[k]) : a \in ToSet(dp[S \ {t}])}
  BY DEF Offered
<1> QED
  BY <1>1, <1>2

LEMMA AllTaken ==
  ASSUME NEW ts, NEW q, NEW dp, Searched(ts, q, {}, dp), NEW S \in NodeSets, NEW t \in S,
         NEW p \in Offered(ts, q, dp, S, t)
  PROVE  Covers(dp[S], p)
<1>1. PICK u : u = <<S, t>>
  OBVIOUS
<1>2. u \in Turns /\ u[1] = S /\ u[2] = t
  BY <1>1, Sized DEF Turns
<1>3. \A m \in Offered(ts, q, dp, u[1], u[2]) : Covers(dp[u[1]], m)
  BY <1>2 DEF Searched
<1> QED
  BY <1>2, <1>3

LEMMA AllCovered ==
  ASSUME NEW ts, NEW q, Query(ts, q), NEW dp, Searched(ts, q, {}, dp), Uniform(AllPlans(ts, q)),
         NEW S \in NodeSets, NEW p \in AllPlans(ts, q)[S]
  PROVE  Covers(dp[S], p)
<1>1. PICK all : all = AllPlans(ts, q)
  OBVIOUS
<1> DEFINE Bad == {T \in NodeSets : \E m \in all[T] : ~ Covers(dp[T], m)}
<1>2. SUFFICES ASSUME Bad # {} PROVE FALSE
  BY <1>1
<1>3. PICK T \in Bad : \A U \in NodeSets : Cardinality(U) < Cardinality(T) => U \notin Bad
  BY <1>2, LeastSet
<1>4. PICK m \in all[T] : ~ Covers(dp[T], m)
  BY <1>3
<1>5. m \in PlansFor(ts, q, T, all)
  BY <1>1, <1>3, <1>4, AllPlansAre
<1>6. CASE \E t \in Tables : T = {t} /\ m \in ToSet(AccessPaths(t, ts[t]))
  <2>1. PICK t \in Tables : T = {t} /\ m \in ToSet(AccessPaths(t, ts[t]))
    BY <1>6
  <2>2. m \in Offered(ts, q, dp, T, t) /\ t \in T
    BY <2>1 DEF Offered
  <2> QED
    BY <1>3, <1>4, <2>2, AllTaken
<1>7. CASE \E t \in T : T # {t} /\ JoinOf(q, T, t, all, m)
  <2>1. PICK t \in T : T # {t} /\ JoinOf(q, T, t, all, m)
    BY <1>7
  <2>2. PICK k : k = find_join_predicate(q, T \ {t}, t)
    OBVIOUS
  <2>3. PICK l \in all[T \ {t}], r \in all[{t}] : k # 0 /\ m \in ToSet(Operators(l, r, q[k]))
    BY <2>1, <2>2 DEF JoinOf
  <2>4. /\ T \ {t} \in NodeSets /\ Cardinality(T \ {t}) < Cardinality(T)
        /\ {t} \in NodeSets /\ Cardinality({t}) < Cardinality(T)
    BY <1>3, <2>1, OneLess, Sized
  <2>5. Covers(dp[T \ {t}], l) /\ Covers(dp[{t}], r)
    BY <1>3, <2>3, <2>4
  <2>6. PICK i \in DOMAIN dp[T \ {t}] : dp[T \ {t}][i].order = l.order /\ dp[T \ {t}][i].cost <= l.cost
    BY <2>5 DEF Covers
  <2>7. PICK j \in DOMAIN dp[{t}] : dp[{t}][j].order = r.order /\ dp[{t}][j].cost <= r.cost
    BY <2>5 DEF Covers
  <2>8. PICK ll, rr : ll = dp[T \ {t}][i] /\ rr = dp[{t}][j]
    OBVIOUS
  <2>9. ll \in ToSet(dp[T \ {t}]) /\ rr \in ToSet(dp[{t}])
    BY <2>6, <2>7, <2>8 DEF ToSet
  <2>10. ll \in all[T \ {t}] /\ rr \in all[{t}]
    BY <1>1, <2>4, <2>9 DEF Searched
  <2>11. all[T \ {t}] \subseteq Plans /\ all[{t}] \subseteq Plans
    BY <1>1, <2>4, AllPlansTyped DEF Query
  <2>12. ll.card = l.card /\ rr.card = r.card
    BY <1>1, <2>3, <2>4, <2>10 DEF Uniform
  <2>13. q[k] \in Predicates
    BY <2>2, <2>3, PredicateFound DEF Query
  <2>14. Indexed(r, q[k]) => Indexed(rr, q[k])
    <3>1. SUFFICES ASSUME Indexed(r, q[k]) PROVE Indexed(rr, q[k])
      OBVIOUS
    <3>2. rr.order = q[k].c2 /\ q[k].c2 \in Nat
      BY <2>7, <2>8, <2>13, <3>1 DEF Indexed, Predicates
    <3>3. rr.order # NO_ORDER
      BY <3>2 DEF NO_ORDER
    <3>4. t \in Tables
      BY <1>3, <2>1, Sized
    <3>5. rr.type = "Index_Scan"
      <4>1. rr \in AllPlans(ts, q)[{t}]
        BY <1>1, <2>10
      <4> QED
        BY <3>3, <3>4, <4>1, SinglePlans
    <3> QED
      BY <3>2, <3>5 DEF Indexed
  <2>15. l \in Plans /\ r \in Plans /\ ll \in Plans /\ rr \in Plans
    BY <2>3, <2>10, <2>11
  <2>16. ll.order = l.order /\ ll.cost <= l.cost /\ rr.cost <= r.cost
    BY <2>6, <2>7, <2>8
  <2>17. PICK x \in ToSet(Operators(ll, rr, q[k])) : x.order = m.order /\ x.cost <= m.cost
    BY <2>3, <2>12, <2>13, <2>14, <2>15, <2>16, SameWay
  <2>18. x \in Offered(ts, q, dp, T, t)
    BY <2>1, <2>2, <2>3, <2>9, <2>17, JoinsOffered
  <2>19. Covers(dp[T], x)
    BY <1>3, <2>1, <2>18, AllTaken
  <2>20. PICK n \in DOMAIN dp[T] : dp[T][n].order = x.order /\ dp[T][n].cost <= x.cost
    BY <2>19 DEF Covers
  <2>21. dp[T][n].cost \in Nat /\ x.cost \in Nat /\ m.cost \in Nat
    <3>1. dp[T] \in Seq(Plans)
      BY <1>3 DEF Searched
    <3>2. dp[T][n] \in Plans
      BY <2>20, <3>1, ElementIn
    <3>3. m \in Plans
      BY <1>1, <1>3, <1>4, AllPlansTyped DEF Query
    <3>4. x \in Plans
      <4>1. Operators(ll, rr, q[k]) \in Seq(Plans)
        BY <2>13, <2>15, OperatorsTried
      <4> QED
        BY <2>17, <4>1, ElementIn DEF ToSet
    <3> QED
      BY <3>2, <3>3, <3>4 DEF Plans
  <2>22. dp[T][n].order = m.order /\ dp[T][n].cost <= m.cost
    BY <2>17, <2>20, <2>21
  <2> QED
    BY <1>4, <2>20, <2>22 DEF Covers
<1> QED
  BY <1>3, <1>5, <1>6, <1>7, WaysToJoin

LEMMA SelNothingLost ==
  ASSUME SelInv
  PROVE  NothingLost
<1>1. SUFFICES ASSUME result.done, Uniform(AllPlans(tables, joins)), NEW S \in NodeSets,
                      NEW p \in AllPlans(tables, joins)[S]
               PROVE  \E i \in DOMAIN dp_table[S] : dp_table[S][i].order = p.order /\ dp_table[S][i].cost <= p.cost
  BY DEF NothingLost
<1>2. Query(tables, joins) /\ Searched(tables, joins, {}, dp_table)
  BY <1>1 DEF SelInv
<1>3. Covers(dp_table[S], p)
  BY <1>1, <1>2, AllCovered
<1> QED
  BY <1>3 DEF Covers

(* However many tables, indexes and predicates: where the order of joining  *)
(* does not change the estimates, no left-deep plan is cheaper than one the *)
(* pruning kept with its order.                                             *)
THEOREM PruningLosesNothing == Spec => []NothingLost
<1>1. SelInv => NothingLost
  BY SelNothingLost
<1> QED
  BY <1>1, SelInductive, PTL

-----------------------------------------------------------------------------
(* The plan that is returned.                                               *)

LEMMA CheapestIs ==
  ASSUME NEW plans \in Seq(Plans), NEW I \in SUBSET DOMAIN plans, I # {}
  PROVE  \E i \in I : /\ Cheapest(plans, I) = plans[i]
                      /\ \A j \in I : plans[i].cost <= plans[j].cost
<1> DEFINE least == {i \in I : \A j \in I : plans[i].cost <= plans[j].cost}
           costs == {plans[i].cost : i \in I}
<1>1. \A i \in I : plans[i].cost \in Nat
  <2>1. \A i \in I : plans[i] \in Plans
    BY ElementIn
  <2> QED
    BY <2>1 DEF Plans
<1>2. costs \in SUBSET Nat /\ costs # {}
  BY <1>1
<1>3. PICK c \in costs : \A d \in costs : c <= d
  BY <1>2, LeastNat
<1>4. least # {} /\ least \in SUBSET Nat
  <2>1. PICK i \in I : c = plans[i].cost
    BY <1>3
  <2>2. \A j \in I : plans[j].cost \in costs
    OBVIOUS
  <2>3. \A j \in I : plans[i].cost <= plans[j].cost
    BY <1>3, <2>1, <2>2
  <2>4. I \in SUBSET Nat
    OBVIOUS
  <2> QED
    BY <2>1, <2>3, <2>4
<1>5. Min(least) \in least
  BY <1>4, LeastIndex
<1>6. Cheapest(plans, I) = plans[Min(least)]
  BY DEF Cheapest
<1> QED
  BY <1>5, <1>6

(* Where there is a plan, one was kept.                                     *)
LEMMA NoneMissing ==
  ASSUME NEW ts, NEW q, Query(ts, q), NEW dp, Searched(ts, q, {}, dp), NEW S \in NodeSets
  PROVE  dp[S] # <<>> <=> AllPlans(ts, q)[S] # {}
<1>1. PICK all : all = AllPlans(ts, q)
  OBVIOUS
<1>2. ASSUME NEW T \in NodeSets, dp[T] # <<>> PROVE all[T] # {} /\ ToSet(dp[T]) # {}
  <2>1. dp[T] \in Seq(Plans)
    BY DEF Searched
  <2>2. 1 \in DOMAIN dp[T]
    BY <1>2, <2>1
  <2>3. dp[T][1] \in ToSet(dp[T])
    BY <2>2 DEF ToSet
  <2>4. dp[T][1] \in all[T]
    BY <1>1, <2>3 DEF Searched
  <2> QED
    BY <2>3, <2>4
<1> DEFINE Bad == {T \in NodeSets : all[T] # {} /\ dp[T] = <<>>}
<1>3. ASSUME Bad # {} PROVE FALSE
  <2>1. PICK T \in Bad : \A U \in NodeSets : Cardinality(U) < Cardinality(T) => U \notin Bad
    BY <1>3, LeastSet
  <2>2. \A m : ~ Covers(dp[T], m)
    BY <2>1 DEF Covers
  <2>3. PICK m : m \in all[T]
    BY <2>1
  <2>4. m \in PlansFor(ts, q, T, all)
    BY <1>1, <2>1, <2>3, AllPlansAre
  <2>5. CASE \E t \in Tables : T = {t} /\ m \in ToSet(AccessPaths(t, ts[t]))
    <3>1. PICK t \in Tables : T = {t} /\ m \in ToSet(AccessPaths(t, ts[t]))
      BY <2>5
    <3>2. m \in Offered(ts, q, dp, T, t) /\ t \in T
      BY <3>1 DEF Offered
    <3> QED
      BY <2>1, <2>2, <3>2, AllTaken
  <2>6. CASE \E t \in T : T # {t} /\ JoinOf(q, T, t, all, m)
    <3>1. PICK t \in T : T # {t} /\ JoinOf(q, T, t, all, m)
      BY <2>6
    <3>2. PICK k : k = find_join_predicate(q, T \ {t}, t)
      OBVIOUS
    <3>3. k # 0 /\ all[T \ {t}] # {} /\ all[{t}] # {}
      BY <3>1, <3>2 DEF JoinOf
    <3>4. /\ T \ {t} \in NodeSets /\ Cardinality(T \ {t}) < Cardinality(T)
          /\ {t} \in NodeSets /\ Cardinality({t}) < Cardinality(T)
      <4>1. T \in NodeSets
        BY <2>1
      <4> QED
        BY <3>1, <4>1, Smaller
    <3>5. dp[T \ {t}] # <<>> /\ dp[{t}] # <<>>
      BY <2>1, <3>3, <3>4
    <3>6. PICK l \in ToSet(dp[T \ {t}]), r \in ToSet(dp[{t}]) : TRUE
      BY <1>2, <3>4, <3>5
    <3>7. l \in Plans /\ r \in Plans
      <4>1. dp[T \ {t}] \in Seq(Plans) /\ dp[{t}] \in Seq(Plans)
        BY <3>4 DEF Searched
      <4> QED
        BY <3>6, <4>1, ElementIn DEF ToSet
    <3>8. q[k] \in Predicates
      BY <3>2, <3>3, PredicateFound DEF Query
    <3>9. HashJoin(l, r, q[k]) \in ToSet(Operators(l, r, q[k]))
      BY <3>7, <3>8, OperatorsTried
    <3>10. HashJoin(l, r, q[k]) \in Offered(ts, q, dp, T, t)
      BY <3>1, <3>2, <3>3, <3>6, <3>9, JoinsOffered
    <3> QED
      BY <2>1, <2>2, <3>1, <3>10, AllTaken
  <2> QED
    BY <2>1, <2>4, <2>5, <2>6, WaysToJoin
<1>4. Bad = {}
  <2> HIDE DEF Bad
  <2> QED
    BY <1>3
<1> QED
  BY <1>1, <1>2, <1>4

(* Predicate k has one side in P.                                           *)
Crosses(q, P, k) == q[k].t1 \in P <=> q[k].t2 \notin P

(* A plan joins its tables by predicates among them.                        *)
LEMMA PlansConnect ==
  ASSUME NEW ts, NEW q, Query(ts, q), NEW S \in NodeSets, AllPlans(ts, q)[S] # {},
         NEW P \in SUBSET S, P # {}, P # S
  PROVE  \E k \in DOMAIN q : q[k].t1 \in S /\ q[k].t2 \in S /\ Crosses(q, P, k)
<1>1. PICK all : all = AllPlans(ts, q)
  OBVIOUS
<1> DEFINE Held(T, X) == \E k \in DOMAIN q : q[k].t1 \in T /\ q[k].t2 \in T /\ Crosses(q, X, k)
           Bad == {T \in NodeSets : all[T] # {} /\ \E X \in SUBSET T : X # {} /\ X # T /\ ~ Held(T, X)}
<1>2. SUFFICES ASSUME Bad # {} PROVE FALSE
  BY <1>1
<1>3. PICK T \in Bad : \A U \in NodeSets : Cardinality(U) < Cardinality(T) => U \notin Bad
  BY <1>2, LeastSet
<1>4. PICK X \in SUBSET T : X # {} /\ X # T /\ ~ Held(T, X)
  BY <1>3
<1>5. PICK m : m \in all[T]
  BY <1>3
<1>6. m \in PlansFor(ts, q, T, all)
  BY <1>1, <1>3, <1>5, AllPlansAre
<1>7. PICK t \in T : T # {t} /\ JoinOf(q, T, t, all, m)
  <2>1. \A u \in Tables : T # {u}
    BY <1>4
  <2> QED
    BY <1>3, <1>6, <2>1, WaysToJoin
<1>8. PICK k : k = find_join_predicate(q, T \ {t}, t)
  OBVIOUS
<1>9. k # 0 /\ all[T \ {t}] # {}
  BY <1>7, <1>8 DEF JoinOf
<1>10. /\ k \in DOMAIN q
       /\ \/ q[k].t1 \in T \ {t} /\ q[k].t2 = t
          \/ q[k].t2 \in T \ {t} /\ q[k].t1 = t
  BY <1>8, <1>9, PredicateFound DEF Query
<1>11. T \ {t} \in NodeSets /\ Cardinality(T \ {t}) < Cardinality(T)
  <2>1. T \in NodeSets
    BY <1>3
  <2> QED
    BY <1>7, <2>1, Smaller
<1>12. CASE X \cap (T \ {t}) = {} \/ X \cap (T \ {t}) = T \ {t}
  <2>1. X = {t} \/ X = T \ {t}
    BY <1>4, <1>12
  <2>2. Crosses(q, X, k) /\ q[k].t1 \in T /\ q[k].t2 \in T
    BY <1>10, <2>1 DEF Crosses
  <2> QED
    BY <1>4, <1>10, <2>2
<1>13. CASE X \cap (T \ {t}) # {} /\ X \cap (T \ {t}) # T \ {t}
  <2>1. PICK Y : Y = X \cap (T \ {t})
    OBVIOUS
  <2>2. Held(T \ {t}, Y)
    BY <1>3, <1>9, <1>11, <1>13, <2>1
  <2>3. PICK j \in DOMAIN q : q[j].t1 \in T \ {t} /\ q[j].t2 \in T \ {t} /\ Crosses(q, Y, j)
    BY <2>2
  <2>4. Crosses(q, X, j)
    BY <2>1, <2>3 DEF Crosses
  <2> QED
    BY <1>4, <2>3, <2>4
<1> QED
  BY <1>12, <1>13

(* A plan of P can be joined with a table a predicate leads to.             *)
LEMMA PlansGrow ==
  ASSUME NEW ts, NEW q, Query(ts, q), NEW P \in NodeSets, AllPlans(ts, q)[P] # {},
         NEW t \in Tables, t \notin P, NEW k \in DOMAIN q,
         \/ q[k].t1 \in P /\ q[k].t2 = t
         \/ q[k].t2 \in P /\ q[k].t1 = t
  PROVE  P \cup {t} \in NodeSets /\ AllPlans(ts, q)[P \cup {t}] # {}
<1>1. PICK all : all = AllPlans(ts, q)
  OBVIOUS
<1>2. PICK S : S = P \cup {t}
  OBVIOUS
<1>3. S \in NodeSets /\ S \ {t} = P /\ t \in S /\ S # {t} /\ {t} \in NodeSets
  BY <1>2 DEF NodeSets
<1>4. PICK n : n = find_join_predicate(q, S \ {t}, t)
  OBVIOUS
<1>5. n # 0 /\ q[n] \in Predicates
  BY <1>3, <1>4, PredicateFound DEF Query
<1>6. PICK l : l \in all[P]
  BY <1>1
<1>7. PICK r : r \in all[{t}]
  <2>1. ts[t] \in TableRecs
    BY DEF Query
  <2>2. 1 \in DOMAIN AccessPaths(t, ts[t])
    BY <2>1 DEF AccessPaths, TableRecs
  <2>3. AccessPaths(t, ts[t])[1] \in ToSet(AccessPaths(t, ts[t]))
    BY <2>2 DEF ToSet
  <2>4. AccessPaths(t, ts[t])[1] \in PlansFor(ts, q, {t}, all)
    BY <1>3, <2>3, WaysToJoin
  <2> QED
    BY <1>1, <1>3, <2>4, AllPlansAre
<1>8. l \in Plans /\ r \in Plans
  BY <1>1, <1>3, <1>6, <1>7, AllPlansTyped DEF Query
<1>9. HashJoin(l, r, q[n]) \in ToSet(Operators(l, r, q[n]))
  BY <1>5, <1>8, OperatorsTried
<1>10. JoinOf(q, S, t, all, HashJoin(l, r, q[n]))
  BY <1>3, <1>4, <1>5, <1>6, <1>7, <1>9 DEF JoinOf
<1>11. HashJoin(l, r, q[n]) \in PlansFor(ts, q, S, all)
  BY <1>3, <1>10, WaysToJoin
<1>12. HashJoin(l, r, q[n]) \in all[S]
  BY <1>1, <1>3, <1>11, AllPlansAre
<1> QED
  BY <1>1, <1>2, <1>3, <1>12

LEMMA PlanIfConnected ==
  ASSUME NEW ts, NEW q, Query(ts, q),
         \A P \in NodeSets \ {Tables} : \E k \in DOMAIN q : Crosses(q, P, k)
  PROVE  AllPlans(ts, q)[Tables] # {}
<1>1. PICK all : all = AllPlans(ts, q)
  OBVIOUS
<1> DEFINE Good == {P \in NodeSets : all[P] # {}}
           missing == {NumTables - Cardinality(P) : P \in Good}
<1>2. ASSUME NEW P \in NodeSets PROVE NumTables - Cardinality(P) \in Nat
  BY Sized, TablesFinite
<1>3. missing \in SUBSET Nat
  BY <1>2
<1>4. {0} \in Good
  <2>1. 0 \in Tables /\ {0} \in NodeSets
    BY TablesFinite DEF Tables, NodeSets
  <2>2. ts[0] \in TableRecs
    BY <2>1 DEF Query
  <2>3. 1 \in DOMAIN AccessPaths(0, ts[0])
    BY <2>2 DEF AccessPaths, TableRecs
  <2>4. AccessPaths(0, ts[0])[1] \in ToSet(AccessPaths(0, ts[0]))
    BY <2>3 DEF ToSet
  <2>5. AccessPaths(0, ts[0])[1] \in PlansFor(ts, q, {0}, all)
    BY <2>1, <2>4, WaysToJoin
  <2> QED
    BY <1>1, <2>1, <2>5, AllPlansAre
<1>5. PICK c \in missing : \A d \in missing : c <= d
  <2>1. missing # {}
    BY <1>4
  <2> HIDE DEF missing
  <2> QED
    BY <1>3, <2>1, LeastNat
<1>6. PICK P \in Good : c = NumTables - Cardinality(P)
  BY <1>5
<1>7. SUFFICES ASSUME P # Tables PROVE FALSE
  BY <1>1, <1>6
<1>8. PICK k \in DOMAIN q : Crosses(q, P, k)
  BY <1>6, <1>7
<1>9. q[k] \in Predicates
  BY <1>8, ElementIn DEF Query
<1>10. q[k].t1 \in Tables /\ q[k].t2 \in Tables
  BY <1>9 DEF Predicates
<1>11. PICK t \in Tables : /\ t \notin P
                           /\ \/ q[k].t1 \in P /\ q[k].t2 = t
                              \/ q[k].t2 \in P /\ q[k].t1 = t
  BY <1>8, <1>10 DEF Crosses
<1>12. P \cup {t} \in Good
  BY <1>1, <1>6, <1>8, <1>11, PlansGrow
<1>13. Cardinality(P \cup {t}) = Cardinality(P) + 1
  BY <1>6, <1>11, Sized, FS_AddElement
<1>14. c <= NumTables - Cardinality(P \cup {t})
  BY <1>5, <1>12
<1>15. Cardinality(P) \in Nat /\ NumTables \in Nat
  BY <1>6, Sized, TablesFinite
<1> QED
  BY <1>6, <1>13, <1>14, <1>15

LEMMA BestIs ==
  ASSUME NEW plans \in Seq(Plans), plans # <<>>, NEW required \in {NO_ORDER, 0},
         NEW best, best = BestPlan(plans, required)
  PROVE  \E i \in DOMAIN plans :
           /\ \A j \in DOMAIN plans : plans[i].cost <= plans[j].cost
           /\ required = NO_ORDER => best = plans[i]
           /\ required # NO_ORDER =>
                /\ best.cost <= plans[i].cost + SortCost(plans[i].card)
                /\ \A j \in DOMAIN plans : plans[j].order = required => best.cost <= plans[j].cost
<1>1. DOMAIN plans # {} /\ \A j \in DOMAIN plans : plans[j].cost \in Nat /\ plans[j].card \in Int
  <2>1. \A j \in DOMAIN plans : plans[j] \in Plans
    BY ElementIn
  <2> QED
    BY <2>1 DEF Plans
<1>2. PICK i \in DOMAIN plans : /\ Cheapest(plans, DOMAIN plans) = plans[i]
                                /\ \A j \in DOMAIN plans : plans[i].cost <= plans[j].cost
  BY <1>1, CheapestIs
<1>3. PICK ordered : ordered = {j \in DOMAIN plans : plans[j].order = required}
  OBVIOUS
<1>4. PICK sort : sort = WithSort(plans[i], required)
  OBVIOUS
<1>5. sort.cost = plans[i].cost + SortCost(plans[i].card)
  BY <1>4, PlanParts DEF WithSort
<1>6. best = IF required = NO_ORDER THEN plans[i]
             ELSE IF ordered # {} /\ Cheapest(plans, ordered).cost <= sort.cost THEN Cheapest(plans, ordered)
             ELSE sort
  BY <1>2, <1>3, <1>4 DEF BestPlan
<1>7. sort.cost \in Int
  <2>1. plans[i].card \in Int /\ plans[i].cost \in Nat
    BY <1>1
  <2>2. PICK e \in Int, a \in Nat : e = plans[i].card /\ a = Amount(e)
    BY <2>1, Constants
  <2>3. SortCost(e) = a * e * 10
    BY <2>2 DEF SortCost, SORT_FACTOR
  <2>4. a * e * 10 \in Int
    BY <2>2
  <2> QED
    BY <1>5, <2>1, <2>2, <2>3, <2>4
<1>8. ASSUME required # NO_ORDER
      PROVE  /\ best.cost <= sort.cost
             /\ \A j \in ordered : best.cost <= plans[j].cost
  <2>1. CASE ordered = {}
    BY <1>6, <1>7, <1>8, <2>1
  <2>2. CASE ordered # {}
    <3>1. PICK o \in ordered : /\ Cheapest(plans, ordered) = plans[o]
                               /\ \A j \in ordered : plans[o].cost <= plans[j].cost
      BY <1>3, <2>2, CheapestIs
    <3>2. plans[o].cost \in Nat /\ \A j \in ordered : plans[j].cost \in Nat
      BY <1>1, <1>3, <3>1
    <3>3. best = IF plans[o].cost <= sort.cost THEN plans[o] ELSE sort
      BY <1>6, <1>8, <2>2, <3>1
    <3> QED
      BY <1>7, <3>1, <3>2, <3>3
  <2> QED
    BY <2>1, <2>2
<1> QED
  BY <1>2, <1>3, <1>5, <1>6, <1>8

LEMMA SelBestReturned ==
  ASSUME SelInv
  PROVE  BestReturned
<1>1. SUFFICES ASSUME result.done PROVE BestReturned
  BY DEF BestReturned
<1>2. Query(tables, joins) /\ Searched(tables, joins, {}, dp_table)
  BY <1>1 DEF SelInv
<1>3. PICK all : all = AllPlans(tables, joins)
  OBVIOUS
<1>4. PICK plans : plans = dp_table[Tables]
  OBVIOUS
<1>5. plans \in Seq(Plans) /\ ToSet(plans) \subseteq all[Tables]
  BY <1>2, <1>3, <1>4, TablesFinite DEF Searched
<1>6. result.plan = IF plans = <<>> THEN <<>> ELSE <<BestPlan(plans, result.required)>>
  BY <1>1, <1>4 DEF SelInv
<1>7. result.plan # <<>> <=> plans # <<>>
  BY <1>6
<1>8. plans # <<>> <=> all[Tables] # {}
  BY <1>2, <1>3, <1>4, NoneMissing, TablesFinite
<1>9. all[Tables] # {} <=> ConnectedQuery
  <2>1. ASSUME all[Tables] # {} PROVE ConnectedQuery
    <3>1. ASSUME NEW P \in NodeSets \ {Tables} PROVE \E k \in DOMAIN joins : Crosses(joins, P, k)
      <4>1. P \in SUBSET Tables /\ P # {} /\ P # Tables
        BY DEF NodeSets
      <4> QED
        BY <1>2, <1>3, <2>1, <4>1, PlansConnect, TablesFinite
    <3> QED
      BY <3>1 DEF ConnectedQuery, Crosses
  <2>2. ASSUME ConnectedQuery PROVE all[Tables] # {}
    <3>1. \A P \in NodeSets \ {Tables} : \E k \in DOMAIN joins : Crosses(joins, P, k)
      BY <2>2 DEF ConnectedQuery, Crosses
    <3> QED
      BY <1>2, <1>3, <3>1, PlanIfConnected
  <2> QED
    BY <2>1, <2>2
<1>10. ASSUME Uniform(all), NEW p \in all[Tables]
       PROVE  /\ result.required \in {NO_ORDER, p.order} => result.plan[1].cost <= p.cost
              /\ result.required # NO_ORDER => result.plan[1].cost <= p.cost + SortCost(p.card)
  <2>1. Covers(plans, p)
    BY <1>2, <1>3, <1>4, <1>10, AllCovered, TablesFinite
  <2>2. PICK n \in DOMAIN plans : plans[n].order = p.order /\ plans[n].cost <= p.cost
    BY <2>1 DEF Covers
  <2>3. PICK best : best = BestPlan(plans, result.required)
    OBVIOUS
  <2>4. result.plan[1] = best /\ plans # <<>>
    BY <1>6, <1>8, <1>10, <2>3
  <2>5. result.required \in {NO_ORDER, 0}
    BY DEF SelInv
  <2>6. PICK i \in DOMAIN plans :
           /\ \A j \in DOMAIN plans : plans[i].cost <= plans[j].cost
           /\ result.required = NO_ORDER => best = plans[i]
           /\ result.required # NO_ORDER =>
                /\ best.cost <= plans[i].cost + SortCost(plans[i].card)
                /\ \A j \in DOMAIN plans : plans[j].order = result.required => best.cost <= plans[j].cost
    BY <1>5, <2>3, <2>4, <2>5, BestIs
  <2>7. plans[i] \in all[Tables] /\ plans[i] \in Plans /\ plans[n] \in Plans
    BY <1>5, <2>2, <2>6, ElementIn DEF ToSet
  <2>8. plans[i].card = p.card
    BY <1>10, <2>7, TablesFinite DEF Uniform
  <2>9. p \in Plans
    BY <1>2, <1>3, <1>10, AllPlansTyped, TablesFinite DEF Query
  <2>10. plans[i].cost \in Nat /\ plans[n].cost \in Nat /\ p.cost \in Nat /\ plans[i].cost <= p.cost
    BY <2>2, <2>6, <2>7, <2>9 DEF Plans
  <2>11. SortCost(p.card) \in Int
    <3>1. PICK e \in Int, a \in Nat : e = p.card /\ a = Amount(e)
      BY <2>9, Constants DEF Plans
    <3>2. SortCost(e) = a * e * 10 /\ a * e * 10 \in Int
      BY <3>1 DEF SortCost, SORT_FACTOR
    <3> QED
      BY <3>1, <3>2
  <2>12. CASE result.required = NO_ORDER
    BY <2>4, <2>6, <2>10, <2>12
  <2>13. CASE result.required # NO_ORDER
    <3>1. best.cost \in Int
      <4>1. PICK o : o = {j \in DOMAIN plans : plans[j].order = result.required}
        OBVIOUS
      <4>2. (best = Cheapest(plans, o) /\ o # {}) \/ best = WithSort(Cheapest(plans, DOMAIN plans), result.required)
        BY <2>3, <2>13, <4>1 DEF BestPlan
      <4>3. CASE best = Cheapest(plans, o) /\ o # {}
        <5>1. \E j \in o : best = plans[j]
          BY <1>5, <4>1, <4>3, CheapestIs
        <5>2. best \in Plans
          BY <1>5, <4>1, <5>1, ElementIn
        <5> QED
          BY <5>2 DEF Plans
      <4>4. CASE best = WithSort(Cheapest(plans, DOMAIN plans), result.required)
        <5>1. PICK j \in DOMAIN plans : Cheapest(plans, DOMAIN plans) = plans[j]
          BY <1>5, <2>6, CheapestIs
        <5>2. plans[j] \in Plans
          BY <1>5, <5>1, ElementIn
        <5>3. PICK e \in Int, a \in Nat : e = plans[j].card /\ a = Amount(e)
          BY <5>2, Constants DEF Plans
        <5>4. SortCost(e) = a * e * 10 /\ a * e * 10 \in Int
          BY <5>3 DEF SortCost, SORT_FACTOR
        <5>5. best.cost = plans[j].cost + SortCost(e)
          BY <4>4, <5>1, <5>3, PlanParts DEF WithSort
        <5>6. plans[j].cost \in Nat
          BY <5>2 DEF Plans
        <5> QED
          BY <5>4, <5>5, <5>6
      <4> QED
        BY <4>2, <4>3, <4>4
    <3>2. best.cost <= plans[i].cost + SortCost(p.card)
      BY <2>6, <2>8, <2>13
    <3>3. best.cost <= p.cost + SortCost(p.card)
      BY <2>10, <2>11, <3>1, <3>2
    <3>4. result.required = p.order => best.cost <= p.cost
      BY <2>2, <2>6, <2>10, <2>13, <3>1
    <3> QED
      BY <2>4, <2>13, <3>3, <3>4
  <2> QED
    BY <2>12, <2>13
<1> QED
  BY <1>1, <1>3, <1>7, <1>8, <1>9, <1>10 DEF BestReturned

(* A plan is returned exactly when the predicates connect the tables, and   *)
(* where the order of joining does not change the estimates, none is cheaper*)
(* for the order asked for, with or without a sort.                         *)
THEOREM CheapestReturned == Spec => []BestReturned
<1>1. SelInv => BestReturned
  BY SelBestReturned
<1> QED
  BY <1>1, SelInductive, PTL

-----------------------------------------------------------------------------
(* The order of the rows.  With one predicate fewer than there are tables,  *)
(* every predicate is the one some join was made by.                        *)

Inside(q, S) == {k \in DOMAIN q : q[k].t1 \in S /\ q[k].t2 \in S}

LEMMA InsideFinite ==
  ASSUME NEW q \in Seq(Predicates), NEW S
  PROVE  IsFiniteSet(Inside(q, S)) /\ Cardinality(Inside(q, S)) \in Nat
<1>1. DOMAIN q = 1 .. Len(q) /\ Len(q) \in Nat
  OBVIOUS
<1>2. IsFiniteSet(DOMAIN q)
  BY <1>1, FS_Interval
<1>3. Inside(q, S) \in SUBSET DOMAIN q
  BY DEF Inside
<1> QED
  BY <1>2, <1>3, FS_Subset, FS_CardinalityType

(* The predicate of a join is inside the set, and not inside the rest.      *)
LEMMA InsideMore ==
  ASSUME NEW q \in Seq(Predicates), NEW S, NEW t \in S, NEW k \in DOMAIN q,
         \/ q[k].t1 \in S \ {t} /\ q[k].t2 = t
         \/ q[k].t2 \in S \ {t} /\ q[k].t1 = t
  PROVE  /\ k \in Inside(q, S) /\ Inside(q, S \ {t}) \subseteq Inside(q, S) \ {k}
         /\ Cardinality(Inside(q, S \ {t})) < Cardinality(Inside(q, S))
         /\ Cardinality(Inside(q, S \ {t})) = Cardinality(Inside(q, S)) - 1 =>
              Inside(q, S \ {t}) = Inside(q, S) \ {k}
<1>1. k \in Inside(q, S) /\ Inside(q, S \ {t}) \subseteq Inside(q, S) \ {k}
  BY DEF Inside
<1>2. PICK A, B : A = Inside(q, S \ {t}) /\ B = Inside(q, S)
  OBVIOUS
<1>3. IsFiniteSet(B) /\ Cardinality(B) \in Nat /\ Cardinality(A) \in Nat
  BY <1>2, InsideFinite
<1>4. IsFiniteSet(B \ {k}) /\ Cardinality(B \ {k}) = Cardinality(B) - 1
  BY <1>1, <1>2, <1>3, FS_RemoveElement
<1>5. A \in SUBSET (B \ {k})
  BY <1>1, <1>2
<1>6. Cardinality(A) <= Cardinality(B \ {k}) /\ (Cardinality(B \ {k}) = Cardinality(A) => B \ {k} = A)
  BY <1>4, <1>5, FS_Subset
<1>7. Cardinality(A) < Cardinality(B)
  BY <1>3, <1>4, <1>6
<1>8. Cardinality(A) = Cardinality(B) - 1 => A = B \ {k}
  BY <1>4, <1>6
<1> QED
  BY <1>1, <1>2, <1>7, <1>8

(* p is a join by predicate k.                                              *)
JoinBy(q, S, t, all, p, k) ==
  /\ k \in DOMAIN q /\ q[k] \in Predicates
  /\ \/ q[k].t1 \in S \ {t} /\ q[k].t2 = t
     \/ q[k].t2 \in S \ {t} /\ q[k].t1 = t
  /\ \E l \in all[S \ {t}], r \in all[{t}] : p \in ToSet(Operators(l, r, q[k]))

LEMMA JoinPredicate ==
  ASSUME NEW ts, NEW q, Query(ts, q), NEW S \in NodeSets, NEW t \in S, S # {t}, NEW all, NEW p,
         JoinOf(q, S, t, all, p)
  PROVE  \E k : JoinBy(q, S, t, all, p, k)
<1>1. PICK k : k = find_join_predicate(q, S \ {t}, t)
  OBVIOUS
<1>2. k # 0 /\ \E l \in all[S \ {t}], r \in all[{t}] : p \in ToSet(Operators(l, r, q[k]))
  BY <1>1 DEF JoinOf
<1>3. /\ k \in DOMAIN q /\ q[k] \in Predicates
      /\ \/ q[k].t1 \in S \ {t} /\ q[k].t2 = t
         \/ q[k].t2 \in S \ {t} /\ q[k].t1 = t
  BY <1>1, <1>2, PredicateFound DEF Query
<1> QED
  BY <1>2, <1>3 DEF JoinBy

LEMMA InsideEnough ==
  ASSUME NEW ts, NEW q, Query(ts, q), NEW S \in NodeSets, AllPlans(ts, q)[S] # {}
  PROVE  Cardinality(S) <= Cardinality(Inside(q, S)) + 1
<1>1. PICK all : all = AllPlans(ts, q)
  OBVIOUS
<1> DEFINE Bad == {T \in NodeSets : all[T] # {} /\ ~ Cardinality(T) <= Cardinality(Inside(q, T)) + 1}
<1>2. SUFFICES ASSUME Bad # {} PROVE FALSE
  BY <1>1
<1>3. PICK T \in Bad : \A U \in NodeSets : Cardinality(U) < Cardinality(T) => U \notin Bad
  BY <1>2, LeastSet
<1>4. T \in NodeSets /\ ~ Cardinality(T) <= Cardinality(Inside(q, T)) + 1 /\ all[T] # {}
  BY <1>3
<1>5. PICK m : m \in all[T]
  BY <1>4
<1>6. m \in PlansFor(ts, q, T, all)
  BY <1>1, <1>4, <1>5, AllPlansAre
<1>7. Cardinality(Inside(q, T)) \in Nat /\ Cardinality(T) \in Nat
  BY <1>4, InsideFinite, Sized DEF Query
<1>8. PICK t \in T : T # {t} /\ JoinOf(q, T, t, all, m)
  <2>1. Cardinality(T) # 1
    BY <1>4, <1>7
  <2>2. \A u \in Tables : T # {u}
    BY <2>1, FS_Singleton
  <2> QED
    BY <1>4, <1>6, <2>2, WaysToJoin
<1>9. PICK k : JoinBy(q, T, t, all, m, k)
  <2>1. T \in NodeSets
    BY <1>4
  <2> QED
    BY <1>8, <2>1, JoinPredicate
<1>10. Cardinality(Inside(q, T \ {t})) < Cardinality(Inside(q, T))
  BY <1>8, <1>9, InsideMore DEF Query, JoinBy
<1>11. T \ {t} \in NodeSets /\ Cardinality(T \ {t}) = Cardinality(T) - 1 /\ Cardinality(T \ {t}) < Cardinality(T)
  <2>1. T \in NodeSets
    BY <1>4
  <2>2. T \ {t} \in NodeSets /\ Cardinality(T \ {t}) = Cardinality(T) - 1
    BY <1>8, <2>1, OneLess
  <2> QED
    BY <1>7, <2>2
<1>12. Cardinality(T \ {t}) <= Cardinality(Inside(q, T \ {t})) + 1
  <2>1. all[T \ {t}] # {}
    BY <1>9 DEF JoinBy
  <2> QED
    BY <1>3, <1>11, <2>1
<1>13. Cardinality(Inside(q, T \ {t})) \in Nat
  BY InsideFinite DEF Query
<1> QED
  BY <1>4, <1>7, <1>10, <1>11, <1>12, <1>13

(* What the rows of a plan of S are in the order of, where no predicate     *)
(* among its tables is without a join.                                      *)
Left(jp) == <<jp.t1, jp.c1>>
Right(jp) == <<jp.t2, jp.c2>>
Follow(q, K, sorted) == \A k \in K : Left(q[k]) \in sorted <=> Right(q[k]) \in sorted
Ordered(ts, q, S, p) ==
  /\ \A x \in p.sorted : x[1] \in S
  /\ p.order # NO_ORDER =>
       /\ \E i \in S : /\ \E k \in DOMAIN ts[i].indexes : ts[i].indexes[k].col = p.order
                       /\ <<i, p.order>> \in p.sorted
       /\ Follow(q, Inside(q, S), p.sorted)

LEMMA CarriedFollows ==
  ASSUME NEW q \in Seq(Predicates), NEW S, NEW t \in S, NEW k \in DOMAIN q, NEW sorted,
         \/ q[k].t1 \in S \ {t} /\ q[k].t2 = t
         \/ q[k].t2 \in S \ {t} /\ q[k].t1 = t,
         \A x \in sorted : x[1] \in S \ {t},
         Inside(q, S \ {t}) = Inside(q, S) \ {k}, Follow(q, Inside(q, S \ {t}), sorted)
  PROVE  Follow(q, Inside(q, S), Carried(sorted, q[k]))
<1>1. PICK a, b : a = Left(q[k]) /\ b = Right(q[k])
  OBVIOUS
<1>2. PICK new : new = Carried(sorted, q[k])
  OBVIOUS
<1>3. new = IF sorted \cap {a, b} = {} THEN sorted ELSE sorted \cup {a, b}
  BY <1>1, <1>2 DEF Carried, Left, Right
<1>4. (a[1] = t /\ a \notin sorted) \/ (b[1] = t /\ b \notin sorted)
  BY <1>1 DEF Left, Right
<1>5. \A x : x[1] # t => (x \in new <=> x \in sorted)
  BY <1>3, <1>4
<1>6. ASSUME NEW j \in Inside(q, S) PROVE Left(q[j]) \in new <=> Right(q[j]) \in new
  <2>1. CASE j = k
    BY <1>1, <1>3, <2>1
  <2>2. CASE j # k
    <3>1. j \in Inside(q, S \ {t})
      BY <2>2
    <3>2. Left(q[j])[1] # t /\ Right(q[j])[1] # t
      BY <3>1 DEF Inside, Left, Right
    <3>3. Left(q[j]) \in sorted <=> Right(q[j]) \in sorted
      BY <3>1 DEF Follow
    <3> QED
      BY <1>5, <3>2, <3>3
  <2> QED
    BY <2>1, <2>2
<1> QED
  BY <1>2, <1>6 DEF Follow

LEMMA JoinedParts ==
  ASSUME NEW l \in Plans, NEW r \in Plans, NEW jp \in Predicates, NEW p \in ToSet(Operators(l, r, jp))
  PROVE  \/ p.order = NO_ORDER /\ p.sorted = {}
         \/ p.order = l.order /\ p.sorted = Carried(l.sorted, jp)
<1>1. /\ HashJoin(l, r, jp).order = NO_ORDER /\ HashJoin(l, r, jp).sorted = {}
      /\ NestedLoopJoin(l, r, jp).order = l.order /\ NestedLoopJoin(l, r, jp).sorted = Carried(l.sorted, jp)
      /\ IndexJoin(l, r, jp).order = l.order /\ IndexJoin(l, r, jp).sorted = Carried(l.sorted, jp)
  BY PlanParts DEF HashJoin, NestedLoopJoin, IndexJoin
<1>2. PICK h, n, x : h = HashJoin(l, r, jp) /\ n = NestedLoopJoin(l, r, jp) /\ x = IndexJoin(l, r, jp)
  OBVIOUS
<1>3. p = h \/ p = n \/ p = x
  BY <1>2, OperatorsTried
<1>4. PICK w : w = Carried(l.sorted, jp)
  OBVIOUS
<1>5. /\ h.order = NO_ORDER /\ h.sorted = {} /\ n.order = l.order /\ n.sorted = w
      /\ x.order = l.order /\ x.sorted = w
  BY <1>1, <1>2, <1>4
<1> QED
  BY <1>3, <1>4, <1>5

LEMMA PlansOrdered ==
  ASSUME NEW ts, NEW q, Query(ts, q), NEW S \in NodeSets, Cardinality(Inside(q, S)) < Cardinality(S),
         NEW p \in AllPlans(ts, q)[S]
  PROVE  Ordered(ts, q, S, p)
<1>1. PICK all : all = AllPlans(ts, q)
  OBVIOUS
<1> DEFINE Bad == {T \in NodeSets : /\ Cardinality(Inside(q, T)) < Cardinality(T)
                                    /\ \E m \in all[T] : ~ Ordered(ts, q, T, m)}
<1>2. SUFFICES ASSUME Bad # {} PROVE FALSE
  BY <1>1
<1>3. PICK T \in Bad : \A U \in NodeSets : Cardinality(U) < Cardinality(T) => U \notin Bad
  BY <1>2, LeastSet
<1>4. T \in NodeSets /\ Cardinality(Inside(q, T)) < Cardinality(T)
  BY <1>3
<1>5. PICK m \in all[T] : ~ Ordered(ts, q, T, m)
  BY <1>3
<1>6. m \in PlansFor(ts, q, T, all)
  BY <1>1, <1>4, <1>5, AllPlansAre
<1>7. IsFiniteSet(Inside(q, T)) /\ Cardinality(Inside(q, T)) \in Nat /\ Cardinality(T) \in Nat
  BY <1>4, InsideFinite, Sized DEF Query
<1>8. CASE \E t \in Tables : T = {t} /\ m \in ToSet(AccessPaths(t, ts[t]))
  <2>1. PICK t \in Tables : T = {t}
    BY <1>8
  <2>2. Inside(q, T) = {}
    <3>1. Cardinality(T) = 1
      BY <2>1, FS_Singleton
    <3>2. Cardinality(Inside(q, T)) = 0
      BY <1>4, <1>7, <3>1
    <3> QED
      BY <1>7, <3>2, FS_EmptySet
  <2>3. Follow(q, Inside(q, T), m.sorted)
    BY <2>2 DEF Follow
  <2>4. m \in AllPlans(ts, q)[{t}]
    BY <1>1, <1>5, <2>1
  <2>5. CASE m = SeqScan(ts[t]) /\ m.order = NO_ORDER
    <3>1. m.sorted = {}
      BY <2>5, PlanParts DEF SeqScan
    <3> QED
      BY <1>5, <2>5, <3>1 DEF Ordered
  <2>6. CASE \E k \in DOMAIN ts[t].indexes :
               /\ m = IndexScan(t, ts[t], ts[t].indexes[k])
               /\ m.type = "Index_Scan" /\ m.order = ts[t].indexes[k].col
    <3>1. PICK k \in DOMAIN ts[t].indexes :
               m = IndexScan(t, ts[t], ts[t].indexes[k]) /\ m.order = ts[t].indexes[k].col
      BY <2>6
    <3>2. m.sorted = {<<t, m.order>>}
      <4>1. PICK x : x = ts[t].indexes[k]
        OBVIOUS
      <4>2. IndexScan(t, ts[t], x).sorted = {<<t, x.col>>}
        BY DEF IndexScan, Plan
      <4> QED
        BY <3>1, <4>1, <4>2
    <3>3. \A x \in m.sorted : x[1] \in T
      BY <2>1, <3>2
    <3>4. \E i \in T : (\E j \in DOMAIN ts[i].indexes : ts[i].indexes[j].col = m.order) /\ <<i, m.order>> \in m.sorted
      BY <2>1, <3>1, <3>2
    <3> QED
      BY <1>5, <2>3, <3>3, <3>4 DEF Ordered
  <2> QED
    BY <2>4, <2>5, <2>6, SinglePlans
<1>9. CASE \E t \in T : T # {t} /\ JoinOf(q, T, t, all, m)
  <2>1. PICK t \in T : T # {t} /\ JoinOf(q, T, t, all, m)
    BY <1>9
  <2>2. PICK k : JoinBy(q, T, t, all, m, k)
    BY <1>4, <2>1, JoinPredicate
  <2>3. /\ k \in DOMAIN q /\ q[k] \in Predicates
        /\ \/ q[k].t1 \in T \ {t} /\ q[k].t2 = t
           \/ q[k].t2 \in T \ {t} /\ q[k].t1 = t
    BY <2>2 DEF JoinBy
  <2>4. PICK l \in all[T \ {t}], r \in all[{t}] : m \in ToSet(Operators(l, r, q[k]))
    BY <2>2 DEF JoinBy
  <2>5. /\ T \ {t} \in NodeSets /\ {t} \in NodeSets
        /\ Cardinality(T \ {t}) = Cardinality(T) - 1 /\ Cardinality(T \ {t}) < Cardinality(T)
    <3>1. T \in NodeSets
      BY <1>4
    <3>2. T \ {t} \in NodeSets /\ {t} \in NodeSets /\ Cardinality(T \ {t}) = Cardinality(T) - 1
      BY <2>1, <3>1, OneLess
    <3> QED
      BY <1>7, <3>2
  <2>6. /\ Cardinality(Inside(q, T \ {t})) < Cardinality(Inside(q, T))
        /\ Cardinality(Inside(q, T \ {t})) = Cardinality(Inside(q, T)) - 1 =>
             Inside(q, T \ {t}) = Inside(q, T) \ {k}
    BY <2>1, <2>3, InsideMore DEF Query
  <2>7. Cardinality(Inside(q, T \ {t})) \in Nat
    BY InsideFinite DEF Query
  <2>8. Cardinality(T \ {t}) <= Cardinality(Inside(q, T \ {t})) + 1
    <3>1. AllPlans(ts, q)[T \ {t}] # {}
      BY <1>1, <2>4
    <3> QED
      BY <2>5, <3>1, InsideEnough
  <2>9. Inside(q, T \ {t}) = Inside(q, T) \ {k}
    <3>1. PICK a \in Nat, b \in Nat, c \in Nat :
            /\ a = Cardinality(Inside(q, T \ {t})) /\ b = Cardinality(Inside(q, T))
            /\ c = Cardinality(T)
      BY <1>7, <2>7
    <3>2. b < c /\ a < b /\ c - 1 <= a + 1
      BY <1>4, <2>5, <2>6, <2>8, <3>1
    <3>3. a = b - 1
      BY <3>2
    <3> QED
      BY <2>6, <3>1, <3>3
  <2>10. Ordered(ts, q, T \ {t}, l)
    <3>1. Cardinality(Inside(q, T \ {t})) < Cardinality(T \ {t})
      BY <1>4, <1>7, <2>5, <2>6, <2>7
    <3> QED
      BY <1>3, <2>4, <2>5, <3>1
  <2>11. l \in Plans /\ r \in Plans
    BY <1>1, <2>4, <2>5, AllPlansTyped DEF Query
  <2>12. CASE m.order = NO_ORDER /\ m.sorted = {}
    BY <1>5, <2>12 DEF Ordered
  <2>13. CASE m.order = l.order /\ m.sorted = Carried(l.sorted, q[k])
    <3>1. \A x \in l.sorted : x[1] \in T \ {t}
      BY <2>10 DEF Ordered
    <3>2. \A x \in m.sorted : x[1] \in T
      <4>1. \A x \in m.sorted : x \in l.sorted \/ x = <<q[k].t1, q[k].c1>> \/ x = <<q[k].t2, q[k].c2>>
        BY <2>13 DEF Carried
      <4>2. q[k].t1 \in T /\ q[k].t2 \in T
        BY <2>1, <2>3
      <4> QED
        BY <3>1, <4>1, <4>2
    <3>3. ASSUME m.order # NO_ORDER
          PROVE  /\ \E i \in T : /\ \E j \in DOMAIN ts[i].indexes : ts[i].indexes[j].col = m.order
                                 /\ <<i, m.order>> \in m.sorted
                 /\ Follow(q, Inside(q, T), m.sorted)
      <4>1. PICK i \in T \ {t} : /\ \E j \in DOMAIN ts[i].indexes : ts[i].indexes[j].col = l.order
                                 /\ <<i, l.order>> \in l.sorted
        BY <2>10, <2>13, <3>3 DEF Ordered
      <4>2. <<i, l.order>> \in m.sorted
        BY <2>13, <4>1 DEF Carried
      <4>3. Follow(q, Inside(q, T \ {t}), l.sorted)
        BY <2>10, <2>13, <3>3 DEF Ordered
      <4>4. Follow(q, Inside(q, T), Carried(l.sorted, q[k]))
        BY <2>1, <2>3, <2>9, <3>1, <4>3, CarriedFollows DEF Query
      <4> QED
        BY <2>13, <4>1, <4>2, <4>4
    <3> QED
      BY <1>5, <3>2, <3>3 DEF Ordered
  <2> QED
    BY <2>3, <2>4, <2>11, <2>12, <2>13, JoinedParts
<1> QED
  BY <1>4, <1>6, <1>8, <1>9, WaysToJoin

LEMMA SelDelivered ==
  ASSUME SelInv
  PROVE  Delivered
<1>1. SUFFICES ASSUME result.plan # <<>>, result.required # NO_ORDER, Len(joins) = NumTables - 1,
                      \A i \in Tables : \A k \in DOMAIN tables[i].indexes :
                        tables[i].indexes[k].col = result.required =>
                          Equated(<<0, result.required>>, <<i, result.required>>)
               PROVE  <<0, result.required>> \in result.plan[1].sorted
  BY DEF Delivered
<1>2. PICK order : order = result.required
  OBVIOUS
<1>3. PICK plans : plans = dp_table[Tables]
  OBVIOUS
<1>4. Query(tables, joins) /\ Searched(tables, joins, {}, dp_table)
  BY <1>1 DEF SelInv
<1>5. plans \in Seq(Plans) /\ ToSet(plans) \subseteq AllPlans(tables, joins)[Tables]
  BY <1>3, <1>4, TablesFinite DEF Searched
<1>6. plans # <<>> /\ result.plan = <<BestPlan(plans, order)>>
  BY <1>1, <1>2, <1>3 DEF SelInv
<1>7. PICK p : p = BestPlan(plans, order)
  OBVIOUS
<1>8. result.plan[1] = p
  BY <1>6, <1>7
<1>9. PICK o : o = {j \in DOMAIN plans : plans[j].order = order}
  OBVIOUS
<1>10. (p = Cheapest(plans, o) /\ o # {}) \/ p = WithSort(Cheapest(plans, DOMAIN plans), order)
  BY <1>1, <1>2, <1>7, <1>9 DEF BestPlan
<1>11. CASE p = WithSort(Cheapest(plans, DOMAIN plans), order)
  <2>1. p.sorted = {<<0, order>>}
    BY <1>11, PlanParts DEF WithSort
  <2> QED
    BY <1>2, <1>8, <2>1
<1>12. CASE p = Cheapest(plans, o) /\ o # {}
  <2>1. PICK j \in o : p = plans[j]
    BY <1>5, <1>9, <1>12, CheapestIs
  <2>2. p \in AllPlans(tables, joins)[Tables] /\ p.order = order
    BY <1>5, <1>9, <2>1 DEF ToSet
  <2>3. Inside(joins, Tables) = DOMAIN joins
    <3>1. \A k \in DOMAIN joins : joins[k] \in Predicates
      BY <1>4, ElementIn DEF Query
    <3> QED
      BY <3>1 DEF Inside, Predicates
  <2>4. Cardinality(Inside(joins, Tables)) < Cardinality(Tables)
    <3>1. DOMAIN joins = 1 .. Len(joins) /\ Len(joins) \in Nat
      BY <1>4 DEF Query
    <3>2. Cardinality(DOMAIN joins) = Len(joins)
      <4>1. Cardinality(1 .. Len(joins)) = IF 1 > Len(joins) THEN 0 ELSE Len(joins) - 1 + 1
        BY <3>1, FS_Interval
      <4> QED
        BY <3>1, <4>1
    <3> QED
      BY <1>1, <2>3, <3>2, TablesFinite
  <2>5. Ordered(tables, joins, Tables, p)
    BY <1>4, <2>2, <2>4, PlansOrdered, TablesFinite
  <2>6. PICK i \in Tables : /\ \E k \in DOMAIN tables[i].indexes : tables[i].indexes[k].col = order
                            /\ <<i, order>> \in p.sorted
    BY <1>1, <1>2, <2>2, <2>5 DEF Ordered
  <2>7. Follow(joins, DOMAIN joins, p.sorted)
    BY <1>1, <1>2, <2>2, <2>3, <2>5 DEF Ordered
  <2>8. Equated(<<0, order>>, <<i, order>>)
    BY <1>1, <1>2, <2>6
  <2>9. PICK a, b : a = <<0, order>> /\ b = <<i, order>>
    OBVIOUS
  <2>10. CASE a = b
    BY <1>2, <1>8, <2>6, <2>9, <2>10
  <2>11. CASE a # b
    <3>1. PICK D : D = p.sorted \cap Columns
      OBVIOUS
    <3>2. ASSUME NEW k \in DOMAIN joins PROVE Left(joins[k]) \in D <=> Right(joins[k]) \in D
      <4>1. Left(joins[k]) \in Columns /\ Right(joins[k]) \in Columns
        BY DEF Columns, Left, Right
      <4>2. Left(joins[k]) \in p.sorted <=> Right(joins[k]) \in p.sorted
        BY <2>7 DEF Follow
      <4> QED
        BY <3>1, <4>1, <4>2
    <3>3. D \in SUBSET Columns /\ \A k \in DOMAIN joins : (<<joins[k].t1, joins[k].c1>> \in D) = (<<joins[k].t2, joins[k].c2>> \in D)
      BY <3>1, <3>2 DEF Left, Right
    <3>4. {a, b} \subseteq Columns /\ (a \in D) = (b \in D)
      BY <2>8, <2>9, <2>11, <3>3 DEF Equated
    <3>5. b \in D
      BY <2>6, <2>9, <3>1, <3>4
    <3> QED
      BY <1>2, <1>8, <2>9, <3>1, <3>4, <3>5
  <2> QED
    BY <2>10, <2>11
<1> QED
  BY <1>10, <1>11, <1>12

(* The rows come in the order of the column asked for, where every index on *)
(* a column of that number is on one the predicates make equal to it and no *)
(* predicate closes a cycle: then every predicate was applied, and the      *)
(* columns a plan is sorted by are closed under them.                       *)
THEOREM OrderDelivered == Spec => []Delivered
<1>1. SelInv => Delivered
  BY SelDelivered
<1> QED
  BY <1>1, SelInductive, PTL
=============================================================================
