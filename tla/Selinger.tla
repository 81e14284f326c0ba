------------------------------ MODULE Selinger ------------------------------
(***************************************************************************)
(* The join optimiser of src/odin/sellinger.odin, after System R: access    *)
(* paths of single tables, left-deep joins level by level, and the choice   *)
(* of a plan for ORDER BY.  A step fills in the access paths of one table,  *)
(* joins the rest of a set with one table of it, or makes the choice.       *)
(*                                                                         *)
(* Row counts and selectivities are powers of two, kept as exponents, so    *)
(* that fractions of a row and the logarithm of the sort are exact; costs   *)
(* are integers in units of 1 / (200 * 2^Frac).                             *)
(***************************************************************************)
EXTENDS Integers, Sequences, FiniteSets, SequencesExt

CONSTANTS
  NumTables,  \* len(query.tables)
  Catalog,    \* the tables a query may name
  Joins,      \* the lists of predicates a query may have
  Frac        \* bound: a fraction of a row below 2^-Frac counts as none

NO_ORDER == -1
Tables == 0 .. NumTables - 1
NodeSets == (SUBSET Tables) \ {{}}

IndexRecs == [col : Nat, clustered : BOOLEAN, pages : Nat]
TableRecs == [rows : Nat, pages : Nat, indexes : Seq(IndexRecs)]
Predicates == [t1 : Tables, c1 : Nat, t2 : Tables, c2 : Nat, sel : Int]

ASSUME QueryAssumption ==
  /\ NumTables \in Nat \ {0} /\ Frac \in Nat
  /\ Catalog \subseteq TableRecs /\ Joins \subseteq Seq(Predicates)

VARIABLES
  tables,   \* query.tables
  joins,    \* query.joins
  pending,  \* the turns the loops have not come to
  dp_table, \* for each set of tables, the plans kept
  result    \* what find_best_plan returned

vars == <<tables, joins, pending, dp_table, result>>

-----------------------------------------------------------------------------
(* Costs, in the code's weights.                                            *)
Amount(e) == IF e + Frac < 0 THEN 0 ELSE 2^(e + Frac)
PAGE_IO_COST == 200 * 2^Frac
CPU_TUPLE_COST == 2
HASH_BUILD_COST == 4
HASH_PROBE_COST == 3
SORT_FACTOR == 10
SortCost(e) == Amount(e) * e * SORT_FACTOR

(* A plan.  sorted is what the rows are really in the order of: columns,    *)
(* each with its table, where order is the number of a column alone.        *)
Plan(type, cost, card, order, sorted) ==
  [type |-> type, cost |-> cost, card |-> card, order |-> order, sorted |-> sorted]

(* Seeded bug: a plan is worth keeping for its cost alone.                  *)
SameOrderAny(p, q) == TRUE

SameOrder(p, q) == p.order = q.order

prune_or_add_plan(plans, candidate) ==
  LET same == {i \in DOMAIN plans : SameOrder(plans[i], candidate)} IN
  IF same = {} THEN Append(plans, candidate)
  ELSE LET i == Min(same) IN
       IF candidate.cost < plans[i].cost THEN [plans EXCEPT ![i] = candidate] ELSE plans

(* A loop that offers plans, one after the other.                           *)
Offer(plans, candidates) ==
  LET kept[n \in 0 .. Len(candidates)] ==
        IF n = 0 THEN plans ELSE prune_or_add_plan(kept[n - 1], candidates[n])
  IN kept[Len(candidates)]

(* The first predicate between s1 and t2, as an index into q; or 0.         *)
find_join_predicate(q, s1, t2) ==
  LET fits == {k \in DOMAIN q : \/ q[k].t1 \in s1 /\ q[k].t2 = t2
                                \/ q[k].t2 \in s1 /\ q[k].t1 = t2}
  IN IF fits = {} THEN 0 ELSE Min(fits)

-----------------------------------------------------------------------------
SeqScan(t) ==
  Plan("Seq_Scan", t.pages * PAGE_IO_COST + Amount(t.rows) * CPU_TUPLE_COST, t.rows, NO_ORDER, {})

IndexScan(i, t, x) ==
  LET io == IF x.clustered THEN x.pages * PAGE_IO_COST
            ELSE x.pages * PAGE_IO_COST + 2^t.rows * PAGE_IO_COST
  IN Plan("Index_Scan", io + Amount(t.rows) * CPU_TUPLE_COST, t.rows, x.col, {<<i, x.col>>})

AccessPaths(i, t) ==
  [k \in 1 .. Len(t.indexes) + 1 |-> IF k = 1 THEN SeqScan(t) ELSE IndexScan(i, t, t.indexes[k - 1])]

(* A join keeps the order of its left side; its predicate makes two columns *)
(* equal, so that rows in the order of one are in the order of the other.   *)
Carried(sorted, jp) ==
  LET both == {<<jp.t1, jp.c1>>, <<jp.t2, jp.c2>>} IN
  IF sorted \cap both = {} THEN sorted ELSE sorted \cup both

JoinCard(l, r, jp) == l.card + r.card - jp.sel

(* Seeded bug: the hash join is said to keep the order too.                 *)
HashJoinOrdered(l, r, jp) ==
  Plan("Hash_Join", l.cost + r.cost + Amount(r.card) * HASH_BUILD_COST + Amount(l.card) * HASH_PROBE_COST,
       JoinCard(l, r, jp), l.order, {})

HashJoin(l, r, jp) ==
  Plan("Hash_Join", l.cost + r.cost + Amount(r.card) * HASH_BUILD_COST + Amount(l.card) * HASH_PROBE_COST,
       JoinCard(l, r, jp), NO_ORDER, {})

NestedLoopJoin(l, r, jp) ==
  Plan("Nested_Loop_Join", l.cost + Amount(l.card) * (r.cost \div 2^Frac),
       JoinCard(l, r, jp), l.order, Carried(l.sorted, jp))

IndexJoin(l, r, jp) ==
  Plan("Index_Join", l.cost + Amount(l.card) * (3 * (PAGE_IO_COST \div 2^Frac) + CPU_TUPLE_COST),
       JoinCard(l, r, jp), l.order, Carried(l.sorted, jp))

(* The operators that can join two plans, in the order they are tried.      *)
Operators(l, r, jp) ==
  IF r.type = "Index_Scan" /\ r.order = jp.c2
  THEN <<HashJoin(l, r, jp), NestedLoopJoin(l, r, jp), IndexJoin(l, r, jp)>>
  ELSE <<HashJoin(l, r, jp), NestedLoopJoin(l, r, jp)>>

(* The loops over the right plans, and over the left ones.                  *)
OfferRights(plans, l, rights, jp) ==
  LET kept[n \in 0 .. Len(rights)] ==
        IF n = 0 THEN plans ELSE Offer(kept[n - 1], Operators(l, rights[n], jp))
  IN kept[Len(rights)]

OfferJoins(plans, lefts, rights, jp) ==
  LET kept[n \in 0 .. Len(lefts)] ==
        IF n = 0 THEN plans ELSE OfferRights(kept[n - 1], lefts[n], rights, jp)
  IN kept[Len(lefts)]

-----------------------------------------------------------------------------
(* A turn: a set, and a table of it to be joined last.  They come by size,  *)
(* then by mask, then by table; those of one table are its access paths.    *)
Turns == {u \in NodeSets \X Tables : u[2] \in u[1]}

Before(S, T) ==
  \/ Cardinality(S) < Cardinality(T)
  \/ Cardinality(S) = Cardinality(T) /\ \E i \in T \ S : \A k \in S \ T : k < i

ItsTurn(S, t) ==
  /\ <<S, t>> \in pending
  /\ \A u \in pending : Before(S, u[1]) \/ (S = u[1] /\ t <= u[2])

Init ==
  /\ tables \in [Tables -> Catalog] /\ joins \in Joins
  /\ pending = Turns
  /\ dp_table = [S \in NodeSets |-> <<>>]
  /\ result = [done |-> FALSE, required |-> NO_ORDER, plan |-> <<>>]

EnumerateSingle ==
  \E t \in Tables :
    /\ ItsTurn({t}, t)
    /\ dp_table' = [dp_table EXCEPT ![{t}] = Offer(@, AccessPaths(t, tables[t]))]
    /\ pending' = pending \ {<<{t}, t>>}
    /\ UNCHANGED <<tables, joins, result>>

EnumerateJoins ==
  \E S \in NodeSets, t \in Tables :
    /\ S # {t} /\ ItsTurn(S, t)
    /\ LET k == find_join_predicate(joins, S \ {t}, t) IN
       /\ k # 0
       /\ dp_table' = [dp_table EXCEPT ![S] =
                         OfferJoins(@, dp_table[S \ {t}], dp_table[{t}], joins[k])]
    /\ pending' = pending \ {<<S, t>>}
    /\ UNCHANGED <<tables, joins, result>>

SkipUnconnected ==
  \E S \in NodeSets, t \in Tables :
    /\ S # {t} /\ ItsTurn(S, t)
    /\ find_join_predicate(joins, S \ {t}, t) = 0
    /\ pending' = pending \ {<<S, t>>}
    /\ UNCHANGED <<tables, joins, dp_table, result>>

(* The first of the cheapest plans, of those with an index in chosen.       *)
Cheapest(plans, chosen) ==
  plans[Min({i \in chosen : \A j \in chosen : plans[i].cost <= plans[j].cost})]

(* Seeded bug: the cost of the sort is forgotten in the comparison.         *)
WithSortFree(p, order) == Plan("Sort", p.cost, p.card, order, {<<0, order>>})

WithSort(p, order) == Plan("Sort", p.cost + SortCost(p.card), p.card, order, {<<0, order>>})

BestPlan(plans, required) ==
  LET ordered == {i \in DOMAIN plans : plans[i].order = required}
      overall == Cheapest(plans, DOMAIN plans)
      sort == WithSort(overall, required)
  IN IF required = NO_ORDER THEN overall
     ELSE IF ordered # {} /\ Cheapest(plans, ordered).cost <= sort.cost THEN Cheapest(plans, ordered)
     ELSE sort

(* find_best_plan: no plan, or one; main asks for an order of table 0.      *)
FindBestPlan ==
  /\ pending = {} /\ ~ result.done
  /\ \E required \in {NO_ORDER, 0} :
       LET plans == dp_table[Tables]
           best == IF plans = <<>> THEN <<>> ELSE <<BestPlan(plans, required)>>
       IN result' = [done |-> TRUE, required |-> required, plan |-> best]
  /\ UNCHANGED <<tables, joins, pending, dp_table>>

Next == EnumerateSingle \/ EnumerateJoins \/ SkipUnconnected \/ FindBestPlan

Spec == Init /\ [][Next]_vars

-----------------------------------------------------------------------------
(* What the optimiser chooses from, stated without its loops and pruning.   *)

JoinsOf(l, rights, jp) == UNION {ToSet(Operators(l, r, jp)) : r \in rights}

JoinsWith(q, S, t, all) ==
  LET k == find_join_predicate(q, S \ {t}, t) IN
  IF k = 0 THEN {}
  ELSE UNION {JoinsOf(l, all[{t}], q[k]) : l \in all[S \ {t}]}

PlansFor(ts, q, S, all) ==
  IF Cardinality(S) = 1 THEN UNION {ToSet(AccessPaths(t, ts[t])) : t \in S}
  ELSE UNION {JoinsWith(q, S, t, all) : t \in S}

AllPlans(ts, q) == LET all[S \in NodeSets] == PlansFor(ts, q, S, all) IN all

(* Every way to join a set estimates the same number of rows.               *)
Uniform(all) == \A S \in NodeSets : \A p, q \in all[S] : p.card = q.card

ConnectedQuery ==
  \A P \in NodeSets \ {Tables} :
    \E k \in DOMAIN joins : joins[k].t1 \in P <=> joins[k].t2 \notin P

-----------------------------------------------------------------------------
PlanTypes == {"Seq_Scan", "Index_Scan", "Nested_Loop_Join", "Index_Join", "Hash_Join", "Sort"}

(* Pruning loses nothing: where the order of joining does not change the    *)
(* estimates, no left-deep plan is cheaper than one kept with its order.    *)
NothingLost ==
  result.done =>
    LET all == AllPlans(tables, joins) IN
    Uniform(all) =>
      \A S \in NodeSets : \A p \in all[S] :
        \E i \in DOMAIN dp_table[S] : dp_table[S][i].order = p.order /\ dp_table[S][i].cost <= p.cost

(* A plan is returned exactly when the predicates connect the tables.  It   *)
(* is the cheapest way to the rows in the order required, whether by a plan *)
(* that has it or by a sort on top of any.                                  *)
BestReturned ==
  result.done =>
    LET all == AllPlans(tables, joins)
        plan == result.plan
    IN /\ plan # <<>> <=> ConnectedQuery
       /\ Uniform(all) => \A p \in all[Tables] :
            /\ result.required \in {NO_ORDER, p.order} => plan[1].cost <= p.cost
            /\ result.required # NO_ORDER => plan[1].cost <= p.cost + SortCost(p.card)

(* Two columns the predicates make equal, directly or through others.      *)
Columns == {<<joins[k].t1, joins[k].c1>> : k \in DOMAIN joins} \cup {<<joins[k].t2, joins[k].c2>> : k \in DOMAIN joins}
Equated(a, b) ==
  LET Agrees(k, D) == (<<joins[k].t1, joins[k].c1>> \in D) = (<<joins[k].t2, joins[k].c2>> \in D)
      classes == {D \in SUBSET Columns : \A k \in DOMAIN joins : Agrees(k, D)}
  IN a = b \/ ({a, b} \subseteq Columns /\ \A D \in classes : (a \in D) = (b \in D))

(* An order is the number of a column, of whichever table.  The rows come   *)
(* in the order of the column main asks for ("Query requires output sorted  *)
(* by users.id") where every index on a column of that number is on a       *)
(* column the predicates make equal to it, and no predicate closes a cycle  *)
(* (only the first one between two sides is applied).                       *)
Delivered ==
  LET order == result.required IN
  /\ result.plan # <<>> /\ order # NO_ORDER /\ Len(joins) = NumTables - 1
  /\ \A i \in Tables : \A k \in DOMAIN tables[i].indexes :
       tables[i].indexes[k].col = order => Equated(<<0, order>>, <<i, order>>)
  => <<0, order>> \in result.plan[1].sorted
=============================================================================
