------------------------------- MODULE DPhyp -------------------------------
(***************************************************************************)
(* The join-order optimiser of src/c/DPhyp.c and src/odin/dphyp.odin, which *)
(* agree line by line: dynamic programming over pairs of connected sets of  *)
(* relations of a query hypergraph.  Sets of relations, bit masks in the    *)
(* code, are sets; costs are natural numbers.  The procedures only loop and *)
(* call, so the stack is that of the loops begun; a step is an iteration of *)
(* the innermost one.  The edges are a set, so that an edge given twice     *)
(* counts once; overflow of the 64 bits and the bucket lists of the table   *)
(* are left out.                                                            *)
(***************************************************************************)
EXTENDS Naturals, Sequences, FiniteSets, FiniteSetsExt, SequencesExt, Functions

CONSTANTS
  NumNodes,   \* g->num_nodes
  Graphs,     \* the hypergraphs: what g->edges may be
  Card(_),    \* g->base_cardinalities
  Sel(_)      \* the selectivity of an edge, as a divisor

Nodes == 0 .. NumNodes - 1
NodeSets == (SUBSET Nodes) \ {{}}

(* A hyperedge: its two hypernodes, disjoint and not empty.                 *)
Edges == {e \in SUBSET NodeSets : Cardinality(e) = 2 /\ \A u, v \in e : u # v => u \cap v = {}}

ASSUME DPhypAssumption ==
  /\ NumNodes \in Nat \ {0} /\ Graphs \subseteq SUBSET Edges
  /\ \A i \in Nodes : Card(i) \in Nat
  /\ \A e \in Edges : Sel(e) \in Nat \ {0}

VARIABLES
  edges,     \* g->edges
  todo,      \* the stack
  dpTable,   \* for each set of relations, the best plan found so far
  joined     \* the pairs given to EmitCsgCmp, in order

vars == <<edges, todo, dpTable, joined>>

-----------------------------------------------------------------------------
NoPlan == [found |-> FALSE, cost |-> 0, card |-> 0]
Plan(cost, card) == [found |-> TRUE, cost |-> cost, card |-> card]
dp_lookup(S) == dpTable[S].found

(* B_v: the nodes up to v.                                                  *)
get_B(v) == 0 .. v

(* The edges between S1 and S2, and is_connected.                           *)
Between(g, S1, S2) == {e \in g : \E u, v \in e : u # v /\ u \subseteq S1 /\ v \subseteq S2}
is_connected(g, S1, S2) == Between(g, S1, S2) # {}

(* Seeded bug: what is excluded is not looked at.                           *)
CandidatesIn(g, S, X) ==
  {v \in UNION g : \E e \in g : \E u \in e : v \in e /\ u # v /\ u \subseteq S /\ v \cap S = {}}

Candidates(g, S, X) ==
  {v \in UNION g : \E e \in g : \E u \in e : v \in e /\ u # v /\ u \subseteq S /\ v \cap (S \cup X) = {}}

(* N(S, X): the least nodes of the hypernodes that subsume no other.        *)
calc_neighborhood(g, S, X) ==
  LET C == Candidates(g, S, X) IN
  {Min(v) : v \in {c \in C : \A d \in C : d \subseteq c => d = c}}

-----------------------------------------------------------------------------
(* A loop: its procedure and arguments, the neighborhood N it goes through, *)
(* and the sets of nodes of N that are left.                                *)
Loop(op, S1, S2, X, N, left) == [op |-> op, S1 |-> S1, S2 |-> S2, X |-> X, N |-> N, left |-> left]

(* The order of bit masks.                                                  *)
Before(S, T) == \E i \in T \ S : \A k \in S \ T : k < i
Lowest(left) == {M \in left : \A K \in left \ {M} : Before(M, K)}

(* Seeded bug: the nodes are taken in ascending order.                      *)
HighestUp(left) == Lowest(left)

Highest(left) == {M \in left : \A K \in left \ {M} : Before(K, M)}

Solve == Loop("Solve", {}, {}, {}, Nodes, {{v} : v \in Nodes})

EmitCsg(g, S1) ==
  LET X == S1 \cup get_B(Min(S1))
      N == calc_neighborhood(g, S1, X)
  IN Loop("EmitCsg", S1, {}, X, N, {{v} : v \in N})

(* The subsets of N, as Vance and Maier enumerate them.                     *)
Subsets(N) == (SUBSET N) \ {{}}

(* Two loops: one tries the sets, the other goes on from each of them.      *)
EnumerateCsgRec(g, S1, X) ==
  LET N == calc_neighborhood(g, S1, X)
  IN <<Loop("TryCsg", S1, {}, X, N, Subsets(N)), Loop("EnumerateCsgRec", S1, {}, X, N, Subsets(N))>>

EnumerateCmpRec(g, S1, S2, X) ==
  LET N == calc_neighborhood(g, S2, X)
  IN <<Loop("TryCmp", S1, S2, X, N, Subsets(N)), Loop("EnumerateCmpRec", S1, S2, X, N, Subsets(N))>>

Join(S1, S2) == Loop("EmitCsgCmp", S1, S2, {}, {}, {})

Init ==
  /\ edges \in Graphs
  /\ dpTable = [S \in NodeSets |-> IF Cardinality(S) = 1 THEN Plan(0, Card(Min(S))) ELSE NoPlan]
  /\ todo = <<Solve>>
  /\ joined = <<>>

Top == Head(todo)

(* The iteration of a loop of op for M; what it calls comes first.          *)
Iterates(op, M) ==
  /\ todo # <<>> /\ Top.op = op
  /\ M \in IF op \in {"Solve", "EmitCsg"} THEN Highest(Top.left) ELSE Lowest(Top.left)
  /\ UNCHANGED <<edges, dpTable, joined>>

Calls(M, loops) == todo' = loops \o <<[Top EXCEPT !.left = @ \ {M}]>> \o Tail(todo)

SolveNode ==
  \E M \in NodeSets :
    /\ Iterates("Solve", M)
    /\ Calls(M, <<EmitCsg(edges, M)>> \o EnumerateCsgRec(edges, M, get_B(Min(M))))

EmitNode ==
  \E M \in NodeSets :
    /\ Iterates("EmitCsg", M)
    /\ Calls(M, (IF is_connected(edges, Top.S1, M) THEN <<Join(Top.S1, M)>> ELSE <<>>)
                  \o EnumerateCmpRec(edges, Top.S1, M, Top.X \cup (Top.N \cap get_B(Min(M)))))

TryCsg ==
  \E M \in NodeSets :
    /\ Iterates("TryCsg", M)
    /\ Calls(M, IF dp_lookup(Top.S1 \cup M) THEN <<EmitCsg(edges, Top.S1 \cup M)>> ELSE <<>>)

GrowCsg ==
  \E M \in NodeSets :
    /\ Iterates("EnumerateCsgRec", M)
    /\ Calls(M, EnumerateCsgRec(edges, Top.S1 \cup M, Top.X \cup Top.N))

TryCmp ==
  \E M \in NodeSets :
    /\ Iterates("TryCmp", M)
    /\ Calls(M, IF dp_lookup(Top.S2 \cup M) /\ is_connected(edges, Top.S1, Top.S2 \cup M)
                  THEN <<Join(Top.S1, Top.S2 \cup M)>> ELSE <<>>)

GrowCmp ==
  \E M \in NodeSets :
    /\ Iterates("EnumerateCmpRec", M)
    /\ Calls(M, EnumerateCmpRec(edges, Top.S1, Top.S2 \cup M, Top.X \cup Top.N))

Return ==
  /\ todo # <<>> /\ Top.op # "EmitCsgCmp" /\ Top.left = {}
  /\ todo' = Tail(todo)
  /\ UNCHANGED <<edges, dpTable, joined>>

(* The join of two plans; its cardinality is by the edges between them.     *)
JoinPlan(g, S1, S2, p1, p2) ==
  LET card == FoldSet(LAMBDA e, n : n \div Sel(e), p1.card * p2.card, Between(g, S1, S2))
  IN Plan(p1.cost + p2.cost + card, card)

(* Seeded bug: the last plan found is kept.                                 *)
BetterAlways(old, new) == TRUE

Better(old, new) == ~ old.found \/ new.cost < old.cost

(* EmitCsgCmp: the plans of both sides are joined.                          *)
EmitCsgCmp ==
  /\ todo # <<>> /\ Top.op = "EmitCsgCmp"
  /\ todo' = Tail(todo)
  /\ LET S1 == Top.S1
         S2 == Top.S2
         new == JoinPlan(edges, S1, S2, dpTable[S1], dpTable[S2])
     IN IF dp_lookup(S1) /\ dp_lookup(S2)
          THEN /\ dpTable' = IF Better(dpTable[S1 \cup S2], new)
                               THEN [dpTable EXCEPT ![S1 \cup S2] = new] ELSE dpTable
               /\ joined' = Append(joined, <<S1, S2>>)
          ELSE UNCHANGED <<dpTable, joined>>
  /\ UNCHANGED edges

Next == SolveNode \/ EmitNode \/ TryCsg \/ GrowCsg \/ TryCmp \/ GrowCmp \/ Return \/ EmitCsgCmp

Spec == Init /\ [][Next]_vars

-----------------------------------------------------------------------------
(* What the optimiser is to compute, stated without its enumeration.        *)

(* Connected sets: those that joins without cross products can produce.     *)
Splits(g, S) == {S1 \in (SUBSET S) \ {{}, S} : Between(g, S1, S \ S1) # {}}

Connects(g, S, c) == Cardinality(S) = 1 \/ \E S1 \in Splits(g, S) : c[S1] /\ c[S \ S1]

Connected(g) ==
  LET c[S \in NodeSets] == Connects(g, S, c) IN {S \in NodeSets : c[S]}

(* The pairs of connected sets that can be joined, each in one order.       *)
Pairs(g) ==
  LET C == Connected(g) IN
  {p \in C \X C : p[1] \cap p[2] = {} /\ Min(p[1]) < Min(p[2]) /\ is_connected(g, p[1], p[2])}

(* The plans of each set.                                                   *)
JoinsWith(g, S1, S2, p, right) == {JoinPlan(g, S1, S2, p, q) : q \in right}

JoinsOf(g, S1, S2, a) == UNION {JoinsWith(g, S1, S2, p, a[S2]) : p \in a[S1]}

PlansFor(g, S, a) ==
  IF Cardinality(S) = 1 THEN {Plan(0, Card(Min(S)))}
  ELSE UNION {JoinsOf(g, S1, S \ S1, a) : S1 \in Splits(g, S)}

AllPlans(g) == LET a[S \in NodeSets] == PlansFor(g, S, a) IN a

Ended == todo = <<>>

(* Every pair of disjoint connected sets that an edge joins is given to     *)
(* EmitCsgCmp, once: what get_B and the growing X of the recursions are for.*)
AllPairsOnce == Ended => IsInjective(joined) /\ ToSet(joined) = Pairs(edges)

(* A plan that a join has used is final.  The new plan keeps a pointer to   *)
(* the old one, so a cheaper plan found later would never reach it.         *)
UsedPlansFinal ==
  [][\A S \in NodeSets : (\E k \in DOMAIN joined : S \in {joined[k][1], joined[k][2]})
                           => dpTable'[S] = dpTable[S]]_vars

(* A set has a plan exactly when it is connected: for the whole query, main *)
(* reports "No plan found" only if the hypergraph is disconnected.          *)
FoundIfConnected ==
  Ended => LET C == Connected(edges) IN \A S \in NodeSets : dp_lookup(S) <=> S \in C

(* The plan found for the whole query, and for each part of it, is the      *)
(* cheapest of all plans without cross products: main's "Optimal Join Plan".*)
(* It does not hold where a hyperedge straddles the sides of a join.        *)
Optimal ==
  Ended => LET all == AllPlans(edges) IN
           \A S \in NodeSets : dp_lookup(S) => \A p \in all[S] : dpTable[S].cost <= p.cost

(* It is when every order of joining a set estimates the same cardinality,  *)
(* as on simple graphs and where no hyperedge straddles the sides of a join.*)
Uniform(all) == \A S \in NodeSets : \A p, q \in all[S] : p.card = q.card

OptimalIfUniform ==
  Ended => LET all == AllPlans(edges) IN
           Uniform(all) =>
             \A S \in NodeSets : dp_lookup(S) => \A p \in all[S] : dpTable[S].cost <= p.cost
=============================================================================
