---------------------------- MODULE DPhypProofs ----------------------------
(***************************************************************************)
(* For every hypergraph, base cardinality and selectivity: DPhyp joins each *)
(* pair of connected sets once, after all joins that make its sides, so it  *)
(* finds a plan for exactly the connected sets, keeps no plan that points   *)
(* to a replaced one, and where the cardinality of a set does not depend on *)
(* the order of its joins, finds the cheapest.                              *)
(*                                                                          *)
(* The invariant says of each loop on the stack which pairs it leads to:    *)
(* those whose sets meet what the loop excludes in what it has taken.  Two  *)
(* orders make the enumeration right, that of the loops on the stack and    *)
(* that of bit masks within a loop: both take a set after its parts.        *)
(***************************************************************************)
EXTENDS DPhyp, FiniteSetTheorems, TLAPS

-----------------------------------------------------------------------------
(* Sets of nodes: their size and their least node.                          *)

LEMMA LeastNat ==
  ASSUME NEW B \in SUBSET Nat, B # {}
  PROVE  \E b \in B : \A c \in B : b <= c
<1>1. PICK b \in B : \A c \in B : ~ <<c, b>> \in OpToRel(<, Nat)
  <2>1. IsWellFoundedOn(OpToRel(<, Nat), Nat)
    BY NatLessThanWellFounded
  <2>2. IsWellFoundedOn(OpToRel(<, Nat), B)
    BY <2>1, IsWellFoundedOnSubset
  <2> QED
    BY <2>2, WFMin
<1>2. ASSUME NEW c \in B PROVE b <= c
  <2>1. b \in Nat /\ c \in Nat
    BY <1>2
  <2>2. ~ c < b
    BY <1>1, <1>2, <2>1 DEF OpToRel
  <2> QED
    BY <2>1, <2>2
<1> QED
  BY <1>1, <1>2

(* The nodes are finitely many natural numbers.                             *)
LEMMA NodesFinite ==
  /\ IsFiniteSet(Nodes) /\ Cardinality(Nodes) = NumNodes /\ NumNodes \in Nat \ {0}
  /\ Nodes \subseteq Nat
<1>1. NumNodes \in Nat \ {0}
  BY DPhypAssumption DEF DPhypAssumption
<1>2. IsFiniteSet(0 .. NumNodes - 1) /\ Cardinality(0 .. NumNodes - 1) = NumNodes
  BY <1>1, FS_Interval
<1> QED
  BY <1>1, <1>2 DEF Nodes

(* A set of nodes is finite; one of size 1 is a single node.                *)
LEMMA Sized ==
  ASSUME NEW S \in NodeSets
  PROVE  /\ IsFiniteSet(S) /\ Cardinality(S) \in Nat \ {0} /\ Cardinality(S) <= NumNodes
         /\ Cardinality(S) = 1 <=> \E v \in Nodes : S = {v}
         /\ S \subseteq Nodes /\ S # {}
<1>1. S \in SUBSET Nodes /\ S # {}
  BY DEF NodeSets
<1>2. IsFiniteSet(S) /\ Cardinality(S) <= NumNodes
  BY <1>1, NodesFinite, FS_Subset
<1>3. Cardinality(S) \in Nat
  BY <1>2, FS_CardinalityType
<1>4. Cardinality(S) # 0
  BY <1>1, <1>2, FS_EmptySet
<1>5. Cardinality(S) = 1 <=> \E v : S = {v}
  BY <1>2, FS_Singleton
<1> QED
  BY <1>1, <1>2, <1>3, <1>4, <1>5

(* Min gives the least node of a set.                                       *)
LEMMA LeastNode ==
  ASSUME NEW S \in NodeSets
  PROVE  /\ Min(S) \in S /\ Min(S) \in Nodes /\ Min(S) \in Nat
         /\ \A i \in S : i \in Nat /\ Min(S) <= i
<1>1. S \in SUBSET Nat /\ S # {} /\ S \subseteq Nodes
  BY NodesFinite, Sized
<1>2. \E b \in S : \A c \in S : b <= c
  BY <1>1, LeastNat
<1>3. Min(S) \in S /\ \A c \in S : Min(S) <= c
  BY <1>2 DEF Min
<1> QED
  BY <1>1, <1>3

(* A node that is in a set, and no node below it, is the least.             *)
LEMMA LeastIs ==
  ASSUME NEW S \in NodeSets, NEW v \in S, \A i \in S : v <= i
  PROVE  Min(S) = v
<1>1. Min(S) <= v /\ v <= Min(S) /\ v \in Nat /\ Min(S) \in Nat
  BY LeastNode
<1> QED
  BY <1>1

(* The set of one node.                                                     *)
LEMMA SingleNode ==
  ASSUME NEW v \in Nodes
  PROVE  {v} \in NodeSets /\ Min({v}) = v /\ Cardinality({v}) = 1
<1>1. {v} \in NodeSets /\ v \in Nat
  BY NodesFinite DEF NodeSets
<1>2. Min({v}) \in {v}
  BY <1>1, LeastNode
<1>3. Cardinality({v}) = 1
  BY FS_Singleton
<1> QED
  BY <1>1, <1>2, <1>3

(* Both sides of a join are smaller than it.                                *)
LEMMA Smaller ==
  ASSUME NEW S \in NodeSets, NEW T, T \subseteq S, T # {}, T # S
  PROVE  /\ T \in NodeSets /\ Cardinality(T) < Cardinality(S)
         /\ S \ T \in NodeSets /\ Cardinality(S \ T) < Cardinality(S)
         /\ Cardinality(S) # 1
<1>1. IsFiniteSet(S) /\ Cardinality(S) \in Nat
  BY Sized
<1>2. T \in NodeSets /\ S \ T \in NodeSets /\ S \ T # S
  BY DEF NodeSets
<1>3. \A U \in SUBSET S : Cardinality(U) <= Cardinality(S) /\ (Cardinality(S) = Cardinality(U) => S = U)
  BY <1>1, FS_Subset
<1>4. Cardinality(T) \in Nat \ {0} /\ Cardinality(S \ T) \in Nat
  BY <1>2, Sized
<1>5. Cardinality(T) < Cardinality(S) /\ Cardinality(S \ T) < Cardinality(S)
  BY <1>1, <1>2, <1>3, <1>4
<1> QED
  BY <1>1, <1>2, <1>4, <1>5

(* Of some sets, one as small as any.                                       *)
LEMMA LeastSet ==
  ASSUME NEW B \in SUBSET NodeSets, B # {}
  PROVE  \E S \in B : \A T \in NodeSets : Cardinality(T) < Cardinality(S) => T \notin B
<1> DEFINE C == {Cardinality(S) : S \in B}
<1>1. C \in SUBSET Nat /\ C # {}
  BY Sized
<1>2. PICK c \in C : \A d \in C : c <= d
  BY <1>1, LeastNat
<1>3. PICK S \in B : Cardinality(S) = c
  BY <1>2
<1>4. ASSUME NEW T \in NodeSets, Cardinality(T) < Cardinality(S) PROVE T \notin B
  <2>1. SUFFICES ASSUME T \in B PROVE FALSE
    OBVIOUS
  <2>2. c <= Cardinality(T)
    BY <1>2, <2>1
  <2> QED
    BY <1>3, <1>4, <2>2, Sized
<1> QED
  BY <1>3, <1>4

(* The edges of a graph join disjoint sets of nodes.                        *)
LEMMA EdgesFinite ==
  ASSUME NEW g \in Graphs
  PROVE  /\ g \in SUBSET Edges /\ IsFiniteSet(Edges)
         /\ \A e \in g : \A u \in e : u \in NodeSets
         /\ \A e \in g : \A u, v \in e : u # v => u \cap v = {}
<1>1. g \in SUBSET Edges
  BY DPhypAssumption DEF DPhypAssumption
<1>2. IsFiniteSet(SUBSET Nodes)
  BY NodesFinite, FS_SUBSET
<1>3. IsFiniteSet(NodeSets)
  BY <1>2, FS_Subset DEF NodeSets
<1>4. IsFiniteSet(SUBSET NodeSets)
  BY <1>3, FS_SUBSET
<1>5. Edges \in SUBSET (SUBSET NodeSets)
  BY DEF Edges
<1>6. IsFiniteSet(Edges)
  BY <1>4, <1>5, FS_Subset
<1> QED
  BY <1>1, <1>6 DEF Edges

-----------------------------------------------------------------------------

(* A recursion on the size of its argument has a solution.  G gives the     *)
(* value for s from the values f for smaller ones, in V.                    *)
Local(D, size, V, G) ==
  \A s \in D : \A f, h \in [D -> V] :
    (\A t \in D : size[t] < size[s] => f[t] = h[t]) => G[<<s, f>>] = G[<<s, h>>]

(* f solves the recursion up to size n.                                     *)
SolvesTo(D, size, G, n, f) == \A s \in D : size[s] <= n => f[s] = G[<<s, f>>]

(* A solution up to size n extends to one up to size n + 1.                 *)
LEMMA SolvesNext ==
  ASSUME NEW D, NEW size \in [D -> Nat \ {0}], NEW V, NEW G \in [D \X [D -> V] -> V],
         Local(D, size, V, G), NEW n \in Nat, NEW f \in [D -> V], SolvesTo(D, size, G, n, f)
  PROVE  \E h \in [D -> V] : SolvesTo(D, size, G, n + 1, h)
<1>1. PICK h : h = [s \in D |-> IF size[s] <= n THEN f[s] ELSE G[<<s, f>>]]
  OBVIOUS
<1>2. \A s \in D : G[<<s, f>>] \in V
  OBVIOUS
<1>3. h \in [D -> V]
  BY <1>1, <1>2
<1>4. ASSUME NEW s \in D, size[s] <= n + 1 PROVE h[s] = G[<<s, h>>]
  <2>1. size[s] \in Nat
    OBVIOUS
  <2>2. h[s] = G[<<s, f>>]
    BY <1>1 DEF SolvesTo
  <2>3. ASSUME NEW t \in D, size[t] < size[s] PROVE f[t] = h[t]
    <3>1. size[t] \in Nat
      OBVIOUS
    <3>2. size[t] <= n
      BY <1>4, <2>1, <2>3, <3>1
    <3> QED
      BY <1>1, <3>2
  <2>4. G[<<s, f>>] = G[<<s, h>>]
    BY <1>3, <2>3 DEF Local
  <2> QED
    BY <2>2, <2>4
<1> QED
  BY <1>3, <1>4 DEF SolvesTo

(* The sizes of the members of D, and a bound on them.                      *)
Sizes(D, size, most) == most \in Nat /\ size \in [D -> Nat \ {0}] /\ \A s \in D : size[s] <= most

(* The values of the recursion, and what gives them.                        *)
Values(D, V, G) == V # {} /\ G \in [D \X [D -> V] -> V]

(* f solves the recursion.                                                  *)
Solves(D, V, G, f) == f \in [D -> V] /\ \A s \in D : f[s] = G[<<s, f>>]

(* A recursion whose step looks at smaller members only has a solution.     *)
LEMMA Recursion ==
  ASSUME NEW D, NEW size, NEW most, Sizes(D, size, most), NEW V, NEW G, Values(D, V, G), Local(D, size, V, G)
  PROVE  \E f : Solves(D, V, G, f)
<1> DEFINE Bad == {n \in Nat : \A f \in [D -> V] : ~ SolvesTo(D, size, G, n, f)}
<1>0. most \in Nat /\ size \in [D -> Nat \ {0}] /\ \A s \in D : size[s] <= most
  BY DEF Sizes
<1> V # {} /\ G \in [D \X [D -> V] -> V]
  BY DEF Values
<1>1. ASSUME Bad # {} PROVE FALSE
  <2>1. PICK n \in Bad : \A m \in Bad : n <= m
    BY <1>1, LeastNat
  <2>2. n # 0
    <3>1. SUFFICES ASSUME n = 0 PROVE FALSE
      OBVIOUS
    <3>2. \A s \in D : ~ size[s] <= 0
      BY <1>0
    <3>3. PICK v \in V : TRUE
      OBVIOUS
    <3>4. PICK f \in [D -> V] : f = [s \in D |-> v]
      BY <3>3
    <3>5. SolvesTo(D, size, G, 0, f)
      BY <3>2 DEF SolvesTo
    <3> QED
      BY <2>1, <3>1, <3>5
  <2>3. n - 1 \in Nat /\ n - 1 \notin Bad
    BY <2>1, <2>2
  <2>4. PICK f \in [D -> V] : SolvesTo(D, size, G, n - 1, f)
    BY <2>3
  <2>5. PICK m \in Nat : m = n - 1 /\ n = m + 1
    BY <2>3
  <2>6. \E h \in [D -> V] : SolvesTo(D, size, G, m + 1, h)
    BY <1>0, <2>4, <2>5, SolvesNext
  <2> QED
    BY <2>1, <2>5, <2>6
<1>2. PICK f \in [D -> V] : SolvesTo(D, size, G, most, f)
  BY <1>0, <1>1
<1> QED
  BY <1>0, <1>2 DEF SolvesTo, Solves

-----------------------------------------------------------------------------
(* Cardinalities and plans are numbers and plans.                           *)

(* The plans, and the member of a set that its fold takes first.            *)
Plans == [found : BOOLEAN, cost : Nat, card : Nat]

Pick(s) == CHOOSE x \in s : TRUE

(* What a fold over the edges of E computes, at s.                          *)
Divided(n, s, it) == IF s = {} THEN n ELSE it[s \ {Pick(s)}] \div Sel(Pick(s))

(* A cardinality divided by a selectivity is a cardinality.                 *)
LEMMA Quotient ==
  ASSUME NEW x \in Nat, NEW d \in Nat \ {0}
  PROVE  x \div d \in Nat
  OBVIOUS

(* A fold goes on with a smaller set.                                       *)
LEMMA OneLess ==
  ASSUME NEW E, IsFiniteSet(E), NEW s \in SUBSET E, s # {}
  PROVE  /\ Pick(s) \in s /\ s \ {Pick(s)} \in SUBSET E
         /\ Cardinality(s \ {Pick(s)}) < Cardinality(s)
<1>1. Pick(s) \in s
  BY DEF Pick
<1>2. IsFiniteSet(s)
  BY FS_Subset
<1>3. Cardinality(s) \in Nat
  BY <1>2, FS_CardinalityType
<1>4. Cardinality(s \ {Pick(s)}) = Cardinality(s) - 1
  BY <1>1, <1>2, FS_RemoveElement
<1> QED
  BY <1>1, <1>3, <1>4

(* A step of the fold gives a number, if the smaller ones do.               *)
LEMMA DividedTyped ==
  ASSUME NEW E \in SUBSET Edges, NEW n \in Nat, NEW s \in SUBSET E, IsFiniteSet(E),
         NEW it, \A t \in SUBSET E : Cardinality(t) < Cardinality(s) => it[t] \in Nat
  PROVE  Divided(n, s, it) \in Nat
<1>1. CASE s = {}
  BY <1>1 DEF Divided
<1>2. CASE s # {}
  <2>1. it[s \ {Pick(s)}] \in Nat
    BY <1>2, OneLess
  <2>2. Sel(Pick(s)) \in Nat \ {0}
    <3>1. Pick(s) \in Edges
      BY <1>2, OneLess
    <3> QED
      BY <3>1, DPhypAssumption DEF DPhypAssumption
  <2>3. it[s \ {Pick(s)}] \div Sel(Pick(s)) \in Nat
    BY <2>1, <2>2, Quotient
  <2> QED
    BY <1>2, <2>3 DEF Divided
<1> QED
  BY <1>1, <1>2

(* The fold is what its recursion says.                                     *)
LEMMA FoldSolves ==
  ASSUME NEW E \in SUBSET Edges, NEW n \in Nat, IsFiniteSet(E)
  PROVE  \E it : it = [s \in SUBSET E |-> Divided(n, s, it)]
<1>0. PICK V : V = Nat
  OBVIOUS
<1>1. PICK D : D = SUBSET E
  OBVIOUS
<1>2. IsFiniteSet(D) /\ \A s \in D : IsFiniteSet(s) /\ Cardinality(s) \in Nat /\ Cardinality(s) <= Cardinality(E)
  <2>1. IsFiniteSet(D)
    BY <1>1, FS_SUBSET
  <2>2. ASSUME NEW s \in D PROVE IsFiniteSet(s) /\ Cardinality(s) \in Nat /\ Cardinality(s) <= Cardinality(E)
    <3>1. IsFiniteSet(s) /\ Cardinality(s) <= Cardinality(E)
      BY <1>1, FS_Subset
    <3> QED
      BY <3>1, FS_CardinalityType
  <2> QED
    BY <2>1, <2>2
<1>3. PICK size : size = [s \in D |-> Cardinality(s) + 1]
  OBVIOUS
<1>4. PICK most : most = Cardinality(E) + 1
  OBVIOUS
<1>5. Sizes(D, size, most)
  <2>1. Cardinality(E) \in Nat
    BY FS_CardinalityType
  <2>2. \A s \in D : size[s] \in Nat \ {0} /\ size[s] <= most
    BY <1>2, <1>3, <1>4, <2>1
  <2> QED
    BY <1>3, <1>4, <2>1, <2>2 DEF Sizes
<1>6. \A s \in D, f \in [D -> V] : Divided(n, s, f) \in V
  BY <1>0, <1>1, DividedTyped
<1>7. PICK G : G = [a \in D \X [D -> V] |-> Divided(n, a[1], a[2])]
  OBVIOUS
<1>8. G \in [D \X [D -> V] -> V] /\ \A s \in D, f \in [D -> V] : G[<<s, f>>] = Divided(n, s, f)
  BY <1>6, <1>7
<1>9. Local(D, size, V, G)
  <2>1. ASSUME NEW s \in D, NEW f \in [D -> V], NEW h \in [D -> V],
               \A t \in D : size[t] < size[s] => f[t] = h[t]
        PROVE  Divided(n, s, f) = Divided(n, s, h)
    <3>1. CASE s = {}
      BY <3>1 DEF Divided
    <3>2. CASE s # {}
      <4>1. s \ {Pick(s)} \in D /\ Cardinality(s \ {Pick(s)}) < Cardinality(s)
        BY <1>1, <3>2, OneLess
      <4>2. size[s \ {Pick(s)}] < size[s]
        BY <1>2, <1>3, <4>1
      <4>3. f[s \ {Pick(s)}] = h[s \ {Pick(s)}]
        BY <2>1, <4>1, <4>2
      <4> QED
        BY <4>3 DEF Divided
    <3> QED
      BY <3>1, <3>2
  <2> QED
    BY <1>8, <2>1 DEF Local
<1>10. PICK it \in [D -> V] : \A s \in D : it[s] = G[<<s, it>>]
  <2>1. Values(D, V, G)
    BY <1>0, <1>8 DEF Values
  <2>2. PICK it : Solves(D, V, G, it)
    BY <1>5, <1>9, <2>1, Recursion
  <2> QED
    BY <2>2 DEF Solves
<1>11. \A s \in D : it[s] = Divided(n, s, it)
  BY <1>8, <1>10
<1>12. it = [s \in D |-> Divided(n, s, it)]
  BY <1>10, <1>11
<1> QED
  BY <1>1, <1>12

(* The cardinality of a join is a number.                                   *)
LEMMA FoldTyped ==
  ASSUME NEW E \in SUBSET Edges, IsFiniteSet(E), NEW n \in Nat
  PROVE  FoldSet(LAMBDA e, m : m \div Sel(e), n, E) \in Nat
<1>1. FoldSet(LAMBDA e, m : m \div Sel(e), n, E)
      = (CHOOSE it : it = [s \in SUBSET E |->
           IF s = {} THEN n ELSE it[s \ {CHOOSE x \in s : TRUE}] \div Sel(CHOOSE x \in s : TRUE)])[E]
  BY DEF FoldSet, MapThenFoldSet
<1>2. FoldSet(LAMBDA e, m : m \div Sel(e), n, E)
      = (CHOOSE it : it = [s \in SUBSET E |-> Divided(n, s, it)])[E]
  BY <1>1 DEF Divided, Pick
<1>3. PICK it : it = CHOOSE h : h = [s \in SUBSET E |-> Divided(n, s, h)]
  OBVIOUS
<1>4. it = [s \in SUBSET E |-> Divided(n, s, it)]
  BY <1>3, FoldSolves
<1>5. \A s \in SUBSET E : it[s] = Divided(n, s, it)
  BY <1>4
<1> DEFINE Bad == {s \in SUBSET E : it[s] \notin Nat}
<1>6. ASSUME Bad # {} PROVE FALSE
  <2> DEFINE C == {Cardinality(s) : s \in Bad}
  <2>1. \A s \in SUBSET E : Cardinality(s) \in Nat
    BY FS_Subset, FS_CardinalityType
  <2>2. C \in SUBSET Nat /\ C # {}
    BY <1>6, <2>1
  <2>3. PICK c \in C : \A d \in C : c <= d
    BY <2>2, LeastNat
  <2>4. PICK s \in Bad : Cardinality(s) = c
    BY <2>3
  <2>5. ASSUME NEW t \in SUBSET E, Cardinality(t) < Cardinality(s) PROVE it[t] \in Nat
    <3>1. SUFFICES ASSUME t \in Bad PROVE FALSE
      OBVIOUS
    <3>2. c <= Cardinality(t)
      BY <2>3, <3>1
    <3> QED
      BY <2>1, <2>4, <2>5, <3>2
  <2>6. Divided(n, s, it) \in Nat
    BY <2>5, DividedTyped
  <2> QED
    BY <1>5, <2>4, <2>6
<1>7. it[E] \in Nat
  BY <1>6
<1> QED
  BY <1>2, <1>3, <1>7

(* The join of two plans is a plan.                                         *)
LEMMA JoinTyped ==
  ASSUME NEW g \in Graphs, NEW S1, NEW S2, NEW p1 \in Plans, NEW p2 \in Plans
  PROVE  /\ JoinPlan(g, S1, S2, p1, p2) \in Plans /\ JoinPlan(g, S1, S2, p1, p2).found
<1>1. Between(g, S1, S2) \in SUBSET Edges /\ IsFiniteSet(Between(g, S1, S2))
  <2>1. Between(g, S1, S2) \in SUBSET Edges
    BY EdgesFinite DEF Between
  <2> QED
    BY <2>1, EdgesFinite, FS_Subset
<1>2. /\ p1.card \in Nat /\ p2.card \in Nat /\ p1.cost \in Nat /\ p2.cost \in Nat
  BY DEF Plans
<1>3. PICK n \in Nat : n = p1.card * p2.card
  BY <1>2
<1>4. PICK card \in Nat : card = FoldSet(LAMBDA e, m : m \div Sel(e), n, Between(g, S1, S2))
  BY <1>1, <1>3, FoldTyped
<1>5. JoinPlan(g, S1, S2, p1, p2) = Plan(p1.cost + p2.cost + card, card)
  BY <1>3, <1>4 DEF JoinPlan
<1>6. PICK a \in Nat, b \in Nat : a = p1.cost /\ b = p2.cost
  BY <1>2
<1>7. a + b + card \in Nat
  OBVIOUS
<1>8. JoinPlan(g, S1, S2, p1, p2) = Plan(a + b + card, card)
  BY <1>5, <1>6
<1> QED
  BY <1>7, <1>8 DEF Plan, Plans

(* The edges between two sets do not depend on their order.                 *)
LEMMA BetweenSwapped ==
  ASSUME NEW g, NEW S1, NEW S2
  PROVE  Between(g, S1, S2) = Between(g, S2, S1)
  BY DEF Between

(* Nor does the plan that joins them.                                       *)
LEMMA JoinSwapped ==
  ASSUME NEW g, NEW S1, NEW S2, NEW p1 \in Plans, NEW p2 \in Plans
  PROVE  JoinPlan(g, S1, S2, p1, p2) = JoinPlan(g, S2, S1, p2, p1)
<1>1. /\ p1.card \in Nat /\ p2.card \in Nat /\ p1.cost \in Nat /\ p2.cost \in Nat
  BY DEF Plans
<1>2. PICK n, c, E : n = p1.card * p2.card /\ c = p1.cost + p2.cost /\ E = Between(g, S1, S2)
  OBVIOUS
<1>3. n = p2.card * p1.card /\ c = p2.cost + p1.cost
  BY <1>1, <1>2
<1>4. E = Between(g, S2, S1)
  BY <1>2, BetweenSwapped
<1>5. JoinPlan(g, S1, S2, p1, p2) = LET card == FoldSet(LAMBDA e, m : m \div Sel(e), n, E) IN Plan(c + card, card)
  BY <1>2 DEF JoinPlan
<1>6. JoinPlan(g, S2, S1, p2, p1) = LET card == FoldSet(LAMBDA e, m : m \div Sel(e), n, E) IN Plan(c + card, card)
  BY <1>3, <1>4 DEF JoinPlan
<1> QED
  BY <1>5, <1>6

(* A join of cheaper plans of the same cardinalities is cheaper.            *)
LEMMA JoinMonotone ==
  ASSUME NEW g \in Graphs, NEW S1, NEW S2, NEW p1 \in Plans, NEW p2 \in Plans, NEW q1 \in Plans, NEW q2 \in Plans,
         p1.card = q1.card, p2.card = q2.card, p1.cost <= q1.cost, p2.cost <= q2.cost
  PROVE  JoinPlan(g, S1, S2, p1, p2).cost <= JoinPlan(g, S1, S2, q1, q2).cost
<1>1. /\ p1.card \in Nat /\ p2.card \in Nat /\ p1.cost \in Nat /\ p2.cost \in Nat
      /\ q1.cost \in Nat /\ q2.cost \in Nat
  BY DEF Plans
<1>2. PICK n \in Nat : n = p1.card * p2.card /\ n = q1.card * q2.card
  BY <1>1
<1>3. Between(g, S1, S2) \in SUBSET Edges /\ IsFiniteSet(Between(g, S1, S2))
  <2>1. Between(g, S1, S2) \in SUBSET Edges
    BY EdgesFinite DEF Between
  <2> QED
    BY <2>1, EdgesFinite, FS_Subset
<1>4. PICK card \in Nat : card = FoldSet(LAMBDA e, m : m \div Sel(e), n, Between(g, S1, S2))
  BY <1>2, <1>3, FoldTyped
<1>5. JoinPlan(g, S1, S2, p1, p2) = Plan(p1.cost + p2.cost + card, card)
  BY <1>2, <1>4 DEF JoinPlan
<1>6. JoinPlan(g, S1, S2, q1, q2) = Plan(q1.cost + q2.cost + card, card)
  BY <1>2, <1>4 DEF JoinPlan
<1>7. \A c, d : Plan(c, d).cost = c
  BY DEF Plan
<1>8. p1.cost + p2.cost + card <= q1.cost + q2.cost + card
  <2>1. PICK a \in Nat, b \in Nat, c \in Nat, d \in Nat :
          a = p1.cost /\ b = p2.cost /\ c = q1.cost /\ d = q2.cost
    BY <1>1
  <2>2. a <= c /\ b <= d
    BY <2>1
  <2>3. a + b + card <= c + d + card
    BY <2>2
  <2> QED
    BY <2>1, <2>3
<1> QED
  BY <1>5, <1>6, <1>7, <1>8

-----------------------------------------------------------------------------
(* Connected sets and their plans, by the splits of a set.                  *)

LEMMA SplitSmaller ==
  ASSUME NEW g, NEW S \in NodeSets, NEW S1 \in Splits(g, S)
  PROVE  /\ S1 \in NodeSets /\ Cardinality(S1) < Cardinality(S)
         /\ S \ S1 \in NodeSets /\ Cardinality(S \ S1) < Cardinality(S)
         /\ Cardinality(S) # 1 /\ S1 \subseteq S /\ Between(g, S1, S \ S1) # {}
<1>1. S1 \subseteq S /\ S1 # {} /\ S1 # S /\ Between(g, S1, S \ S1) # {}
  BY DEF Splits
<1> QED
  BY <1>1, Smaller

(* Whether a set is connected depends on smaller sets only.                 *)
LEMMA ConnectsSame ==
  ASSUME NEW g, NEW S \in NodeSets, NEW f, NEW h,
         \A T \in NodeSets : Cardinality(T) < Cardinality(S) => f[T] = h[T]
  PROVE  Connects(g, S, f) = Connects(g, S, h)
<1>1. ASSUME NEW S1 \in Splits(g, S) PROVE f[S1] = h[S1] /\ f[S \ S1] = h[S \ S1]
  BY SplitSmaller
<1> QED
  BY <1>1 DEF Connects

(* Sets of nodes have sizes.                                                *)
LEMMA SetSizes ==
  \E size, most : Sizes(NodeSets, size, most) /\ \A S \in NodeSets : size[S] = Cardinality(S)
<1>1. PICK size : size = [S \in NodeSets |-> Cardinality(S)]
  OBVIOUS
<1>2. Sizes(NodeSets, size, NumNodes)
  BY <1>1, Sized, NodesFinite DEF Sizes
<1> QED
  BY <1>1, <1>2

(* The recursion for connected sets has a solution.                         *)
LEMMA ConnectedSolves ==
  ASSUME NEW g
  PROVE  \E c : c = [S \in NodeSets |-> Connects(g, S, c)]
<1>1. PICK size, most : Sizes(NodeSets, size, most) /\ \A S \in NodeSets : size[S] = Cardinality(S)
  BY SetSizes
<1>2. PICK V : V = BOOLEAN
  OBVIOUS
<1>3. PICK D : D = NodeSets
  OBVIOUS
<1>4. PICK G : G = [a \in D \X [D -> V] |-> Connects(g, a[1], a[2])]
  OBVIOUS
<1>5. \A S \in D, f \in [D -> V] : G[<<S, f>>] = Connects(g, S, f) /\ Connects(g, S, f) \in V
  BY <1>2, <1>4 DEF Connects
<1>6. Values(D, V, G)
  <2>1. V # {}
    BY <1>2
  <2>2. \A a \in D \X [D -> V] : Connects(g, a[1], a[2]) \in V
    BY <1>2 DEF Connects
  <2>3. G \in [D \X [D -> V] -> V]
    BY <1>4, <2>2
  <2> QED
    BY <2>1, <2>3 DEF Values
<1>7. Local(D, size, V, G)
  <2>1. ASSUME NEW S \in D, NEW f \in [D -> V], NEW h \in [D -> V],
               \A T \in D : size[T] < size[S] => f[T] = h[T]
        PROVE  Connects(g, S, f) = Connects(g, S, h)
    BY <1>1, <1>3, <2>1, ConnectsSame
  <2> QED
    BY <1>5, <2>1 DEF Local
<1>8. PICK c : Solves(D, V, G, c)
  BY <1>1, <1>3, <1>6, <1>7, Recursion
<1>9. c \in [D -> V] /\ \A S \in D : c[S] = Connects(g, S, c)
  BY <1>5, <1>8 DEF Solves
<1>10. c = [S \in D |-> Connects(g, S, c)]
  BY <1>9
<1> QED
  BY <1>3, <1>10

(* A set is connected when it is one node or splits into connected sets.    *)
LEMMA ConnectedIs ==
  ASSUME NEW g
  PROVE  /\ Connected(g) \subseteq NodeSets
         /\ \A S \in NodeSets :
              S \in Connected(g) <=>
                Cardinality(S) = 1 \/ \E S1 \in Splits(g, S) : S1 \in Connected(g) /\ S \ S1 \in Connected(g)
<1>1. PICK c : c = CHOOSE h : h = [S \in NodeSets |-> Connects(g, S, h)]
  OBVIOUS
<1>2. c = [S \in NodeSets |-> Connects(g, S, c)]
  BY <1>1, ConnectedSolves
<1>3. \A S \in NodeSets : c[S] = Connects(g, S, c)
  BY <1>2
<1>4. Connected(g) = {S \in NodeSets : c[S]}
  BY <1>1 DEF Connected
<1>5. ASSUME NEW S \in NodeSets
      PROVE  S \in Connected(g) <=>
               Cardinality(S) = 1 \/ \E S1 \in Splits(g, S) : S1 \in Connected(g) /\ S \ S1 \in Connected(g)
  <2>1. S \in Connected(g) <=> Cardinality(S) = 1 \/ \E S1 \in Splits(g, S) : c[S1] /\ c[S \ S1]
    BY <1>3, <1>4 DEF Connects
  <2>2. \A S1 \in Splits(g, S) : S1 \in NodeSets /\ S \ S1 \in NodeSets
    BY SplitSmaller
  <2> QED
    BY <1>4, <2>1, <2>2
<1> QED
  BY <1>4, <1>5

-----------------------------------------------------------------------------
(* Plans.                                                                   *)

(* p joins plans that a gives for the sides of a split of S.                *)
OfSplit(g, S, S1, a, p) == \E p1 \in a[S1], p2 \in a[S \ S1] : p = JoinPlan(g, S1, S \ S1, p1, p2)

(* The plans of a set are those of a node or of a split.                    *)
LEMMA PlanOf ==
  ASSUME NEW g, NEW S, NEW a, NEW p
  PROVE  p \in PlansFor(g, S, a) <=>
           \/ Cardinality(S) = 1 /\ p = Plan(0, Card(Min(S)))
           \/ /\ Cardinality(S) # 1
              /\ \E S1 \in Splits(g, S) : OfSplit(g, S, S1, a, p)
<1>1. CASE Cardinality(S) = 1
  BY <1>1 DEF PlansFor
<1>2. CASE Cardinality(S) # 1
  <2>1. p \in PlansFor(g, S, a) <=> \E S1 \in Splits(g, S) : p \in JoinsOf(g, S1, S \ S1, a)
    BY <1>2 DEF PlansFor
  <2>2. ASSUME NEW S1 PROVE p \in JoinsOf(g, S1, S \ S1, a) <=> OfSplit(g, S, S1, a, p)
    <3>1. p \in JoinsOf(g, S1, S \ S1, a) <=> \E p1 \in a[S1] : p \in JoinsWith(g, S1, S \ S1, p1, a[S \ S1])
      BY DEF JoinsOf
    <3>2. \A p1 : p \in JoinsWith(g, S1, S \ S1, p1, a[S \ S1]) <=>
                    \E p2 \in a[S \ S1] : p = JoinPlan(g, S1, S \ S1, p1, p2)
      BY DEF JoinsWith
    <3> QED
      BY <3>1, <3>2 DEF OfSplit
  <2> QED
    BY <1>2, <2>1, <2>2
<1> QED
  BY <1>1, <1>2

(* The plans of a set depend on those of smaller sets only.                 *)
LEMMA PlansSame ==
  ASSUME NEW g, NEW S \in NodeSets, NEW f, NEW h,
         \A T \in NodeSets : Cardinality(T) < Cardinality(S) => f[T] = h[T]
  PROVE  PlansFor(g, S, f) = PlansFor(g, S, h)
<1>1. ASSUME NEW S1 \in Splits(g, S) PROVE f[S1] = h[S1] /\ f[S \ S1] = h[S \ S1]
  BY SplitSmaller
<1>2. PICK A, B : A = PlansFor(g, S, f) /\ B = PlansFor(g, S, h)
  OBVIOUS
<1>3. ASSUME NEW p PROVE p \in A <=> p \in B
  <2>1. \A S1 \in Splits(g, S) : OfSplit(g, S, S1, f, p) <=> OfSplit(g, S, S1, h, p)
    BY <1>1 DEF OfSplit
  <2> QED
    BY <1>2, <2>1, PlanOf
<1>4. A \subseteq B /\ B \subseteq A
  BY <1>3
<1> QED
  BY <1>2, <1>4

(* The plans of a set are plans, if those of smaller sets are.              *)
LEMMA PlansTyped ==
  ASSUME NEW g \in Graphs, NEW S \in NodeSets, NEW a,
         \A T \in NodeSets : Cardinality(T) < Cardinality(S) => a[T] \subseteq Plans
  PROVE  PlansFor(g, S, a) \subseteq Plans
<1>1. ASSUME NEW p \in PlansFor(g, S, a) PROVE p \in Plans
  <2>1. CASE Cardinality(S) = 1 /\ p = Plan(0, Card(Min(S)))
    <3>1. Card(Min(S)) \in Nat
      BY LeastNode, DPhypAssumption DEF DPhypAssumption
    <3> QED
      BY <2>1, <3>1 DEF Plan, Plans
  <2>2. CASE \E S1 \in Splits(g, S) : OfSplit(g, S, S1, a, p)
    <3>1. PICK S1 \in Splits(g, S) : OfSplit(g, S, S1, a, p)
      BY <2>2
    <3>2. PICK p1 \in a[S1], p2 \in a[S \ S1] : p = JoinPlan(g, S1, S \ S1, p1, p2)
      BY <3>1 DEF OfSplit
    <3>3. p1 \in Plans /\ p2 \in Plans
      BY <3>2, SplitSmaller
    <3> QED
      BY <3>2, <3>3, JoinTyped
  <2> QED
    BY <1>1, <2>1, <2>2, PlanOf
<1> QED
  BY <1>1

(* The recursion for plans has a solution.                                  *)
LEMMA AllPlansSolves ==
  ASSUME NEW g \in Graphs
  PROVE  \E a : a = [S \in NodeSets |-> PlansFor(g, S, a)]
<1>1. PICK size, most : Sizes(NodeSets, size, most) /\ \A S \in NodeSets : size[S] = Cardinality(S)
  BY SetSizes
<1>2. PICK V : V = SUBSET Plans
  OBVIOUS
<1>3. PICK D : D = NodeSets
  OBVIOUS
<1>4. PICK G : G = [a \in D \X [D -> V] |-> PlansFor(g, a[1], a[2])]
  OBVIOUS
<1>5. ASSUME NEW S \in D, NEW f \in [D -> V] PROVE PlansFor(g, S, f) \in V
  <2>1. \A T \in D : f[T] \subseteq Plans
    BY <1>2
  <2> QED
    BY <1>2, <1>3, <2>1, PlansTyped
<1>6. Values(D, V, G)
  <2>1. V # {}
    BY <1>2
  <2>2. \A a \in D \X [D -> V] : PlansFor(g, a[1], a[2]) \in V
    BY <1>5
  <2>3. G \in [D \X [D -> V] -> V]
    BY <1>4, <2>2
  <2> QED
    BY <2>1, <2>3 DEF Values
<1>7. Local(D, size, V, G)
  <2>1. ASSUME NEW S \in D, NEW f \in [D -> V], NEW h \in [D -> V],
               \A T \in D : size[T] < size[S] => f[T] = h[T]
        PROVE  PlansFor(g, S, f) = PlansFor(g, S, h)
    BY <1>1, <1>3, <2>1, PlansSame
  <2> QED
    BY <1>4, <2>1 DEF Local
<1>8. PICK a : Solves(D, V, G, a)
  BY <1>1, <1>3, <1>6, <1>7, Recursion
<1>9. a \in [D -> V] /\ \A S \in D : a[S] = PlansFor(g, S, a)
  BY <1>4, <1>8 DEF Solves
<1>10. a = [S \in D |-> PlansFor(g, S, a)]
  BY <1>9
<1> QED
  BY <1>3, <1>10

(* So all plans of a set are those that its splits give.                    *)
LEMMA AllPlansAre ==
  ASSUME NEW g \in Graphs, NEW S \in NodeSets
  PROVE  AllPlans(g)[S] = PlansFor(g, S, AllPlans(g)) /\ AllPlans(g)[S] \subseteq Plans
<1>1. PICK all : all = AllPlans(g)
  OBVIOUS
<1>2. all = CHOOSE a : a = [T \in NodeSets |-> PlansFor(g, T, a)]
  BY <1>1 DEF AllPlans
<1>3. all = [T \in NodeSets |-> PlansFor(g, T, all)]
  BY <1>2, AllPlansSolves
<1>4. \A T \in NodeSets : all[T] = PlansFor(g, T, all)
  BY <1>3
<1> DEFINE Bad == {T \in NodeSets : ~ all[T] \subseteq Plans}
<1>5. ASSUME Bad # {} PROVE FALSE
  <2>1. PICK T \in Bad : \A U \in NodeSets : Cardinality(U) < Cardinality(T) => U \notin Bad
    BY <1>5, LeastSet
  <2>2. T \in NodeSets /\ ~ all[T] \subseteq Plans
    BY <2>1
  <2>3. \A U \in NodeSets : Cardinality(U) < Cardinality(T) => all[U] \subseteq Plans
    BY <2>1
  <2> QED
    BY <1>4, <2>2, <2>3, PlansTyped
<1> QED
  BY <1>1, <1>4, <1>5

-----------------------------------------------------------------------------
(* The neighborhood reaches whatever is reached at all.                     *)

LEMMA CandidateIs ==
  ASSUME NEW g \in Graphs, NEW S, NEW X, NEW v \in Candidates(g, S, X)
  PROVE  v \in NodeSets /\ v \cap (S \cup X) = {}
  BY EdgesFinite DEF Candidates

(* A neighborhood is outside of what it excludes.                           *)
LEMMA NeighborhoodIs ==
  ASSUME NEW g \in Graphs, NEW S, NEW X
  PROVE  /\ calc_neighborhood(g, S, X) \subseteq Nodes
         /\ calc_neighborhood(g, S, X) \cap (S \cup X) = {}
<1>1. PICK C : C = Candidates(g, S, X)
  OBVIOUS
<1>2. \A v \in C : Min(v) \in v /\ Min(v) \in Nodes /\ Min(v) \notin S \cup X
  BY <1>1, CandidateIs, LeastNode
<1>3. \A n \in calc_neighborhood(g, S, X) : \E v \in C : n = Min(v)
  BY <1>1 DEF calc_neighborhood
<1> QED
  BY <1>2, <1>3

(* Every hypernode that an edge leads to holds a node of the neighborhood.  *)
LEMMA Neighbor ==
  ASSUME NEW g \in Graphs, NEW S, NEW X, NEW v \in Candidates(g, S, X)
  PROVE  v \cap calc_neighborhood(g, S, X) # {}
<1>1. PICK C : C = Candidates(g, S, X)
  OBVIOUS
<1> DEFINE B == {c \in C : c \subseteq v}
<1>2. B \in SUBSET NodeSets /\ B # {}
  BY <1>1, CandidateIs
<1>3. PICK c \in B : \A T \in NodeSets : Cardinality(T) < Cardinality(c) => T \notin B
  BY <1>2, LeastSet
<1>4. c \in C /\ c \subseteq v /\ c \in NodeSets
  BY <1>2, <1>3
<1>5. ASSUME NEW d \in C, d \subseteq c, d # c PROVE FALSE
  <2>1. d \in NodeSets /\ d # {}
    BY <1>1, <1>5, CandidateIs, Sized
  <2>2. Cardinality(d) < Cardinality(c)
    BY <1>4, <1>5, <2>1, Smaller
  <2>3. d \in B
    BY <1>4, <1>5
  <2> QED
    BY <1>3, <2>1, <2>2, <2>3
<1>6. c \in {u \in C : \A d \in C : d \subseteq u => d = u}
  BY <1>4, <1>5
<1>7. Min(c) \in calc_neighborhood(g, S, X)
  BY <1>1, <1>6 DEF calc_neighborhood
<1>8. Min(c) \in v
  BY <1>4, LeastNode
<1> QED
  BY <1>7, <1>8

(* An edge from S to P, which X does not touch, leads into P.               *)
LEMMA Reaches ==
  ASSUME NEW g \in Graphs, NEW S, NEW P, NEW X, P \cap (S \cup X) = {}, Between(g, S, P) # {}
  PROVE  P \cap calc_neighborhood(g, S, X) # {}
<1>1. PICK e \in g : \E u, v \in e : u # v /\ u \subseteq S /\ v \subseteq P
  BY DEF Between
<1>2. PICK u \in e, v \in e : u # v /\ u \subseteq S /\ v \subseteq P
  BY <1>1
<1>3. v \in Candidates(g, S, X)
  BY <1>1, <1>2 DEF Candidates
<1> QED
  BY <1>2, <1>3, Neighbor

(* Larger sets are joined by more edges.                                    *)
LEMMA BetweenMore ==
  ASSUME NEW g, NEW S, NEW T, Between(g, S, T) # {}, NEW U, NEW V, S \subseteq U, T \subseteq V
  PROVE  Between(g, U, V) # {}
  BY DEF Between

(* However a connected set is split, an edge joins the parts.               *)
LEMMA Linked ==
  ASSUME NEW g, NEW S \in Connected(g), NEW T, T \subseteq S, T # {}, T # S
  PROVE  Between(g, T, S \ T) # {}
<1> DEFINE Parted(U) == \E R \in SUBSET U : R # {} /\ R # U /\ Between(g, R, U \ R) = {}
           Bad == {U \in NodeSets : U \in Connected(g) /\ Parted(U)}
<1>1. SUFFICES ASSUME Bad # {} PROVE FALSE
  BY ConnectedIs
<1>2. PICK U \in Bad : \A W \in NodeSets : Cardinality(W) < Cardinality(U) => W \notin Bad
  BY <1>1, LeastSet
<1>3. U \in NodeSets /\ U \in Connected(g) /\ Parted(U)
  BY <1>2
<1>4. PICK R \in SUBSET U : R # {} /\ R # U /\ Between(g, R, U \ R) = {}
  BY <1>3
<1>5. Cardinality(U) # 1
  BY <1>3, <1>4, Smaller
<1>6. PICK A \in Splits(g, U) : A \in Connected(g) /\ U \ A \in Connected(g)
  BY <1>3, <1>5, ConnectedIs
<1>7. PICK B : B = U \ A
  OBVIOUS
<1>8. /\ A \in NodeSets /\ Cardinality(A) < Cardinality(U) /\ A \subseteq U
      /\ B \in NodeSets /\ Cardinality(B) < Cardinality(U) /\ Between(g, A, B) # {}
  BY <1>3, <1>6, <1>7, SplitSmaller
<1>9. ~ Parted(A) /\ ~ Parted(B)
  BY <1>2, <1>6, <1>7, <1>8
<1>10. R \cap A = {} \/ R \cap A = A
  <2>1. SUFFICES ASSUME R \cap A # {}, R \cap A # A PROVE FALSE
    OBVIOUS
  <2>2. Between(g, R \cap A, A \ (R \cap A)) # {}
    BY <1>9, <2>1
  <2>3. A \ (R \cap A) \subseteq U \ R
    BY <1>8
  <2> QED
    BY <1>4, <2>2, <2>3, BetweenMore
<1>11. R \cap B = {} \/ R \cap B = B
  <2>1. SUFFICES ASSUME R \cap B # {}, R \cap B # B PROVE FALSE
    OBVIOUS
  <2>2. Between(g, R \cap B, B \ (R \cap B)) # {}
    BY <1>9, <2>1
  <2>3. B \ (R \cap B) \subseteq U \ R
    BY <1>7
  <2> QED
    BY <1>4, <2>2, <2>3, BetweenMore
<1>12. (R = A /\ U \ R = B) \/ (R = B /\ U \ R = A)
  BY <1>4, <1>7, <1>8, <1>10, <1>11
<1> QED
  BY <1>4, <1>8, <1>12, BetweenSwapped

(* A connected set that is more than its part within X goes on into the     *)
(* neighborhood of that part.                                               *)
LEMMA GoesOn ==
  ASSUME NEW g \in Graphs, NEW Q \in Connected(g), NEW X, NEW S, S # {}, Q \cap X = S, Q # S
  PROVE  Q \cap calc_neighborhood(g, S, X) # {}
<1>1. Between(g, S, Q \ S) # {}
  BY Linked
<1>2. (Q \ S) \cap (S \cup X) = {}
  OBVIOUS
<1>3. (Q \ S) \cap calc_neighborhood(g, S, X) # {}
  BY <1>1, <1>2, Reaches
<1> QED
  BY <1>3

(* What a pair to be joined is.                                             *)
LEMMA PairIs ==
  ASSUME NEW g \in Graphs, NEW p \in Pairs(g)
  PROVE  /\ p = <<p[1], p[2]>> /\ p[1] \in Connected(g) /\ p[2] \in Connected(g)
         /\ p[1] \in NodeSets /\ p[2] \in NodeSets
         /\ p[1] \cap p[2] = {} /\ Min(p[1]) < Min(p[2]) /\ is_connected(g, p[1], p[2])
         /\ Min(p[1] \cup p[2]) = Min(p[1]) /\ p[1] \cup p[2] \in NodeSets
<1>1. /\ p = <<p[1], p[2]>> /\ p[1] \in Connected(g) /\ p[2] \in Connected(g)
      /\ p[1] \cap p[2] = {} /\ Min(p[1]) < Min(p[2]) /\ is_connected(g, p[1], p[2])
  BY DEF Pairs
<1>2. PICK A, B : A = p[1] /\ B = p[2]
  OBVIOUS
<1>3. A \in NodeSets /\ B \in NodeSets /\ Min(A) < Min(B)
  BY <1>1, <1>2, ConnectedIs
<1>4. A \cup B \in NodeSets
  BY <1>3 DEF NodeSets
<1>5. Min(A \cup B) = Min(A)
  <2>1. Min(A) \in Nat /\ Min(B) \in Nat /\ Min(A) \in A /\ \A i \in A : Min(A) <= i
    BY <1>3, LeastNode
  <2>2. \A i \in B : i \in Nat /\ Min(B) <= i
    BY <1>3, LeastNode
  <2>3. \A i \in A \cup B : Min(A) <= i
    BY <1>3, <2>1, <2>2
  <2> QED
    BY <1>4, <2>1, <2>3, LeastIs
<1> QED
  BY <1>1, <1>2, <1>3, <1>4, <1>5

(* The sides of a split of a connected set are a pair, one way or the other.*)
LEMMA SplitPaired ==
  ASSUME NEW g \in Graphs, NEW S \in NodeSets, NEW A \in Splits(g, S), A \in Connected(g), S \ A \in Connected(g)
  PROVE  <<A, S \ A>> \in Pairs(g) \/ <<S \ A, A>> \in Pairs(g)
<1>1. PICK B : B = S \ A
  OBVIOUS
<1>2. A \in NodeSets /\ B \in NodeSets /\ Between(g, A, B) # {}
  BY <1>1, SplitSmaller
<1>3. A \cap B = {}
  BY <1>1
<1>4. Min(A) \in A /\ Min(B) \in B /\ Min(A) \in Nat /\ Min(B) \in Nat
  BY <1>2, LeastNode
<1>5. Min(A) < Min(B) \/ Min(B) < Min(A)
  BY <1>3, <1>4
<1>6. is_connected(g, A, B) /\ is_connected(g, B, A)
  BY <1>2, BetweenSwapped DEF is_connected
<1>7. PICK p, q : p = <<A, B>> /\ q = <<B, A>>
  OBVIOUS
<1>8. CASE Min(A) < Min(B)
  <2>1. p \in Connected(g) \X Connected(g) /\ p[1] = A /\ p[2] = B
    BY <1>1, <1>7
  <2> QED
    BY <1>1, <1>3, <1>6, <1>7, <1>8, <2>1 DEF Pairs
<1>9. CASE Min(B) < Min(A)
  <2>1. q \in Connected(g) \X Connected(g) /\ q[1] = B /\ q[2] = A
    BY <1>1, <1>7
  <2> QED
    BY <1>1, <1>3, <1>6, <1>7, <1>9, <2>1 DEF Pairs
<1> QED
  BY <1>5, <1>8, <1>9

(* What a pair joins is connected, by the split into its sides.             *)
LEMMA PairSplits ==
  ASSUME NEW g \in Graphs, NEW p \in Pairs(g)
  PROVE  /\ p[1] \in Splits(g, p[1] \cup p[2]) /\ (p[1] \cup p[2]) \ p[1] = p[2]
         /\ p[1] \cup p[2] \in Connected(g) /\ Cardinality(p[1] \cup p[2]) # 1
<1>1. PICK A, B : A = p[1] /\ B = p[2]
  OBVIOUS
<1>2. /\ A \in Connected(g) /\ B \in Connected(g) /\ A \in NodeSets /\ B \in NodeSets
      /\ A \cap B = {} /\ is_connected(g, A, B) /\ A \cup B \in NodeSets
  BY <1>1, PairIs
<1>3. A # {} /\ B # {}
  BY <1>2, Sized
<1>4. (A \cup B) \ A = B /\ A # A \cup B
  BY <1>2, <1>3
<1>5. A \in Splits(g, A \cup B)
  BY <1>2, <1>3, <1>4 DEF Splits, is_connected
<1>6. A \cup B \in Connected(g)
  <2>1. PICK S \in NodeSets : S = A \cup B
    BY <1>2
  <2>2. A \in Splits(g, S) /\ S \ A = B
    BY <1>4, <1>5, <2>1
  <2>3. S \in Connected(g)
    BY <1>2, <2>2, ConnectedIs
  <2> QED
    BY <2>1, <2>3
<1>7. Cardinality(A \cup B) # 1
  BY <1>2, <1>5, SplitSmaller
<1> QED
  BY <1>1, <1>4, <1>5, <1>6, <1>7

-----------------------------------------------------------------------------
(* What the loops on the stack lead to.                                     *)

(* Q2 may come after Q1: it begins no later, and is no part of it from the  *)
(* same node.                                                               *)
After(Q2, Q1) == Min(Q2) < Min(Q1) \/ (Min(Q2) = Min(Q1) /\ ~ (Q2 \subseteq Q1 /\ Q2 # Q1))

(* The pairs that the iteration of a loop for M may join; and the loop.     *)
LeadsBy(l, M, Q, P) ==
  \/ l.op = "Solve" /\ Q \cap get_B(Min(M)) = M
  \/ l.op = "EmitCsg" /\ Q = l.S1 /\ P \cap (l.X \cup (l.N \cap get_B(Min(M)))) = M
  \/ l.op = "TryCsg" /\ Q = l.S1 \cup M
  \/ l.op = "EnumerateCsgRec" /\ Q \cap (l.X \cup l.N) = l.S1 \cup M /\ Q # l.S1 \cup M
  \/ l.op = "TryCmp" /\ Q = l.S1 /\ P = l.S2 \cup M
  \/ l.op = "EnumerateCmpRec" /\ Q = l.S1 /\ P \cap (l.X \cup l.N) = l.S2 \cup M /\ P # l.S2 \cup M

(* A loop leads to what an iteration it has left leads to.                  *)
Leads(l, Q, P) ==
  \/ l.op = "EmitCsgCmp" /\ Q = l.S1 /\ P = l.S2
  \/ \E M \in l.left : LeadsBy(l, M, Q, P)

(* The loops there are.                                                     *)
Ops == {"Solve", "EmitCsg", "TryCsg", "EnumerateCsgRec", "TryCmp", "EnumerateCmpRec", "EmitCsgCmp"}
Loops == [op : Ops, S1 : SUBSET Nodes, S2 : SUBSET Nodes, X : SUBSET Nodes, N : SUBSET Nodes,
          left : SUBSET NodeSets]

(* The loops of Solve and EmitCsg take single nodes.                        *)
FitSingle(l) == \A M \in l.left : \E v \in l.N : M = {v}

(* The loops of EnumerateCsgRec exclude S and all below its least node.     *)
FitCsg(g, S, l) ==
  /\ S \in NodeSets /\ S \subseteq l.X /\ get_B(Min(S)) \subseteq l.X
  /\ l.N = calc_neighborhood(g, S, l.X) /\ l.left \subseteq Subsets(l.N)

(* S2 has no node of S1, and none below its least node.                     *)
Apart(S1, S2) == S1 \in NodeSets /\ S2 \in NodeSets /\ S2 \cap (S1 \cup get_B(Min(S1))) = {}

(* What the loops on the stack are.                                         *)
Fit(g, dp, l) ==
  /\ l \in Loops
  /\ l.op = "Solve" => FitSingle(l)
  /\ l.op = "EmitCsg" => /\ l.S1 \in NodeSets /\ dp[l.S1].found /\ FitSingle(l)
                         /\ l.X = l.S1 \cup get_B(Min(l.S1)) /\ l.N = calc_neighborhood(g, l.S1, l.X)
  /\ l.op \in {"TryCsg", "EnumerateCsgRec"} => FitCsg(g, l.S1, l)
  /\ l.op \in {"TryCmp", "EnumerateCmpRec"} =>
       /\ dp[l.S1].found /\ Apart(l.S1, l.S2)
       /\ l.S1 \cup get_B(Min(l.S1)) \cup l.S2 \subseteq l.X
       /\ l.N = calc_neighborhood(g, l.S2, l.X) /\ l.left \subseteq Subsets(l.N)
  /\ l.op = "EmitCsgCmp" => /\ dp[l.S1].found /\ dp[l.S2].found /\ Apart(l.S1, l.S2)
                            /\ is_connected(g, l.S1, l.S2) /\ l.left = {}

(* What m leads to may come after what l leads to, and differs from it.     *)
Later(l, m) ==
  \A Q1, P1, Q2, P2 \in NodeSets :
    Leads(l, Q1, P1) /\ Leads(m, Q2, P2) => After(Q2, Q1) /\ (Q1 # Q2 \/ P1 # P2)

(* What m leads to may come after the pair p, and is not p.                 *)
Past(p, m) == \A Q, P \in NodeSets : Leads(m, Q, P) => After(Q, p[1]) /\ (p[1] # Q \/ p[2] # P)

-----------------------------------------------------------------------------
(* The order within a loop.                                                 *)

LEMMA Below ==
  ASSUME NEW v \in Nodes
  PROVE  get_B(v) \subseteq Nodes /\ v \in get_B(v) /\ \A i \in Nat : i \in get_B(v) <=> i <= v
  BY NodesFinite DEF get_B, Nodes

(* A set that is S within X, where X holds all below S, begins where S does.*)
LEMMA BeginsAt ==
  ASSUME NEW S \in NodeSets, NEW Q \in NodeSets, NEW X, get_B(Min(S)) \subseteq X, Q \cap X = S
  PROVE  Min(Q) = Min(S)
<1>1. Min(S) \in S /\ Min(S) \in Nodes /\ Min(S) \in Nat /\ \A i \in S : Min(S) <= i
  BY LeastNode
<1>2. ASSUME NEW i \in Q PROVE Min(S) <= i
  <2>1. i \in Nat
    BY LeastNode
  <2>2. CASE i \in X
    BY <1>1, <2>2
  <2>3. CASE i \notin X
    BY <1>1, <2>1, <2>3, Below
  <2> QED
    BY <2>2, <2>3
<1>3. Min(S) \in Q
  BY <1>1
<1> QED
  BY <1>2, <1>3, LeastIs

(* A mask never comes before that of a part of its set.                     *)
LEMMA NotWithin ==
  ASSUME NEW M, NEW K, Before(M, K)
  PROVE  ~ K \subseteq M
  BY DEF Before

(* Sets that begin at the same node, the later no part of the earlier.      *)
LEMMA AfterSame ==
  ASSUME NEW Q1, NEW Q2, Min(Q1) = Min(Q2), ~ (Q2 \subseteq Q1 /\ Q2 # Q1)
  PROVE  After(Q2, Q1)
  BY DEF After

(* M comes before K in loop l.                                              *)
Earlier(l, M, K) == IF l.op \in {"Solve", "EmitCsg"} THEN Before(K, M) ELSE Before(M, K)

(* The masks of single nodes are ordered as the nodes.                      *)
LEMMA SinglesOrdered ==
  ASSUME NEW v \in Nodes, NEW w \in Nodes, Before({w}, {v})
  PROVE  w < v
<1>1. PICK i \in {v} \ {w} : \A k \in {w} \ {v} : k < i
  BY DEF Before
<1>2. i = v /\ w # v
  BY <1>1
<1> QED
  BY <1>1, <1>2

(* The parts of a loop.                                                     *)
LEMMA LoopParts ==
  ASSUME NEW op, NEW S1, NEW S2, NEW X, NEW N, NEW left, NEW l, l = Loop(op, S1, S2, X, N, left)
  PROVE  /\ l.op = op /\ l.S1 = S1 /\ l.S2 = S2 /\ l.X = X /\ l.N = N /\ l.left = left
         /\ op \in Ops /\ {S1, S2, X, N} \subseteq SUBSET Nodes /\ left \subseteq NodeSets => l \in Loops
<1>1. l = [op |-> op, S1 |-> S1, S2 |-> S2, X |-> X, N |-> N, left |-> left]
  BY DEF Loop
<1> QED
  BY <1>1 DEF Loops

(* The iterations of one loop lead to pairs in order.                       *)
LEMMA LoopOrdered ==
  ASSUME NEW g \in Graphs, NEW dp, NEW l, Fit(g, dp, l), NEW M \in l.left, NEW K \in l.left, K # M,
         Earlier(l, M, K), NEW Q1 \in NodeSets, NEW P1 \in NodeSets, NEW Q2 \in NodeSets, NEW P2 \in NodeSets,
         LeadsBy(l, M, Q1, P1), LeadsBy(l, K, Q2, P2)
  PROVE  After(Q2, Q1) /\ (Q1 # Q2 \/ P1 # P2)
<1>1. /\ l.op \in Ops /\ l.S1 \in SUBSET Nodes /\ l.S2 \in SUBSET Nodes /\ l.X \in SUBSET Nodes
      /\ l.N \in SUBSET Nodes /\ l.left \in SUBSET NodeSets
  BY DEF Fit, Loops
<1>2. M \in NodeSets /\ K \in NodeSets
  BY <1>1
<1>3. CASE l.op = "Solve"
  <2>1. PICK v \in l.N, w \in l.N : M = {v} /\ K = {w}
    BY <1>3 DEF Fit, FitSingle
  <2>2. v \in Nodes /\ w \in Nodes /\ v \in Nat /\ w \in Nat /\ Min(M) = v /\ Min(K) = w
    BY <1>1, <2>1, SingleNode, NodesFinite
  <2>3. w < v
    BY <1>3, <2>1, <2>2, SinglesOrdered DEF Earlier
  <2>4. Q1 \cap get_B(v) = M /\ Q2 \cap get_B(w) = K
    BY <1>3, <2>2 DEF LeadsBy
  <2>5. Min(Q1) = v /\ Min(Q2) = w
    BY <1>2, <2>2, <2>4, BeginsAt
  <2> QED
    BY <2>2, <2>3, <2>5 DEF After
<1>4. CASE l.op = "EmitCsg"
  <2>1. PICK v \in l.N, w \in l.N : M = {v} /\ K = {w}
    BY <1>4 DEF Fit, FitSingle
  <2>2. v \in Nodes /\ w \in Nodes /\ v \in Nat /\ w \in Nat /\ Min(M) = v /\ Min(K) = w
    BY <1>1, <2>1, SingleNode, NodesFinite
  <2>3. w < v
    BY <1>4, <2>1, <2>2, SinglesOrdered DEF Earlier
  <2>4. /\ Q1 = l.S1 /\ P1 \cap (l.X \cup (l.N \cap get_B(v))) = M
        /\ Q2 = l.S1 /\ P2 \cap (l.X \cup (l.N \cap get_B(w))) = K
    BY <1>4, <2>2 DEF LeadsBy
  <2>5. w \in P2 /\ w \in l.N \cap get_B(v)
    BY <2>1, <2>2, <2>3, <2>4, Below
  <2>6. P1 # P2
    BY <2>1, <2>2, <2>3, <2>4, <2>5
  <2> QED
    BY <2>4, <2>6, AfterSame
<1>5. CASE l.op = "TryCsg"
  <2>1. FitCsg(g, l.S1, l) /\ ~ K \subseteq M
    BY <1>5, NotWithin DEF Earlier, Fit
  <2>2. /\ l.S1 \in NodeSets /\ get_B(Min(l.S1)) \subseteq l.X /\ l.S1 \subseteq l.X
        /\ M \subseteq l.N /\ K \subseteq l.N /\ l.N \cap l.X = {}
    BY <1>2, <2>1, NeighborhoodIs DEF FitCsg, Subsets
  <2>3. Q1 = l.S1 \cup M /\ Q2 = l.S1 \cup K
    BY <1>5 DEF LeadsBy
  <2>4. Q1 \cap l.X = l.S1 /\ Q2 \cap l.X = l.S1
    BY <2>2, <2>3
  <2>5. Min(Q1) = Min(Q2)
    BY <2>2, <2>4, BeginsAt
  <2>6. ~ Q2 \subseteq Q1
    BY <2>1, <2>2, <2>3
  <2> QED
    BY <2>5, <2>6, AfterSame
<1>6. CASE l.op = "EnumerateCsgRec"
  <2>1. FitCsg(g, l.S1, l) /\ ~ K \subseteq M
    BY <1>6, NotWithin DEF Earlier, Fit
  <2>2. /\ l.S1 \in NodeSets /\ get_B(Min(l.S1)) \subseteq l.X /\ l.S1 \subseteq l.X
        /\ M \subseteq l.N /\ K \subseteq l.N /\ l.N \cap l.X = {}
    BY <1>2, <2>1, NeighborhoodIs DEF FitCsg, Subsets
  <2>3. Q1 \cap (l.X \cup l.N) = l.S1 \cup M /\ Q2 \cap (l.X \cup l.N) = l.S1 \cup K
    BY <1>6 DEF LeadsBy
  <2>4. Q1 \cap l.X = l.S1 /\ Q2 \cap l.X = l.S1
    BY <2>2, <2>3
  <2>5. Min(Q1) = Min(Q2)
    BY <2>2, <2>4, BeginsAt
  <2>6. ~ Q2 \subseteq Q1
    BY <2>1, <2>2, <2>3
  <2> QED
    BY <2>5, <2>6, AfterSame
<1>7. CASE l.op = "TryCmp" \/ l.op = "EnumerateCmpRec"
  <2>1. ~ K \subseteq M
    BY <1>7, NotWithin DEF Earlier
  <2>2. /\ l.S2 \in NodeSets /\ l.S2 \subseteq l.X
        /\ M \subseteq l.N /\ K \subseteq l.N /\ l.N \cap l.X = {}
    BY <1>2, <1>7, NeighborhoodIs DEF Fit, Subsets, Apart
  <2>3. Q1 = Q2
    BY <1>7 DEF LeadsBy
  <2>4. (P1 = l.S2 \cup M /\ P2 = l.S2 \cup K)
        \/ (P1 \cap (l.X \cup l.N) = l.S2 \cup M /\ P2 \cap (l.X \cup l.N) = l.S2 \cup K)
    BY <1>7 DEF LeadsBy
  <2>5. P1 # P2
    BY <2>1, <2>2, <2>4
  <2> QED
    BY <2>3, <2>5, AfterSame
<1>8. CASE l.op = "EmitCsgCmp"
  BY <1>8 DEF Fit
<1> QED
  BY <1>1, <1>3, <1>4, <1>5, <1>6, <1>7, <1>8 DEF Ops

-----------------------------------------------------------------------------
(* What is called leads to what it should.                                  *)

(* What a call of EnumerateCsgRec leads to: the connected sets that are S   *)
(* within X, and more.                                                      *)
CsgCalled(g, dp, S, X, a, b) ==
  /\ EnumerateCsgRec(g, S, X) = <<a, b>>
  /\ Fit(g, dp, a) /\ Fit(g, dp, b) /\ Later(a, b)
  /\ \A Q, P \in NodeSets : Leads(a, Q, P) \/ Leads(b, Q, P) => Q \cap X = S /\ Q # S
  /\ \A Q, P \in NodeSets : Q \in Connected(g) /\ Q \cap X = S /\ Q # S => Leads(a, Q, P) \/ Leads(b, Q, P)

(* EnumerateCsgRec leads to the connected sets that grow from S.            *)
LEMMA CsgCall ==
  ASSUME NEW g \in Graphs, NEW dp, NEW S \in NodeSets, NEW X \in SUBSET Nodes, S \subseteq X, get_B(Min(S)) \subseteq X
  PROVE  \E a, b : CsgCalled(g, dp, S, X, a, b)
<1>1. PICK N : N = calc_neighborhood(g, S, X)
  OBVIOUS
<1>2. N \subseteq Nodes /\ N \cap X = {} /\ N \cap S = {} /\ S \in SUBSET Nodes
  BY <1>1, NeighborhoodIs, Sized
<1>3. PICK a, b : /\ a = Loop("TryCsg", S, {}, X, N, Subsets(N))
                  /\ b = Loop("EnumerateCsgRec", S, {}, X, N, Subsets(N))
  OBVIOUS
<1>4. EnumerateCsgRec(g, S, X) = <<a, b>>
  BY <1>1, <1>3 DEF EnumerateCsgRec
<1>5. Subsets(N) \subseteq NodeSets
  BY <1>2 DEF Subsets, NodeSets
<1>6. /\ a.op = "TryCsg" /\ a.S1 = S /\ a.X = X /\ a.N = N /\ a.left = Subsets(N)
      /\ "TryCsg" \in Ops => a \in Loops
  BY <1>2, <1>3, <1>5, LoopParts
<1>7. /\ b.op = "EnumerateCsgRec" /\ b.S1 = S /\ b.X = X /\ b.N = N /\ b.left = Subsets(N)
      /\ "EnumerateCsgRec" \in Ops => b \in Loops
  BY <1>2, <1>3, <1>5, LoopParts
<1>8. Fit(g, dp, a) /\ Fit(g, dp, b)
  BY <1>1, <1>6, <1>7 DEF Fit, FitCsg, Ops
<1>9. ASSUME NEW Q \in NodeSets, NEW P \in NodeSets
      PROVE  Leads(a, Q, P) <=> \E M \in Subsets(N) : Q = S \cup M
  BY <1>6 DEF Leads, LeadsBy
<1>10. ASSUME NEW Q \in NodeSets, NEW P \in NodeSets
       PROVE  Leads(b, Q, P) <=> \E M \in Subsets(N) : Q \cap (X \cup N) = S \cup M /\ Q # S \cup M
  BY <1>7 DEF Leads, LeadsBy
<1>11. ASSUME NEW Q \in NodeSets, NEW P \in NodeSets, Leads(a, Q, P) \/ Leads(b, Q, P)
       PROVE  Q \cap X = S /\ Q # S
  <2>1. PICK M \in Subsets(N) : Q = S \cup M \/ Q \cap (X \cup N) = S \cup M
    BY <1>9, <1>10, <1>11
  <2>2. M \subseteq N /\ M # {}
    BY DEF Subsets
  <2> QED
    BY <1>2, <2>1, <2>2
<1>12. Later(a, b)
  <2>1. ASSUME NEW Q1 \in NodeSets, NEW P1 \in NodeSets, NEW Q2 \in NodeSets, NEW P2 \in NodeSets,
               Leads(a, Q1, P1), Leads(b, Q2, P2)
        PROVE  After(Q2, Q1) /\ (Q1 # Q2 \/ P1 # P2)
    <3>1. PICK M \in Subsets(N) : Q1 = S \cup M
      BY <1>9, <2>1
    <3>2. PICK K \in Subsets(N) : Q2 \cap (X \cup N) = S \cup K /\ Q2 # S \cup K
      BY <1>10, <2>1
    <3>3. M \subseteq N
      BY DEF Subsets
    <3>4. ~ Q2 \subseteq Q1
      BY <3>1, <3>2, <3>3
    <3>5. Min(Q1) = Min(S) /\ Min(Q2) = Min(S)
      BY <1>11, <2>1, BeginsAt
    <3> QED
      BY <3>4, <3>5, AfterSame
  <2> QED
    BY <2>1 DEF Later
<1>13. ASSUME NEW Q \in NodeSets, NEW P \in NodeSets, Q \in Connected(g), Q \cap X = S, Q # S
       PROVE  Leads(a, Q, P) \/ Leads(b, Q, P)
  <2>1. Q \cap N # {}
    BY <1>1, <1>13, GoesOn, Sized
  <2>2. Q \cap N \in Subsets(N) /\ Q \cap (X \cup N) = S \cup (Q \cap N)
    BY <1>13, <2>1 DEF Subsets
  <2> QED
    BY <1>9, <1>10, <2>2
<1> QED
  BY <1>4, <1>8, <1>11, <1>12, <1>13 DEF CsgCalled

(* And one of EnumerateCmpRec, for S1: those that are S within X, and more. *)
CmpCalled(g, dp, S1, S, X, a, b) ==
  /\ EnumerateCmpRec(g, S1, S, X) = <<a, b>>
  /\ Fit(g, dp, a) /\ Fit(g, dp, b) /\ Later(a, b)
  /\ \A Q, P \in NodeSets : Leads(a, Q, P) \/ Leads(b, Q, P) => Q = S1 /\ P \cap X = S /\ P # S
  /\ \A Q, P \in NodeSets :
       P \in Connected(g) /\ Q = S1 /\ P \cap X = S /\ P # S => Leads(a, Q, P) \/ Leads(b, Q, P)

(* EnumerateCmpRec leads to the connected complements that grow from S.     *)
LEMMA CmpCall ==
  ASSUME NEW g \in Graphs, NEW dp, NEW S1, NEW S, Apart(S1, S), dp[S1].found, NEW X \in SUBSET Nodes,
         S1 \cup get_B(Min(S1)) \cup S \subseteq X
  PROVE  \E a, b : CmpCalled(g, dp, S1, S, X, a, b)
<1>0. S1 \in NodeSets /\ S \in NodeSets
  BY DEF Apart
<1>1. PICK N : N = calc_neighborhood(g, S, X)
  OBVIOUS
<1>2. N \subseteq Nodes /\ N \cap X = {} /\ N \cap S = {} /\ S \in SUBSET Nodes /\ S1 \in SUBSET Nodes
  BY <1>0, <1>1, NeighborhoodIs, Sized
<1>3. PICK a, b : /\ a = Loop("TryCmp", S1, S, X, N, Subsets(N))
                  /\ b = Loop("EnumerateCmpRec", S1, S, X, N, Subsets(N))
  OBVIOUS
<1>4. EnumerateCmpRec(g, S1, S, X) = <<a, b>>
  BY <1>1, <1>3 DEF EnumerateCmpRec
<1>5. Subsets(N) \subseteq NodeSets
  BY <1>2 DEF Subsets, NodeSets
<1>6. /\ a.op = "TryCmp" /\ a.S1 = S1 /\ a.S2 = S /\ a.X = X /\ a.N = N /\ a.left = Subsets(N)
      /\ "TryCmp" \in Ops => a \in Loops
  BY <1>2, <1>3, <1>5, LoopParts
<1>7. /\ b.op = "EnumerateCmpRec" /\ b.S1 = S1 /\ b.S2 = S /\ b.X = X /\ b.N = N /\ b.left = Subsets(N)
      /\ "EnumerateCmpRec" \in Ops => b \in Loops
  BY <1>2, <1>3, <1>5, LoopParts
<1>8. Fit(g, dp, a) /\ Fit(g, dp, b)
  BY <1>1, <1>6, <1>7 DEF Fit, Ops
<1>9. ASSUME NEW Q \in NodeSets, NEW P \in NodeSets
      PROVE  Leads(a, Q, P) <=> Q = S1 /\ \E M \in Subsets(N) : P = S \cup M
  BY <1>6 DEF Leads, LeadsBy
<1>10. ASSUME NEW Q \in NodeSets, NEW P \in NodeSets
       PROVE  Leads(b, Q, P) <=> Q = S1 /\ \E M \in Subsets(N) : P \cap (X \cup N) = S \cup M /\ P # S \cup M
  BY <1>7 DEF Leads, LeadsBy
<1>11. ASSUME NEW Q \in NodeSets, NEW P \in NodeSets, Leads(a, Q, P) \/ Leads(b, Q, P)
       PROVE  Q = S1 /\ P \cap X = S /\ P # S
  <2>1. Q = S1 /\ \E M \in Subsets(N) : P = S \cup M \/ P \cap (X \cup N) = S \cup M
    BY <1>9, <1>10, <1>11
  <2>2. PICK M \in Subsets(N) : P = S \cup M \/ P \cap (X \cup N) = S \cup M
    BY <2>1
  <2>3. M \subseteq N /\ M # {}
    BY DEF Subsets
  <2> QED
    BY <1>2, <2>1, <2>2, <2>3
<1>12. Later(a, b)
  <2>1. ASSUME NEW Q1 \in NodeSets, NEW P1 \in NodeSets, NEW Q2 \in NodeSets, NEW P2 \in NodeSets,
               Leads(a, Q1, P1), Leads(b, Q2, P2)
        PROVE  After(Q2, Q1) /\ (Q1 # Q2 \/ P1 # P2)
    <3>1. PICK M \in Subsets(N) : Q1 = S1 /\ P1 = S \cup M
      BY <1>9, <2>1
    <3>2. PICK K \in Subsets(N) : Q2 = S1 /\ P2 \cap (X \cup N) = S \cup K /\ P2 # S \cup K
      BY <1>10, <2>1
    <3>3. M \subseteq N
      BY DEF Subsets
    <3>4. P1 # P2
      BY <3>1, <3>2, <3>3
    <3> QED
      BY <3>1, <3>2, <3>4, AfterSame
  <2> QED
    BY <2>1 DEF Later
<1>13. ASSUME NEW Q \in NodeSets, NEW P \in NodeSets, P \in Connected(g), Q = S1, P \cap X = S, P # S
       PROVE  Leads(a, Q, P) \/ Leads(b, Q, P)
  <2>1. P \cap N # {}
    BY <1>0, <1>1, <1>13, GoesOn, Sized
  <2>2. P \cap N \in Subsets(N) /\ P \cap (X \cup N) = S \cup (P \cap N)
    BY <1>13, <2>1 DEF Subsets
  <2> QED
    BY <1>9, <1>10, <1>13, <2>2
<1> QED
  BY <1>4, <1>8, <1>11, <1>12, <1>13 DEF CmpCalled

(* And one of EmitCsg: every pair whose first side is S.                    *)
LEMMA EmitCall ==
  ASSUME NEW g \in Graphs, NEW dp, NEW S \in NodeSets, dp[S].found
  PROVE  /\ Fit(g, dp, EmitCsg(g, S))
         /\ \A Q, P \in NodeSets : Leads(EmitCsg(g, S), Q, P) => Q = S
         /\ \A p \in Pairs(g) : p[1] = S => Leads(EmitCsg(g, S), p[1], p[2])
<1>1. PICK X : X = S \cup get_B(Min(S))
  OBVIOUS
<1>2. PICK N : N = calc_neighborhood(g, S, X)
  OBVIOUS
<1>3. /\ N \subseteq Nodes /\ N \cap X = {} /\ X \in SUBSET Nodes /\ S \in SUBSET Nodes
      /\ Min(S) \in Nat /\ Min(S) \in Nodes
  BY <1>1, <1>2, NeighborhoodIs, Sized, LeastNode, Below
<1>4. PICK l : l = Loop("EmitCsg", S, {}, X, N, {{v} : v \in N})
  OBVIOUS
<1>5. EmitCsg(g, S) = l
  BY <1>1, <1>2, <1>4 DEF EmitCsg
<1>6. {{v} : v \in N} \subseteq NodeSets
  BY <1>3 DEF NodeSets
<1>7. /\ l.op = "EmitCsg" /\ l.S1 = S /\ l.X = X /\ l.N = N /\ l.left = {{v} : v \in N}
      /\ "EmitCsg" \in Ops => l \in Loops
  BY <1>3, <1>4, <1>6, LoopParts
<1>8. Fit(g, dp, l)
  BY <1>1, <1>2, <1>7 DEF Fit, FitSingle, Ops
<1>9. ASSUME NEW p \in Pairs(g), p[1] = S PROVE Leads(l, p[1], p[2])
  <2>1. PICK P : P = p[2]
    OBVIOUS
  <2>2. P \in NodeSets /\ S \cap P = {} /\ Min(S) < Min(P) /\ Between(g, S, P) # {}
    BY <1>9, <2>1, PairIs DEF is_connected
  <2>3. P \cap X = {}
    <3>1. \A i \in P : i \in Nat /\ Min(P) <= i /\ Min(P) \in Nat
      BY <2>2, LeastNode
    <3>2. \A i \in P : i \notin get_B(Min(S))
      BY <1>3, <2>2, <3>1, Below
    <3> QED
      BY <1>1, <2>2, <3>2
  <2>4. P \cap N # {}
    BY <1>2, <2>2, <2>3, Reaches
  <2>5. P \cap N \in NodeSets
    BY <1>3, <2>4 DEF NodeSets
  <2>6. PICK w : w = Min(P \cap N)
    OBVIOUS
  <2>7. w \in P /\ w \in N /\ w \in Nat /\ w \in Nodes /\ \A i \in P \cap N : i \in Nat /\ w <= i
    BY <2>5, <2>6, LeastNode
  <2>8. \A i \in P \cap N : i \in get_B(w) <=> i = w
    BY <2>7, Below
  <2>9. P \cap (X \cup (N \cap get_B(w))) = {w}
    BY <2>3, <2>7, <2>8
  <2>10. Min({w}) = w /\ {w} \in l.left
    BY <1>7, <2>7, SingleNode
  <2>11. LeadsBy(l, {w}, p[1], p[2])
    BY <1>7, <1>9, <2>1, <2>9, <2>10 DEF LeadsBy
  <2> QED
    BY <2>10, <2>11 DEF Leads
<1>10. ASSUME NEW Q \in NodeSets, NEW P \in NodeSets, Leads(l, Q, P) PROVE Q = S
  BY <1>7, <1>10 DEF Leads, LeadsBy
<1> QED
  BY <1>5, <1>8, <1>9, <1>10

(* And one of EmitCsgCmp.                                                   *)
LEMMA JoinCall ==
  ASSUME NEW g \in Graphs, NEW dp, NEW S1, NEW S2, Apart(S1, S2), dp[S1].found, dp[S2].found, is_connected(g, S1, S2)
  PROVE  /\ Fit(g, dp, Join(S1, S2))
         /\ \A Q, P : Leads(Join(S1, S2), Q, P) <=> Q = S1 /\ P = S2
<1>1. PICK l : l = Loop("EmitCsgCmp", S1, S2, {}, {}, {})
  OBVIOUS
<1>2. S1 \in SUBSET Nodes /\ S2 \in SUBSET Nodes
  BY Sized DEF Apart
<1>3. /\ l.op = "EmitCsgCmp" /\ l.S1 = S1 /\ l.S2 = S2 /\ l.left = {}
      /\ "EmitCsgCmp" \in Ops => l \in Loops
  BY <1>1, <1>2, LoopParts
<1>4. Fit(g, dp, l)
  BY <1>3 DEF Fit, Ops
<1>5. \A Q, P : Leads(l, Q, P) <=> Q = S1 /\ P = S2
  BY <1>3 DEF Leads
<1> QED
  BY <1>1, <1>4, <1>5 DEF Join

-----------------------------------------------------------------------------
(* The table, the joins and the stack.                                      *)

(* The stack: its loops fit, what they lead to comes in the order of the    *)
(* stack and after what has been joined, and every pair has been joined or  *)
(* is led to.                                                               *)
Stack(g, dp, J, s) ==
  /\ s \in Seq(Loops) /\ \A i \in DOMAIN s : Fit(g, dp, s[i])
  /\ \A i, j \in DOMAIN s : i < j => Later(s[i], s[j])
  /\ \A k \in DOMAIN J, j \in DOMAIN s : Past(J[k], s[j])
  /\ \A p \in Pairs(g) : (\E k \in DOMAIN J : J[k] = p) \/ (\E j \in DOMAIN s : Leads(s[j], p[1], p[2]))

(* The sets that have a plan.                                               *)
Entry(S, J) == Cardinality(S) = 1 \/ \E k \in DOMAIN J : J[k][1] \cup J[k][2] = S

(* The table: a plan for the sets that joins have made, one of all plans    *)
(* of its set, and for each join made a plan no dearer than that of its     *)
(* sides, as they are now.                                                  *)
Table(g, dp, J) ==
  /\ dp \in [NodeSets -> Plans] /\ J \in Seq(NodeSets \X NodeSets)
  /\ \A i, j \in DOMAIN J : i # j => J[i] # J[j]
  /\ \A k \in DOMAIN J : J[k] \in Pairs(g)
  /\ \A S \in NodeSets : dp[S].found <=> Entry(S, J)
  /\ \A S \in NodeSets : dp[S].found => dp[S] \in AllPlans(g)[S]
  /\ \A k \in DOMAIN J :
       dp[J[k][1] \cup J[k][2]].cost <= JoinPlan(g, J[k][1], J[k][2], dp[J[k][1]], dp[J[k][2]]).cost

(* The invariant.                                                           *)
DPInv == edges \in Graphs /\ Stack(edges, dpTable, joined, todo) /\ Table(edges, dpTable, joined)

(* What a loop l calls in its iteration for M leads to what that iteration  *)
(* leads to.                                                                *)
Called(g, dp, l, M, c) ==
  /\ c \in Seq(Loops) /\ \A i \in DOMAIN c : Fit(g, dp, c[i])
  /\ \A i, j \in DOMAIN c : i < j => Later(c[i], c[j])
  /\ \A i \in DOMAIN c : \A Q, P \in NodeSets : Leads(c[i], Q, P) => LeadsBy(l, M, Q, P)
  /\ \A p \in Pairs(g) : LeadsBy(l, M, p[1], p[2]) => \E i \in DOMAIN c : Leads(c[i], p[1], p[2])

(* M is the next set that the loop takes.                                   *)
First(l, M) == M \in l.left /\ \A K \in l.left \ {M} : Earlier(l, M, K)

(* The loop after its iteration for M.                                      *)
Without(l, M) == [l EXCEPT !.left = @ \ {M}]

(* The parts of the loop after an iteration.                                *)
LEMMA WithoutParts ==
  ASSUME NEW l \in Loops, NEW M
  PROVE  LET r == Without(l, M) IN
         /\ r \in Loops /\ r.op = l.op /\ r.S1 = l.S1 /\ r.S2 = l.S2 /\ r.X = l.X /\ r.N = l.N
         /\ r.left = l.left \ {M}
  BY DEF Without, Loops

(* An iteration takes from a loop what it leads to.                         *)
LEMMA WithoutLeads ==
  ASSUME NEW g, NEW dp, NEW l, Fit(g, dp, l), NEW M \in l.left
  PROVE  /\ Fit(g, dp, Without(l, M))
         /\ \A Q, P : Leads(l, Q, P) <=> LeadsBy(l, M, Q, P) \/ Leads(Without(l, M), Q, P)
         /\ \A Q, P : Leads(Without(l, M), Q, P) => \E K \in l.left \ {M} : LeadsBy(l, K, Q, P)
<1>1. l \in Loops /\ l.op # "EmitCsgCmp"
  BY DEF Fit
<1>2. PICK r : r = Without(l, M)
  OBVIOUS
<1>3. /\ r \in Loops /\ r.op = l.op /\ r.S1 = l.S1 /\ r.S2 = l.S2 /\ r.X = l.X /\ r.N = l.N
      /\ r.left = l.left \ {M}
  BY <1>1, <1>2, WithoutParts
<1>4. Fit(g, dp, r)
  BY <1>1, <1>3 DEF Fit, FitCsg, FitSingle
<1>5. \A K, Q, P : LeadsBy(r, K, Q, P) <=> LeadsBy(l, K, Q, P)
  BY <1>3 DEF LeadsBy
<1>6. \A Q, P : Leads(r, Q, P) <=> \E K \in l.left \ {M} : LeadsBy(l, K, Q, P)
  BY <1>1, <1>3, <1>5 DEF Leads
<1>7. \A Q, P : Leads(l, Q, P) <=> \E K \in l.left : LeadsBy(l, K, Q, P)
  BY <1>1 DEF Leads
<1> QED
  BY <1>2, <1>4, <1>6, <1>7

-----------------------------------------------------------------------------
(* Sequences: what an iteration does to the stack.                          *)

(* The sequence t is a followed by b.                                       *)
IsConcat(T, a, b, t) ==
  /\ t \in Seq(T) /\ Len(t) = Len(a) + Len(b)
  /\ \A k \in 1 .. Len(a) : t[k] = a[k]
  /\ \A k \in 1 .. Len(b) : t[Len(a) + k] = b[k]

(* Concatenation gives that sequence.                                       *)
LEMMA Concatenated ==
  ASSUME NEW T, NEW a \in Seq(T), NEW b \in Seq(T), NEW t, t = a \o b
  PROVE  IsConcat(T, a, b, t)
<1>1. a \o b \in Seq(T) /\ Len(a \o b) = Len(a) + Len(b)
  OBVIOUS
<1>2. \A k \in 1 .. Len(a) : (a \o b)[k] = a[k]
  OBVIOUS
<1>3. \A k \in 1 .. Len(b) : (a \o b)[Len(a) + k] = b[k]
  OBVIOUS
<1> QED
  BY <1>1, <1>2, <1>3 DEF IsConcat

(* The stack after a step: what is called, what the loop has left, the      *)
(* rest.                                                                    *)
LEMMA SeqParts ==
  ASSUME NEW T, NEW c \in Seq(T), NEW r \in T, NEW s \in Seq(T), s # <<>>,
         NEW t, t = c \o <<r>> \o Tail(s)
  PROVE  /\ t \in Seq(T)
         /\ \A k \in DOMAIN t : \/ k \in DOMAIN c /\ t[k] = c[k]
                                \/ k = Len(c) + 1 /\ t[k] = r
                                \/ k - Len(c) \in DOMAIN s /\ k - Len(c) > 1 /\ t[k] = s[k - Len(c)]
         /\ \A k \in DOMAIN c : k \in DOMAIN t /\ t[k] = c[k]
         /\ Len(c) + 1 \in DOMAIN t /\ t[Len(c) + 1] = r
         /\ \A k \in DOMAIN s : k > 1 => k + Len(c) \in DOMAIN t /\ t[k + Len(c)] = s[k]
<1>1. PICK u : u = Tail(s)
  OBVIOUS
<1>2. u \in Seq(T) /\ Len(u) = Len(s) - 1 /\ \A k \in 1 .. Len(u) : u[k] = s[k + 1]
  BY <1>1
<1>3. PICK d : d = c \o <<r>>
  OBVIOUS
<1>4. /\ d \in Seq(T) /\ Len(d) = Len(c) + 1 /\ d[Len(c) + 1] = r /\ \A k \in 1 .. Len(c) : d[k] = c[k]
  BY <1>3
<1>5. t = d \o u
  BY <1>1, <1>3
<1>6. /\ t \in Seq(T) /\ Len(t) = Len(d) + Len(u)
      /\ \A k \in 1 .. Len(d) : t[k] = d[k]
      /\ \A k \in 1 .. Len(u) : t[Len(d) + k] = u[k]
  <2>1. d \in Seq(T) /\ u \in Seq(T)
    BY <1>2, <1>4
  <2>2. IsConcat(T, d, u, t)
    BY <1>5, <2>1, Concatenated
  <2> QED
    BY <2>2 DEF IsConcat
<1>7. /\ Len(c) \in Nat /\ Len(s) \in Nat \ {0} /\ DOMAIN c = 1 .. Len(c) /\ DOMAIN s = 1 .. Len(s)
      /\ DOMAIN t = 1 .. Len(t) /\ Len(t) = Len(c) + Len(s) /\ Len(d) = Len(c) + 1 /\ Len(u) = Len(s) - 1
  BY <1>2, <1>4, <1>6
<1>8. ASSUME NEW k \in DOMAIN t
      PROVE  \/ k \in DOMAIN c /\ t[k] = c[k]
             \/ k = Len(c) + 1 /\ t[k] = r
             \/ k - Len(c) \in DOMAIN s /\ k - Len(c) > 1 /\ t[k] = s[k - Len(c)]
  <2>1. CASE k <= Len(c)
    BY <1>4, <1>6, <1>7, <2>1
  <2>2. CASE k = Len(c) + 1
    BY <1>4, <1>6, <1>7, <2>2
  <2>3. CASE k > Len(c) + 1
    <3>1. PICK m \in 1 .. Len(u) : k = Len(d) + m
      <4>1. k - Len(d) \in 1 .. Len(u) /\ k = Len(d) + (k - Len(d))
        BY <1>7, <2>3
      <4> QED
        BY <4>1
    <3>2. t[k] = s[m + 1]
      BY <1>2, <1>6, <3>1
    <3>3. k - Len(c) = m + 1
      BY <1>7, <3>1
    <3> QED
      BY <1>7, <2>3, <3>2, <3>3
  <2> QED
    BY <1>7, <2>1, <2>2, <2>3
<1>9. \A k \in DOMAIN c : k \in DOMAIN t /\ t[k] = c[k]
  BY <1>4, <1>6, <1>7
<1>10. Len(c) + 1 \in DOMAIN t /\ t[Len(c) + 1] = r
  BY <1>4, <1>6, <1>7
<1>11. ASSUME NEW k \in DOMAIN s, k > 1 PROVE k + Len(c) \in DOMAIN t /\ t[k + Len(c)] = s[k]
  <2>1. PICK m \in 1 .. Len(u) : k = m + 1
    <3>1. k - 1 \in 1 .. Len(u) /\ k = k - 1 + 1
      BY <1>7, <1>11
    <3> QED
      BY <3>1
  <2>2. t[Len(d) + m] = s[k]
    BY <1>2, <1>6, <2>1
  <2>3. Len(d) + m = k + Len(c) /\ k + Len(c) \in 1 .. Len(t)
    BY <1>7, <2>1
  <2> QED
    BY <1>7, <2>2, <2>3
<1> QED
  BY <1>1, <1>3, <1>5, <1>6, <1>8, <1>9, <1>10, <1>11

(* Loops that lead to less keep their order.                                *)
LEMMA LaterLess ==
  ASSUME NEW l, NEW m, NEW k, NEW n, Later(l, m),
         \A Q, P \in NodeSets : Leads(k, Q, P) => Leads(l, Q, P),
         \A Q, P \in NodeSets : Leads(n, Q, P) => Leads(m, Q, P)
  PROVE  Later(k, n)
  BY DEF Later

(* An iteration keeps the order of the stack.                               *)
LEMMA Iterated ==
  ASSUME NEW g \in Graphs, NEW dp, NEW J, NEW s, Stack(g, dp, J, s), s # <<>>,
         NEW M, First(s[1], M), NEW c, Called(g, dp, s[1], M, c)
  PROVE  Stack(g, dp, J, c \o <<Without(s[1], M)>> \o Tail(s))
<1>1. PICK l, r, n, t : l = s[1] /\ r = Without(l, M) /\ n = Len(c) /\ t = c \o <<r>> \o Tail(s)
  OBVIOUS
<1>2. s \in Seq(Loops) /\ 1 \in DOMAIN s /\ c \in Seq(Loops)
  BY DEF Stack, Called
<1>3. n \in Nat /\ DOMAIN c = 1 .. n /\ DOMAIN s \subseteq Nat /\ DOMAIN c \subseteq Nat
  BY <1>1, <1>2
<1>4. Fit(g, dp, l) /\ l \in Loops /\ M \in l.left
  BY <1>1, <1>2 DEF Stack, First, Fit
<1>5. /\ Fit(g, dp, r) /\ r \in Loops
      /\ \A Q, P : Leads(l, Q, P) <=> LeadsBy(l, M, Q, P) \/ Leads(r, Q, P)
      /\ \A Q, P : Leads(r, Q, P) => \E K \in l.left \ {M} : LeadsBy(l, K, Q, P)
  <2>1. /\ Fit(g, dp, r)
        /\ \A Q, P : Leads(l, Q, P) <=> LeadsBy(l, M, Q, P) \/ Leads(r, Q, P)
        /\ \A Q, P : Leads(r, Q, P) => \E K \in l.left \ {M} : LeadsBy(l, K, Q, P)
    BY <1>1, <1>4, WithoutLeads
  <2>2. r \in Loops
    BY <2>1 DEF Fit
  <2> QED
    BY <2>1, <2>2
<1>6. t \in Seq(Loops) /\ DOMAIN t \subseteq Nat
  BY <1>1, <1>2, <1>5, SeqParts
<1>7. \A k \in DOMAIN t : \/ k \in DOMAIN c /\ t[k] = c[k]
                          \/ k = n + 1 /\ t[k] = r
                          \/ k - n \in DOMAIN s /\ k - n > 1 /\ t[k] = s[k - n]
  <2>1. r \in Loops /\ t = c \o <<r>> \o Tail(s)
    BY <1>1, <1>5
  <2> QED
    BY <1>1, <1>2, <2>1, SeqParts
<1>8. /\ \A k \in DOMAIN c : k \in DOMAIN t /\ t[k] = c[k]
      /\ n + 1 \in DOMAIN t /\ t[n + 1] = r
      /\ \A k \in DOMAIN s : k > 1 => k + n \in DOMAIN t /\ t[k + n] = s[k]
  <2>1. r \in Loops /\ t = c \o <<r>> \o Tail(s) /\ n = Len(c)
    BY <1>1, <1>5
  <2>2. \A k \in DOMAIN c : k \in DOMAIN t /\ t[k] = c[k]
    BY <1>1, <1>2, <2>1, SeqParts
  <2>3. n + 1 \in DOMAIN t /\ t[n + 1] = r
    BY <1>1, <1>2, <2>1, SeqParts
  <2>4. \A k \in DOMAIN s : k > 1 => k + n \in DOMAIN t /\ t[k + n] = s[k]
    BY <1>1, <1>2, <2>1, SeqParts
  <2> QED
    BY <2>2, <2>3, <2>4
<1>9. \A i \in DOMAIN c : \A Q, P \in NodeSets : Leads(c[i], Q, P) => LeadsBy(l, M, Q, P)
  BY <1>1 DEF Called
<1>10. /\ \A i \in DOMAIN c : \A Q, P \in NodeSets : Leads(c[i], Q, P) => Leads(l, Q, P)
       /\ \A Q, P \in NodeSets : Leads(r, Q, P) => Leads(l, Q, P)
  BY <1>5, <1>9
<1>11. \A k \in DOMAIN t : Fit(g, dp, t[k])
  BY <1>5, <1>7 DEF Stack, Called
<1>12. ASSUME NEW i \in DOMAIN c PROVE Later(c[i], r)
  <2>1. ASSUME NEW Q1 \in NodeSets, NEW P1 \in NodeSets, NEW Q2 \in NodeSets, NEW P2 \in NodeSets,
               Leads(c[i], Q1, P1), Leads(r, Q2, P2)
        PROVE  After(Q2, Q1) /\ (Q1 # Q2 \/ P1 # P2)
    <3>1. LeadsBy(l, M, Q1, P1)
      BY <1>9, <2>1
    <3>2. PICK K \in l.left \ {M} : LeadsBy(l, K, Q2, P2)
      BY <1>5, <2>1
    <3>3. Earlier(l, M, K) /\ K \in l.left /\ K # M
      BY <1>1, <3>2 DEF First
    <3> QED
      BY <1>4, <3>1, <3>2, <3>3, LoopOrdered
  <2> QED
    BY <2>1 DEF Later
<1>13. ASSUME NEW j \in DOMAIN s, j > 1 PROVE Later(l, s[j])
  BY <1>1, <1>2, <1>13 DEF Stack
<1>14. ASSUME NEW i \in DOMAIN t, NEW j \in DOMAIN t, i < j PROVE Later(t[i], t[j])
  <2>1. i \in Nat /\ j \in Nat
    BY <1>6
  <2>2. CASE i \in DOMAIN c /\ t[i] = c[i]
    <3>1. CASE j \in DOMAIN c /\ t[j] = c[j]
      BY <1>14, <2>2, <3>1 DEF Called
    <3>2. CASE j = n + 1 /\ t[j] = r
      BY <1>12, <2>2, <3>2
    <3>3. CASE j - n \in DOMAIN s /\ j - n > 1 /\ t[j] = s[j - n]
      BY <1>10, <1>13, <2>2, <3>3, LaterLess
    <3> QED
      BY <1>7, <3>1, <3>2, <3>3
  <2>3. CASE i = n + 1 /\ t[i] = r
    <3>1. j - n \in DOMAIN s /\ j - n > 1 /\ t[j] = s[j - n]
      BY <1>3, <1>7, <1>14, <2>1, <2>3
    <3> QED
      BY <1>10, <1>13, <2>3, <3>1, LaterLess
  <2>4. CASE i - n \in DOMAIN s /\ i - n > 1 /\ t[i] = s[i - n]
    <3>1. j - n \in DOMAIN s /\ j - n > 1 /\ t[j] = s[j - n]
      BY <1>3, <1>7, <1>14, <2>1, <2>4
    <3>2. i - n < j - n
      BY <1>3, <1>14, <2>1
    <3> QED
      BY <2>4, <3>1, <3>2 DEF Stack
  <2> QED
    BY <1>7, <2>2, <2>3, <2>4
<1>15. ASSUME NEW k \in DOMAIN J, NEW j \in DOMAIN t PROVE Past(J[k], t[j])
  <2>1. Past(J[k], l)
    BY <1>1, <1>2 DEF Stack
  <2>2. CASE j \in DOMAIN c /\ t[j] = c[j]
    BY <1>10, <2>1, <2>2 DEF Past
  <2>3. CASE t[j] = r
    BY <1>10, <2>1, <2>3 DEF Past
  <2>4. CASE j - n \in DOMAIN s /\ t[j] = s[j - n]
    BY <2>4 DEF Stack
  <2> QED
    BY <1>7, <2>2, <2>3, <2>4
<1>16. ASSUME NEW p \in Pairs(g), \A k \in DOMAIN J : J[k] # p
       PROVE  \E j \in DOMAIN t : Leads(t[j], p[1], p[2])
  <2>1. PICK j \in DOMAIN s : Leads(s[j], p[1], p[2])
    BY <1>16 DEF Stack
  <2>2. CASE j > 1
    BY <1>8, <2>1, <2>2
  <2>3. CASE ~ j > 1
    <3>1. j = 1
      BY <1>2, <2>3
    <3>2. LeadsBy(l, M, p[1], p[2]) \/ Leads(r, p[1], p[2])
      BY <1>1, <1>5, <2>1, <3>1
    <3>3. CASE LeadsBy(l, M, p[1], p[2])
      BY <1>1, <1>8, <3>3 DEF Called
    <3> QED
      BY <1>8, <3>2, <3>3
  <2> QED
    BY <2>2, <2>3
<1>17. \A p \in Pairs(g) : (\E k \in DOMAIN J : J[k] = p) \/ (\E j \in DOMAIN t : Leads(t[j], p[1], p[2]))
  BY <1>16
<1>18. Stack(g, dp, J, t)
  BY <1>6, <1>11, <1>14, <1>15, <1>17 DEF Stack
<1> QED
  BY <1>1, <1>18

-----------------------------------------------------------------------------
(* The iterations of the loops.                                             *)

(* A loop that an iteration may call.                                       *)
Leading(g, dp, l, M, x) ==
  Fit(g, dp, x) /\ \A Q, P \in NodeSets : Leads(x, Q, P) => LeadsBy(l, M, Q, P)

(* An iteration that calls nothing.                                         *)
LEMMA CalledNone ==
  ASSUME NEW g, NEW dp, NEW l, NEW M, \A p \in Pairs(g) : ~ LeadsBy(l, M, p[1], p[2])
  PROVE  Called(g, dp, l, M, <<>>)
<1>1. <<>> \in Seq(Loops) /\ DOMAIN <<>> = {}
  OBVIOUS
<1> QED
  BY <1>1 DEF Called

(* An iteration that calls one loop.                                        *)
LEMMA CalledOne ==
  ASSUME NEW g, NEW dp, NEW l, NEW M, NEW a, Leading(g, dp, l, M, a),
         \A p \in Pairs(g) : LeadsBy(l, M, p[1], p[2]) => Leads(a, p[1], p[2])
  PROVE  Called(g, dp, l, M, <<a>>)
<1>1. a \in Loops
  BY DEF Leading, Fit
<1>2. PICK c : c = <<a>>
  OBVIOUS
<1>3. c \in Seq(Loops) /\ DOMAIN c = {1} /\ c[1] = a
  BY <1>1, <1>2
<1>4. \A i, j \in DOMAIN c : i < j => FALSE
  BY <1>3
<1> QED
  BY <1>2, <1>3, <1>4 DEF Called, Leading

(* An iteration that calls two loops.                                       *)
LEMMA CalledTwo ==
  ASSUME NEW g, NEW dp, NEW l, NEW M, NEW a, NEW b, Leading(g, dp, l, M, a), Leading(g, dp, l, M, b), Later(a, b),
         \A p \in Pairs(g) : LeadsBy(l, M, p[1], p[2]) => Leads(a, p[1], p[2]) \/ Leads(b, p[1], p[2])
  PROVE  Called(g, dp, l, M, <<a, b>>)
<1>1. a \in Loops /\ b \in Loops
  BY DEF Leading, Fit
<1>2. PICK c : c = <<a, b>>
  OBVIOUS
<1>3. c \in Seq(Loops) /\ DOMAIN c = {1, 2} /\ c[1] = a /\ c[2] = b
  BY <1>1, <1>2
<1>4. \A i, j \in DOMAIN c : i < j => i = 1 /\ j = 2
  BY <1>3
<1>5. \A i, j \in DOMAIN c : i < j => Later(c[i], c[j])
  BY <1>3, <1>4
<1> QED
  BY <1>2, <1>3, <1>5 DEF Called, Leading

(* An iteration that calls three loops.                                     *)
LEMMA CalledThree ==
  ASSUME NEW g, NEW dp, NEW l, NEW M, NEW a, NEW b, NEW d,
         Leading(g, dp, l, M, a), Leading(g, dp, l, M, b), Leading(g, dp, l, M, d),
         Later(a, b), Later(a, d), Later(b, d),
         \A p \in Pairs(g) : LeadsBy(l, M, p[1], p[2]) =>
           Leads(a, p[1], p[2]) \/ Leads(b, p[1], p[2]) \/ Leads(d, p[1], p[2])
  PROVE  Called(g, dp, l, M, <<a, b, d>>)
<1>1. a \in Loops /\ b \in Loops /\ d \in Loops
  BY DEF Leading, Fit
<1>2. PICK c : c = <<a, b, d>>
  OBVIOUS
<1>3. c \in Seq(Loops) /\ DOMAIN c = {1, 2, 3} /\ c[1] = a /\ c[2] = b /\ c[3] = d
  BY <1>1, <1>2
<1>4. \A i, j \in DOMAIN c : i < j => (i = 1 /\ j = 2) \/ (i = 1 /\ j = 3) \/ (i = 2 /\ j = 3)
  BY <1>3
<1>5. \A i, j \in DOMAIN c : i < j => Later(c[i], c[j])
  BY <1>3, <1>4
<1> QED
  BY <1>2, <1>3, <1>5 DEF Called, Leading

(* The loop an iteration is of.                                             *)
LEMMA TopIs ==
  ASSUME DPInv, NEW op, NEW M \in NodeSets, Iterates(op, M)
  PROVE  /\ todo # <<>> /\ 1 \in DOMAIN todo /\ Top = todo[1] /\ Top.op = op
         /\ Fit(edges, dpTable, Top) /\ Top \in Loops /\ First(Top, M) /\ M \in Top.left
         /\ edges \in Graphs /\ Table(edges, dpTable, joined) /\ Stack(edges, dpTable, joined, todo)
<1>1. todo # <<>> /\ todo \in Seq(Loops) /\ Top.op = op
  BY DEF DPInv, Stack, Iterates
<1>2. 1 \in DOMAIN todo /\ Top = todo[1]
  BY <1>1 DEF Top
<1>3. Fit(edges, dpTable, Top) /\ Top \in Loops
  BY <1>2 DEF DPInv, Stack, Fit
<1>4. First(Top, M)
  <2>1. M \in IF op \in {"Solve", "EmitCsg"} THEN Highest(Top.left) ELSE Lowest(Top.left)
    BY DEF Iterates
  <2> QED
    BY <1>1, <2>1 DEF First, Earlier, Highest, Lowest
<1> QED
  BY <1>1, <1>2, <1>3, <1>4 DEF DPInv, First

(* An iteration that calls what it leads to keeps the invariant.            *)
LEMMA IterationStep ==
  ASSUME DPInv, NEW op, NEW M \in NodeSets, Iterates(op, M), NEW c, Called(edges, dpTable, Top, M, c), Calls(M, c)
  PROVE  DPInv'
<1>1. /\ todo # <<>> /\ Top = todo[1] /\ First(Top, M)
      /\ edges \in Graphs /\ Table(edges, dpTable, joined) /\ Stack(edges, dpTable, joined, todo)
  BY TopIs
<1>2. Stack(edges, dpTable, joined, c \o <<Without(todo[1], M)>> \o Tail(todo))
  BY <1>1, Iterated
<1>3. todo' = c \o <<Without(todo[1], M)>> \o Tail(todo)
  BY <1>1 DEF Calls, Without
<1>4. edges' = edges /\ dpTable' = dpTable /\ joined' = joined
  BY DEF Iterates
<1> QED
  BY <1>1, <1>2, <1>3, <1>4 DEF DPInv

(* What has a plan is connected.                                            *)
LEMMA FoundConnected ==
  ASSUME NEW g \in Graphs, NEW dp, NEW J, Table(g, dp, J), NEW S \in NodeSets, dp[S].found
  PROVE  S \in Connected(g)
<1>1. CASE Cardinality(S) = 1
  BY <1>1, ConnectedIs
<1>2. CASE \E k \in DOMAIN J : J[k][1] \cup J[k][2] = S
  <2>1. PICK k \in DOMAIN J : J[k][1] \cup J[k][2] = S
    BY <1>2
  <2>2. J[k] \in Pairs(g)
    BY DEF Table
  <2> QED
    BY <2>1, <2>2, PairSplits
<1> QED
  BY <1>1, <1>2 DEF Table, Entry

(* A connected set has a plan as soon as every pair it is split into has    *)
(* been joined.                                                             *)
LEMMA ConnectedFound ==
  ASSUME NEW g \in Graphs, NEW dp, NEW J, Table(g, dp, J), NEW S \in Connected(g),
         \A p \in Pairs(g) : p[1] \cup p[2] = S => \E k \in DOMAIN J : J[k] = p
  PROVE  S \in NodeSets /\ dp[S].found
<1>1. S \in NodeSets
  BY ConnectedIs
<1>2. CASE Cardinality(S) = 1
  BY <1>1, <1>2 DEF Table, Entry
<1>3. CASE Cardinality(S) # 1
  <2>1. PICK A \in Splits(g, S) : A \in Connected(g) /\ S \ A \in Connected(g)
    BY <1>1, <1>3, ConnectedIs
  <2>2. A \cup (S \ A) = S /\ (S \ A) \cup A = S
    BY <1>1, <2>1, SplitSmaller
  <2>3. \E p \in Pairs(g) : p[1] \cup p[2] = S
    <3>1. PICK p, q : p = <<A, S \ A>> /\ q = <<S \ A, A>>
      OBVIOUS
    <3>2. p \in Pairs(g) \/ q \in Pairs(g)
      BY <1>1, <2>1, <3>1, SplitPaired
    <3>3. p[1] \cup p[2] = S /\ q[1] \cup q[2] = S
      BY <2>2, <3>1
    <3> QED
      BY <3>2, <3>3
  <2>4. PICK k \in DOMAIN J : J[k][1] \cup J[k][2] = S
    BY <2>3
  <2> QED
    BY <1>1, <2>4 DEF Table, Entry
<1> QED
  BY <1>1, <1>2, <1>3

(* A pair that may not come after what the loop on top is at has been       *)
(* joined before.                                                           *)
LEMMA Before1 ==
  ASSUME NEW g \in Graphs, NEW dp, NEW J, NEW s, Stack(g, dp, J, s), s # <<>>, NEW M, First(s[1], M),
         NEW Q \in NodeSets, NEW P \in NodeSets, LeadsBy(s[1], M, Q, P),
         NEW p \in Pairs(g), ~ After(p[1], Q), ~ LeadsBy(s[1], M, p[1], p[2])
  PROVE  \E k \in DOMAIN J : J[k] = p
<1>1. s \in Seq(Loops) /\ 1 \in DOMAIN s /\ DOMAIN s = 1 .. Len(s) /\ Len(s) \in Nat
  BY DEF Stack
<1>2. p[1] \in NodeSets /\ p[2] \in NodeSets
  BY PairIs
<1>3. SUFFICES ASSUME NEW j \in DOMAIN s, Leads(s[j], p[1], p[2]) PROVE FALSE
  BY DEF Stack
<1>4. M \in s[1].left /\ Leads(s[1], Q, P) /\ Fit(g, dp, s[1])
  BY <1>1 DEF First, Leads, Stack
<1>5. CASE j > 1
  <2>1. Later(s[1], s[j])
    BY <1>1, <1>5 DEF Stack
  <2> QED
    BY <1>2, <1>3, <1>4, <2>1 DEF Later
<1>6. CASE j = 1
  <2>1. s[1].op # "EmitCsgCmp"
    BY <1>4 DEF Fit
  <2>2. PICK K \in s[1].left : LeadsBy(s[1], K, p[1], p[2])
    BY <1>3, <1>6, <2>1 DEF Leads
  <2>3. K # M /\ Earlier(s[1], M, K)
    BY <2>2 DEF First
  <2> QED
    BY <1>2, <1>4, <2>2, <2>3, LoopOrdered
<1> QED
  BY <1>1, <1>5, <1>6

(* Single nodes have plans.                                                 *)
LEMMA SingleFound ==
  ASSUME NEW g, NEW dp, NEW J, Table(g, dp, J), NEW v \in Nodes
  PROVE  dp[{v}].found
  BY SingleNode DEF Table, Entry

(* Three calls, as two sequences.                                           *)
LEMMA OneAndTwo ==
  ASSUME NEW a, NEW b, NEW d
  PROVE  <<a>> \o <<b, d>> = <<a, b, d>>
<1>1. PICK T : T = {a, b, d}
  OBVIOUS
<1>2. <<a>> \in Seq(T) /\ <<b, d>> \in Seq(T) /\ <<a, b, d>> \in Seq(T)
  BY <1>1
<1>3. PICK t : t = <<a>> \o <<b, d>>
  OBVIOUS
<1>4. t \in Seq(T) /\ Len(t) = 3 /\ t[1] = a /\ t[2] = b /\ t[3] = d
  BY <1>2, <1>3
<1>5. t = <<a, b, d>>
  BY <1>2, <1>4
<1> QED
  BY <1>3, <1>5

(* SolveNode: what begins at the node.                                      *)
LEMMA SolveNodeKeeps ==
  ASSUME DPInv, SolveNode
  PROVE  DPInv'
<1>1. PICK M \in NodeSets : /\ Iterates("Solve", M)
                            /\ Calls(M, <<EmitCsg(edges, M)>> \o EnumerateCsgRec(edges, M, get_B(Min(M))))
  BY DEF SolveNode
<1>2. PICK g, dp, l : g = edges /\ dp = dpTable /\ l = Top
  OBVIOUS
<1>3. /\ l.op = "Solve" /\ Fit(g, dp, l) /\ l \in Loops /\ M \in l.left
      /\ g \in Graphs /\ Table(g, dp, joined)
  BY <1>1, <1>2, TopIs
<1>4. PICK v \in l.N : M = {v}
  BY <1>3 DEF Fit, FitSingle
<1>5. v \in Nodes /\ Min(M) = v
  BY <1>3, <1>4, SingleNode DEF Loops
<1>6. PICK X : X = get_B(v)
  OBVIOUS
<1>7. X \in SUBSET Nodes /\ M \subseteq X /\ get_B(Min(M)) \subseteq X
  BY <1>4, <1>5, <1>6, Below
<1>8. dp[M].found
  BY <1>3, <1>4, <1>5, SingleFound
<1>9. PICK e : e = EmitCsg(g, M)
  OBVIOUS
<1>10. /\ Fit(g, dp, e) /\ \A Q, P \in NodeSets : Leads(e, Q, P) => Q = M
       /\ \A p \in Pairs(g) : p[1] = M => Leads(e, p[1], p[2])
  BY <1>3, <1>8, <1>9, EmitCall
<1>11. PICK a, b : CsgCalled(g, dp, M, X, a, b)
  BY <1>3, <1>7, CsgCall
<1>12. \A Q, P : LeadsBy(l, M, Q, P) <=> Q \cap X = M
  BY <1>3, <1>5, <1>6 DEF LeadsBy
<1>13. Leading(g, dp, l, M, e) /\ Leading(g, dp, l, M, a) /\ Leading(g, dp, l, M, b)
  <2>1. M \cap X = M
    BY <1>7
  <2> QED
    BY <1>10, <1>11, <1>12, <2>1 DEF Leading, CsgCalled
<1>14. ASSUME NEW m \in {a, b} PROVE Later(e, m)
  <2>1. ASSUME NEW Q1 \in NodeSets, NEW P1 \in NodeSets, NEW Q2 \in NodeSets, NEW P2 \in NodeSets,
               Leads(e, Q1, P1), Leads(m, Q2, P2)
        PROVE  After(Q2, Q1) /\ (Q1 # Q2 \/ P1 # P2)
    <3>1. Q1 = M /\ Q2 \cap X = M /\ Q2 # M
      BY <1>10, <1>11, <1>14, <2>1 DEF CsgCalled
    <3>2. Min(Q2) = Min(M)
      BY <1>7, <3>1, BeginsAt
    <3>3. ~ Q2 \subseteq Q1
      BY <3>1
    <3> QED
      BY <3>1, <3>2, <3>3, AfterSame
  <2> QED
    BY <2>1 DEF Later
<1>15. ASSUME NEW p \in Pairs(g), LeadsBy(l, M, p[1], p[2])
       PROVE  Leads(e, p[1], p[2]) \/ Leads(a, p[1], p[2]) \/ Leads(b, p[1], p[2])
  <2>1. p[1] \cap X = M /\ p[1] \in NodeSets /\ p[2] \in NodeSets /\ p[1] \in Connected(g)
    BY <1>3, <1>12, <1>15, PairIs
  <2> QED
    BY <1>10, <1>11, <2>1 DEF CsgCalled
<1>16. Called(g, dp, l, M, <<e, a, b>>)
  BY <1>11, <1>13, <1>14, <1>15, CalledThree DEF CsgCalled
<1>17. <<EmitCsg(edges, M)>> \o EnumerateCsgRec(edges, M, get_B(Min(M))) = <<e, a, b>>
  <2>1. EmitCsg(edges, M) = e /\ EnumerateCsgRec(edges, M, get_B(Min(M))) = <<a, b>>
    BY <1>2, <1>5, <1>6, <1>9, <1>11 DEF CsgCalled
  <2> QED
    BY <2>1, OneAndTwo
<1> QED
  BY <1>1, <1>2, <1>16, <1>17, IterationStep

(* EmitNode: the complements that begin at the node.                        *)
LEMMA EmitNodeKeeps ==
  ASSUME DPInv, EmitNode
  PROVE  DPInv'
<1>1. PICK M \in NodeSets :
        /\ Iterates("EmitCsg", M)
        /\ Calls(M, (IF is_connected(edges, Top.S1, M) THEN <<Join(Top.S1, M)>> ELSE <<>>)
                      \o EnumerateCmpRec(edges, Top.S1, M, Top.X \cup (Top.N \cap get_B(Min(M)))))
  BY DEF EmitNode
<1>2. PICK g, dp, l : g = edges /\ dp = dpTable /\ l = Top
  OBVIOUS
<1>3. /\ l.op = "EmitCsg" /\ Fit(g, dp, l) /\ l \in Loops /\ M \in l.left
      /\ g \in Graphs /\ Table(g, dp, joined)
  BY <1>1, <1>2, TopIs
<1>4. PICK S1 : S1 = l.S1
  OBVIOUS
<1>5. /\ S1 \in NodeSets /\ dp[S1].found /\ l.X = S1 \cup get_B(Min(S1))
      /\ l.N = calc_neighborhood(g, S1, l.X) /\ l.X \in SUBSET Nodes /\ l.N \in SUBSET Nodes
  BY <1>3, <1>4 DEF Fit, Loops
<1>6. PICK v \in l.N : M = {v}
  BY <1>3 DEF Fit, FitSingle
<1>7. v \in Nodes /\ Min(M) = v /\ v \notin l.X
  BY <1>3, <1>5, <1>6, SingleNode, NeighborhoodIs
<1>8. PICK X : X = l.X \cup (l.N \cap get_B(v))
  OBVIOUS
<1>9. X \in SUBSET Nodes /\ S1 \cup get_B(Min(S1)) \cup M \subseteq X
  BY <1>5, <1>6, <1>7, <1>8, Below
<1>10. Apart(S1, M) /\ dp[M].found
  BY <1>3, <1>5, <1>6, <1>7, SingleFound DEF Apart
<1>11. PICK a, b : CmpCalled(g, dp, S1, M, X, a, b)
  BY <1>3, <1>5, <1>9, <1>10, CmpCall
<1>12. \A Q, P : LeadsBy(l, M, Q, P) <=> Q = S1 /\ P \cap X = M
  BY <1>3, <1>4, <1>7, <1>8 DEF LeadsBy
<1>13. Leading(g, dp, l, M, a) /\ Leading(g, dp, l, M, b)
  BY <1>11, <1>12 DEF Leading, CmpCalled
<1>14. ASSUME NEW p \in Pairs(g), LeadsBy(l, M, p[1], p[2])
       PROVE  /\ p[1] = S1 /\ is_connected(g, S1, p[2])
              /\ p[2] = M \/ Leads(a, p[1], p[2]) \/ Leads(b, p[1], p[2])
  <2>1. p[1] = S1 /\ p[2] \cap X = M /\ is_connected(g, S1, p[2])
    <3>1. p[1] = S1 /\ p[2] \cap X = M
      BY <1>12, <1>14
    <3>2. is_connected(g, p[1], p[2])
      BY <1>3, PairIs
    <3> QED
      BY <3>1, <3>2
  <2>2. p[1] \in NodeSets /\ p[2] \in NodeSets /\ p[2] \in Connected(g)
    BY <1>3, PairIs
  <2> QED
    BY <1>11, <2>1, <2>2 DEF CmpCalled
<1>15. EnumerateCmpRec(edges, Top.S1, M, Top.X \cup (Top.N \cap get_B(Min(M)))) = <<a, b>>
  BY <1>2, <1>4, <1>7, <1>8, <1>11 DEF CmpCalled
<1>16. CASE is_connected(g, S1, M)
  <2>1. PICK j : j = Join(S1, M)
    OBVIOUS
  <2>2. Fit(g, dp, j) /\ \A Q, P : Leads(j, Q, P) <=> Q = S1 /\ P = M
    BY <1>3, <1>5, <1>10, <1>16, <2>1, JoinCall
  <2>3. Leading(g, dp, l, M, j)
    <3>1. M \cap X = M
      BY <1>9
    <3> QED
      BY <1>12, <2>2, <3>1 DEF Leading
  <2>4. ASSUME NEW m \in {a, b} PROVE Later(j, m)
    <3>1. ASSUME NEW Q1 \in NodeSets, NEW P1 \in NodeSets, NEW Q2 \in NodeSets, NEW P2 \in NodeSets,
                 Leads(j, Q1, P1), Leads(m, Q2, P2)
          PROVE  After(Q2, Q1) /\ (Q1 # Q2 \/ P1 # P2)
      <4>1. Q1 = S1 /\ P1 = M /\ Q2 = S1 /\ P2 # M
        BY <1>11, <2>2, <2>4, <3>1 DEF CmpCalled
      <4> QED
        BY <4>1, AfterSame
    <3> QED
      BY <3>1 DEF Later
  <2>5. \A p \in Pairs(g) : LeadsBy(l, M, p[1], p[2]) =>
          Leads(j, p[1], p[2]) \/ Leads(a, p[1], p[2]) \/ Leads(b, p[1], p[2])
    BY <1>14, <2>2
  <2>6. Called(g, dp, l, M, <<j, a, b>>)
    BY <1>11, <1>13, <2>3, <2>4, <2>5, CalledThree DEF CmpCalled
  <2>7. (IF is_connected(edges, Top.S1, M) THEN <<Join(Top.S1, M)>> ELSE <<>>)
          \o EnumerateCmpRec(edges, Top.S1, M, Top.X \cup (Top.N \cap get_B(Min(M)))) = <<j, a, b>>
    <3>1. (IF is_connected(edges, Top.S1, M) THEN <<Join(Top.S1, M)>> ELSE <<>>) = <<j>>
      BY <1>2, <1>4, <1>16, <2>1
    <3>2. <<j>> \o <<a, b>> = <<j, a, b>>
      BY OneAndTwo
    <3> QED
      BY <1>15, <3>1, <3>2
  <2> QED
    BY <1>1, <1>2, <2>6, <2>7, IterationStep
<1>17. CASE ~ is_connected(g, S1, M)
  <2>1. \A p \in Pairs(g) : LeadsBy(l, M, p[1], p[2]) => Leads(a, p[1], p[2]) \/ Leads(b, p[1], p[2])
    BY <1>14, <1>17
  <2>2. Called(g, dp, l, M, <<a, b>>)
    BY <1>11, <1>13, <2>1, CalledTwo DEF CmpCalled
  <2>3. (IF is_connected(edges, Top.S1, M) THEN <<Join(Top.S1, M)>> ELSE <<>>)
          \o EnumerateCmpRec(edges, Top.S1, M, Top.X \cup (Top.N \cap get_B(Min(M)))) = <<a, b>>
    <3>1. (IF is_connected(edges, Top.S1, M) THEN <<Join(Top.S1, M)>> ELSE <<>>) = <<>>
      BY <1>2, <1>4, <1>17
    <3>2. <<>> \o <<a, b>> = <<a, b>>
      OBVIOUS
    <3> QED
      BY <1>15, <3>1, <3>2
  <2> QED
    BY <1>1, <1>2, <2>2, <2>3, IterationStep
<1> QED
  BY <1>16, <1>17

(* The set that an iteration of one of the enumerations makes of S.         *)
LEMMA GrownIs ==
  ASSUME NEW g \in Graphs, NEW S \in NodeSets, NEW X, NEW M \in Subsets(calc_neighborhood(g, S, X))
  PROVE  S \cup M \in NodeSets /\ M \cap X = {} /\ M # {} /\ M \subseteq calc_neighborhood(g, S, X)
  BY NeighborhoodIs, Sized DEF Subsets, NodeSets

(* TryCsg: when the set has no plan it is not connected.                    *)
LEMMA TryCsgKeeps ==
  ASSUME DPInv, TryCsg
  PROVE  DPInv'
<1>1. PICK M \in NodeSets :
        /\ Iterates("TryCsg", M)
        /\ Calls(M, IF dp_lookup(Top.S1 \cup M) THEN <<EmitCsg(edges, Top.S1 \cup M)>> ELSE <<>>)
  BY DEF TryCsg
<1>2. PICK g, dp, l, J, s : g = edges /\ dp = dpTable /\ l = Top /\ J = joined /\ s = todo
  OBVIOUS
<1>3. /\ l.op = "TryCsg" /\ Fit(g, dp, l) /\ l \in Loops /\ M \in l.left
      /\ g \in Graphs /\ Table(g, dp, J) /\ Stack(g, dp, J, s) /\ s # <<>> /\ l = s[1] /\ First(l, M)
  BY <1>1, <1>2, TopIs
<1>4. FitCsg(g, l.S1, l)
  BY <1>3 DEF Fit
<1>5. PICK S : S = l.S1 \cup M
  OBVIOUS
<1>6. S \in NodeSets
  BY <1>3, <1>4, <1>5, GrownIs DEF FitCsg
<1>7. \A Q, P : LeadsBy(l, M, Q, P) <=> Q = S
  BY <1>3, <1>5 DEF LeadsBy
<1>8. CASE dp[S].found
  <2>1. PICK e : e = EmitCsg(g, S)
    OBVIOUS
  <2>2. /\ Fit(g, dp, e) /\ \A Q, P \in NodeSets : Leads(e, Q, P) => Q = S
        /\ \A p \in Pairs(g) : p[1] = S => Leads(e, p[1], p[2])
    BY <1>3, <1>6, <1>8, <2>1, EmitCall
  <2>3. Leading(g, dp, l, M, e)
    BY <1>7, <2>2 DEF Leading
  <2>4. Called(g, dp, l, M, <<e>>)
    BY <1>7, <2>2, <2>3, CalledOne
  <2>5. Calls(M, <<e>>)
    BY <1>1, <1>2, <1>5, <1>8, <2>1 DEF dp_lookup
  <2> QED
    BY <1>1, <1>2, <2>4, <2>5, IterationStep
<1>9. CASE ~ dp[S].found
  <2>1. ASSUME NEW q \in Pairs(g), LeadsBy(l, M, q[1], q[2]) PROVE FALSE
    <3>1. q[1] = S /\ q[1] \in Connected(g) /\ q[2] \in NodeSets
      BY <1>3, <1>7, <2>1, PairIs
    <3>2. ASSUME NEW p \in Pairs(g), p[1] \cup p[2] = S PROVE \E k \in DOMAIN J : J[k] = p
      <4>1. Min(p[1]) = Min(S) /\ p[1] \in NodeSets /\ p[2] \in NodeSets /\ p[1] \cap p[2] = {}
        BY <1>3, <3>2, PairIs
      <4>2. p[2] # {}
        BY <4>1, Sized
      <4>3. p[1] \subseteq S /\ p[1] # S
        BY <3>2, <4>1, <4>2
      <4>4. ~ After(p[1], S)
        <5>1. Min(S) \in Nat
          BY <1>6, LeastNode
        <5> QED
          BY <4>1, <4>3, <5>1 DEF After
      <4> QED
        <5>1. LeadsBy(s[1], M, S, q[2]) /\ ~ LeadsBy(s[1], M, p[1], p[2])
          BY <1>3, <1>7, <3>1, <4>3
        <5> QED
          BY <1>3, <1>6, <3>1, <4>4, <5>1, Before1
    <3> QED
      BY <1>3, <1>9, <3>1, <3>2, ConnectedFound
  <2>2. Called(g, dp, l, M, <<>>)
    BY <2>1, CalledNone
  <2>3. Calls(M, <<>>)
    BY <1>1, <1>2, <1>5, <1>9 DEF dp_lookup
  <2> QED
    BY <1>1, <1>2, <2>2, <2>3, IterationStep
<1> QED
  BY <1>8, <1>9

(* GrowCsg: the connected sets that grow further.                           *)
LEMMA GrowCsgKeeps ==
  ASSUME DPInv, GrowCsg
  PROVE  DPInv'
<1>1. PICK M \in NodeSets :
        Iterates("EnumerateCsgRec", M) /\ Calls(M, EnumerateCsgRec(edges, Top.S1 \cup M, Top.X \cup Top.N))
  BY DEF GrowCsg
<1>2. PICK g, dp, l : g = edges /\ dp = dpTable /\ l = Top
  OBVIOUS
<1>3. /\ l.op = "EnumerateCsgRec" /\ Fit(g, dp, l) /\ l \in Loops /\ M \in l.left /\ g \in Graphs
  BY <1>1, <1>2, TopIs
<1>4. FitCsg(g, l.S1, l) /\ l.X \in SUBSET Nodes /\ l.N \in SUBSET Nodes
  BY <1>3 DEF Fit, Loops
<1>5. PICK S, X : S = l.S1 \cup M /\ X = l.X \cup l.N
  OBVIOUS
<1>6. S \in NodeSets /\ M \subseteq l.N /\ M \cap l.X = {} /\ l.S1 \subseteq l.X /\ get_B(Min(l.S1)) \subseteq l.X
  <2>1. /\ l.S1 \in NodeSets /\ l.N = calc_neighborhood(g, l.S1, l.X) /\ M \in Subsets(l.N)
        /\ l.S1 \subseteq l.X /\ get_B(Min(l.S1)) \subseteq l.X
    BY <1>3, <1>4 DEF FitCsg
  <2>2. S \in NodeSets /\ M \subseteq l.N /\ M \cap l.X = {}
    BY <1>3, <1>5, <2>1, GrownIs
  <2> QED
    BY <2>1, <2>2
<1>7. X \in SUBSET Nodes /\ S \subseteq X /\ get_B(Min(S)) \subseteq X
  <2>1. S \cap l.X = l.S1
    BY <1>5, <1>6
  <2>2. l.S1 \in NodeSets
    BY <1>4 DEF FitCsg
  <2>3. Min(S) = Min(l.S1)
    BY <1>6, <2>1, <2>2, BeginsAt
  <2> QED
    BY <1>4, <1>5, <1>6, <2>3
<1>8. PICK a, b : CsgCalled(g, dp, S, X, a, b)
  BY <1>3, <1>6, <1>7, CsgCall
<1>9. \A Q, P : LeadsBy(l, M, Q, P) <=> Q \cap X = S /\ Q # S
  BY <1>3, <1>5 DEF LeadsBy
<1>10. Leading(g, dp, l, M, a) /\ Leading(g, dp, l, M, b)
  BY <1>8, <1>9 DEF Leading, CsgCalled
<1>11. ASSUME NEW p \in Pairs(g), LeadsBy(l, M, p[1], p[2]) PROVE Leads(a, p[1], p[2]) \/ Leads(b, p[1], p[2])
  <2>1. p[1] \in NodeSets /\ p[2] \in NodeSets /\ p[1] \in Connected(g)
    BY <1>3, PairIs
  <2> QED
    BY <1>8, <1>9, <1>11, <2>1 DEF CsgCalled
<1>12. Called(g, dp, l, M, <<a, b>>)
  BY <1>8, <1>10, <1>11, CalledTwo DEF CsgCalled
<1>13. Calls(M, <<a, b>>)
  BY <1>1, <1>2, <1>5, <1>8 DEF CsgCalled
<1> QED
  BY <1>1, <1>2, <1>12, <1>13, IterationStep

(* TryCmp: when the set has no plan it is not connected.                    *)
LEMMA TryCmpKeeps ==
  ASSUME DPInv, TryCmp
  PROVE  DPInv'
<1>1. PICK M \in NodeSets :
        /\ Iterates("TryCmp", M)
        /\ Calls(M, IF dp_lookup(Top.S2 \cup M) /\ is_connected(edges, Top.S1, Top.S2 \cup M)
                      THEN <<Join(Top.S1, Top.S2 \cup M)>> ELSE <<>>)
  BY DEF TryCmp
<1>2. PICK g, dp, l, J, s : g = edges /\ dp = dpTable /\ l = Top /\ J = joined /\ s = todo
  OBVIOUS
<1>3. /\ l.op = "TryCmp" /\ Fit(g, dp, l) /\ l \in Loops /\ M \in l.left
      /\ g \in Graphs /\ Table(g, dp, J) /\ Stack(g, dp, J, s) /\ s # <<>> /\ l = s[1] /\ First(l, M)
  BY <1>1, <1>2, TopIs
<1>4. PICK S1, S : S1 = l.S1 /\ S = l.S2 \cup M
  OBVIOUS
<1>5. /\ dp[S1].found /\ S1 \in NodeSets /\ l.S2 \in NodeSets /\ l.S2 \cap (S1 \cup get_B(Min(S1))) = {}
      /\ S1 \cup get_B(Min(S1)) \cup l.S2 \subseteq l.X
      /\ l.N = calc_neighborhood(g, l.S2, l.X) /\ M \in Subsets(l.N)
  BY <1>3, <1>4 DEF Fit, Apart
<1>6. S \in NodeSets /\ M \cap l.X = {}
  BY <1>3, <1>4, <1>5, GrownIs
<1>7. Apart(S1, S)
  BY <1>4, <1>5, <1>6 DEF Apart
<1>8. \A Q, P : LeadsBy(l, M, Q, P) <=> Q = S1 /\ P = S
  BY <1>3, <1>4 DEF LeadsBy
<1>9. CASE dp[S].found /\ is_connected(g, S1, S)
  <2>1. PICK j : j = Join(S1, S)
    OBVIOUS
  <2>2. Fit(g, dp, j) /\ \A Q, P : Leads(j, Q, P) <=> Q = S1 /\ P = S
    <3>1. g \in Graphs /\ Apart(S1, S) /\ dp[S1].found /\ dp[S].found /\ is_connected(g, S1, S)
      BY <1>3, <1>5, <1>7, <1>9
    <3>2. Fit(g, dp, j)
      BY <2>1, <3>1, JoinCall
    <3>3. ASSUME NEW Q, NEW P PROVE Leads(j, Q, P) <=> Q = S1 /\ P = S
      <4>1. j.op = "EmitCsgCmp" /\ j.S1 = S1 /\ j.S2 = S /\ j.left = {}
        BY <2>1, LoopParts DEF Join
      <4> QED
        BY <4>1 DEF Leads
    <3> QED
      BY <3>2, <3>3
  <2>3. Leading(g, dp, l, M, j)
    BY <1>8, <2>2 DEF Leading
  <2>4. Called(g, dp, l, M, <<j>>)
    BY <1>8, <2>2, <2>3, CalledOne
  <2>5. Calls(M, <<j>>)
    BY <1>1, <1>2, <1>4, <1>9, <2>1 DEF dp_lookup
  <2> QED
    BY <1>1, <1>2, <2>4, <2>5, IterationStep
<1>10. CASE ~ (dp[S].found /\ is_connected(g, S1, S))
  <2>1. ASSUME NEW q \in Pairs(g), LeadsBy(l, M, q[1], q[2]) PROVE FALSE
    <3>1. q[1] = S1 /\ q[2] = S /\ S \in Connected(g) /\ is_connected(g, S1, S)
      <4>1. q[1] = S1 /\ q[2] = S
        BY <1>8, <2>1
      <4>2. q[2] \in Connected(g) /\ is_connected(g, q[1], q[2])
        BY <1>3, PairIs
      <4> QED
        BY <4>1, <4>2
    <3>2. ASSUME NEW p \in Pairs(g), p[1] \cup p[2] = S PROVE \E k \in DOMAIN J : J[k] = p
      <4>1. Min(p[1]) = Min(S) /\ p[1] \in NodeSets /\ p[1] \subseteq S
        BY <1>3, <3>2, PairIs
      <4>2. Min(S1) < Min(S) /\ Min(S1) \in Nat /\ Min(S) \in Nat
        <5>1. Min(S) \in S /\ Min(S) \in Nat /\ Min(S1) \in Nat /\ Min(S1) \in Nodes
          BY <1>5, <1>6, LeastNode
        <5>2. Min(S) \notin get_B(Min(S1))
          BY <1>7, <5>1 DEF Apart
        <5> QED
          BY <5>1, <5>2, Below
      <4>3. ~ After(p[1], S1)
        BY <4>1, <4>2 DEF After
      <4>4. p[1] # S1
        BY <4>1, <4>2
      <4>5. LeadsBy(s[1], M, S1, S) /\ ~ LeadsBy(s[1], M, p[1], p[2])
        BY <1>3, <1>8, <4>4
      <4> QED
        BY <1>3, <1>5, <1>6, <4>3, <4>5, Before1
    <3> QED
      BY <1>3, <1>10, <3>1, <3>2, ConnectedFound
  <2>2. Called(g, dp, l, M, <<>>)
    BY <2>1, CalledNone
  <2>3. Calls(M, <<>>)
    BY <1>1, <1>2, <1>4, <1>10 DEF dp_lookup
  <2> QED
    BY <1>1, <1>2, <2>2, <2>3, IterationStep
<1> QED
  BY <1>9, <1>10

(* GrowCmp: the complements that grow further.                              *)
LEMMA GrowCmpKeeps ==
  ASSUME DPInv, GrowCmp
  PROVE  DPInv'
<1>1. PICK M \in NodeSets :
        /\ Iterates("EnumerateCmpRec", M)
        /\ Calls(M, EnumerateCmpRec(edges, Top.S1, Top.S2 \cup M, Top.X \cup Top.N))
  BY DEF GrowCmp
<1>2. PICK g, dp, l : g = edges /\ dp = dpTable /\ l = Top
  OBVIOUS
<1>3. /\ l.op = "EnumerateCmpRec" /\ Fit(g, dp, l) /\ l \in Loops /\ M \in l.left /\ g \in Graphs
  BY <1>1, <1>2, TopIs
<1>4. PICK S1, S, X : S1 = l.S1 /\ S = l.S2 \cup M /\ X = l.X \cup l.N
  OBVIOUS
<1>5. /\ dp[S1].found /\ S1 \in NodeSets /\ l.S2 \in NodeSets /\ l.S2 \cap (S1 \cup get_B(Min(S1))) = {}
      /\ S1 \cup get_B(Min(S1)) \cup l.S2 \subseteq l.X
      /\ l.N = calc_neighborhood(g, l.S2, l.X) /\ M \in Subsets(l.N)
      /\ l.X \in SUBSET Nodes /\ l.N \in SUBSET Nodes
  BY <1>3, <1>4 DEF Fit, Apart, Loops
<1>6. S \in NodeSets /\ M \cap l.X = {} /\ M \subseteq l.N
  BY <1>3, <1>4, <1>5, GrownIs
<1>7. Apart(S1, S)
  BY <1>4, <1>5, <1>6 DEF Apart
<1>8. X \in SUBSET Nodes /\ S1 \cup get_B(Min(S1)) \cup S \subseteq X
  BY <1>4, <1>5, <1>6
<1>9. PICK a, b : CmpCalled(g, dp, S1, S, X, a, b)
  BY <1>3, <1>5, <1>7, <1>8, CmpCall
<1>10. \A Q, P : LeadsBy(l, M, Q, P) <=> Q = S1 /\ P \cap X = S /\ P # S
  BY <1>3, <1>4 DEF LeadsBy
<1>11. Leading(g, dp, l, M, a) /\ Leading(g, dp, l, M, b)
  BY <1>9, <1>10 DEF Leading, CmpCalled
<1>12. ASSUME NEW p \in Pairs(g), LeadsBy(l, M, p[1], p[2]) PROVE Leads(a, p[1], p[2]) \/ Leads(b, p[1], p[2])
  <2>1. p[1] \in NodeSets /\ p[2] \in NodeSets /\ p[2] \in Connected(g)
    BY <1>3, PairIs
  <2> QED
    BY <1>9, <1>10, <1>12, <2>1 DEF CmpCalled
<1>13. Called(g, dp, l, M, <<a, b>>)
  BY <1>9, <1>11, <1>12, CalledTwo DEF CmpCalled
<1>14. Calls(M, <<a, b>>)
  BY <1>1, <1>2, <1>4, <1>9 DEF CmpCalled
<1> QED
  BY <1>1, <1>2, <1>13, <1>14, IterationStep

-----------------------------------------------------------------------------
(* The end of a loop, and a join.                                           *)

LEMMA FitFound ==
  ASSUME NEW g, NEW dp, NEW l, Fit(g, dp, l), NEW dp2, \A S \in NodeSets : dp[S].found => dp2[S].found
  PROVE  Fit(g, dp2, l)
<1>1. /\ l.op = "EmitCsg" => dp2[l.S1].found
      /\ l.op \in {"TryCmp", "EnumerateCmpRec"} => dp2[l.S1].found
      /\ l.op = "EmitCsgCmp" => dp2[l.S1].found /\ dp2[l.S2].found
  BY DEF Fit, Apart
<1> QED
  BY <1>1 DEF Fit

(* Plans are never lost.                                                    *)
StaysFound(dp, dp2) == \A S \in NodeSets : dp[S].found => dp2[S].found

(* The joins J2: those of J, and all that l leads to.                       *)
JoinsAlso(g, J, l, J2) ==
  /\ \A k \in DOMAIN J2 : \/ \E i \in DOMAIN J : J2[k] = J[i]
                          \/ J2[k][1] \in NodeSets /\ J2[k][2] \in NodeSets /\ Leads(l, J2[k][1], J2[k][2])
  /\ \A k \in DOMAIN J : \E i \in DOMAIN J2 : J2[i] = J[k]
  /\ \A p \in Pairs(g) : Leads(l, p[1], p[2]) => \E k \in DOMAIN J2 : J2[k] = p

(* The top of the stack goes when all it leads to is joined.                *)
LEMMA Popped ==
  ASSUME NEW g \in Graphs, NEW dp, NEW J, NEW s, Stack(g, dp, J, s), s # <<>>,
         NEW dp2, StaysFound(dp, dp2), NEW J2, JoinsAlso(g, J, s[1], J2)
  PROVE  Stack(g, dp2, J2, Tail(s))
<1>1. PICK t : t = Tail(s)
  OBVIOUS
<1>2. s \in Seq(Loops) /\ 1 \in DOMAIN s /\ DOMAIN s = 1 .. Len(s) /\ Len(s) \in Nat
  BY DEF Stack
<1>3. /\ t \in Seq(Loops) /\ DOMAIN t = 1 .. Len(s) - 1
      /\ \A k \in DOMAIN t : k \in Nat /\ k + 1 \in DOMAIN s /\ k + 1 > 1 /\ t[k] = s[k + 1]
  BY <1>1, <1>2
<1>4. \A k \in DOMAIN t : Fit(g, dp2, t[k])
  BY <1>3, FitFound DEF Stack, StaysFound
<1>5. ASSUME NEW i \in DOMAIN t, NEW j \in DOMAIN t, i < j PROVE Later(t[i], t[j])
  <2>1. i + 1 < j + 1
    BY <1>3, <1>5
  <2> QED
    BY <1>3, <2>1 DEF Stack
<1>6. ASSUME NEW k \in DOMAIN J2, NEW j \in DOMAIN t PROVE Past(J2[k], t[j])
  <2>1. CASE \E i \in DOMAIN J : J2[k] = J[i]
    BY <1>3, <2>1 DEF Stack
  <2>2. CASE J2[k][1] \in NodeSets /\ J2[k][2] \in NodeSets /\ Leads(s[1], J2[k][1], J2[k][2])
    <3>1. Later(s[1], s[j + 1])
      BY <1>2, <1>3 DEF Stack
    <3> QED
      BY <1>3, <2>2, <3>1 DEF Later, Past
  <2> QED
    BY <2>1, <2>2 DEF JoinsAlso
<1>7. ASSUME NEW p \in Pairs(g)
      PROVE  (\E k \in DOMAIN J2 : J2[k] = p) \/ (\E j \in DOMAIN t : Leads(t[j], p[1], p[2]))
  <2>1. CASE \E k \in DOMAIN J : J[k] = p
    BY <2>1 DEF JoinsAlso
  <2>2. CASE \E j \in DOMAIN s : Leads(s[j], p[1], p[2])
    <3>1. PICK j \in DOMAIN s : Leads(s[j], p[1], p[2])
      BY <2>2
    <3>2. CASE j = 1
      BY <3>1, <3>2 DEF JoinsAlso
    <3>3. CASE j # 1
      <4>1. PICK k \in DOMAIN t : j = k + 1
        <5>1. j - 1 \in DOMAIN t /\ j = j - 1 + 1
          BY <1>2, <1>3, <3>3
        <5> QED
          BY <5>1
      <4> QED
        BY <1>3, <3>1, <4>1
    <3> QED
      BY <3>2, <3>3
  <2> QED
    BY <2>1, <2>2 DEF Stack
<1>8. Stack(g, dp2, J2, t)
  BY <1>3, <1>4, <1>5, <1>6, <1>7 DEF Stack
<1> QED
  BY <1>1, <1>8

(* Return: the loop leads to nothing more.                                  *)
LEMMA ReturnKeeps ==
  ASSUME DPInv, Return
  PROVE  DPInv'
<1>1. PICK g, dp, J, s : g = edges /\ dp = dpTable /\ J = joined /\ s = todo
  OBVIOUS
<1>2. Stack(g, dp, J, s) /\ g \in Graphs /\ Table(g, dp, J) /\ s # <<>> /\ s \in Seq(Loops)
  BY <1>1 DEF DPInv, Return, Stack
<1>3. s[1].op # "EmitCsgCmp" /\ s[1].left = {}
  BY <1>1, <1>2 DEF Return, Top
<1>4. \A Q, P : ~ Leads(s[1], Q, P)
  BY <1>3 DEF Leads
<1>5. Stack(g, dp, J, Tail(s))
  <2>1. JoinsAlso(g, J, s[1], J) /\ StaysFound(dp, dp)
    BY <1>4 DEF JoinsAlso, StaysFound
  <2> QED
    BY <1>2, <2>1, Popped
<1> QED
  BY <1>1, <1>2, <1>5 DEF DPInv, Return

(* A join that is to be done: its sides have plans, and no join that was    *)
(* done before used one for what it makes.                                  *)
New(J, q, S) == \A k \in DOMAIN J : J[k] # q /\ J[k][1] # S /\ J[k][2] # S

(* The loop leads to the pair of A and B only.                              *)
LeadsOnly(l, A, B) == \A Q, P : Leads(l, Q, P) <=> Q = A /\ P = B

LEMMA JoinIs ==
  ASSUME NEW g \in Graphs, NEW dp, NEW J, NEW s, Stack(g, dp, J, s), Table(g, dp, J), s # <<>>,
         s[1].op = "EmitCsgCmp", NEW A, NEW B, A = s[1].S1, B = s[1].S2,
         NEW q, q = <<A, B>>, NEW S, S = A \cup B
  PROVE  /\ q \in Pairs(g) /\ dp[A].found /\ dp[B].found /\ A \in NodeSets /\ B \in NodeSets
         /\ LeadsOnly(s[1], A, B) /\ New(J, q, S)
<1>1. 1 \in DOMAIN s /\ Fit(g, dp, s[1]) /\ \A k \in DOMAIN J : Past(J[k], s[1])
  <2>1. s \in Seq(Loops)
    BY DEF Stack
  <2>2. 1 \in DOMAIN s
    BY <2>1
  <2> QED
    BY <2>2 DEF Stack
<1>2. /\ dp[A].found /\ dp[B].found /\ A \in NodeSets /\ B \in NodeSets
      /\ B \cap (A \cup get_B(Min(A))) = {} /\ is_connected(g, A, B) /\ s[1].left = {}
  BY <1>1 DEF Fit, Apart
<1>3. A \in Connected(g) /\ B \in Connected(g)
  BY <1>2, FoundConnected
<1>4. Min(A) < Min(B) /\ Min(A) \in Nat /\ Min(B) \in Nat
  <2>1. Min(B) \in B /\ Min(B) \in Nat /\ Min(A) \in Nat /\ Min(A) \in Nodes
    BY <1>2, LeastNode
  <2>2. Min(B) \notin get_B(Min(A))
    BY <1>2, <2>1
  <2> QED
    BY <2>1, <2>2, Below
<1>6. q \in Pairs(g) /\ q[1] = A /\ q[2] = B
  <2>1. q \in Connected(g) \X Connected(g) /\ q[1] = A /\ q[2] = B
    BY <1>3
  <2> QED
    BY <1>2, <1>4, <2>1 DEF Pairs
<1>7. \A Q, P : Leads(s[1], Q, P) <=> Q = A /\ P = B
  BY <1>2 DEF Leads
<1>8. A \cup B \in NodeSets /\ Min(A \cup B) = Min(A)
  BY <1>6, PairIs
<1>9. A # A \cup B /\ B # A \cup B /\ A \subseteq A \cup B
  <2>1. A # {} /\ B # {} /\ A \cap B = {}
    BY <1>2, Sized
  <2> QED
    BY <2>1
<1>10. ASSUME NEW k \in DOMAIN J PROVE J[k] # q /\ J[k][1] # S /\ J[k][2] # S
  <2>1. After(A, J[k][1]) /\ (J[k][1] # A \/ J[k][2] # B)
    BY <1>1, <1>2, <1>7 DEF Past
  <2>2. J[k] # q
    BY <1>6, <2>1
  <2>3. PICK C, D, c, m : C = J[k][1] /\ D = J[k][2] /\ c = Min(C) /\ m = Min(A)
    OBVIOUS
  <2>4. m < c \/ (m = c /\ ~ (A \subseteq C /\ A # C))
    BY <2>1, <2>3 DEF After
  <2>5. m \in Nat /\ c \in Nat /\ c < Min(D)
    <3>1. J[k] \in Pairs(g)
      BY DEF Table
    <3>2. Min(C) < Min(D) /\ C \in NodeSets
      BY <2>3, <3>1, PairIs
    <3> QED
      BY <1>4, <2>3, <3>2, LeastNode
  <2>6. C # A \cup B
    <3>1. SUFFICES ASSUME C = A \cup B PROVE FALSE
      OBVIOUS
    <3>2. c = m
      BY <1>8, <2>3, <3>1
    <3> QED
      BY <1>9, <2>4, <2>5, <3>1, <3>2
  <2>7. D # A \cup B
    <3>1. SUFFICES ASSUME D = A \cup B PROVE FALSE
      OBVIOUS
    <3>2. c < m
      BY <1>8, <2>3, <2>5, <3>1
    <3> QED
      BY <2>4, <2>5, <3>2
  <2> QED
    BY <2>2, <2>3, <2>6, <2>7
<1> QED
  BY <1>2, <1>6, <1>7, <1>10 DEF LeadsOnly, New

(* What a join leaves in the table: everything but its own set as it was,   *)
(* and for that set a plan no dearer than the new one and the old one.      *)
Improved(dp, S, new, dp2) ==
  /\ dp2 \in [NodeSets -> Plans] /\ \A T \in NodeSets : T # S => dp2[T] = dp[T]
  /\ dp2[S] = new \/ (dp2[S] = dp[S] /\ dp[S].found)
  /\ dp2[S].cost <= new.cost
  /\ dp[S].found => dp2[S].cost <= dp[S].cost

(* The table after a join.                                                  *)
Updated(dp, S, new) == IF Better(dp[S], new) THEN [dp EXCEPT ![S] = new] ELSE dp

LEMMA BetterImproves ==
  ASSUME NEW dp \in [NodeSets -> Plans], NEW S \in NodeSets, NEW new \in Plans,
         NEW dp2, dp2 = Updated(dp, S, new)
  PROVE  Improved(dp, S, new, dp2)
<1>1. PICK old \in Plans : old = dp[S]
  OBVIOUS
<1>2. old.cost \in Nat /\ new.cost \in Nat /\ old.found \in BOOLEAN
  BY DEF Plans
<1>3. CASE Better(old, new)
  <2>1. dp2 = [dp EXCEPT ![S] = new]
    BY <1>1, <1>3 DEF Updated
  <2>2. dp2 \in [NodeSets -> Plans] /\ dp2[S] = new /\ \A T \in NodeSets : T # S => dp2[T] = dp[T]
    BY <2>1
  <2>3. old.found => new.cost <= old.cost
    BY <1>2, <1>3 DEF Better
  <2> QED
    BY <1>1, <1>2, <2>2, <2>3 DEF Improved
<1>4. CASE ~ Better(old, new)
  <2>1. dp2 = dp
    BY <1>1, <1>4 DEF Updated
  <2>2. old.found /\ old.cost <= new.cost /\ old.cost <= old.cost
    BY <1>2, <1>4 DEF Better
  <2> QED
    BY <1>1, <2>1, <2>2 DEF Improved
<1> QED
  BY <1>3, <1>4

(* The joins after one more.                                                *)
LEMMA Appended ==
  ASSUME NEW T, NEW s \in Seq(T), NEW x \in T
  PROVE  LET t == Append(s, x) IN
         /\ t \in Seq(T) /\ DOMAIN t = DOMAIN s \cup {Len(s) + 1} /\ t[Len(s) + 1] = x
         /\ Len(s) + 1 \notin DOMAIN s /\ \A k \in DOMAIN s : t[k] = s[k]
  OBVIOUS

(* A join of a new pair keeps the table.                                    *)
LEMMA TableKept ==
  ASSUME NEW g \in Graphs, NEW dp, NEW J, Table(g, dp, J), NEW q \in Pairs(g),
         NEW A, NEW B, NEW S, A = q[1], B = q[2], S = A \cup B, dp[A].found, dp[B].found,
         New(J, q, S),
         NEW new, new = JoinPlan(g, A, B, dp[A], dp[B]),
         NEW dp2, dp2 = Updated(dp, S, new),
         NEW J2, J2 = Append(J, q)
  PROVE  Table(g, dp2, J2) /\ StaysFound(dp, dp2)
<1>1. /\ dp \in [NodeSets -> Plans] /\ J \in Seq(NodeSets \X NodeSets)
      /\ \A k \in DOMAIN J : J[k] \in Pairs(g)
  BY DEF Table
<1>2. /\ q = <<A, B>> /\ A \in NodeSets /\ B \in NodeSets /\ S \in NodeSets /\ A \cap B = {}
      /\ A # S /\ B # S /\ A \in Splits(g, S) /\ S \ A = B /\ Cardinality(S) # 1
  <2>1. /\ q = <<A, B>> /\ A \in NodeSets /\ B \in NodeSets /\ S \in NodeSets /\ A \cap B = {}
    BY PairIs
  <2>2. A \in Splits(g, S) /\ S \ A = B /\ Cardinality(S) # 1
    BY PairSplits
  <2>3. A # {} /\ B # {}
    BY <2>1, Sized
  <2> QED
    BY <2>1, <2>2, <2>3
<1>3. dp[A] \in Plans /\ dp[B] \in Plans /\ new \in Plans /\ new.found
  BY <1>1, <1>2, JoinTyped
<1>4. /\ dp2 \in [NodeSets -> Plans] /\ \A T \in NodeSets : T # S => dp2[T] = dp[T]
      /\ dp2[S] = new \/ (dp2[S] = dp[S] /\ dp[S].found)
      /\ dp2[S].cost <= new.cost
      /\ dp[S].found => dp2[S].cost <= dp[S].cost
  <2>1. Improved(dp, S, new, dp2)
    BY <1>1, <1>2, <1>3, BetterImproves
  <2> QED
    BY <2>1 DEF Improved
<1>5. PICK n : n = Len(J) + 1
  OBVIOUS
<1>6. /\ J2 \in Seq(NodeSets \X NodeSets) /\ DOMAIN J2 = DOMAIN J \cup {n} /\ J2[n] = q
      /\ n \notin DOMAIN J /\ \A k \in DOMAIN J : J2[k] = J[k]
  BY <1>1, <1>2, <1>5, Appended
<1>7. dp2[S].found /\ \A T \in NodeSets : dp[T].found => dp2[T].found
  <2>1. dp2[S].found
    BY <1>3, <1>4
  <2>2. ASSUME NEW T \in NodeSets, dp[T].found, T # S PROVE dp2[T].found
    <3>1. dp2[T] = dp[T]
      BY <1>4, <2>2
    <3> QED
      BY <2>2, <3>1
  <2> QED
    BY <2>1, <2>2
<1>8. \A i, j \in DOMAIN J2 : i # j => J2[i] # J2[j]
  BY <1>6 DEF Table, New
<1>9. \A k \in DOMAIN J2 : J2[k] \in Pairs(g)
  BY <1>1, <1>6
<1>10. ASSUME NEW T \in NodeSets PROVE dp2[T].found <=> Entry(T, J2)
  <2>1. Entry(T, J2) <=> Entry(T, J) \/ S = T
    <3>1. J2[n][1] \cup J2[n][2] = S
      BY <1>6
    <3>2. ASSUME NEW k \in DOMAIN J2 PROVE k = n \/ (k \in DOMAIN J /\ J2[k] = J[k])
      BY <1>6
    <3>3. ASSUME NEW k \in DOMAIN J PROVE k \in DOMAIN J2 /\ J2[k] = J[k]
      BY <1>6
    <3>4. n \in DOMAIN J2
      BY <1>6
    <3>5. CASE Entry(T, J2)
      BY <3>1, <3>2, <3>5 DEF Entry
    <3>6. CASE Entry(T, J)
      BY <3>3, <3>6 DEF Entry
    <3>7. S = T => Entry(T, J2)
      BY <3>1, <3>4 DEF Entry
    <3> QED
      BY <3>5, <3>6, <3>7
  <2>2. dp[T].found <=> Entry(T, J)
    BY DEF Table
  <2> QED
    BY <1>4, <1>7, <2>1, <2>2
<1>11. ASSUME NEW T \in NodeSets, dp2[T].found PROVE dp2[T] \in AllPlans(g)[T]
  <2>1. CASE dp2[T] = dp[T] /\ dp[T].found
    BY <2>1 DEF Table
  <2>2. CASE T = S /\ dp2[T] = new
    <3>1. PICK all : all = AllPlans(g)
      OBVIOUS
    <3>2. dp[A] \in all[A] /\ dp[B] \in all[B]
      BY <1>2, <3>1 DEF Table
    <3>3. OfSplit(g, S, A, all, new)
      BY <1>2, <3>2 DEF OfSplit
    <3>4. new \in PlansFor(g, S, all)
      BY <1>2, <3>3, PlanOf
    <3> QED
      BY <1>2, <2>2, <3>1, <3>4, AllPlansAre
  <2> QED
    BY <1>4, <1>11, <2>1, <2>2
<1>12. ASSUME NEW k \in DOMAIN J2
       PROVE  dp2[J2[k][1] \cup J2[k][2]].cost
                <= JoinPlan(g, J2[k][1], J2[k][2], dp2[J2[k][1]], dp2[J2[k][2]]).cost
  <2>1. CASE k = n
    <3>1. J2[k][1] = A /\ J2[k][2] = B /\ dp2[A] = dp[A] /\ dp2[B] = dp[B]
      BY <1>2, <1>4, <1>6, <2>1
    <3>2. dp2[S].cost <= new.cost
      BY <1>4
    <3> QED
      BY <3>1, <3>2
  <2>2. CASE k \in DOMAIN J
    <3>1. PICK C, D, U : C = J[k][1] /\ D = J[k][2] /\ U = C \cup D
      OBVIOUS
    <3>2. J2[k] = J[k] /\ C # S /\ D # S
      BY <1>6, <2>2, <3>1 DEF New
    <3>3. J[k] \in Pairs(g)
      BY <1>1, <2>2
    <3>4. C \in NodeSets /\ D \in NodeSets /\ U \in NodeSets
      BY <3>1, <3>3, PairIs
    <3>5. dp2[C] = dp[C] /\ dp2[D] = dp[D]
      BY <1>4, <3>2, <3>4
    <3>6. PICK p : p = JoinPlan(g, C, D, dp[C], dp[D])
      OBVIOUS
    <3>7. dp[U].cost <= p.cost /\ dp[U].found
      BY <2>2, <3>1, <3>4, <3>6 DEF Table, Entry
    <3>8. dp2[U].cost <= dp[U].cost
      <4>1. dp[U].cost \in Nat
        BY <1>1, <3>4 DEF Plans
      <4>2. CASE U = S
        BY <1>4, <3>7, <4>2
      <4>3. CASE U # S
        <5>1. dp2[U] = dp[U]
          BY <1>4, <3>4, <4>3
        <5> QED
          BY <4>1, <5>1
      <4> QED
        BY <4>2, <4>3
    <3>9. dp2[U].cost <= p.cost
      <4>1. dp2[U].cost \in Nat /\ dp[U].cost \in Nat /\ p.cost \in Nat
        BY <1>1, <1>4, <3>4, <3>6, JoinTyped DEF Plans
      <4> QED
        BY <3>7, <3>8, <4>1
    <3> QED
      <4>1. J2[k][1] = C /\ J2[k][2] = D
        BY <3>1, <3>2
      <4>2. dp2[C \cup D].cost <= JoinPlan(g, C, D, dp2[C], dp2[D]).cost
        BY <3>1, <3>5, <3>6, <3>9
      <4> QED
        BY <4>1, <4>2
  <2> QED
    BY <1>6, <2>1, <2>2
<1>13. Table(g, dp2, J2)
  BY <1>4, <1>6, <1>8, <1>9, <1>10, <1>11, <1>12 DEF Table
<1> QED
  BY <1>5, <1>7, <1>13 DEF StaysFound

(* EmitCsgCmp: the pair is joined, with the final plans of its sides.       *)
LEMMA EmitCsgCmpKeeps ==
  ASSUME DPInv, EmitCsgCmp
  PROVE  DPInv'
<1>1. PICK g, dp, J, s : g = edges /\ dp = dpTable /\ J = joined /\ s = todo
  OBVIOUS
<1>2. Stack(g, dp, J, s) /\ g \in Graphs /\ Table(g, dp, J) /\ s # <<>> /\ s[1].op = "EmitCsgCmp" /\ Top = s[1]
  <2>1. Stack(g, dp, J, s) /\ g \in Graphs /\ Table(g, dp, J)
    BY <1>1 DEF DPInv
  <2>2. todo # <<>> /\ Top.op = "EmitCsgCmp" /\ todo \in Seq(Loops)
    BY <1>1, <2>1 DEF EmitCsgCmp, Stack
  <2> QED
    BY <1>1, <2>1, <2>2 DEF Top
<1>3. PICK A, B, S, q : A = s[1].S1 /\ B = s[1].S2 /\ S = A \cup B /\ q = <<A, B>>
  OBVIOUS
<1>4. /\ q \in Pairs(g) /\ dp[A].found /\ dp[B].found /\ A \in NodeSets /\ B \in NodeSets
      /\ LeadsOnly(s[1], A, B) /\ New(J, q, S)
  BY <1>2, <1>3, JoinIs
<1>5. PICK new : new = JoinPlan(g, A, B, dp[A], dp[B])
  OBVIOUS
<1>6. PICK dp2 : dp2 = Updated(dp, S, new)
  OBVIOUS
<1>7. /\ todo' = Tail(todo) /\ edges' = edges /\ dpTable' = dp2 /\ joined' = Append(J, q)
  BY <1>1, <1>2, <1>3, <1>4, <1>5, <1>6 DEF EmitCsgCmp, dp_lookup, Updated
<1>8. q[1] = A /\ q[2] = B
  BY <1>3
<1>9. PICK J2, n : J2 = Append(J, q) /\ n = Len(J) + 1
  OBVIOUS
<1>10. Table(g, dp2, J2) /\ StaysFound(dp, dp2)
  <2>1. /\ g \in Graphs /\ Table(g, dp, J) /\ q \in Pairs(g) /\ dp[A].found /\ dp[B].found
        /\ A = q[1] /\ B = q[2] /\ S = A \cup B /\ New(J, q, S)
    BY <1>2, <1>3, <1>4, <1>8
  <2>2. J2 = Append(J, q)
    BY <1>9
  <2> QED
    BY <1>5, <1>6, <2>1, <2>2, TableKept
<1>11. /\ DOMAIN J2 = DOMAIN J \cup {n} /\ J2[n] = q /\ \A k \in DOMAIN J : J2[k] = J[k]
  <2>1. J \in Seq(NodeSets \X NodeSets) /\ q \in NodeSets \X NodeSets
    BY <1>2, <1>3, <1>4 DEF Table
  <2> QED
    BY <1>9, <2>1, Appended
<1>12. \A k \in DOMAIN J2 : \/ \E i \in DOMAIN J : J2[k] = J[i]
                            \/ /\ J2[k][1] \in NodeSets /\ J2[k][2] \in NodeSets
                               /\ Leads(s[1], J2[k][1], J2[k][2])
  BY <1>4, <1>8, <1>11 DEF LeadsOnly
<1>13. \A k \in DOMAIN J : \E i \in DOMAIN J2 : J2[i] = J[k]
  BY <1>11
<1>14. \A p \in Pairs(g) : Leads(s[1], p[1], p[2]) => \E k \in DOMAIN J2 : J2[k] = p
  <2>1. ASSUME NEW p \in Pairs(g), Leads(s[1], p[1], p[2]) PROVE p = q
    <3>1. p[1] = A /\ p[2] = B
      BY <1>4, <2>1 DEF LeadsOnly
    <3>2. p = <<p[1], p[2]>>
      BY <1>2, <2>1, PairIs
    <3> QED
      BY <1>3, <3>1, <3>2
  <2> QED
    BY <1>11, <2>1
<1>15. Stack(g, dp2, J2, Tail(s))
  <2>1. JoinsAlso(g, J, s[1], J2)
    BY <1>12, <1>13, <1>14 DEF JoinsAlso
  <2> QED
    BY <1>2, <1>10, <2>1, Popped
<1> QED
  BY <1>1, <1>2, <1>7, <1>10, <1>9, <1>15 DEF DPInv

-----------------------------------------------------------------------------
(* The invariant holds.                                                     *)

(* The main loop leads to every pair.                                       *)
LEMMA SolveFits ==
  ASSUME NEW g \in Graphs, NEW dp
  PROVE  /\ Fit(g, dp, Solve) /\ Solve.op = "Solve"
         /\ \A p \in Pairs(g) : Leads(Solve, p[1], p[2])
<1>1. PICK all : all = {{v} : v \in Nodes}
  OBVIOUS
<1>2. all \subseteq NodeSets /\ {} \in SUBSET Nodes /\ Nodes \in SUBSET Nodes
  BY <1>1, SingleNode
<1>3. PICK l : l = Loop("Solve", {}, {}, {}, Nodes, all)
  OBVIOUS
<1>4. l = Solve
  BY <1>1, <1>3 DEF Solve
<1>5. /\ l.op = "Solve" /\ l.N = Nodes /\ l.left = all
      /\ "Solve" \in Ops /\ {{}, Nodes} \subseteq SUBSET Nodes /\ all \subseteq NodeSets => l \in Loops
  BY <1>3, LoopParts
<1>6. "Solve" \in Ops
  BY DEF Ops
<1>7. l \in Loops
  BY <1>2, <1>5, <1>6
<1>8. FitSingle(l)
  BY <1>1, <1>5 DEF FitSingle
<1>9. Fit(g, dp, l)
  BY <1>5, <1>7, <1>8 DEF Fit
<1>10. ASSUME NEW p \in Pairs(g) PROVE Leads(l, p[1], p[2])
  <2>1. PICK Q : Q = p[1]
    OBVIOUS
  <2>2. Q \in NodeSets
    BY <2>1, PairIs
  <2>3. PICK v : v = Min(Q)
    OBVIOUS
  <2>4. v \in Q /\ v \in Nodes /\ v \in Nat /\ \A i \in Q : i \in Nat /\ v <= i
    BY <2>2, <2>3, LeastNode
  <2>5. Min({v}) = v
    BY <2>4, SingleNode
  <2>6. \A i \in Nat : i \in get_B(v) <=> i <= v
    BY <2>4, Below
  <2>7. Q \cap get_B(v) = {v}
    <3>1. ASSUME NEW i \in Q PROVE i \in get_B(v) <=> i = v
      BY <2>4, <2>6
    <3>2. v \in get_B(v)
      BY <2>4, <2>6
    <3> QED
      BY <2>4, <3>1, <3>2
  <2>8. {v} \in l.left
    BY <1>1, <1>5, <2>4
  <2>9. LeadsBy(l, {v}, Q, p[2])
    BY <1>5, <2>5, <2>7 DEF LeadsBy
  <2> QED
    BY <2>1, <2>8, <2>9 DEF Leads
<1> QED
  BY <1>4, <1>5, <1>9, <1>10

(* The table begins with the plans of single nodes.                         *)
LEMMA InitTable ==
  ASSUME NEW g \in Graphs, NEW dp,
         dp = [S \in NodeSets |-> IF Cardinality(S) = 1 THEN Plan(0, Card(Min(S))) ELSE NoPlan]
  PROVE  Table(g, dp, <<>>)
<1>1. ASSUME NEW S \in NodeSets, Cardinality(S) = 1
      PROVE  /\ dp[S] = Plan(0, Card(Min(S))) /\ dp[S] \in Plans /\ dp[S].found
             /\ dp[S] \in AllPlans(g)[S]
  <2>1. dp[S] = Plan(0, Card(Min(S)))
    BY <1>1
  <2>2. Card(Min(S)) \in Nat
    BY LeastNode, DPhypAssumption
  <2>3. dp[S] \in Plans /\ dp[S].found
    <3>1. PICK c \in Nat : c = Card(Min(S))
      BY <2>2
    <3>2. PICK p : p = Plan(0, c)
      OBVIOUS
    <3>3. p \in Plans /\ p.found
      BY <3>2 DEF Plan, Plans
    <3> QED
      BY <2>1, <3>1, <3>2, <3>3
  <2>4. PICK all : all = AllPlans(g)
    OBVIOUS
  <2>5. dp[S] \in PlansFor(g, S, all)
    BY <1>1, <2>1, PlanOf
  <2> QED
    BY <2>1, <2>3, <2>4, <2>5, AllPlansAre
<1>2. ASSUME NEW S \in NodeSets, Cardinality(S) # 1
      PROVE  dp[S] = NoPlan /\ dp[S] \in Plans /\ ~ dp[S].found
  <2>1. dp[S] = NoPlan
    BY <1>2
  <2>2. PICK p : p = NoPlan
    OBVIOUS
  <2>3. p \in Plans /\ ~ p.found
    BY <2>2 DEF NoPlan, Plans
  <2> QED
    BY <2>1, <2>2, <2>3
<1>3. dp \in [NodeSets -> Plans]
  <2>1. DOMAIN dp = NodeSets /\ dp = [S \in NodeSets |-> dp[S]]
    OBVIOUS
  <2>2. \A S \in NodeSets : dp[S] \in Plans
    BY <1>1, <1>2
  <2> QED
    BY <2>1, <2>2
<1>4. PICK J : J = <<>>
  OBVIOUS
<1>5. J \in Seq(NodeSets \X NodeSets) /\ DOMAIN J = {}
  BY <1>4
<1>6. \A S \in NodeSets : Entry(S, J) <=> Cardinality(S) = 1
  BY <1>5 DEF Entry
<1>7. \A S \in NodeSets : dp[S].found <=> Entry(S, J)
  BY <1>1, <1>2, <1>6
<1>8. \A S \in NodeSets : dp[S].found => dp[S] \in AllPlans(g)[S]
  BY <1>1, <1>2
<1>9. Table(g, dp, J)
  BY <1>3, <1>5, <1>7, <1>8 DEF Table
<1> QED
  BY <1>4, <1>9

(* So the invariant holds at first.                                         *)
LEMMA InitFits ==
  ASSUME Init
  PROVE  DPInv
<1>1. PICK g, dp, s, J, l : g = edges /\ dp = dpTable /\ s = todo /\ J = joined /\ l = Solve
  OBVIOUS
<1>2. g \in Graphs /\ s = <<l>> /\ J = <<>>
  BY <1>1 DEF Init
<1>3. Table(g, dp, J)
  BY <1>1, <1>2, InitTable DEF Init
<1>4. Fit(g, dp, l) /\ \A p \in Pairs(g) : Leads(l, p[1], p[2])
  BY <1>1, <1>2, SolveFits
<1>5. l \in Loops
  BY <1>4 DEF Fit
<1>6. s \in Seq(Loops) /\ DOMAIN s = {1} /\ s[1] = l
  BY <1>2, <1>5
<1>7. DOMAIN J = {}
  BY <1>2
<1>8. \A i, j \in DOMAIN s : ~ i < j
  BY <1>6
<1>9. Stack(g, dp, J, s)
  BY <1>4, <1>6, <1>7, <1>8 DEF Stack
<1> QED
  BY <1>1, <1>2, <1>3, <1>9 DEF DPInv

(* The invariant: what is joined and what the stack still leads to are all  *)
(* pairs, each once, and a set is joined only after all joins that make     *)
(* it.                                                                      *)
THEOREM DPInductive == Spec => []DPInv
<1>1. Init => DPInv
  BY InitFits
<1>2. DPInv /\ [Next]_vars => DPInv'
  <2> SUFFICES ASSUME DPInv, [Next]_vars PROVE DPInv'
    OBVIOUS
  <2>1. CASE SolveNode
    BY <2>1, SolveNodeKeeps
  <2>2. CASE EmitNode
    BY <2>2, EmitNodeKeeps
  <2>3. CASE TryCsg
    BY <2>3, TryCsgKeeps
  <2>4. CASE GrowCsg
    BY <2>4, GrowCsgKeeps
  <2>5. CASE TryCmp
    BY <2>5, TryCmpKeeps
  <2>6. CASE GrowCmp
    BY <2>6, GrowCmpKeeps
  <2>7. CASE Return
    BY <2>7, ReturnKeeps
  <2>8. CASE EmitCsgCmp
    BY <2>8, EmitCsgCmpKeeps
  <2>9. CASE UNCHANGED vars
    BY <2>9 DEF vars, DPInv
  <2> QED
    BY <2>1, <2>2, <2>3, <2>4, <2>5, <2>6, <2>7, <2>8, <2>9 DEF Next
<1> QED
  BY <1>1, <1>2, PTL DEF Spec

-----------------------------------------------------------------------------
(* What it says at the end.                                                 *)

(* At the end every pair has been joined.                                   *)
Complete(g, J) == \A p \in Pairs(g) : \E k \in DOMAIN J : J[k] = p

(* When the stack is empty all pairs have been joined.                      *)
LEMMA EndedComplete ==
  ASSUME DPInv, Ended
  PROVE  Complete(edges, joined)
<1>1. PICK s : s = todo
  OBVIOUS
<1>2. DOMAIN s = {}
  BY <1>1 DEF Ended
<1> QED
  BY <1>1, <1>2 DEF DPInv, Stack, Complete

(* They are joined once.                                                    *)
LEMMA EachPairOnce == DPInv => AllPairsOnce
<1> SUFFICES ASSUME DPInv, Ended PROVE IsInjective(joined) /\ ToSet(joined) = Pairs(edges)
  BY DEF AllPairsOnce
<1>1. Table(edges, dpTable, joined) /\ Complete(edges, joined)
  BY EndedComplete DEF DPInv
<1>2. IsInjective(joined)
  BY <1>1 DEF Table, IsInjective
<1>3. ToSet(joined) = Pairs(edges)
  BY <1>1 DEF Table, Complete, ToSet
<1> QED
  BY <1>2, <1>3

(* The connected sets are those that have plans.                            *)
LEMMA FoundWhenConnected == DPInv => FoundIfConnected
<1> SUFFICES ASSUME DPInv, Ended, NEW S \in NodeSets PROVE dp_lookup(S) <=> S \in Connected(edges)
  BY DEF FoundIfConnected
<1>1. PICK g, dp, J : g = edges /\ dp = dpTable /\ J = joined
  OBVIOUS
<1>2. g \in Graphs /\ Table(g, dp, J) /\ Complete(g, J)
  BY <1>1, EndedComplete DEF DPInv
<1>3. dp[S].found => S \in Connected(g)
  BY <1>2, FoundConnected
<1>4. S \in Connected(g) => dp[S].found
  BY <1>2, ConnectedFound DEF Complete
<1> QED
  BY <1>1, <1>3, <1>4 DEF dp_lookup

(* A step never changes the plan of a side of an earlier join.              *)
LEMMA UsedKept ==
  ASSUME DPInv, [Next]_vars, NEW S \in NodeSets, NEW k \in DOMAIN joined, S \in {joined[k][1], joined[k][2]}
  PROVE  dpTable'[S] = dpTable[S]
<1>1. CASE EmitCsgCmp
  <2>1. PICK g, dp, J, s : g = edges /\ dp = dpTable /\ J = joined /\ s = todo
    OBVIOUS
  <2>2. Stack(g, dp, J, s) /\ g \in Graphs /\ Table(g, dp, J) /\ s # <<>> /\ s[1].op = "EmitCsgCmp" /\ Top = s[1]
    <3>1. Stack(g, dp, J, s) /\ g \in Graphs /\ Table(g, dp, J)
      BY <2>1 DEF DPInv
    <3>2. todo # <<>> /\ Top.op = "EmitCsgCmp" /\ todo \in Seq(Loops)
      BY <1>1, <2>1, <3>1 DEF EmitCsgCmp, Stack
    <3> QED
      BY <2>1, <3>1, <3>2 DEF Top
  <2>3. PICK A, B, U, q : A = s[1].S1 /\ B = s[1].S2 /\ U = A \cup B /\ q = <<A, B>>
    OBVIOUS
  <2>4. New(J, q, U)
    BY <2>2, <2>3, JoinIs
  <2>5. S # U
    BY <2>1, <2>4 DEF New
  <2>6. PICK new : new = JoinPlan(g, A, B, dp[A], dp[B])
    OBVIOUS
  <2>7. dpTable' = dp \/ dpTable' = [dp EXCEPT ![U] = new]
    BY <1>1, <2>1, <2>2, <2>3, <2>6 DEF EmitCsgCmp
  <2>8. dp \in [NodeSets -> Plans]
    BY <2>2 DEF Table
  <2> QED
    BY <2>1, <2>5, <2>7, <2>8
<1>2. CASE ~ EmitCsgCmp
  <2>1. dpTable' = dpTable
    BY <1>2 DEF Next, vars, SolveNode, EmitNode, TryCsg, GrowCsg, TryCmp, GrowCmp, Return, Iterates
  <2> QED
    BY <2>1
<1> QED
  BY <1>1, <1>2

(* A plan of the table is as good as any join of one pair of plans of the   *)
(* sides, when those of the table are.                                      *)
AsGood(dp, S, p) == dp[S].found /\ dp[S].cost <= p.cost

LEMMA JoinedAsGood ==
  ASSUME NEW g \in Graphs, NEW dp, NEW J, Table(g, dp, J), Complete(g, J),
         NEW C, NEW D, NEW q, q = <<C, D>>, q \in Pairs(g), NEW S, S = C \cup D,
         NEW c \in Plans, NEW d \in Plans, AsGood(dp, C, c), AsGood(dp, D, d),
         dp[C].card = c.card, dp[D].card = d.card
  PROVE  AsGood(dp, S, JoinPlan(g, C, D, c, d))
<1>1. C \in NodeSets /\ D \in NodeSets /\ S \in NodeSets
  <2>1. q[1] = C /\ q[2] = D
    OBVIOUS
  <2> QED
    BY <2>1, PairIs
<1>2. PICK p1, p2, j, o : p1 = dp[C] /\ p2 = dp[D] /\ j = JoinPlan(g, C, D, p1, p2) /\ o = JoinPlan(g, C, D, c, d)
  OBVIOUS
<1>3. p1 \in Plans /\ p2 \in Plans /\ dp[S] \in Plans
  BY <1>1, <1>2 DEF Table
<1>4. p1.card = c.card /\ p2.card = d.card /\ p1.cost <= c.cost /\ p2.cost <= d.cost
  BY <1>2 DEF AsGood
<1>5. j.cost <= o.cost /\ j \in Plans /\ o \in Plans
  BY <1>2, <1>3, <1>4, JoinMonotone, JoinTyped
<1>6. PICK k \in DOMAIN J : J[k] = q
  BY DEF Complete
<1>7. J[k][1] = C /\ J[k][2] = D
  BY <1>6
<1>8. dp[S].cost <= j.cost /\ dp[S].found
  BY <1>1, <1>2, <1>6, <1>7 DEF Table, Entry
<1>9. dp[S].cost <= o.cost
  <2>1. PICK x, y, z \in Nat : x = dp[S].cost /\ y = j.cost /\ z = o.cost
    BY <1>3, <1>5 DEF Plans
  <2> QED
    BY <1>5, <1>8, <2>1
<1> QED
  BY <1>2, <1>8, <1>9 DEF AsGood

(* By size: no plan of a set is better than that of the table.              *)
LEMMA BestPlans ==
  ASSUME NEW g \in Graphs, NEW dp, NEW J, Table(g, dp, J), Complete(g, J),
         NEW all, all = AllPlans(g), Uniform(all)
  PROVE  \A S \in NodeSets : \A p \in all[S] : AsGood(dp, S, p)
<1> DEFINE Bad == {S \in NodeSets : \E p \in all[S] : ~ AsGood(dp, S, p)}
<1> HIDE DEF Bad
<1>1. SUFFICES ASSUME Bad # {} PROVE FALSE
  BY DEF Bad
<1>2. PICK S \in Bad : \A T \in NodeSets : Cardinality(T) < Cardinality(S) => T \notin Bad
  <2>1. Bad \in SUBSET NodeSets
    BY DEF Bad
  <2> QED
    BY <1>1, <2>1, LeastSet
<1>3. S \in NodeSets
  BY DEF Bad
<1>4. PICK p \in all[S] : ~ AsGood(dp, S, p)
  BY DEF Bad
<1>5. \A T \in NodeSets : all[T] \subseteq Plans /\ (dp[T].found => dp[T] \in all[T])
  BY AllPlansAre DEF Table
<1>6. p \in PlansFor(g, S, all)
  BY <1>3, <1>4, AllPlansAre
<1>7. CASE Cardinality(S) = 1
  <2>1. dp[S].found
    BY <1>3, <1>7 DEF Table, Entry
  <2>2. dp[S] \in PlansFor(g, S, all)
    BY <1>3, <2>1, AllPlansAre DEF Table
  <2>3. dp[S] = p
    <3>1. p = Plan(0, Card(Min(S)))
      BY <1>6, <1>7, PlanOf
    <3>2. dp[S] = Plan(0, Card(Min(S)))
      BY <1>7, <2>2, PlanOf
    <3> QED
      BY <3>1, <3>2
  <2>4. p.cost \in Nat
    BY <1>3, <1>5 DEF Plans
  <2>5. dp[S].cost <= p.cost
    BY <2>3, <2>4
  <2> QED
    BY <1>4, <2>1, <2>5 DEF AsGood
<1>8. CASE Cardinality(S) # 1
  <2>1. PICK A \in Splits(g, S) : OfSplit(g, S, A, all, p)
    BY <1>6, <1>8, PlanOf
  <2>2. PICK B : B = S \ A
    OBVIOUS
  <2>3. PICK a \in all[A], b \in all[B] : p = JoinPlan(g, A, B, a, b)
    BY <2>1, <2>2 DEF OfSplit
  <2>4. /\ A \in NodeSets /\ Cardinality(A) < Cardinality(S)
        /\ B \in NodeSets /\ Cardinality(B) < Cardinality(S) /\ A \subseteq S
    BY <1>3, <2>1, <2>2, SplitSmaller
  <2>5. AsGood(dp, A, a) /\ AsGood(dp, B, b)
    BY <1>2, <2>3, <2>4 DEF Bad
  <2>6. dp[A] \in all[A] /\ dp[B] \in all[B] /\ a \in Plans /\ b \in Plans
    BY <1>5, <2>3, <2>4, <2>5 DEF AsGood
  <2>7. dp[A].card = a.card /\ dp[B].card = b.card
    BY <2>3, <2>4, <2>6 DEF Uniform
  <2>8. A \in Connected(g) /\ B \in Connected(g)
    BY <2>4, <2>5, FoundConnected DEF AsGood
  <2>9. S = A \cup B /\ S = B \cup A
    BY <2>2, <2>4
  <2>10. CASE <<A, B>> \in Pairs(g)
    <3>1. AsGood(dp, S, JoinPlan(g, A, B, a, b))
      BY <2>5, <2>6, <2>7, <2>9, <2>10, JoinedAsGood
    <3> QED
      BY <1>4, <2>3, <3>1
  <2>11. CASE <<B, A>> \in Pairs(g)
    <3>1. AsGood(dp, S, JoinPlan(g, B, A, b, a))
      BY <2>5, <2>6, <2>7, <2>9, <2>11, JoinedAsGood
    <3>2. JoinPlan(g, B, A, b, a) = JoinPlan(g, A, B, a, b)
      BY <2>6, JoinSwapped
    <3> QED
      BY <1>4, <2>3, <3>1, <3>2
  <2>12. <<A, B>> \in Pairs(g) \/ <<B, A>> \in Pairs(g)
    BY <1>3, <2>1, <2>2, <2>8, SplitPaired
  <2> QED
    BY <2>10, <2>11, <2>12
<1> QED
  BY <1>7, <1>8

(* So the plans of the table are optimal.                                   *)
LEMMA BestWhenUniform == DPInv => OptimalIfUniform
<1> SUFFICES ASSUME DPInv, Ended, Uniform(AllPlans(edges)), NEW S \in NodeSets, NEW p \in AllPlans(edges)[S]
             PROVE  dpTable[S].cost <= p.cost
  BY DEF OptimalIfUniform
<1>1. PICK g, dp, J, all : g = edges /\ dp = dpTable /\ J = joined /\ all = AllPlans(g)
  OBVIOUS
<1>2. g \in Graphs /\ Table(g, dp, J) /\ Complete(g, J)
  BY <1>1, EndedComplete DEF DPInv
<1>3. AsGood(dp, S, p)
  BY <1>1, <1>2, BestPlans
<1> QED
  BY <1>1, <1>3 DEF AsGood

-----------------------------------------------------------------------------
(* The theorems.                                                            *)

(* For every hypergraph: every pair of disjoint connected sets that an      *)
(* edge joins is given to EmitCsgCmp, exactly once.                         *)
THEOREM PairsJoinedOnce == Spec => []AllPairsOnce
  BY DPInductive, EachPairOnce, PTL

(* Solve finds a plan for exactly the connected sets.                       *)
THEOREM FoundIffConnected == Spec => []FoundIfConnected
  BY DPInductive, FoundWhenConnected, PTL

(* Where all orders of joining a set give one cardinality, the plan found   *)
(* for it is the cheapest without cross products.                           *)
THEOREM OptimalUniform == Spec => []OptimalIfUniform
  BY DPInductive, BestWhenUniform, PTL

(* A plan that another plan points to is never replaced.                    *)
THEOREM PlansFinal == Spec => UsedPlansFinal
<1>1. DPInv /\ [Next]_vars
        => [\A S \in NodeSets : (\E k \in DOMAIN joined : S \in {joined[k][1], joined[k][2]})
                                  => dpTable'[S] = dpTable[S]]_vars
  BY UsedKept
<1> QED
  BY <1>1, DPInductive, PTL DEF Spec, UsedPlansFinal
=============================================================================
