-------------------------- MODULE RobinHoodProofs --------------------------
(***************************************************************************)
(* Proofs about RobinHood for every set of pages, every hash function and   *)
(* every capacity.                                                          *)
(***************************************************************************)
EXTENDS RobinHood, FiniteSetTheorems, TLAPS

-----------------------------------------------------------------------------
(* Positions and distances, for every capacity.                             *)

LEMMA HomeType ==
  ASSUME NEW p \in Page, NEW c \in Nat, c >= 1
  PROVE  Home(p, c) \in 0 .. c - 1
  BY HashAssumption DEF Home

LEMMA SuccType ==
  ASSUME NEW c \in Nat, c >= 1, NEW j \in 0 .. c - 1
  PROVE  Succ(j, c) \in 0 .. c - 1 /\ (c >= 2 => Succ(j, c) # j)
  BY DEF Succ

LEMMA DistType ==
  ASSUME NEW c \in Nat, c >= 1, NEW j \in 0 .. c - 1, NEW h \in 0 .. c - 1
  PROVE  Dist(j, h, c) \in 0 .. c - 1 /\ Dist(h, h, c) = 0
  BY DEF Dist

(* A position is one step further than the position before it, except home. *)
LEMMA DistSucc ==
  ASSUME NEW c \in Nat, c >= 1, NEW j \in 0 .. c - 1, NEW h \in 0 .. c - 1
  PROVE  IF Dist(j, h, c) = c - 1 THEN Dist(Succ(j, c), h, c) = 0
                                  ELSE Dist(Succ(j, c), h, c) = Dist(j, h, c) + 1
  BY DEF Dist, Succ

LEMMA DistInjective ==
  ASSUME NEW c \in Nat, c >= 1, NEW j \in 0 .. c - 1, NEW k \in 0 .. c - 1,
         NEW h \in 0 .. c - 1, Dist(j, h, c) = Dist(k, h, c)
  PROVE  j = k
  BY DEF Dist

-----------------------------------------------------------------------------
(* Tables.                                                                  *)

Tables(c) == [0 .. c - 1 -> Slot]

LEMMA UsedFinite ==
  ASSUME NEW c \in Nat, NEW T \in Tables(c)
  PROVE  /\ IsFiniteSet(Used(T))
         /\ Used(T) \subseteq 0 .. c - 1
         /\ Cardinality(Used(T)) \in Nat
  <1>1. Used(T) \subseteq 0 .. c - 1
    BY DEF Used, Tables
  <1>2. IsFiniteSet(0 .. c - 1)
    BY FS_Interval
  <1>3. IsFiniteSet(Used(T))
    BY <1>1, <1>2, FS_Subset
  <1> QED
    BY <1>1, <1>3, FS_CardinalityType

(* A table that holds fewer entries than it has slots has an empty slot.    *)
LEMMA EmptySlot ==
  ASSUME NEW c \in Nat, c >= 2, NEW T \in Tables(c), Cardinality(Used(T)) < c
  PROVE  \E j \in 0 .. c - 1 : T[j].page = NoPage
  <1>1. Cardinality(0 .. c - 1) = c
    BY FS_Interval
  <1>2. Used(T) # 0 .. c - 1
    BY <1>1
  <1> QED
    BY <1>2 DEF Used, Tables

(* In such a table no probe comes all the way around.                       *)
LEMMA NotFull ==
  ASSUME NEW c \in Nat, c >= 2, NEW T \in Tables(c), Cardinality(Used(T)) < c,
         NEW p \in Page, NEW i \in 0 .. c - 1, T[i].page # NoPage,
         Path(T, c, p, Dist(i, Home(p, c), c))
  PROVE  Dist(i, Home(p, c), c) < c - 1
  <1> DEFINE h == Home(p, c)
  <1>1. PICK j \in 0 .. c - 1 : T[j].page = NoPage
    BY EmptySlot
  <1>2. h \in 0 .. c - 1
    BY HomeType
  <1>3. ~ Dist(j, h, c) < Dist(i, h, c)
    BY <1>1 DEF Path
  <1>4. Dist(j, h, c) # Dist(i, h, c)
    BY <1>1, <1>2, DistInjective
  <1>5. Dist(j, h, c) \in 0 .. c - 1 /\ Dist(i, h, c) \in 0 .. c - 1
    BY <1>2, DistType
  <1> QED
    BY <1>3, <1>4, <1>5

LEMMA PathNext ==
  ASSUME NEW c \in Nat, c >= 2, NEW T \in Tables(c),
         NEW p \in Page, NEW i \in 0 .. c - 1, T[i].page # NoPage,
         Path(T, c, p, Dist(i, Home(p, c), c)),
         T[i].dib >= Dist(i, Home(p, c), c)
  PROVE  Path(T, c, p, Dist(i, Home(p, c), c) + 1)
  <1> DEFINE h == Home(p, c)
  <1>2. h \in 0 .. c - 1
    BY HomeType
  <1> SUFFICES ASSUME NEW j \in 0 .. c - 1, Dist(j, h, c) < Dist(i, h, c) + 1
               PROVE  T[j].page # NoPage /\ T[j].dib >= Dist(j, h, c)
    BY DEF Path
  <1>3. Dist(j, h, c) \in 0 .. c - 1 /\ Dist(i, h, c) \in 0 .. c - 1
    BY <1>2, DistType
  <1>4. CASE Dist(j, h, c) = Dist(i, h, c)
    BY <1>4, <1>2, DistInjective
  <1>5. CASE Dist(j, h, c) < Dist(i, h, c)
    BY <1>5 DEF Path
  <1> QED
    BY <1>3, <1>4, <1>5

(* A probe that stops before meeting p has shown that p is nowhere.         *)
LEMMA ProbeComplete ==
  ASSUME NEW c \in Nat, c >= 2, NEW T \in Tables(c), Placed(T, c, Used(T)),
         NEW p \in Page, NEW i \in 0 .. c - 1,
         T[i].page = NoPage \/ T[i].dib < Dist(i, Home(p, c), c),
         \A j \in 0 .. c - 1 : Dist(j, Home(p, c), c) < Dist(i, Home(p, c), c)
                                 => T[j].page # p
  PROVE  Absent(T, p)
  <1> DEFINE h == Home(p, c)
  <1>1. h \in 0 .. c - 1 /\ DOMAIN T = 0 .. c - 1
    BY HomeType DEF Tables
  <1> SUFFICES ASSUME NEW j \in 0 .. c - 1, T[j].page = p PROVE FALSE
    BY <1>1 DEF Absent
  <1>2. j \in Used(T)
    BY <1>1, PageAssumption DEF Used
  <1>3. T[j].dib = Dist(j, h, c) /\ Path(T, c, p, Dist(j, h, c))
    BY <1>2 DEF Placed
  <1>4. Dist(j, h, c) \in 0 .. c - 1 /\ Dist(i, h, c) \in 0 .. c - 1
    <2>1. c >= 1
      OBVIOUS
    <2> QED
      BY <1>1, <2>1, DistType
  <1>5. CASE Dist(i, h, c) < Dist(j, h, c)
    BY <1>5, <1>3, <1>4 DEF Path, Tables, Slot
  <1>6. CASE Dist(i, h, c) = Dist(j, h, c)
    <2>1. i = j
      BY <1>6, <1>1, DistInjective
    <2> QED
      BY <2>1, <1>3, <1>4, PageAssumption
  <1> QED
    BY <1>4, <1>5, <1>6

-----------------------------------------------------------------------------
(* page_table_insert_raw.                                                   *)

(* The entry carried comes to rest in an empty slot.                        *)
LEMMA SettleLemma ==
  ASSUME NEW c \in Nat, c >= 2, NEW T \in Tables(c), Placed(T, c, Used(T)),
         idx \in 0 .. c - 1, inc \in Slot, Carried(T, c), Settles(T)
  PROVE  /\ Settle(T) \in Tables(c)
         /\ Used(Settle(T)) = Used(T) \cup {idx} /\ idx \notin Used(T)
         /\ Placed(Settle(T), c, Used(Settle(T)))
         /\ Cardinality(Used(Settle(T))) = Cardinality(Used(T)) + 1
         /\ Pairs(Settle(T), Used(Settle(T)))
              = Pairs(T, Used(T)) \cup {<<inc.page, inc.frame>>}
         /\ \A p : p # inc.page /\ Absent(T, p) /\ p # NoPage => Absent(Settle(T), p)
  <1> DEFINE R == [T EXCEPT ![idx] = inc]
  <1>1. T[idx].page = NoPage
    BY DEF Settles, Carried, Absent, Tables
  <1>2. Settle(T) = R
    BY <1>1 DEF Settle, Tables
  <1>3. R \in Tables(c)
    BY DEF Tables
  <1>4. inc.page # NoPage /\ inc.page \in Page
    BY PageAssumption DEF Carried
  <1>5. Used(R) = Used(T) \cup {idx} /\ idx \notin Used(T)
    BY <1>1, <1>4 DEF Used, Tables
  <1>6. \A j \in 0 .. c - 1 : R[j] = IF j = idx THEN inc ELSE T[j]
    BY DEF Tables
  <1>7. \A p, d : Path(T, c, p, d) => Path(R, c, p, d)
    <2> SUFFICES ASSUME NEW p, NEW d, Path(T, c, p, d),
                        NEW j \in 0 .. c - 1, Dist(j, Home(p, c), c) < d
                 PROVE  R[j].page # NoPage /\ R[j].dib >= Dist(j, Home(p, c), c)
      BY DEF Path
    <2>1. T[j].page # NoPage /\ T[j].dib >= Dist(j, Home(p, c), c)
      BY DEF Path
    <2> QED
      BY <2>1, <1>1, <1>6
  <1>8. Used(T) \subseteq 0 .. c - 1
    BY UsedFinite
  <1>9. Placed(R, c, Used(R))
    <2> SUFFICES ASSUME NEW j \in Used(R)
                 PROVE  /\ R[j].dib = Dist(j, Home(R[j].page, c), c)
                        /\ Path(R, c, R[j].page, R[j].dib)
                        /\ \A k \in Used(R) : R[k].page = R[j].page => k = j
      BY DEF Placed
    <2>1. CASE j = idx
      <3>1. R[j] = inc
        BY <2>1, <1>6
      <3>2. \A k \in Used(T) : R[k].page # inc.page
        BY <1>5, <1>6, <1>8 DEF Carried, Absent, Tables
      <3> QED
        BY <2>1, <3>1, <3>2, <1>5, <1>7 DEF Carried
    <2>2. CASE j # idx
      <3>1. j \in Used(T) /\ R[j] = T[j]
        BY <2>2, <1>5, <1>6, <1>8
      <3>2. R[j].dib = Dist(j, Home(R[j].page, c), c) /\ Path(R, c, R[j].page, R[j].dib)
        BY <3>1, <1>7 DEF Placed
      <3>3. ASSUME NEW k \in Used(R), R[k].page = R[j].page PROVE k = j
        <4>1. CASE k = idx
          BY <4>1, <3>1, <3>3, <1>6, <1>8 DEF Carried, Absent, Tables
        <4>2. CASE k # idx
          BY <4>2, <3>1, <3>3, <1>5, <1>6, <1>8 DEF Placed
        <4> QED
          BY <4>1, <4>2
      <3> QED
        BY <3>2, <3>3
    <2> QED
      BY <2>1, <2>2
  <1>10. Cardinality(Used(R)) = Cardinality(Used(T)) + 1
    BY <1>5, UsedFinite, FS_AddElement
  <1>11. Pairs(R, Used(R)) = Pairs(T, Used(T)) \cup {<<inc.page, inc.frame>>}
    BY <1>5, <1>6, <1>8 DEF Pairs
  <1>12. \A p : p # inc.page /\ Absent(T, p) /\ p # NoPage => Absent(R, p)
    BY <1>6 DEF Absent, Tables
  <1> QED
    BY <1>2, <1>3, <1>5, <1>9, <1>10, <1>11, <1>12

(* The entry carried moves on, or changes places with a nearer one.         *)
LEMMA CarryLemma ==
  ASSUME NEW c \in Nat, c >= 2, NEW T \in Tables(c), Placed(T, c, Used(T)),
         Cardinality(Used(T)) < c,
         idx \in 0 .. c - 1, inc \in Slot, Carried(T, c), ~ Settles(T),
         NEW e, e = Carry(T), NEW n, n = Succ(idx, c), NEW R, R = Rob(T)
  PROVE  /\ R \in Tables(c) /\ e \in Slot /\ n \in 0 .. c - 1
         /\ Used(R) = Used(T)
         /\ Placed(R, c, Used(R))
         /\ e.page \in Page
         /\ e.dib = Dist(n, Home(e.page, c), c)
         /\ Path(R, c, e.page, e.dib)
         /\ Absent(R, e.page)
         /\ Pairs(R, Used(R)) \cup {<<e.page, e.frame>>}
              = Pairs(T, Used(T)) \cup {<<inc.page, inc.frame>>}
         /\ \A p : p # inc.page /\ Absent(T, p) => Absent(R, p) /\ p # e.page
  <1>1. T[idx].page # NoPage /\ T[idx].page # inc.page /\ idx \in Used(T)
    BY DEF Settles, Tables, Used
  <1>2. T[idx] \in Slot /\ T[idx].page \in Page
    BY <1>1 DEF Tables, Slot
  <1>3. n \in 0 .. c - 1
    BY SuccType
  <1>4. Used(T) \subseteq 0 .. c - 1
    BY UsedFinite
  <1>5. inc.page \in Page /\ inc.dib = Dist(idx, Home(inc.page, c), c)
          /\ Path(T, c, inc.page, inc.dib) /\ Absent(T, inc.page)
    BY DEF Carried
  <1>6. T[idx].dib = Dist(idx, Home(T[idx].page, c), c)
          /\ Path(T, c, T[idx].page, T[idx].dib)
    BY <1>1 DEF Placed
  <1>7. inc.dib \in 0 .. c - 1 /\ T[idx].dib \in 0 .. c - 1
    BY <1>2, <1>5, <1>6, HomeType, DistType
  <1>8. CASE Robs(T)
    <2>1. R = [T EXCEPT ![idx] = inc] /\ e = [T[idx] EXCEPT !.dib = @ + 1]
      BY <1>8 DEF Rob, Carry
    <2>2. inc.dib > T[idx].dib
      BY <1>8 DEF Robs
    <2>3. R \in Tables(c) /\ \A j \in 0 .. c - 1 : R[j] = IF j = idx THEN inc ELSE T[j]
      BY <2>1 DEF Tables
    <2>4. /\ e \in Slot /\ e.page = T[idx].page /\ e.frame = T[idx].frame
          /\ e.dib = T[idx].dib + 1
      BY <2>1, <1>2 DEF Slot
    <2>5. Used(R) = Used(T)
      BY <2>1, <1>1, <1>5, PageAssumption DEF Used, Tables
    <2>6. \A p \in Page : \A d : Path(T, c, p, d) => Path(R, c, p, d)
      <3> SUFFICES ASSUME NEW p \in Page, NEW d, Path(T, c, p, d),
                          NEW j \in 0 .. c - 1, Dist(j, Home(p, c), c) < d
                   PROVE  R[j].page # NoPage /\ R[j].dib >= Dist(j, Home(p, c), c)
        BY DEF Path
      <3>1. T[j].page # NoPage /\ T[j].dib >= Dist(j, Home(p, c), c)
        BY DEF Path
      <3>2. Dist(j, Home(p, c), c) \in 0 .. c - 1
        BY HomeType, DistType
      <3> QED
        BY <3>1, <3>2, <2>2, <2>3, <1>5, <1>7, PageAssumption
    <2>7. Placed(R, c, Used(R))
      <3> SUFFICES ASSUME NEW j \in Used(T)
                   PROVE  /\ R[j].dib = Dist(j, Home(R[j].page, c), c)
                          /\ Path(R, c, R[j].page, R[j].dib)
                          /\ \A k \in Used(T) : R[k].page = R[j].page => k = j
        BY <2>5 DEF Placed
      <3>1. \A k \in Used(T) : T[k].page # inc.page /\ T[k].page \in Page
        BY <1>4, <1>5 DEF Absent, Used, Tables, Slot
      <3>2. CASE j = idx
        BY <3>1, <3>2, <2>3, <2>6, <1>4, <1>5
      <3>3. CASE j # idx
        <4>1. /\ T[j].dib = Dist(j, Home(T[j].page, c), c)
              /\ Path(T, c, T[j].page, T[j].dib)
              /\ \A k \in Used(T) : T[k].page = T[j].page => k = j
          BY DEF Placed
        <4> QED
          BY <4>1, <3>1, <3>3, <2>3, <2>6, <1>4
      <3> QED
        BY <3>2, <3>3
    <2>8. Dist(idx, Home(e.page, c), c) < c - 1
      BY <2>4, <1>1, <1>2, <1>6, NotFull
    <2>9. e.dib = Dist(n, Home(e.page, c), c)
      BY <2>4, <2>8, <1>2, <1>6, HomeType, DistSucc
    <2>10. Path(R, c, e.page, e.dib)
      <3>1. Path(T, c, e.page, e.dib)
        BY <2>4, <1>1, <1>2, <1>6, <1>7, PathNext
      <3> QED
        BY <3>1, <2>4, <2>6, <1>2
    <2>11. Absent(R, e.page)
      <3>1. \A k \in 0 .. c - 1 : T[k].page = e.page => k = idx
        BY <2>4, <1>1, <1>2, PageAssumption DEF Placed, Used, Tables
      <3> QED
        BY <3>1, <2>3, <2>4, <1>1 DEF Absent, Tables
    <2>12. Pairs(R, Used(R)) \cup {<<e.page, e.frame>>}
             = Pairs(T, Used(T)) \cup {<<inc.page, inc.frame>>}
      BY <2>3, <2>4, <2>5, <1>1, <1>4 DEF Pairs
    <2>13. \A p : p # inc.page /\ Absent(T, p) => Absent(R, p) /\ p # e.page
      BY <2>3, <2>4 DEF Absent, Tables
    <2> QED
      BY <2>3, <2>4, <2>5, <2>7, <2>9, <2>10, <2>11, <2>12, <2>13, <1>2, <1>3
  <1>9. CASE ~ Robs(T)
    <2>1. R = T /\ e = [inc EXCEPT !.dib = @ + 1]
      BY <1>9 DEF Rob, Carry
    <2>2. inc.dib <= T[idx].dib
      BY <1>9, <1>7 DEF Robs
    <2>3. /\ e \in Slot /\ e.page = inc.page /\ e.frame = inc.frame
          /\ e.dib = inc.dib + 1
      BY <2>1 DEF Slot
    <2>4. Dist(idx, Home(e.page, c), c) < c - 1
      BY <2>3, <1>1, <1>5, NotFull
    <2>5. e.dib = Dist(n, Home(e.page, c), c)
      BY <2>3, <2>4, <1>5, HomeType, DistSucc
    <2>6. Path(T, c, e.page, e.dib)
      BY <2>2, <2>3, <1>1, <1>5, <1>7, PathNext
    <2> QED
      BY <2>1, <2>3, <2>5, <2>6, <1>3, <1>5
  <1> QED
    BY <1>8, <1>9

-----------------------------------------------------------------------------
(* The backward shift of page_table_delete: slot i is to be filled.         *)

(* An entry that reaches beyond i reaches beyond, or lies in, the next slot.*)
LEMMA ReachNext ==
  ASSUME NEW c \in Nat, c >= 2, NEW T \in Tables(c),
         NEW i \in 0 .. c - 1, Placed(T, c, Used(T) \ {i}),
         NEW j \in Used(T) \ {i},
         Dist(i, Home(T[j].page, c), c) < T[j].dib
  PROVE  LET n == Succ(i, c) IN
         /\ T[n].page # NoPage
         /\ T[n].dib >= Dist(i, Home(T[j].page, c), c) + 1
  <1> DEFINE n == Succ(i, c)
             h == Home(T[j].page, c)
  <1>1. j \in 0 .. c - 1 /\ T[j].page \in Page
    BY DEF Used, Tables, Slot
  <1>2. h \in 0 .. c - 1 /\ n \in 0 .. c - 1
    BY <1>1, HomeType, SuccType
  <1>3. T[j].dib = Dist(j, h, c) /\ Path(T, c, T[j].page, T[j].dib)
    BY DEF Placed
  <1>4. Dist(j, h, c) \in 0 .. c - 1 /\ Dist(i, h, c) \in 0 .. c - 1
    BY <1>1, <1>2, DistType
  <1>5. Dist(n, h, c) = Dist(i, h, c) + 1
    BY <1>2, <1>3, <1>4, DistSucc
  <1>6. CASE Dist(n, h, c) = T[j].dib
    <2>1. n = j
      BY <1>1, <1>2, <1>3, <1>6, DistInjective
    <2> QED
      BY <2>1, <1>3, <1>5, <1>4 DEF Used
  <1>7. CASE Dist(n, h, c) # T[j].dib
    <2>1. Dist(n, h, c) < T[j].dib
      BY <1>3, <1>4, <1>5, <1>7
    <2> QED
      BY <2>1, <1>2, <1>3, <1>5 DEF Path
  <1> QED
    BY <1>6, <1>7

LEMMA ShiftNextLemma ==
  ASSUME NEW c \in Nat, c >= 2, NEW T \in Tables(c),
         NEW i \in Used(T), Placed(T, c, Used(T) \ {i}),
         T[Succ(i, c)].page # NoPage, T[Succ(i, c)].dib # 0
  PROVE  LET n == Succ(i, c)
             R == Pull(T, i, c)
         IN  /\ R \in Tables(c) /\ n \in 0 .. c - 1
             /\ Used(R) = Used(T) /\ n \in Used(R)
             /\ Placed(R, c, Used(R) \ {n})
             /\ Pairs(R, Used(R) \ {n}) = Pairs(T, Used(T) \ {i})
  <1> DEFINE n == Succ(i, c)
             R == Pull(T, i, c)
  <1> HIDE DEF n, R
  <1>0. T[n].page # NoPage /\ T[n].dib # 0
    BY DEF n
  <1>1. i \in 0 .. c - 1 /\ n \in 0 .. c - 1 /\ n # i
    BY SuccType, UsedFinite DEF n
  <1>2. T[n] \in Slot /\ T[n].page \in Page /\ n \in Used(T) \ {i}
    BY <1>1 DEF n, Tables, Slot, Used
  <1> DEFINE e == [T[n] EXCEPT !.dib = @ - 1]
  <1>3. e \in Slot /\ e.page = T[n].page /\ e.frame = T[n].frame /\ e.dib = T[n].dib - 1
    BY <1>0, <1>2 DEF Slot
  <1>4. R \in Tables(c) /\ \A k \in 0 .. c - 1 : R[k] = IF k = i THEN e ELSE T[k]
    BY <1>1, <1>3 DEF Tables, Pull, n, R
  <1>5. Used(R) = Used(T) /\ Used(T) \subseteq 0 .. c - 1
    BY <1>1, <1>2, <1>3, <1>4 DEF Used, Tables
  <1>6. Placed(R, c, Used(R) \ {n})
    <2> SUFFICES ASSUME NEW j \in Used(T) \ {n}
                 PROVE  /\ R[j].dib = Dist(j, Home(R[j].page, c), c)
                        /\ Path(R, c, R[j].page, R[j].dib)
                        /\ \A k \in Used(T) \ {n} : R[k].page = R[j].page => k = j
      BY <1>5 DEF Placed
    <2>1. \A k \in Used(T) \ {i} : \A l \in Used(T) \ {i} : T[k].page = T[l].page => k = l
      BY DEF Placed
    <2> DEFINE From(k) == IF k = i THEN n ELSE k
    <2>2. \A k \in Used(T) \ {n} : R[k].page = R[j].page => k = j
      <3>1. ASSUME NEW k \in Used(T) \ {n}
            PROVE  From(k) \in Used(T) \ {i} /\ R[k].page = T[From(k)].page
        BY <1>2, <1>3, <1>4, <1>5
      <3>2. ASSUME NEW k \in Used(T) \ {n}, R[k].page = R[j].page PROVE From(k) = From(j)
        BY <2>1, <3>1, <3>2
      <3> QED
        BY <3>2
    <2>3. CASE j = i
      <3> DEFINE h == Home(e.page, c)
      <3>1. R[j] = e
        BY <2>3, <1>1, <1>4
      <3>2. T[n].dib = Dist(n, h, c) /\ Path(T, c, e.page, T[n].dib)
        BY <1>2, <1>3 DEF Placed
      <3>3. h \in 0 .. c - 1
        BY <1>2, <1>3, HomeType
      <3>4. Dist(n, h, c) \in 0 .. c - 1 /\ Dist(i, h, c) \in 0 .. c - 1
        BY <1>1, <3>3, DistType
      <3>5. Dist(n, h, c) = Dist(i, h, c) + 1
        BY <3>2, <3>3, <3>4, <1>1, DistSucc DEF n
      <3>6. Path(R, c, e.page, e.dib)
        <4> SUFFICES ASSUME NEW k \in 0 .. c - 1, Dist(k, h, c) < e.dib
                     PROVE  R[k].page # NoPage /\ R[k].dib >= Dist(k, h, c)
          BY DEF Path
        <4>1. k # i
          BY <1>3, <3>2, <3>4, <3>5
        <4>2. Dist(k, h, c) < T[n].dib
          BY <1>3, <3>2, <3>3, <3>4, DistType
        <4> QED
          BY <4>1, <4>2, <3>2, <1>4 DEF Path
      <3>7. e.dib = Dist(j, h, c)
        BY <3>2, <3>4, <3>5, <2>3, <1>3
      <3> QED
        BY <3>1, <3>6, <3>7, <2>2
    <2>4. CASE j # i
      <3> DEFINE h == Home(T[j].page, c)
      <3>1. R[j] = T[j] /\ j \in 0 .. c - 1 /\ T[j].page \in Page
        BY <2>4, <1>4, <1>5 DEF Used, Tables, Slot
      <3>2. T[j].dib = Dist(j, h, c) /\ Path(T, c, T[j].page, T[j].dib)
        BY <2>4 DEF Placed
      <3>3. Path(R, c, T[j].page, T[j].dib)
        <4> SUFFICES ASSUME NEW k \in 0 .. c - 1, Dist(k, h, c) < T[j].dib
                     PROVE  R[k].page # NoPage /\ R[k].dib >= Dist(k, h, c)
          BY DEF Path
        <4>1. CASE k # i
          BY <4>1, <3>2, <1>4 DEF Path
        <4>2. CASE k = i
          <5>1. T[n].dib >= Dist(i, h, c) + 1
            BY <4>2, <2>4, <1>1, ReachNext DEF n
          <5>2. Dist(i, h, c) \in 0 .. c - 1 /\ T[n].dib \in Nat
            <6>1. c >= 1 /\ h \in 0 .. c - 1
              BY <3>1, HomeType
            <6> QED
              BY <6>1, <1>1, <1>2, DistType DEF Slot
          <5>3. R[k] = e /\ e.page # NoPage /\ e.dib >= Dist(i, h, c)
            BY <4>2, <5>1, <5>2, <1>0, <1>1, <1>3, <1>4
          <5> QED
            BY <4>2, <5>3
        <4> QED
          BY <4>1, <4>2
      <3> QED
        BY <3>1, <3>2, <3>3, <2>2
    <2> QED
      BY <2>3, <2>4
  <1>7. Pairs(R, Used(R) \ {n}) = Pairs(T, Used(T) \ {i})
    <2>1. \A k \in Used(T) \ {i, n} : <<R[k].page, R[k].frame>> = <<T[k].page, T[k].frame>>
      BY <1>4, <1>5
    <2>2. <<R[i].page, R[i].frame>> = <<T[n].page, T[n].frame>>
      BY <1>1, <1>3, <1>4
    <2>3. Pairs(R, Used(T) \ {n}) \subseteq Pairs(T, Used(T) \ {i})
      BY <2>1, <2>2, <1>2 DEF Pairs
    <2>4. Pairs(T, Used(T) \ {i}) \subseteq Pairs(R, Used(T) \ {n})
      BY <2>1, <2>2, <1>1 DEF Pairs
    <2> QED
      BY <2>3, <2>4, <1>5
  <1> QED
    BY <1>1, <1>2, <1>4, <1>5, <1>6, <1>7 DEF n, R

LEMMA ShiftDoneLemma ==
  ASSUME NEW c \in Nat, c >= 2, NEW T \in Tables(c),
         NEW i \in Used(T), Placed(T, c, Used(T) \ {i}),
         T[Succ(i, c)].page = NoPage \/ T[Succ(i, c)].dib = 0
  PROVE  LET R == Clear(T, i) IN
         /\ R \in Tables(c)
         /\ Used(R) = Used(T) \ {i}
         /\ Placed(R, c, Used(R))
         /\ Cardinality(Used(R)) = Cardinality(Used(T)) - 1
         /\ Pairs(R, Used(R)) = Pairs(T, Used(T) \ {i})
  <1> DEFINE R == Clear(T, i)
  <1> HIDE DEF R
  <1>1. i \in 0 .. c - 1 /\ Used(T) \subseteq 0 .. c - 1
    BY UsedFinite
  <1>2. R \in Tables(c) /\ \A k \in 0 .. c - 1 : R[k] = IF k = i THEN Empty ELSE T[k]
    BY <1>1 DEF Tables, Slot, Empty, R, Clear
  <1>3. Used(R) = Used(T) \ {i}
    BY <1>2 DEF Used, Tables, Empty
  <1>4. Placed(R, c, Used(R))
    <2> SUFFICES ASSUME NEW j \in Used(T) \ {i}
                 PROVE  /\ R[j].dib = Dist(j, Home(R[j].page, c), c)
                        /\ Path(R, c, R[j].page, R[j].dib)
                        /\ \A k \in Used(T) \ {i} : R[k].page = R[j].page => k = j
      BY <1>3 DEF Placed
    <2>1. \A k \in Used(T) \ {i} : R[k] = T[k]
      BY <1>1, <1>2
    <2>2. /\ T[j].dib = Dist(j, Home(T[j].page, c), c)
          /\ Path(T, c, T[j].page, T[j].dib)
          /\ \A k \in Used(T) \ {i} : T[k].page = T[j].page => k = j
      BY DEF Placed
    <2>3. T[j].page \in Page
      BY <1>1 DEF Used, Tables, Slot
    <2>4. Dist(i, Home(T[j].page, c), c) \in 0 .. c - 1
      BY <2>3, <1>1, HomeType, DistType
    <2>5. ~ Dist(i, Home(T[j].page, c), c) < T[j].dib
      BY <2>4, <1>1, ReachNext
    <2>6. Path(R, c, T[j].page, T[j].dib)
      BY <2>2, <2>5, <1>2 DEF Path
    <2> QED
      BY <2>1, <2>2, <2>6
  <1>5. Cardinality(Used(R)) = Cardinality(Used(T)) - 1
    BY <1>3, UsedFinite, FS_RemoveElement
  <1>6. Pairs(R, Used(R)) = Pairs(T, Used(T) \ {i})
    BY <1>1, <1>2, <1>3 DEF Pairs
  <1> QED
    BY <1>2, <1>3, <1>4, <1>5, <1>6 DEF R

-----------------------------------------------------------------------------
(* The inductive invariant: the four invariants the runs check, together.   *)
(* Layout alone is not inductive: a raw insertion keeps it only if the      *)
(* entry it carries has a path to where it is and is in no slot (InFlight), *)
(* and gets to an empty slot only because there is one (Counted).           *)

Inv == TypeOK /\ Layout /\ Counted /\ InFlight

LEMMA InvInit == Init => Inv
  <1> SUFFICES ASSUME Init PROVE Inv
    OBVIOUS
  <1>1. \A c \in Nat : Blank(c) \in Tables(c) /\ Used(Blank(c)) = {}
    BY DEF Blank, Tables, Empty, Slot, Used
  <1>2. Used(slots) = {} /\ slots \in Tables(cap)
    BY <1>1, CapAssumption DEF Init
  <1>3. TypeOK
    <2>1. new \in [0 .. 0 - 1 -> Slot]
      BY <1>1 DEF Init, NoTable, Tables
    <2>2. ret \in Replies
      BY DEF Init, No, Replies
    <2> QED
      BY <2>1, <2>2, <1>2, CapAssumption DEF Init, TypeOK, Empty, Slot, Tables
  <1>4. Layout
    BY <1>2 DEF Layout, Placed, Live, Init
  <1>5. Counted
    BY <1>2, FS_EmptySet, CapAssumption DEF Counted, Init, Overloaded
  <1>6. InFlight
    BY DEF InFlight, Init
  <1> QED
    BY <1>3, <1>4, <1>5, <1>6 DEF Inv

(* What every step may use of the state it starts from.                     *)
LEMMA Facts ==
  ASSUME Inv
  PROVE  /\ cap \in Nat /\ cap >= 2 /\ slots \in Tables(cap)
         /\ count \in Nat /\ count = Cardinality(Used(slots)) /\ count < cap
         /\ call.page \in Page /\ call.frame \in Frame \cup {NoFrame}
         /\ Home(call.page, cap) \in 0 .. cap - 1
         /\ Placed(slots, cap, Live)
         /\ pc # "shift" => Live = Used(slots)
         /\ pc # "migrate" => idx \in 0 .. cap - 1
  <1>1. call.page \in Page /\ call.frame \in Frame \cup {NoFrame}
    BY DEF Inv, TypeOK, Calls
  <1>2. count < cap
    BY DEF Inv, TypeOK, Counted, Overloaded
  <1> QED
    BY <1>1, <1>2, HomeType DEF Inv, TypeOK, Counted, Layout, Live, Tables, NewCap

(* The end of a call leaves only the table to be looked at.                 *)
LEMMA ReturnLemma ==
  ASSUME Inv, NEW r \in Replies, Return(r),
         cap' = cap, slots' \in Tables(cap), Placed(slots', cap, Used(slots')),
         count' = Cardinality(Used(slots')), ~ Overloaded(count', cap)
  PROVE  Inv'
  <1>1. TypeOK'
    <2>1. count' \in Nat
      BY Facts, UsedFinite
    <2>2. new' \in [0 .. (IF pc' \in {"grow", "migrate"} THEN NewCap' ELSE 0) - 1 -> Slot]
      BY DEF Return, NoTable, Blank
    <2>3. /\ pc' = "idle" /\ call' = call /\ ret' = r
          /\ idx' = 0 /\ dib' = 0 /\ inc' = Empty /\ mig' = 0
      BY DEF Return
    <2>4. Empty \in Slot
      BY DEF Empty, Slot
    <2>5. slots' \in [0 .. cap' - 1 -> Slot] /\ cap' \in Nat /\ cap' >= 2
      BY Facts DEF Tables
    <2> QED
      BY <2>1, <2>2, <2>3, <2>4, <2>5 DEF Inv, TypeOK
  <1>2. Layout'
    BY DEF Layout, Live, Return
  <1>3. Counted' /\ InFlight'
    BY DEF Counted, InFlight, Return
  <1> QED
    BY <1>1, <1>2, <1>3 DEF Inv

LEMMA BeginStep ==
  ASSUME Inv, Begin
  PROVE  Inv'
  <1>1. call'.page \in Page /\ idx' = Home(call'.page, cap) /\ idx' \in 0 .. cap - 1
    BY Facts, HomeType DEF Begin, Calls
  <1>2. TypeOK'
    BY <1>1 DEF Inv, TypeOK, Begin, table, NewCap
  <1>3. Layout' /\ Counted'
    BY DEF Inv, Layout, Counted, Live, Begin, table
  <1>4. dib' = Dist(idx', Home(call'.page, cap), cap)
    BY <1>1, Facts, DistType DEF Begin
  <1>5. \A j \in 0 .. cap - 1 : ~ Dist(j, Home(call'.page, cap), cap) < dib'
    BY <1>1, Facts, DistType DEF Begin
  <1>6. InFlight'
    BY <1>4, <1>5 DEF InFlight, Path, Begin, table
  <1> QED
    BY <1>2, <1>3, <1>6 DEF Inv

LEMMA ProbeNextStep ==
  ASSUME Inv, ProbeNext
  PROVE  Inv'
  <1> DEFINE h == Home(call.page, cap)
  <1>1. pc = "probe" /\ slots[idx].page # NoPage /\ slots[idx].page # call.page
          /\ idx' = Succ(idx, cap) /\ dib' = dib + 1
    BY DEF ProbeNext, Passed, Found
  <1>2. dib = Dist(idx, h, cap) /\ Path(slots, cap, call.page, dib)
          /\ \A j \in 0 .. cap - 1 : Dist(j, h, cap) < dib => slots[j].page # call.page
    BY <1>1 DEF Inv, InFlight
  <1>3. idx \in 0 .. cap - 1 /\ h \in 0 .. cap - 1 /\ idx' \in 0 .. cap - 1
    BY <1>1, Facts, SuccType
  <1>4. slots[idx].dib >= dib
    <2>1. slots[idx].dib \in Nat /\ dib \in Nat
      BY <1>3 DEF Inv, TypeOK, Slot
    <2> QED
      BY <2>1 DEF ProbeNext, Passed
  <1>5. dib < cap - 1
    BY <1>1, <1>2, <1>3, Facts, NotFull
  <1>6. dib' = Dist(idx', h, cap)
    BY <1>1, <1>2, <1>3, <1>5, Facts, DistSucc
  <1>7. Path(slots, cap, call.page, dib')
    BY <1>1, <1>2, <1>3, <1>4, Facts, PathNext
  <1>8. ASSUME NEW j \in 0 .. cap - 1, Dist(j, h, cap) < dib'
        PROVE  slots[j].page # call.page
    <2>1. Dist(j, h, cap) \in 0 .. cap - 1 /\ dib \in Nat
      <3>1. cap \in Nat /\ cap >= 1
        BY Facts
      <3> QED
        BY <3>1, <1>3, DistType DEF Inv, TypeOK
    <2>2. CASE Dist(j, h, cap) = dib
      BY <2>2, <1>1, <1>2, <1>3, Facts, DistInjective
    <2>3. CASE Dist(j, h, cap) < dib
      BY <2>3, <1>2
    <2> QED
      BY <2>1, <2>2, <2>3, <1>1, <1>8
  <1>9. TypeOK'
    BY <1>1, <1>3 DEF Inv, TypeOK, ProbeNext, table, NewCap
  <1>10. Layout' /\ Counted'
    BY DEF Inv, Layout, Counted, Live, ProbeNext, table
  <1>11. InFlight'
    BY <1>1, <1>6, <1>7, <1>8 DEF InFlight, ProbeNext, table
  <1> QED
    BY <1>9, <1>10, <1>11 DEF Inv

LEMMA MissStep ==
  ASSUME Inv, Miss \/ LookupHit \/ GrowFail
  PROVE  Inv'
  <1>1. PICK r \in Replies : Return(r)
    <2>1. CASE Miss \/ GrowFail
      BY <2>1 DEF Miss, GrowFail, No, Replies
    <2>2. CASE LookupHit
      <3>1. slots[idx].frame \in Frame \cup {NoFrame}
        BY <2>2, Facts DEF LookupHit, Tables, Slot
      <3> QED
        BY <2>2, <3>1 DEF LookupHit, Replies
    <2> QED
      BY <2>1, <2>2
  <1>2. pc = "probe" /\ UNCHANGED table
    BY DEF Miss, LookupHit, GrowFail
  <1>3. ~ Overloaded(count', cap)
    BY <1>2 DEF Inv, Counted, table
  <1> QED
    BY <1>1, <1>2, <1>3, Facts, ReturnLemma DEF table

LEMMA HitStep ==
  ASSUME Inv, InsertHit \/ DeleteHit
  PROVE  Inv'
  <1>1. pc = "probe" /\ slots[idx].page = call.page /\ UNCHANGED table
          /\ UNCHANGED <<call, ret, inc, new, mig>>
    BY DEF InsertHit, DeleteHit, Found
  <1>2. idx \in 0 .. cap - 1 /\ idx \in Used(slots)
    BY <1>1, Facts, PageAssumption DEF Used, Tables
  <1>3. CASE InsertHit
    <2>1. TypeOK'
      BY <1>1, <1>3, Facts DEF Inv, TypeOK, InsertHit, table, NewCap
    <2>2. Layout' /\ Counted'
      BY <1>1, <1>3 DEF Inv, Layout, Counted, Live, InsertHit, table
    <2>3. InFlight'
      BY <1>1, <1>2, <1>3, Facts DEF InFlight, InsertHit, table, Absent, Tables
    <2> QED
      BY <2>1, <2>2, <2>3 DEF Inv
  <1>4. CASE DeleteHit
    <2>1. TypeOK'
      BY <1>1, <1>2, <1>4 DEF Inv, TypeOK, DeleteHit, table, NewCap
    <2>2. Live' = Used(slots) \ {idx} /\ Live = Used(slots)
      BY <1>1, <1>4 DEF Live, DeleteHit, table
    <2>3. Layout' /\ Counted'
      BY <1>1, <1>4, <2>2 DEF Inv, Layout, Placed, Counted, DeleteHit, table
    <2>4. \A j \in Used(slots) \ {idx} : slots[j].page # call.page
      BY <1>1, <1>2, <2>2, Facts DEF Placed
    <2>5. InFlight'
      BY <1>1, <1>2, <1>4, <2>2, <2>4 DEF InFlight, DeleteHit, table
    <2> QED
      BY <2>1, <2>3, <2>5 DEF Inv
  <1> QED
    BY <1>3, <1>4

LEMMA UpdateNextStep ==
  ASSUME Inv, UpdateNext
  PROVE  Inv'
  <1>1. idx' \in 0 .. cap - 1
    BY Facts, SuccType DEF UpdateNext
  <1>2. TypeOK'
    BY <1>1 DEF Inv, TypeOK, UpdateNext, table, NewCap
  <1>3. Layout' /\ Counted' /\ InFlight'
    BY DEF Inv, Layout, Counted, Live, InFlight, UpdateNext, table
  <1> QED
    BY <1>2, <1>3 DEF Inv

(* Overwriting a frame moves nothing.                                       *)
LEMMA UpdateStep ==
  ASSUME Inv, Update
  PROVE  Inv'
  <1>1. idx \in 0 .. cap - 1 /\ slots[idx].page = call.page /\ pc = "update"
    BY Facts DEF Update
  <1>2. slots' \in Tables(cap)
    BY <1>1, Facts DEF Update, Tables, Slot
  <1>3. \A j \in 0 .. cap - 1 : slots'[j].page = slots[j].page /\ slots'[j].dib = slots[j].dib
    BY <1>1, Facts DEF Update, Tables, Slot
  <1>4. Used(slots') = Used(slots) /\ Used(slots) \subseteq 0 .. cap - 1
    BY <1>2, <1>3, Facts DEF Used, Tables
  <1>5. \A p, d : Path(slots, cap, p, d) => Path(slots', cap, p, d)
    BY <1>3 DEF Path
  <1>6. Placed(slots', cap, Used(slots'))
    BY <1>1, <1>3, <1>4, <1>5, Facts DEF Placed
  <1>7. Return(Yes) /\ Yes \in Replies /\ cap' = cap /\ count' = count
    BY DEF Update, Yes, Replies
  <1>8. ~ Overloaded(count, cap)
    BY <1>1 DEF Inv, Counted
  <1> QED
    BY <1>2, <1>4, <1>6, <1>7, <1>8, Facts, ReturnLemma

(* The entry of the call at its home: nothing is behind it.                 *)
LEMMA EntryCarried ==
  ASSUME NEW c \in Nat, c >= 2, NEW T \in Tables(c), Absent(T, call.page),
         call \in Calls, inc = Entry(call.page, call.frame), idx = Home(call.page, c)
  PROVE  Carried(T, c) /\ inc \in Slot /\ idx \in 0 .. c - 1
  <1>1. call.page \in Page /\ call.frame \in Frame \cup {NoFrame}
    BY DEF Calls
  <1>2. idx \in 0 .. c - 1
    BY <1>1, HomeType
  <1>3. inc.page = call.page /\ inc.dib = 0 /\ inc \in Slot
    BY <1>1 DEF Entry, Slot
  <1>4. \A j \in 0 .. c - 1 : Dist(j, idx, c) \in 0 .. c - 1 /\ Dist(idx, idx, c) = 0
    BY <1>2, DistType
  <1>5. Path(T, c, inc.page, 0)
    BY <1>3, <1>4 DEF Path
  <1> QED
    BY <1>1, <1>2, <1>3, <1>4, <1>5 DEF Carried

LEMMA InsertMissStep ==
  ASSUME Inv, InsertMiss
  PROVE  Inv'
  <1>1. pc = "probe" /\ Passed /\ UNCHANGED table /\ UNCHANGED call /\ dib' = 0
          /\ call.op = "insert"
    BY DEF InsertMiss
  <1>2. Absent(slots, call.page)
    BY <1>1, Facts, ProbeComplete DEF Inv, InFlight, Passed
  <1>3. CASE ~ Overloaded(count + 1, cap)
    <2>1. pc' = "place" /\ idx' = Home(call.page, cap) /\ inc' = Entry(call.page, call.frame)
            /\ UNCHANGED <<ret, new, mig>>
      BY <1>3 DEF InsertMiss
    <2>2. call \in Calls
      BY DEF Inv, TypeOK
    <2>3. inc' \in Slot /\ idx' \in 0 .. cap - 1
      BY <2>1, <2>2, Facts, HomeType DEF Entry, Slot
    <2>4. TypeOK'
      BY <1>1, <2>1, <2>3 DEF Inv, TypeOK, table, NewCap
    <2>5. Layout' /\ Counted'
      BY <1>1, <1>3, <2>1 DEF Inv, Layout, Live, Counted, table
    <2>6. inc'.page = call.page /\ inc'.dib = 0
      BY <2>1 DEF Entry
    <2>7. \A j \in 0 .. cap - 1 : Dist(j, idx', cap) \in 0 .. cap - 1 /\ Dist(idx', idx', cap) = 0
      BY <2>3, Facts, DistType
    <2>8. Path(slots, cap, call.page, 0)
      BY <2>1, <2>7 DEF Path
    <2>9. Carried(slots, cap)'
      BY <1>1, <1>2, <2>1, <2>6, <2>7, <2>8, Facts DEF Carried, table
    <2>10. InFlight'
      BY <2>1, <2>9 DEF InFlight
    <2> QED
      BY <2>4, <2>5, <2>10 DEF Inv
  <1>4. CASE Overloaded(count + 1, cap)
    <2>1. /\ pc' = "grow" /\ new' = Blank(NewCap) /\ mig' = 0 /\ idx' = 0
          /\ UNCHANGED <<ret, inc>>
      BY <1>4 DEF InsertMiss
    <2>2. new' \in Tables(NewCap) /\ Used(new') = {}
      BY <2>1, Facts DEF Blank, Tables, Empty, Slot, Used, NewCap
    <2>3. TypeOK'
      BY <1>1, <2>1, <2>2 DEF Inv, TypeOK, table, NewCap, Tables
    <2>4. Layout' /\ Counted'
      BY <1>1, <2>1 DEF Inv, Layout, Live, Counted, table
    <2>5. Done' = {}
      <3>1. Used(slots) \subseteq Nat
        BY Facts, UsedFinite
      <3> QED
        BY <1>1, <2>1, <3>1 DEF Done, table
    <2>6. ~ Overloaded(count + 1, NewCap)
      BY <1>1, Facts DEF Inv, Counted, Overloaded, NewCap
    <2>7. InFlight'
      BY <1>1, <1>2, <2>1, <2>2, <2>5, <2>6, FS_EmptySet
        DEF InFlight, Placed, Pairs, table, NewCap
    <2> QED
      BY <2>3, <2>4, <2>7 DEF Inv
  <1> QED
    BY <1>3, <1>4

LEMMA PlaceStepStep ==
  ASSUME Inv, PlaceStep
  PROVE  Inv'
  <1>1. pc = "place" /\ ~ Settles(slots) /\ slots' = Rob(slots)
          /\ inc' = Carry(slots) /\ idx' = Succ(idx, cap)
          /\ UNCHANGED <<cap, count, pc, call, ret, dib, new, mig>>
    BY DEF PlaceStep
  <1>2. Carried(slots, cap) /\ inc \in Slot /\ Placed(slots, cap, Used(slots))
    BY <1>1, Facts DEF Inv, InFlight, TypeOK
  <1>3. /\ slots' \in Tables(cap) /\ inc' \in Slot /\ idx' \in 0 .. cap - 1
        /\ Used(slots') = Used(slots)
        /\ Placed(slots', cap, Used(slots'))
        /\ inc'.page \in Page
        /\ inc'.dib = Dist(idx', Home(inc'.page, cap), cap)
        /\ Path(slots', cap, inc'.page, inc'.dib)
        /\ Absent(slots', inc'.page)
    BY <1>1, <1>2, Facts, CarryLemma
  <1>4. TypeOK'
    BY <1>1, <1>3 DEF Inv, TypeOK, Tables, NewCap
  <1>5. Layout' /\ Counted'
    BY <1>1, <1>3 DEF Inv, Layout, Live, Counted
  <1>6. InFlight'
    BY <1>1, <1>3 DEF InFlight, Carried
  <1> QED
    BY <1>4, <1>5, <1>6 DEF Inv

LEMMA PlaceSettleStep ==
  ASSUME Inv, PlaceSettle
  PROVE  Inv'
  <1>1. pc = "place" /\ Settles(slots) /\ slots' = Settle(slots) /\ count' = count + 1
          /\ Return(Yes) /\ Yes \in Replies /\ cap' = cap
    BY DEF PlaceSettle, Yes, Replies
  <1>2. Carried(slots, cap) /\ inc \in Slot /\ Placed(slots, cap, Used(slots))
    BY <1>1, Facts DEF Inv, InFlight, TypeOK
  <1>3. /\ slots' \in Tables(cap) /\ Placed(slots', cap, Used(slots'))
        /\ Cardinality(Used(slots')) = count'
    BY <1>1, <1>2, Facts, SettleLemma
  <1>4. ~ Overloaded(count', cap)
    BY <1>1 DEF Inv, Counted
  <1> QED
    BY <1>1, <1>3, <1>4, ReturnLemma

LEMMA ShiftNextStep ==
  ASSUME Inv, ShiftNext
  PROVE  Inv'
  <1> DEFINE n == Succ(idx, cap)
  <1>1. pc = "shift" /\ slots[n].page # NoPage /\ slots[n].dib # 0
          /\ slots' = Pull(slots, idx, cap) /\ idx' = n
          /\ UNCHANGED <<cap, count, pc, call, ret, dib, inc, new, mig>>
    BY DEF ShiftNext, ShiftEnds
  <1>2. idx \in Used(slots) /\ Live = Used(slots) \ {idx}
          /\ \A j \in Live : slots[j].page # call.page
    BY <1>1 DEF Inv, InFlight, Live
  <1>3. Placed(slots, cap, Used(slots) \ {idx})
    BY <1>2, Facts
  <1>4. /\ slots' \in Tables(cap) /\ n \in 0 .. cap - 1
        /\ Used(slots') = Used(slots) /\ n \in Used(slots')
        /\ Placed(slots', cap, Used(slots') \ {n})
        /\ Pairs(slots', Used(slots') \ {n}) = Pairs(slots, Used(slots) \ {idx})
    <2>1. cap \in Nat /\ cap >= 2 /\ slots \in Tables(cap)
      BY Facts
    <2> QED
      BY <1>1, <1>2, <1>3, <2>1, ShiftNextLemma
  <1>5. Live' = Used(slots') \ {n}
    BY <1>1 DEF Live
  <1>6. TypeOK'
    BY <1>1, <1>4 DEF Inv, TypeOK, Tables, NewCap
  <1>7. Layout' /\ Counted'
    BY <1>1, <1>4, <1>5 DEF Inv, Layout, Counted
  <1>8. \A j \in Live' : slots'[j].page # call.page
    <2>1. ASSUME NEW j \in Used(slots') \ {n}
          PROVE  \E k \in Used(slots) \ {idx} : slots[k].page = slots'[j].page
      <3>1. <<slots'[j].page, slots'[j].frame>> \in Pairs(slots, Used(slots) \ {idx})
        BY <1>4 DEF Pairs
      <3> QED
        BY <3>1 DEF Pairs
    <2> QED
      BY <2>1, <1>2, <1>5
  <1>9. InFlight'
    BY <1>1, <1>4, <1>5, <1>8 DEF InFlight
  <1> QED
    BY <1>6, <1>7, <1>9 DEF Inv

LEMMA ShiftDoneStep ==
  ASSUME Inv, ShiftDone
  PROVE  Inv'
  <1>1. pc = "shift" /\ slots' = Clear(slots, idx) /\ count' = count - 1
          /\ Return(Yes) /\ Yes \in Replies /\ cap' = cap
    BY DEF ShiftDone, Yes, Replies
  <1>2. idx \in Used(slots) /\ Placed(slots, cap, Used(slots) \ {idx})
    BY <1>1, Facts DEF Inv, InFlight, Live
  <1>3. slots[Succ(idx, cap)].page = NoPage \/ slots[Succ(idx, cap)].dib = 0
    BY DEF ShiftDone, ShiftEnds
  <1>4. /\ slots' \in Tables(cap) /\ Placed(slots', cap, Used(slots'))
        /\ Cardinality(Used(slots')) = count'
    <2>1. cap \in Nat /\ cap >= 2 /\ slots \in Tables(cap) /\ count = Cardinality(Used(slots))
      BY Facts
    <2> QED
      BY <1>1, <1>2, <1>3, <2>1, ShiftDoneLemma
  <1>5. ~ Overloaded(count', cap)
    BY <1>1, Facts DEF Inv, Counted, Overloaded
  <1> QED
    BY <1>1, <1>4, <1>5, ReturnLemma

-----------------------------------------------------------------------------
(* The migration of page_table_resize.                                      *)

LEMMA GrowFacts ==
  ASSUME Inv, pc \in {"grow", "migrate"}
  PROVE  /\ NewCap \in Nat /\ NewCap >= 2 /\ new \in Tables(NewCap)
         /\ mig \in 0 .. cap
         /\ Placed(slots, cap, Used(slots))
         /\ Placed(new, NewCap, Used(new))
         /\ call.op = "insert" /\ Absent(slots, call.page) /\ ~ Overloaded(count + 1, NewCap)
         /\ Done \subseteq Used(slots) /\ IsFiniteSet(Done)
         /\ Cardinality(Used(new)) = Cardinality(Done)
         /\ Cardinality(Used(new)) < NewCap
  <1>1. NewCap \in Nat /\ NewCap >= 2 /\ new \in Tables(NewCap) /\ mig \in 0 .. cap
    BY Facts DEF Inv, TypeOK, NewCap, Tables
  <1>2. Done \subseteq Used(slots) /\ IsFiniteSet(Used(slots))
    BY Facts, UsedFinite DEF Done
  <1>3. IsFiniteSet(Done) /\ Cardinality(Done) <= Cardinality(Used(slots))
    BY <1>2, FS_Subset
  <1>4. Cardinality(Done) \in Nat
    BY <1>3, FS_CardinalityType
  <1>5. Cardinality(Used(new)) = Cardinality(Done)
    BY DEF Inv, InFlight
  <1>6. Cardinality(Used(new)) < NewCap
    BY <1>3, <1>4, <1>5, Facts DEF NewCap
  <1>7. /\ Placed(new, NewCap, Used(new))
        /\ call.op = "insert" /\ Absent(slots, call.page) /\ ~ Overloaded(count + 1, NewCap)
    BY DEF Inv, InFlight
  <1> QED
    BY <1>1, <1>2, <1>3, <1>5, <1>6, <1>7, Facts

(* A page that none of the slots migrated held is not in the new array.     *)
LEMMA AbsentNew ==
  ASSUME Inv, pc = "grow", NEW p \in Page, \A k \in Done : slots[k].page # p
  PROVE  Absent(new, p)
  <1> SUFFICES ASSUME NEW j \in DOMAIN new, new[j].page = p PROVE FALSE
    BY DEF Absent
  <1>1. j \in Used(new)
    BY PageAssumption DEF Used
  <1>2. <<new[j].page, new[j].frame>> \in Pairs(slots, Done)
    BY <1>1 DEF Inv, InFlight, Pairs
  <1>3. PICK k \in Done : slots[k].page = new[j].page
    BY <1>2 DEF Pairs
  <1> QED
    BY <1>3

LEMMA DoneNext ==
  ASSUME Inv, mig < cap, UNCHANGED slots, mig' = mig + 1, mig \in 0 .. cap
  PROVE  /\ mig \notin Done
         /\ Done' = IF slots[mig].page = NoPage THEN Done ELSE Done \cup {mig}
  <1>1. Used(slots) \subseteq 0 .. cap - 1
    BY Facts, UsedFinite
  <1> QED
    BY <1>1, Facts DEF Done, Used, Tables

LEMMA MigrateNextStep ==
  ASSUME Inv, MigrateNext
  PROVE  Inv'
  <1>1. pc = "grow" /\ mig < cap /\ UNCHANGED <<slots, cap, count, call, ret, dib, new>>
    BY DEF MigrateNext, table
  <1>2. mig \in 0 .. cap - 1
    BY <1>1, Facts, GrowFacts
  <1>3. CASE slots[mig].page = NoPage
    <2>1. mig' = mig + 1 /\ UNCHANGED <<pc, idx, inc>>
      BY <1>3 DEF MigrateNext
    <2>2. Done' = Done
      <3>1. mig \in 0 .. cap /\ mig < cap
        BY <1>1, GrowFacts
      <3> QED
        BY <3>1, <2>1, <1>1, <1>3, DoneNext
    <2>3. TypeOK'
      BY <2>1, <1>1, <1>2, Facts DEF Inv, TypeOK, NewCap
    <2>4. Layout' /\ Counted'
      BY <2>1, <1>1 DEF Inv, Layout, Live, Counted
    <2>5. InFlight'
      BY <2>1, <2>2, <1>1 DEF Inv, InFlight, NewCap
    <2> QED
      BY <2>3, <2>4, <2>5 DEF Inv
  <1>4. CASE slots[mig].page # NoPage
    <2>1. /\ pc' = "migrate" /\ inc' = [slots[mig] EXCEPT !.dib = 0]
          /\ idx' = Home(slots[mig].page, NewCap) /\ mig' = mig
      BY <1>4 DEF MigrateNext
    <2>2. slots[mig] \in Slot /\ slots[mig].page \in Page /\ mig \in Used(slots)
      BY <1>2, <1>4, Facts DEF Tables, Slot, Used
    <2>3. /\ inc' \in Slot /\ inc'.page = slots[mig].page
          /\ inc'.frame = slots[mig].frame /\ inc'.dib = 0
      BY <2>1, <2>2 DEF Slot
    <2>4. idx' \in 0 .. NewCap - 1
      BY <2>1, <2>2, <1>1, GrowFacts, HomeType
    <2>5. Done' = Done
      BY <2>1, <1>1 DEF Done
    <2>6. TypeOK'
      BY <2>1, <2>3, <2>4, <1>1 DEF Inv, TypeOK, NewCap
    <2>7. Layout' /\ Counted'
      BY <2>1, <1>1 DEF Inv, Layout, Live, Counted
    <2>8. \A j \in 0 .. NewCap - 1 :
            Dist(j, idx', NewCap) \in 0 .. NewCap - 1 /\ Dist(idx', idx', NewCap) = 0
      BY <2>4, <1>1, GrowFacts, DistType
    <2>9. Path(new, NewCap, inc'.page, 0)
      BY <2>1, <2>3, <2>8 DEF Path
    <2>10. Absent(new, inc'.page)
      <3>1. \A k \in Done : slots[k].page # slots[mig].page
        BY <2>2, <1>1, <1>2, GrowFacts DEF Placed, Done
      <3> QED
        BY <3>1, <2>2, <2>3, <1>1, AbsentNew
    <2>11. Carried(new, NewCap)'
      BY <2>1, <2>2, <2>3, <2>4, <2>8, <2>9, <2>10, <1>1 DEF Carried, NewCap
    <2>12. Pairs(new, Used(new)) \cup {<<inc'.page, inc'.frame>>}
             = Pairs(slots, Done \cup {mig})
      BY <2>3, <1>1 DEF Inv, InFlight, Pairs
    <2>13. InFlight'
      BY <2>1, <2>2, <2>5, <2>11, <2>12, <1>1, GrowFacts DEF InFlight, NewCap
    <2> QED
      BY <2>6, <2>7, <2>13 DEF Inv
  <1> QED
    BY <1>3, <1>4

LEMMA MigrateStepStep ==
  ASSUME Inv, MigrateStep
  PROVE  Inv'
  <1>1. pc = "migrate" /\ ~ Settles(new) /\ new' = Rob(new)
          /\ inc' = Carry(new) /\ idx' = Succ(idx, NewCap)
          /\ UNCHANGED <<slots, cap, count, pc, call, ret, dib, mig>>
    BY DEF MigrateStep, table
  <1>2. Carried(new, NewCap) /\ inc \in Slot /\ idx \in 0 .. NewCap - 1
    BY <1>1 DEF Inv, InFlight, TypeOK
  <1>3. /\ new' \in Tables(NewCap) /\ inc' \in Slot /\ idx' \in 0 .. NewCap - 1
        /\ Used(new') = Used(new)
        /\ Placed(new', NewCap, Used(new'))
        /\ inc'.page \in Page
        /\ inc'.dib = Dist(idx', Home(inc'.page, NewCap), NewCap)
        /\ Path(new', NewCap, inc'.page, inc'.dib)
        /\ Absent(new', inc'.page)
        /\ Pairs(new', Used(new')) \cup {<<inc'.page, inc'.frame>>}
             = Pairs(new, Used(new)) \cup {<<inc.page, inc.frame>>}
    BY <1>1, <1>2, GrowFacts, CarryLemma
  <1>4. TypeOK'
    BY <1>1, <1>3 DEF Inv, TypeOK, Tables, NewCap
  <1>5. Layout' /\ Counted'
    BY <1>1 DEF Inv, Layout, Live, Counted
  <1>6. Done' = Done
    BY <1>1 DEF Done
  <1>7. InFlight'
    BY <1>1, <1>3, <1>6 DEF Inv, InFlight, Carried, NewCap
  <1> QED
    BY <1>4, <1>5, <1>7 DEF Inv

LEMMA MigrateSettleStep ==
  ASSUME Inv, MigrateSettle
  PROVE  Inv'
  <1>1. pc = "migrate" /\ Settles(new) /\ new' = Settle(new)
          /\ pc' = "grow" /\ mig' = mig + 1 /\ inc' = Empty /\ idx' = 0
          /\ UNCHANGED <<slots, cap, count, call, ret, dib>>
    BY DEF MigrateSettle, table
  <1>2. Carried(new, NewCap) /\ inc \in Slot /\ idx \in 0 .. NewCap - 1
    BY <1>1 DEF Inv, InFlight, TypeOK
  <1>3. /\ new' \in Tables(NewCap)
        /\ Placed(new', NewCap, Used(new'))
        /\ Cardinality(Used(new')) = Cardinality(Used(new)) + 1
        /\ Pairs(new', Used(new')) = Pairs(new, Used(new)) \cup {<<inc.page, inc.frame>>}
    BY <1>1, <1>2, GrowFacts, SettleLemma
  <1>4. mig \in Used(slots) /\ slots[mig].page # NoPage /\ mig \in 0 .. cap /\ mig < cap
    <2>1. mig \in Used(slots) /\ slots[mig].page # NoPage
      BY <1>1 DEF Inv, InFlight, Used
    <2> QED
      BY <2>1, Facts, UsedFinite
  <1>5. mig \notin Done /\ Done' = Done \cup {mig}
    BY <1>1, <1>4, DoneNext
  <1>6. Cardinality(Done') = Cardinality(Done) + 1
    BY <1>1, <1>5, GrowFacts, FS_AddElement
  <1>7. Pairs(new', Used(new')) = Pairs(slots, Done')
    BY <1>1, <1>3, <1>5 DEF Inv, InFlight
  <1>8. TypeOK'
    <2>1. Empty \in Slot /\ mig' \in 0 .. cap
      BY <1>1, <1>4, Facts DEF Empty, Slot
    <2>2. new' \in [0 .. (IF pc' \in {"grow", "migrate"} THEN NewCap' ELSE 0) - 1 -> Slot]
      BY <1>1, <1>3 DEF Tables, NewCap
    <2>3. idx' \in 0 .. (IF pc' = "migrate" THEN NewCap' ELSE cap') - 1
      BY <1>1, Facts
    <2> QED
      BY <2>1, <2>2, <2>3, <1>1 DEF Inv, TypeOK
  <1>9. Layout' /\ Counted'
    BY <1>1 DEF Inv, Layout, Live, Counted
  <1>10. InFlight'
    BY <1>1, <1>3, <1>6, <1>7, GrowFacts DEF InFlight, NewCap
  <1> QED
    BY <1>8, <1>9, <1>10 DEF Inv

LEMMA GrowDoneStep ==
  ASSUME Inv, GrowDone
  PROVE  Inv'
  <1>1. /\ pc = "grow" /\ mig = cap /\ slots' = new /\ cap' = NewCap
        /\ new' = NoTable /\ mig' = 0 /\ pc' = "place"
        /\ idx' = Home(call.page, NewCap) /\ inc' = Entry(call.page, call.frame)
        /\ UNCHANGED <<count, call, ret, dib>>
    BY DEF GrowDone
  <1>2. Done = Used(slots)
    <2>1. Used(slots) \subseteq 0 .. cap - 1
      BY Facts, UsedFinite
    <2> QED
      BY <2>1, <1>1, Facts DEF Done
  <1>3. Cardinality(Used(new)) = count
    BY <1>1, <1>2, Facts, GrowFacts
  <1>4. Absent(new, call.page)
    <2>1. \A k \in Done : slots[k].page # call.page
      BY <1>1, <1>2, GrowFacts DEF Absent, Used
    <2> QED
      BY <2>1, <1>1, Facts, AbsentNew
  <1>5. /\ inc' \in Slot /\ inc'.page = call.page /\ inc'.dib = 0
        /\ idx' \in 0 .. NewCap - 1
    BY <1>1, Facts, GrowFacts, HomeType DEF Entry, Slot
  <1>6. \A j \in 0 .. NewCap - 1 :
          Dist(j, idx', NewCap) \in 0 .. NewCap - 1 /\ Dist(idx', idx', NewCap) = 0
    BY <1>1, <1>5, GrowFacts, DistType
  <1>7. Path(new, NewCap, call.page, 0)
    BY <1>1, <1>6 DEF Path
  <1>8. Carried(slots, cap)'
    BY <1>1, <1>4, <1>5, <1>6, <1>7, Facts DEF Carried
  <1>9. TypeOK'
    <2>1. new' \in [0 .. (IF pc' \in {"grow", "migrate"} THEN NewCap' ELSE 0) - 1 -> Slot]
      BY <1>1 DEF NoTable, Blank
    <2>2. slots' \in [0 .. cap' - 1 -> Slot] /\ cap' \in Nat /\ cap' >= 2
      BY <1>1, GrowFacts DEF Tables
    <2>3. idx' \in 0 .. (IF pc' = "migrate" THEN NewCap' ELSE cap') - 1
      BY <1>1, <1>5
    <2> QED
      BY <2>1, <2>2, <2>3, <1>1, <1>5 DEF Inv, TypeOK
  <1>10. Layout'
    BY <1>1, GrowFacts DEF Layout, Live
  <1>11. Counted'
    BY <1>1, <1>3, GrowFacts DEF Counted
  <1>12. InFlight'
    BY <1>1, <1>8 DEF InFlight
  <1> QED
    BY <1>9, <1>10, <1>11, <1>12 DEF Inv

-----------------------------------------------------------------------------
LEMMA InvNext ==
  ASSUME Inv, [Next]_vars
  PROVE  Inv'
  <1>1. CASE Begin
    BY <1>1, BeginStep
  <1>2. CASE ProbeNext \/ Miss \/ LookupHit \/ InsertHit \/ DeleteHit \/ GrowFail
    BY <1>2, ProbeNextStep, MissStep, HitStep
  <1>3. CASE UpdateNext \/ Update
    BY <1>3, UpdateNextStep, UpdateStep
  <1>4. CASE InsertMiss \/ MigrateNext \/ MigrateStep \/ MigrateSettle \/ GrowDone
    BY <1>4, InsertMissStep, MigrateNextStep, MigrateStepStep, MigrateSettleStep, GrowDoneStep
  <1>5. CASE PlaceStep \/ PlaceSettle
    BY <1>5, PlaceStepStep, PlaceSettleStep
  <1>6. CASE ShiftNext \/ ShiftDone
    BY <1>6, ShiftNextStep, ShiftDoneStep
  <1>7. CASE UNCHANGED vars
    BY <1>7 DEF vars, Inv, TypeOK, Layout, Live, Counted, InFlight, Carried, Done, NewCap
  <1> QED
    BY <1>1, <1>2, <1>3, <1>4, <1>5, <1>6, <1>7 DEF Next, Step

THEOREM Invariance == Spec => []Inv
  <1>1. Init => Inv
    BY InvInit
  <1>2. Inv /\ [Next]_vars => Inv'
    BY InvNext
  <1> QED
    BY <1>1, <1>2, PTL DEF Spec

(* Every index a loop of rbh.c uses is inside its array, whatever the pages,*)
(* the hash function and the capacities.                                    *)
THEOREM TypeCorrect == Spec => []TypeOK
  <1>1. Inv => TypeOK
    BY DEF Inv
  <1> QED
    BY <1>1, Invariance, PTL

(* Every stored entry can be found by its probe between any two iterations. *)
THEOREM LayoutKept == Spec => []Layout
  <1>1. Inv => Layout
    BY DEF Inv
  <1> QED
    BY <1>1, Invariance, PTL

(* The count is the number of entries, and an empty slot ends every probe.  *)
THEOREM CountExact == Spec => []Counted
  <1>1. Inv => Counted
    BY DEF Inv
  <1> QED
    BY <1>1, Invariance, PTL

(* What every loop knows of its locals, the contents migrated included.     *)
THEOREM LocalsRight == Spec => []InFlight
  <1>1. Inv => InFlight
    BY DEF Inv
  <1> QED
    BY <1>1, Invariance, PTL

-----------------------------------------------------------------------------
(* RobinHood implements PageMap: every step of the table is a step of the   *)
(* map or leaves the map as it is.                                          *)

(* The steps that only move locals about.                                   *)
Stutters == UNCHANGED Map!vars

LEMMA InitMaps == Init => Map!Init
  <1> SUFFICES ASSUME Init PROVE Map!Init
    OBVIOUS
  <1>1. Used(slots) = {}
    BY DEF Init, Blank, Empty, Used
  <1>2. Contents = {} /\ Phase = "idle" /\ Reply = Map!No
    BY <1>1 DEF Contents, Pairs, Live, Phase, Reply, Init, No, Map!No
  <1> QED
    BY <1>2 DEF Init, Map!Init, Calls, Map!Calls

LEMMA PairsPages ==
  ASSUME NEW T, NEW J
  PROVE  /\ \A e \in Pairs(T, J) : \E j \in J : e = <<T[j].page, T[j].frame>> /\ e[1] = T[j].page /\ e[2] = T[j].frame
         /\ \A j \in J : <<T[j].page, T[j].frame>> \in Pairs(T, J)
  BY DEF Pairs

(* Outside "place" and "shift" a page is mapped iff some slot holds it.     *)
LEMMA MappedIff ==
  ASSUME Inv, pc \notin {"place", "shift"}
  PROVE  /\ Contents = Pairs(slots, Used(slots))
         /\ Absent(slots, call.page) => /\ ~ Map!Mapped(call.page)
                                        /\ Map!Without(call.page) = Contents
  <1>1. Contents = Pairs(slots, Used(slots))
    BY DEF Contents, Live
  <1>2. ASSUME Absent(slots, call.page), NEW e \in Contents PROVE e[1] # call.page
    BY <1>1, <1>2 DEF Pairs, Absent, Used
  <1> QED
    BY <1>1, <1>2 DEF Map!Mapped, Map!Without

LEMMA BeginMaps == ASSUME Inv, Begin PROVE Map!Next
  <1>1. Contents' = Contents /\ Phase = "idle" /\ Phase' = "called" /\ Reply' = Reply
    BY DEF Begin, Contents, Live, Pairs, Phase, Reply, table
  <1>2. call' \in Map!Calls
    BY DEF Begin, Calls, Map!Calls
  <1> QED
    BY <1>1, <1>2 DEF Map!Begin, Map!Next

LEMMA LocalSteps ==
  ASSUME Inv, ProbeNext \/ InsertHit \/ UpdateNext \/ MigrateNext \/ MigrateStep \/ MigrateSettle
  PROVE  Stutters
  <1>1. UNCHANGED <<slots, call, ret>> /\ {pc, pc'} \cap {"idle", "place", "shift"} = {}
    BY DEF ProbeNext, InsertHit, UpdateNext, MigrateNext, MigrateStep, MigrateSettle, table
  <1>2. Live' = Live /\ Phase' = Phase /\ Reply' = Reply
    BY <1>1 DEF Live, Phase, Reply
  <1>3. Contents' = Contents
    BY <1>1, <1>2 DEF Contents, Pairs
  <1> QED
    BY <1>1, <1>2, <1>3 DEF Stutters, Map!vars

LEMMA MissMaps == ASSUME Inv, Miss \/ GrowFail PROVE Map!Next
  <1>1. pc = "probe" /\ Passed /\ Return(No) /\ UNCHANGED table
    BY DEF Miss, GrowFail
  <1>2. Absent(slots, call.page)
    BY <1>1, Facts, ProbeComplete DEF Inv, InFlight, Passed
  <1>3. Contents' = Contents /\ Phase = "called" /\ Phase' = "idle" /\ Reply' = Map!No /\ call' = call
    BY <1>1 DEF Contents, Live, Pairs, Phase, Reply, Return, table, No, Map!No
  <1>4. ~ Map!Mapped(call.page) /\ Map!Without(call.page) = Contents
    BY <1>1, <1>2, MappedIff
  <1>5. Map!TakeEffect(Map!No)
    BY <1>3 DEF Map!TakeEffect
  <1>6. call.op \in {"lookup", "insert", "delete"} /\ (GrowFail => call.op = "insert")
          /\ (Miss => call.op # "insert")
    BY DEF Inv, TypeOK, Calls, GrowFail, Miss
  <1>7. CASE call.op = "lookup"
    BY <1>3, <1>4, <1>5, <1>7 DEF Map!Lookup, Map!Next
  <1>8. CASE call.op = "insert"
    BY <1>3, <1>4, <1>5, <1>8 DEF Map!Refuse, Map!Next
  <1>9. CASE call.op = "delete"
    BY <1>3, <1>4, <1>5, <1>9 DEF Map!Delete, Map!Next
  <1> QED
    BY <1>6, <1>7, <1>8, <1>9

LEMMA LookupHitMaps == ASSUME Inv, LookupHit PROVE Map!Next
  <1>1. /\ pc = "probe" /\ slots[idx].page = call.page /\ call.op = "lookup"
        /\ Return([ok |-> TRUE, frame |-> slots[idx].frame]) /\ UNCHANGED table
    BY DEF LookupHit, Found
  <1>2. idx \in Used(slots)
    BY <1>1, Facts, PageAssumption DEF Used, Tables
  <1>3. Contents' = Contents /\ Phase = "called" /\ Phase' = "idle" /\ call' = call
          /\ Reply' = [ok |-> TRUE, frame |-> slots[idx].frame]
    BY <1>1 DEF Contents, Live, Pairs, Phase, Reply, Return, table
  <1> DEFINE e == <<slots[idx].page, slots[idx].frame>>
  <1>4. e \in Contents /\ e[1] = call.page /\ e[2] = slots[idx].frame
    BY <1>1, <1>2, MappedIff, PairsPages
  <1>5. Map!TakeEffect([ok |-> TRUE, frame |-> e[2]])
    BY <1>3, <1>4 DEF Map!TakeEffect
  <1> QED
    BY <1>1, <1>3, <1>4, <1>5 DEF Map!Lookup, Map!Next

LEMMA UpdateMaps == ASSUME Inv, Update PROVE Map!Next
  <1>1. /\ pc = "update" /\ slots[idx].page = call.page
        /\ slots' = [slots EXCEPT ![idx].frame = call.frame]
        /\ Return(Yes) /\ idx \in 0 .. cap - 1
    BY Facts DEF Update
  <1>2. Phase = "called" /\ Phase' = "idle" /\ call' = call /\ Reply' = Map!Yes
    BY <1>1 DEF Phase, Reply, Return, Yes, Map!Yes
  <1>3. idx \in Used(slots) /\ Used(slots) \subseteq 0 .. cap - 1
    BY <1>1, Facts, UsedFinite, PageAssumption DEF Used, Tables
  <1>4. \A j \in 0 .. cap - 1 :
          /\ slots'[j].page = slots[j].page
          /\ slots'[j].frame = IF j = idx THEN call.frame ELSE slots[j].frame
    BY <1>1, Facts DEF Tables, Slot
  <1>5. Used(slots') = Used(slots)
    BY <1>1, <1>4, Facts DEF Used, Tables
  <1>6. \A j \in Used(slots) : slots[j].page = call.page => j = idx
    BY <1>1, <1>3, Facts DEF Placed
  <1>7. Contents' = Pairs(slots', Used(slots)) /\ Contents = Pairs(slots, Used(slots))
    BY <1>1, <1>5 DEF Contents, Live, Return
  <1>8. Contents' = Map!Without(call.page) \cup {<<call.page, call.frame>>}
    <2>1. ASSUME NEW e \in Contents'
          PROVE  e \in Map!Without(call.page) \cup {<<call.page, call.frame>>}
      <3>1. PICK j \in Used(slots) : e = <<slots'[j].page, slots'[j].frame>>
        BY <2>1, <1>7 DEF Pairs
      <3>2. CASE j = idx
        BY <3>1, <3>2, <1>1, <1>4
      <3>3. CASE j # idx
        <4>1. e = <<slots[j].page, slots[j].frame>> /\ slots[j].page # call.page
          BY <3>1, <3>3, <1>3, <1>4, <1>6
        <4>2. e \in Contents /\ e[1] # call.page
          BY <4>1, <1>7 DEF Pairs
        <4> QED
          BY <4>2 DEF Map!Without
      <3> QED
        BY <3>2, <3>3
    <2>2. ASSUME NEW e \in Map!Without(call.page) PROVE e \in Contents'
      <3>1. e \in Contents /\ e[1] # call.page
        BY <2>2 DEF Map!Without
      <3>2. PICK j \in Used(slots) : e = <<slots[j].page, slots[j].frame>>
        BY <3>1, <1>7 DEF Pairs
      <3>3. j # idx
        BY <3>1, <3>2, <1>1
      <3>4. e = <<slots'[j].page, slots'[j].frame>>
        BY <3>2, <3>3, <1>3, <1>4
      <3> QED
        BY <3>4, <1>7 DEF Pairs
    <2>3. <<call.page, call.frame>> \in Contents'
      <3>1. <<slots'[idx].page, slots'[idx].frame>> = <<call.page, call.frame>>
        BY <1>1, <1>4
      <3> QED
        BY <3>1, <1>3, <1>7 DEF Pairs
    <2> QED
      BY <2>1, <2>2, <2>3
  <1>9. call.op = "insert"
    BY <1>1 DEF Inv, InFlight
  <1> QED
    BY <1>2, <1>8, <1>9 DEF Map!TakeEffect, Map!Insert, Map!Next

LEMMA InsertMissMaps == ASSUME Inv, InsertMiss PROVE Map!Next \/ Stutters
  <1>1. pc = "probe" /\ Passed /\ call.op = "insert" /\ UNCHANGED table /\ UNCHANGED call
    BY DEF InsertMiss
  <1>2. Absent(slots, call.page)
    BY <1>1, Facts, ProbeComplete DEF Inv, InFlight, Passed
  <1>3. CASE Overloaded(count + 1, cap)
    <2>1. pc' = "grow" /\ ret' = ret
      BY <1>3 DEF InsertMiss
    <2>2. Contents' = Contents /\ Phase' = Phase /\ Reply' = Reply
      BY <1>1, <2>1 DEF Contents, Live, Pairs, Phase, Reply, table
    <2> QED
      BY <1>1, <2>2 DEF Stutters, Map!vars
  <1>4. CASE ~ Overloaded(count + 1, cap)
    <2>1. pc' = "place" /\ inc' = Entry(call.page, call.frame) /\ ret' = ret
      BY <1>4 DEF InsertMiss
    <2>2. <<inc'.page, inc'.frame>> = <<call.page, call.frame>>
      BY <2>1 DEF Entry
    <2>3. Contents' = Pairs(slots, Used(slots)) \cup {<<call.page, call.frame>>}
      BY <1>1, <2>1, <2>2 DEF Contents, Live, Pairs, table
    <2>4. Contents' = Map!Without(call.page) \cup {<<call.page, call.frame>>}
      BY <1>1, <1>2, <2>3, MappedIff
    <2>5. Map!TakeEffect(Map!Yes)
      BY <1>1, <2>1 DEF Map!TakeEffect, Phase, Reply, Yes, Map!Yes
    <2> QED
      BY <1>1, <2>4, <2>5 DEF Map!Insert, Map!Next
  <1> QED
    BY <1>3, <1>4

(* The new array holds what the old one held, so a growth shows nowhere.    *)
LEMMA GrowDoneMaps == ASSUME Inv, GrowDone PROVE Map!Next
  <1>1. /\ pc = "grow" /\ mig = cap /\ slots' = new /\ pc' = "place"
        /\ inc' = Entry(call.page, call.frame) /\ UNCHANGED <<call, ret>>
    BY DEF GrowDone
  <1>2. call.op = "insert" /\ Absent(slots, call.page)
    BY <1>1 DEF Inv, InFlight
  <1>3. Done = Used(slots)
    <2>1. Used(slots) \subseteq 0 .. cap - 1
      BY Facts, UsedFinite
    <2> QED
      BY <2>1, <1>1, Facts DEF Done
  <1>4. Pairs(new, Used(new)) = Contents
    BY <1>1, <1>3, MappedIff DEF Inv, InFlight
  <1>5. <<inc'.page, inc'.frame>> = <<call.page, call.frame>>
    BY <1>1 DEF Entry
  <1>6. Contents' = Contents \cup {<<call.page, call.frame>>}
    <2>1. Contents' = Pairs(new, Used(new)) \cup {<<call.page, call.frame>>}
      BY <1>1, <1>5 DEF Contents, Live
    <2> QED
      BY <2>1, <1>4
  <1>7. Contents' = Map!Without(call.page) \cup {<<call.page, call.frame>>}
    BY <1>1, <1>2, <1>6, MappedIff
  <1>8. Map!TakeEffect(Map!Yes)
    BY <1>1 DEF Map!TakeEffect, Phase, Reply, Yes, Map!Yes
  <1> QED
    BY <1>2, <1>7, <1>8 DEF Map!Insert, Map!Next

LEMMA PlaceStepMaps == ASSUME Inv, PlaceStep PROVE Stutters
  <1>1. pc = "place" /\ ~ Settles(slots) /\ slots' = Rob(slots)
          /\ inc' = Carry(slots) /\ idx' = Succ(idx, cap)
          /\ UNCHANGED <<cap, count, pc, call, ret, dib, new, mig>>
    BY DEF PlaceStep
  <1>2. Carried(slots, cap) /\ inc \in Slot /\ Placed(slots, cap, Used(slots))
    BY <1>1, Facts DEF Inv, InFlight, TypeOK
  <1>3. Pairs(slots', Used(slots')) \cup {<<inc'.page, inc'.frame>>}
          = Pairs(slots, Used(slots)) \cup {<<inc.page, inc.frame>>}
    BY <1>1, <1>2, Facts, CarryLemma
  <1>4. Contents' = Contents
    BY <1>1, <1>3 DEF Contents, Live
  <1>5. Phase' = Phase /\ Reply' = Reply
    BY <1>1 DEF Phase, Reply
  <1> QED
    BY <1>1, <1>4, <1>5 DEF Stutters, Map!vars

LEMMA PlaceSettleMaps == ASSUME Inv, PlaceSettle PROVE Map!Next
  <1>1. pc = "place" /\ Settles(slots) /\ slots' = Settle(slots) /\ Return(Yes)
    BY DEF PlaceSettle
  <1>2. Carried(slots, cap) /\ inc \in Slot /\ Placed(slots, cap, Used(slots))
    BY <1>1, Facts DEF Inv, InFlight, TypeOK
  <1>3. Pairs(slots', Used(slots')) = Pairs(slots, Used(slots)) \cup {<<inc.page, inc.frame>>}
    BY <1>1, <1>2, Facts, SettleLemma
  <1>4. Contents' = Contents
    BY <1>1, <1>3 DEF Contents, Live, Return
  <1>5. Phase = "applied" /\ Phase' = "idle" /\ Reply' = Reply /\ call' = call
    BY <1>1 DEF Phase, Reply, Return
  <1> QED
    BY <1>4, <1>5 DEF Map!Return, Map!Next

LEMMA DeleteHitMaps == ASSUME Inv, DeleteHit PROVE Map!Next
  <1>1. /\ pc = "probe" /\ slots[idx].page = call.page /\ call.op = "delete" /\ pc' = "shift"
        /\ UNCHANGED <<slots, call, ret, idx>>
    BY DEF DeleteHit, Found, table
  <1>2. idx \in Used(slots)
    BY <1>1, Facts, PageAssumption DEF Used, Tables
  <1>3. Contents = Pairs(slots, Used(slots)) /\ Contents' = Pairs(slots, Used(slots) \ {idx})
    BY <1>1 DEF Contents, Live, Pairs
  <1>4. \A j \in Used(slots) : slots[j].page = call.page <=> j = idx
    BY <1>1, <1>2, Facts DEF Placed
  <1>5. Contents' = Map!Without(call.page)
    <2>1. ASSUME NEW j \in Used(slots) \ {idx}
          PROVE  <<slots[j].page, slots[j].frame>> \in Map!Without(call.page)
      BY <1>3, <1>4, PairsPages DEF Map!Without
    <2>2. ASSUME NEW e \in Map!Without(call.page) PROVE e \in Contents'
      <3>1. e \in Contents /\ e[1] # call.page
        BY <2>2 DEF Map!Without
      <3>2. PICK j \in Used(slots) : e = <<slots[j].page, slots[j].frame>>
        BY <3>1, <1>3 DEF Pairs
      <3>3. j # idx
        BY <3>1, <3>2, <1>1
      <3> QED
        BY <3>2, <3>3, <1>3 DEF Pairs
    <2>3. Contents' \subseteq Map!Without(call.page)
      BY <2>1, <1>3 DEF Pairs
    <2> QED
      BY <2>2, <2>3
  <1>6. Map!Mapped(call.page)
    <2> DEFINE e == <<slots[idx].page, slots[idx].frame>>
    <2>1. e \in Contents /\ e[1] = call.page
      BY <1>1, <1>2, <1>3, PairsPages
    <2> QED
      BY <2>1 DEF Map!Mapped
  <1>7. Map!TakeEffect(Map!Yes)
    BY <1>1 DEF Map!TakeEffect, Phase, Reply, Yes, Map!Yes
  <1> QED
    BY <1>1, <1>5, <1>6, <1>7 DEF Map!Delete, Map!Next

LEMMA ShiftMaps == ASSUME Inv, ShiftNext PROVE Stutters
  <1>1. pc = "shift" /\ slots' = Pull(slots, idx, cap) /\ idx' = Succ(idx, cap)
          /\ UNCHANGED <<pc, call, ret>>
          /\ slots[Succ(idx, cap)].page # NoPage /\ slots[Succ(idx, cap)].dib # 0
    BY DEF ShiftNext, ShiftEnds
  <1>2. idx \in Used(slots) /\ Live = Used(slots) \ {idx}
          /\ Placed(slots, cap, Used(slots) \ {idx})
    BY <1>1, Facts DEF Inv, InFlight, Live
  <1>3. cap \in Nat /\ cap >= 2 /\ slots \in Tables(cap)
    BY Facts
  <1>4. Pairs(slots', Used(slots') \ {idx'}) = Pairs(slots, Used(slots) \ {idx})
    BY <1>1, <1>2, <1>3, ShiftNextLemma
  <1>5. Contents' = Contents
    BY <1>1, <1>2, <1>4 DEF Contents, Live
  <1>6. Phase' = Phase /\ Reply' = Reply
    BY <1>1 DEF Phase, Reply
  <1> QED
    BY <1>1, <1>5, <1>6 DEF Stutters, Map!vars

LEMMA ShiftDoneMaps == ASSUME Inv, ShiftDone PROVE Map!Next
  <1>1. pc = "shift" /\ slots' = Clear(slots, idx) /\ Return(Yes)
    BY DEF ShiftDone
  <1>2. idx \in Used(slots) /\ Live = Used(slots) \ {idx}
          /\ Placed(slots, cap, Used(slots) \ {idx})
    BY <1>1, Facts DEF Inv, InFlight, Live
  <1>3. slots[Succ(idx, cap)].page = NoPage \/ slots[Succ(idx, cap)].dib = 0
    BY DEF ShiftDone, ShiftEnds
  <1>4. cap \in Nat /\ cap >= 2 /\ slots \in Tables(cap)
    BY Facts
  <1>5. Pairs(slots', Used(slots')) = Pairs(slots, Used(slots) \ {idx})
    BY <1>1, <1>2, <1>3, <1>4, ShiftDoneLemma
  <1>6. Contents' = Contents
    BY <1>1, <1>2, <1>5 DEF Contents, Live, Return
  <1>7. Phase = "applied" /\ Phase' = "idle" /\ Reply' = Reply /\ call' = call
    BY <1>1 DEF Phase, Reply, Return
  <1> QED
    BY <1>6, <1>7 DEF Map!Return, Map!Next

LEMMA StepMaps ==
  ASSUME Inv, [Next]_vars
  PROVE  [Map!Next]_(Map!vars)
  <1>1. CASE Begin
    BY <1>1, BeginMaps
  <1>2. CASE ProbeNext \/ InsertHit \/ UpdateNext \/ MigrateNext \/ MigrateStep \/ MigrateSettle
    BY <1>2, LocalSteps DEF Stutters
  <1>3. CASE Miss \/ GrowFail \/ LookupHit \/ DeleteHit \/ Update
    BY <1>3, MissMaps, LookupHitMaps, DeleteHitMaps, UpdateMaps
  <1>4. CASE InsertMiss \/ GrowDone
    BY <1>4, InsertMissMaps, GrowDoneMaps DEF Stutters
  <1>5. CASE PlaceStep \/ PlaceSettle
    BY <1>5, PlaceStepMaps, PlaceSettleMaps DEF Stutters
  <1>6. CASE ShiftNext \/ ShiftDone
    BY <1>6, ShiftMaps, ShiftDoneMaps DEF Stutters
  <1>7. CASE UNCHANGED vars
    BY <1>7 DEF vars, Map!vars, Contents, Live, Pairs, Phase, Reply
  <1> QED
    BY <1>1, <1>2, <1>3, <1>4, <1>5, <1>6, <1>7 DEF Next, Step

(* The table of rbh.c is a map: whatever the pages and the hash function,   *)
(* each lookup, insertion, update and deletion has the effect and the reply *)
(* PageMap allows, also while the table is being rebuilt or shifted.        *)
THEOREM Implements == Spec => Refines
  <1>1. Init => Map!Init
    BY InitMaps
  <1>2. Inv /\ [Next]_vars => [Map!Next]_(Map!vars)
    BY StepMaps
  <1> QED
    BY <1>1, <1>2, Invariance, PTL DEF Spec, Map!Spec, Refines
=============================================================================
