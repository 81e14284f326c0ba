-------------------------- MODULE HandlePoolProofs --------------------------
(***************************************************************************)
(* Proofs about HandlePool, for every capacity, generation width and bound, *)
(* and about Mixing, for every width of a word, shift, odd multiplier and   *)
(* number of columns: no key or part of a packed word is lost in a word.    *)
(***************************************************************************)
EXTENDS HandlePool, Mixing, FiniteSetTheorems, WellFoundedInduction, TLAPS

-----------------------------------------------------------------------------
(* Remainders, of which the solvers know the definition only.               *)

LEMMA DivMod ==
  ASSUME NEW m \in Nat, m >= 1, NEW a \in Nat
  PROVE  a \div m \in Nat /\ a % m \in 0 .. m - 1 /\ a = m * (a \div m) + (a % m)
  BY SMT

LEMMA ModUnique ==
  ASSUME NEW m \in Nat, m >= 1, NEW q \in Nat, NEW r \in 0 .. m - 1
  PROVE  (m * q + r) % m = r
  BY SMT

LEMMA ModSucc ==
  ASSUME NEW m \in Nat, m >= 1, NEW a \in Nat
  PROVE  (a + 1) % m = ((a % m) + 1) % m
<1> DEFINE q == a \div m
           r == a % m
<1>1. q \in Nat /\ r \in 0 .. m - 1 /\ a = m * q + r
  BY DivMod
<1> HIDE DEF q, r
<1>2. CASE r + 1 = m
  <2>1. a + 1 = m * (q + 1) + 0 /\ r + 1 = m * 1 + 0
    BY <1>1, <1>2
  <2>2. (m * (q + 1) + 0) % m = 0 /\ (m * 1 + 0) % m = 0
    BY <1>1, ModUnique
  <2> QED
    BY <2>1, <2>2 DEF r
<1>3. CASE r + 1 < m
  <2>1. a + 1 = m * q + (r + 1) /\ r + 1 = m * 0 + (r + 1)
    BY <1>1
  <2>2. (m * q + (r + 1)) % m = r + 1 /\ (m * 0 + (r + 1)) % m = r + 1
    BY <1>1, <1>3, ModUnique
  <2> QED
    BY <2>1, <2>2 DEF r
<1> QED
  BY <1>1, <1>2, <1>3

LEMMA ModEqual ==
  ASSUME NEW m \in Nat, m >= 1, NEW a \in Nat, NEW b \in Nat, a > b, a % m = b % m
  PROVE  a - b >= m /\ (a - b) % m = 0
<1> DEFINE qa == a \div m
           qb == b \div m
           r == a % m
<1>1. qa \in Nat /\ qb \in Nat /\ r \in 0 .. m - 1 /\ a = m * qa + r /\ b = m * qb + r
  BY DivMod
<1> HIDE DEF qa, qb, r
<1>2. a - b = m * (qa - qb) + 0
  BY <1>1
<1>3. qa - qb \in Nat /\ qa - qb >= 1
  BY <1>1
<1>4. m * (qa - qb) >= m
  BY <1>3
<1>5. (m * (qa - qb) + 0) % m = 0
  BY <1>3, ModUnique
<1> QED
  BY <1>2, <1>3, <1>4, <1>5

LEMMA GenType ==
  ASSUME NEW b \in Nat
  PROVE  Gen(b) \in 0 .. GenMod - 1 /\ Gen(b + 1) = (Gen(b) + 1) % GenMod
<1>1. GenMod \in Nat /\ GenMod >= 1
  BY PoolAssumption
<1>2. (1 + b) % GenMod \in 0 .. GenMod - 1
  BY <1>1, DivMod
<1>3. \A a \in Nat : (a + 1) % GenMod = ((a % GenMod) + 1) % GenMod
  BY <1>1, ModSucc
<1>4. 1 + b \in Nat /\ (1 + b) + 1 = 1 + (b + 1)
  OBVIOUS
<1>5. ((1 + b) + 1) % GenMod = (((1 + b) % GenMod) + 1) % GenMod
  BY <1>3, <1>4, Zenon
<1> QED
  BY <1>2, <1>4, <1>5, Zenon DEF Gen

LEMMA GenEqual ==
  ASSUME NEW a \in Nat, NEW b \in Nat, a > b, Gen(a) = Gen(b)
  PROVE  a - b >= GenMod /\ (a - b) % GenMod = 0
<1>1. GenMod \in Nat /\ GenMod >= 1
  BY PoolAssumption
<1>2. \A x, y \in Nat : x > y /\ x % GenMod = y % GenMod
                           => x - y >= GenMod /\ (x - y) % GenMod = 0
  BY <1>1, ModEqual
<1>3. 1 + a \in Nat /\ 1 + b \in Nat /\ 1 + a > 1 + b /\ (1 + a) - (1 + b) = a - b
  OBVIOUS
<1>4. (1 + a) % GenMod = (1 + b) % GenMod
  BY DEF Gen
<1>5. (1 + a) - (1 + b) >= GenMod /\ ((1 + a) - (1 + b)) % GenMod = 0
  BY <1>2, <1>3, <1>4, Zenon
<1> QED
  BY <1>3, <1>5, Zenon

-----------------------------------------------------------------------------
(* The inductive invariant: the checked invariants, and that a slot in use  *)
(* holds the entity of its current use.  A pool once torn stays torn, and   *)
(* of it only the types are left.                                           *)

Stored == gone = {} => \A i \in Indices : slots[i].active => slots[i].data = uses[i]
Inv == TypeOK /\ FreeList /\ Stored

LEMMA IdleFinite ==
  ASSUME cap \in Nat
  PROVE  IsFiniteSet(Idle) /\ Cardinality(Idle) \in Nat
<1>1. IsFiniteSet(1 .. cap - 1)
  BY FS_Interval
<1> QED
  BY <1>1, FS_Subset, FS_CardinalityType DEF Idle, Indices

LEMMA InitInv == Init => Inv
<1> SUFFICES ASSUME Init PROVE Inv
  OBVIOUS
<1>1. cap \in Nat /\ cap >= 2
  BY PoolAssumption DEF Init, FirstCap
<1>2. Gen(0) = 1
  <2>1. (GenMod * 0 + 1) % GenMod = 1
    BY PoolAssumption, ModUnique
  <2> QED
    BY <2>1, PoolAssumption DEF Gen
<1>3. TypeOK
  BY <1>1, <1>2, PoolAssumption DEF Init, TypeOK, Slot, Vacant, Indices, Pushed
<1>4. Idle = 1 .. cap - 1
  BY <1>1 DEF Init, Idle, Indices, Vacant
<1>5. Cardinality(1 .. cap - 1) = cap - 1
  BY <1>1, FS_Interval
<1>6. FreeList
  BY <1>1, <1>4, <1>5 DEF Init, FreeList, Pushed
<1> QED
  BY <1>3, <1>6, <1>1 DEF Inv, Stored, Init, Indices, Vacant

(* What popping leaves of a sequence.                                       *)
LEMMA PopFacts ==
  ASSUME NEW X, NEW s \in Seq(X), s # <<>>
  PROVE  /\ Len(s) \in Nat /\ Len(s) >= 1 /\ Top(s) = s[Len(s)] /\ Top(s) \in X
         /\ Popped(s) \in Seq(X) /\ Len(Popped(s)) = Len(s) - 1
         /\ \A k \in 1 .. Len(s) - 1 : Popped(s)[k] = s[k]
<1>1. Len(s) \in Nat /\ Len(s) >= 1 /\ Top(s) \in X
  BY DEF Top
<1>2. Popped(s) = [k \in 1 .. Len(s) - 1 |-> s[k]]
  BY <1>1 DEF Popped
<1>3. [k \in 1 .. Len(s) - 1 |-> s[k]] \in Seq(X)
  BY <1>1
<1> QED
  BY <1>1, <1>2, <1>3 DEF Top

LEMMA FillFacts ==
  ASSUME NEW s \in Slot, NEW b \in Nat
  PROVE  /\ Filled(s, b) \in Slot /\ Filled(s, b).active
         /\ Filled(s, b).data = b /\ Filled(s, b).gen = s.gen
  BY DEF Slot, Filled

LEMMA CreateStep == Inv /\ Create => Inv'
<1> SUFFICES ASSUME Inv, Create PROVE Inv'
  OBVIOUS
<1> USE DEF Indices
<1> DEFINE t == Top(free)
<1>1. /\ Len(free) \in Nat /\ Len(free) >= 1 /\ t = free[Len(free)] /\ t \in Indices
      /\ Popped(free) \in Seq(Indices) /\ Len(Popped(free)) = Len(free) - 1
      /\ \A k \in 1 .. Len(free) - 1 : Popped(free)[k] = free[k]
  BY PopFacts DEF Inv, TypeOK, Create
<1>2. t \in Idle
  BY <1>1 DEF Inv, FreeList, Create
<1>3. /\ slots' = [slots EXCEPT ![t] = Filled(@, uses[t])]
      /\ free' = Popped(free) /\ uses' = uses /\ cap' = cap /\ gone' = {}
  BY DEF Create, Take
<1> HIDE DEF t
<1>4. cap \in Nat /\ cap >= 2 /\ slots \in [0 .. cap - 1 -> Slot]
      /\ uses \in [0 .. cap - 1 -> 0 .. MaxUses] /\ t \in 0 .. cap - 1 /\ uses[t] \in Nat
  BY <1>1, PoolAssumption DEF Inv, TypeOK
<1>5. /\ slots' \in [0 .. cap - 1 -> Slot]
      /\ \A i \in 0 .. cap - 1 : i # t => slots'[i] = slots[i]
      /\ slots'[t].gen = slots[t].gen /\ slots'[t].active /\ slots'[t].data = uses[t]
  BY <1>3, <1>4, FillFacts
<1>6. TypeOK'
  <2>1. \A i \in Indices : slots'[i].gen = Gen(uses[i])
    BY <1>4, <1>5 DEF Inv, TypeOK, Indices
  <2>2. free' \in Seq(Indices) /\ Indices' = Indices
    BY <1>1, <1>3 DEF Indices
  <2> QED
    BY <1>3, <1>4, <1>5, <2>1, <2>2 DEF TypeOK
<1>7. Idle' = Idle \ {t}
  BY <1>1, <1>3, <1>4, <1>5 DEF Idle
<1>8. Cardinality(Idle') = Cardinality(Idle) - 1
  BY <1>2, <1>4, <1>7, IdleFinite, FS_RemoveElement
<1>9. /\ Len(free) = Cardinality(Idle)
      /\ \A k \in 1 .. Len(free) : free[k] \in Idle
      /\ \A j, k \in 1 .. Len(free) : free[j] = free[k] => j = k
  <2>1. DOMAIN free = 1 .. Len(free) /\ gone = {}
    BY <1>1 DEF Inv, TypeOK, Create
  <2> QED
    BY <2>1, Zenon DEF Inv, FreeList
<1>10. DOMAIN free' = 1 .. Len(free) - 1
  BY <1>1, <1>3
<1>11. FreeList'
  BY <1>1, <1>3, <1>7, <1>8, <1>9, <1>10 DEF FreeList
<1>12. Stored'
  <2>1. \A i \in 1 .. cap - 1 : slots[i].active => slots[i].data = uses[i]
    BY DEF Inv, Stored, Indices, Create
  <2>2. \A i \in 1 .. cap - 1 : slots'[i].active => slots'[i].data = uses[i]
    BY <1>4, <1>5, <2>1
  <2> QED
    BY <1>3, <2>2 DEF Stored, Indices
<1> QED
  BY <1>6, <1>11, <1>12 DEF Inv

LEMMA DestroyStep == Inv /\ (\E h \in Handed : Destroy(h)) => Inv'
<1> SUFFICES ASSUME Inv, NEW h \in Handed, Destroy(h) PROVE Inv'
  OBVIOUS
<1> USE DEF Indices
<1> DEFINE i == h.index
<1>1. cap \in Nat /\ cap >= 2 /\ slots \in [0 .. cap - 1 -> Slot]
      /\ uses \in [0 .. cap - 1 -> 0 .. MaxUses] /\ free \in Seq(Indices)
  BY DEF Inv, TypeOK
<1>2. i \in Indices /\ slots[i].active /\ uses[i] < MaxUses /\ uses[i] \in Nat
  BY <1>1, PoolAssumption DEF Handed, Made, HandleOf, Invalid, Destroy, Resolves
<1>3. /\ slots' = [slots EXCEPT ![i] = Released(@)]
      /\ free' = Append(free, i)
      /\ uses' = [uses EXCEPT ![i] = @ + 1] /\ cap' = cap /\ gone' = gone
  BY DEF Destroy
<1> HIDE DEF i
<1>4. slots[i].gen = Gen(uses[i]) /\ (slots[i].gen + 1) % GenMod \in 0 .. GenMod - 1
      /\ (slots[i].gen + 1) % GenMod = Gen(uses[i] + 1)
  <2>1. \A b \in Nat : Gen(b) \in 0 .. GenMod - 1 /\ Gen(b + 1) = (Gen(b) + 1) % GenMod
    BY GenType
  <2>2. slots[i].gen = Gen(uses[i])
    BY <1>2 DEF Inv, TypeOK
  <2>3. uses[i] + 1 \in Nat
    BY <1>2
  <2> QED
    BY <1>2, <2>1, <2>2, <2>3, Zenon
<1>5. /\ slots' \in [0 .. cap - 1 -> Slot]
      /\ \A j \in 0 .. cap - 1 : j # i => slots'[j] = slots[j]
      /\ slots'[i].gen = Gen(uses[i] + 1) /\ ~ slots'[i].active
  <2> DEFINE n == Released(slots[i])
  <2>1. slots' = [slots EXCEPT ![i] = n]
    BY <1>3
  <2>2. slots[i] \in Slot
    BY <1>1, <1>2
  <2>3. n \in Slot /\ n.gen = Gen(uses[i] + 1) /\ ~ n.active
    BY <1>4, <2>2 DEF Slot, Released
  <2> HIDE DEF n
  <2> QED
    BY <1>1, <1>2, <2>1, <2>3
<1>6. /\ uses' \in [0 .. cap - 1 -> 0 .. MaxUses] /\ uses'[i] = uses[i] + 1
      /\ \A j \in 0 .. cap - 1 : j # i => uses'[j] = uses[j]
  BY <1>1, <1>2, <1>3, PoolAssumption
<1>7. free' \in Seq(Indices)
  BY <1>1, <1>2, <1>3
<1>8. TypeOK'
  BY <1>1, <1>2, <1>3, <1>5, <1>6, <1>7 DEF Inv, TypeOK
<1>9. Idle' = Idle \cup {i} /\ i \notin Idle
  BY <1>1, <1>2, <1>3, <1>5 DEF Idle
<1>10. Cardinality(Idle') = Cardinality(Idle) + 1
  BY <1>1, <1>9, IdleFinite, FS_AddElement
<1>11. ASSUME gone = {} PROVE FreeList'
  <2>1. /\ Len(free) = Cardinality(Idle)
        /\ \A k \in 1 .. Len(free) : free[k] \in Idle
        /\ \A j, k \in 1 .. Len(free) : free[j] = free[k] => j = k
    <3>1. DOMAIN free = 1 .. Len(free)
      BY <1>1
    <3> QED
      BY <3>1, <1>11, Zenon DEF Inv, FreeList
  <2>2. /\ DOMAIN free' = 1 .. Len(free) + 1 /\ Len(free') = Len(free) + 1
        /\ free'[Len(free) + 1] = i /\ \A k \in 1 .. Len(free) : free'[k] = free[k]
    BY <1>1, <1>2, <1>3, <1>11
  <2>3. \A k \in DOMAIN free' : free'[k] \in Idle'
    BY <1>9, <2>1, <2>2
  <2>4. \A j, k \in DOMAIN free' : free'[j] = free'[k] => j = k
    <3>1. Len(free) \in Nat
      BY <1>1
    <3> QED
      BY <1>9, <2>1, <2>2, <3>1
  <2> QED
    BY <1>10, <2>1, <2>2, <2>3, <2>4 DEF FreeList
<1>12. FreeList'
  BY <1>3, <1>11 DEF FreeList
<1> QED
  BY <1>1, <1>3, <1>5, <1>6, <1>8, <1>12 DEF Inv, Stored

LEMMA GrowStep == Inv /\ GrowAndCreate => Inv'
<1> SUFFICES ASSUME Inv, GrowAndCreate PROVE Inv'
  OBVIOUS
<1> USE DEF Indices
<1> DEFINE S == Wider(slots, Vacant(1))
           F == Pushed(cap, 2 * cap)
           U == Wider(uses, 0)
<1>1. cap \in Nat /\ cap >= 2 /\ slots \in [0 .. cap - 1 -> Slot]
      /\ uses \in [0 .. cap - 1 -> 0 .. MaxUses]
  BY DEF Inv, TypeOK
<1>2. /\ F \in Seq(1 .. 2 * cap - 1) /\ Len(F) = cap /\ F # <<>>
      /\ \A k \in 1 .. cap : F[k] = 2 * cap - k
  BY <1>1 DEF Pushed
<1>4. /\ slots' = [S EXCEPT ![Top(F)] = Filled(@, U[Top(F)])]
      /\ free' = Popped(F) /\ uses' = U /\ cap' = 2 * cap /\ gone' = {}
  BY DEF GrowAndCreate, Take
<1>5. /\ S \in [0 .. 2 * cap - 1 -> Slot] /\ S[cap] = Vacant(1)
      /\ \A i \in 0 .. cap - 1 : S[i] = slots[i]
      /\ \A i \in cap .. 2 * cap - 1 : S[i] = Vacant(1)
      /\ U \in [0 .. 2 * cap - 1 -> 0 .. MaxUses]
      /\ \A i \in 0 .. cap - 1 : U[i] = uses[i]
      /\ \A i \in cap .. 2 * cap - 1 : U[i] = 0
  <2>1. Vacant(1) \in Slot
    BY PoolAssumption DEF Vacant, Slot
  <2> QED
    BY <1>1, <2>1, PoolAssumption DEF Wider
<1> HIDE DEF S, F, U
<1>3. /\ Top(F) = cap /\ Popped(F) \in Seq(1 .. 2 * cap - 1)
      /\ Len(Popped(F)) = cap - 1 /\ DOMAIN Popped(F) = 1 .. cap - 1
      /\ \A k \in 1 .. cap - 1 : Popped(F)[k] = 2 * cap - k
  <2>1. /\ Top(F) = F[cap] /\ Popped(F) \in Seq(1 .. 2 * cap - 1)
        /\ Len(Popped(F)) = cap - 1
        /\ \A k \in 1 .. cap - 1 : Popped(F)[k] = F[k]
    BY <1>2, PopFacts
  <2>2. F[cap] = cap /\ \A k \in 1 .. cap - 1 : F[k] = 2 * cap - k
    BY <1>1, <1>2
  <2> QED
    BY <1>1, <2>1, <2>2
<1>6. /\ slots' \in [0 .. 2 * cap - 1 -> Slot]
      /\ slots'[cap].active /\ slots'[cap].data = 0 /\ slots'[cap].gen = 1
      /\ \A i \in 0 .. cap - 1 : slots'[i] = slots[i]
      /\ \A i \in cap + 1 .. 2 * cap - 1 : ~ slots'[i].active /\ slots'[i].gen = 1
  <2> DEFINE n == Filled(S[cap], U[cap])
  <2>1. n \in Slot /\ n.active /\ n.data = 0 /\ n.gen = 1
    <3>1. S[cap] \in Slot /\ S[cap].gen = 1 /\ U[cap] = 0
      BY <1>1, <1>5 DEF Vacant
    <3>2. n \in Slot /\ n.active /\ n.data = U[cap] /\ n.gen = S[cap].gen
      BY <3>1, FillFacts
    <3> QED
      BY <3>1, <3>2
  <2>2. slots' = [S EXCEPT ![cap] = n]
    BY <1>3, <1>4
  <2> HIDE DEF n
  <2>3. slots' \in [0 .. 2 * cap - 1 -> Slot] /\ slots'[cap] = n
        /\ \A i \in 0 .. 2 * cap - 1 : i # cap => slots'[i] = S[i]
    BY <1>1, <1>5, <2>1, <2>2
  <2> QED
    BY <1>1, <1>5, <2>1, <2>3 DEF Vacant
<1>7. Gen(0) = 1
  <2>1. (GenMod * 0 + 1) % GenMod = 1
    BY PoolAssumption, ModUnique
  <2> QED
    BY <2>1, PoolAssumption DEF Gen
<1> HIDE DEF Indices
<1>8. \A i \in 1 .. 2 * cap - 1 : slots'[i].gen = Gen(uses'[i])
  <2> SUFFICES ASSUME NEW i \in 1 .. 2 * cap - 1 PROVE slots'[i].gen = Gen(uses'[i])
    OBVIOUS
  <2>1. CASE i < cap
    <3>1. slots[i].gen = Gen(uses[i])
      BY <1>1, <2>1 DEF Inv, TypeOK, Indices
    <3>2. slots'[i] = slots[i] /\ uses'[i] = uses[i]
      BY <1>1, <1>4, <1>5, <1>6, <2>1
    <3> QED
      BY <3>1, <3>2, Zenon
  <2>2. CASE i = cap
    <3>1. uses'[i] = 0 /\ slots'[i].gen = 1
      BY <1>1, <1>4, <1>5, <1>6, <2>2
    <3> QED
      BY <1>7, <3>1, Zenon
  <2>3. CASE i > cap
    <3>1. uses'[i] = 0 /\ slots'[i].gen = 1
      BY <1>1, <1>4, <1>5, <1>6, <2>3
    <3> QED
      BY <1>7, <3>1, Zenon
  <2> QED
    BY <1>1, <2>1, <2>2, <2>3
<1>9. TypeOK'
  BY <1>1, <1>3, <1>4, <1>5, <1>6, <1>8 DEF TypeOK, Indices
<1>10. \A i \in 1 .. cap - 1 : slots[i].active
  <2>1. Cardinality(Idle) = 0
    BY DEF Inv, FreeList, GrowAndCreate
  <2>2. Idle = {}
    BY <1>1, <2>1, IdleFinite, FS_EmptySet
  <2> QED
    BY <2>2 DEF Idle, Indices
<1>11. Idle' = cap + 1 .. 2 * cap - 1
  BY <1>1, <1>4, <1>6, <1>10 DEF Idle, Indices
<1>12. Cardinality(Idle') = cap - 1
  BY <1>1, <1>11, FS_Interval
<1>13. FreeList'
  <2>1. DOMAIN free' = 1 .. cap - 1 /\ Len(free') = cap - 1
        /\ \A k \in 1 .. cap - 1 : free'[k] = 2 * cap - k
    BY <1>3, <1>4
  <2>2. \A k \in 1 .. cap - 1 : free'[k] \in Idle'
    BY <1>1, <1>11, <2>1
  <2>3. \A j, k \in 1 .. cap - 1 : free'[j] = free'[k] => j = k
    BY <1>1, <2>1
  <2> QED
    BY <1>12, <2>1, <2>2, <2>3 DEF FreeList
<1>14. Stored'
  <2> SUFFICES ASSUME NEW i \in 1 .. 2 * cap - 1, slots'[i].active
               PROVE  slots'[i].data = uses'[i]
    BY <1>4 DEF Stored, Indices
  <2>1. CASE i < cap
    <3>1. slots'[i] = slots[i] /\ uses'[i] = uses[i]
      BY <1>1, <1>4, <1>5, <1>6, <2>1
    <3>2. Stored /\ gone = {}
      BY DEF Inv, GrowAndCreate
    <3>3. i \in Indices
      BY <1>1, <2>1 DEF Indices
    <3> QED
      BY <3>1, <3>2, <3>3 DEF Stored
  <2>2. CASE i = cap
    BY <1>1, <1>4, <1>5, <1>6, <2>2
  <2>3. CASE i > cap
    BY <1>1, <1>6, <2>3
  <2> QED
    BY <1>1, <2>1, <2>2, <2>3
<1> QED
  BY <1>9, <1>13, <1>14 DEF Inv

LEMMA TornCreateStep == Inv /\ TornCreate => Inv'
<1> SUFFICES ASSUME Inv, TornCreate PROVE Inv'
  OBVIOUS
<1>1. /\ free # <<>> /\ free' = Popped(free) /\ gone # {} /\ UNCHANGED <<cap, gone, uses>>
      /\ free \in Seq(Indices) /\ slots \in [0 .. cap - 1 -> Slot] /\ cap \in Nat
  BY DEF Inv, TypeOK, TornCreate
<1>2. Top(free) \in Indices /\ Popped(free) \in Seq(Indices)
  BY <1>1, PopFacts
<1>3. PICK i \in 0 .. cap - 1 :
        slots' = [slots EXCEPT ![i] = Filled(@, IF @.active THEN Stray ELSE uses[i])]
  <2>1. PICK i \in IF gone = {"list"} THEN 0 .. cap - 1 ELSE {Top(free)} :
          slots' = [slots EXCEPT ![i] = Filled(@, IF @.active THEN Stray ELSE uses[i])]
    BY DEF TornCreate
  <2>2. i \in 0 .. cap - 1
    BY <1>1, <1>2, <2>1 DEF Indices
  <2> QED
    BY <2>1, <2>2
<1>4. PICK b \in Nat : b = IF slots[i].active THEN Stray ELSE uses[i]
  <2>1. uses[i] \in 0 .. MaxUses
    BY <1>3 DEF Inv, TypeOK
  <2>2. uses[i] \in Nat /\ Stray \in Nat
    BY <2>1, PoolAssumption DEF Stray
  <2> QED
    BY <2>2
<1>5. PICK n : n = Filled(slots[i], b)
  OBVIOUS
<1>6. slots' = [slots EXCEPT ![i] = n]
  BY <1>1, <1>3, <1>4, <1>5
<1>7. n \in Slot /\ n.gen = slots[i].gen
  BY <1>1, <1>5, FillFacts
<1>8. slots' \in [0 .. cap - 1 -> Slot] /\ \A j \in 0 .. cap - 1 : slots'[j].gen = slots[j].gen
  BY <1>1, <1>6, <1>7
<1>9. TypeOK'
  BY <1>1, <1>2, <1>8 DEF Inv, TypeOK, Indices
<1> QED
  BY <1>1, <1>9 DEF Inv, FreeList, Stored

LEMMA TornDestroyStep ==
  ASSUME Inv, NEW h \in Handed \ {Invalid}, TornDestroy(h)
  PROVE  Inv'
<1>1. h.index \in Indices
  BY DEF Handed, Made, HandleOf, Indices
<1>2. free' = free \/ free' = Append(free, h.index)
  BY DEF TornDestroy
<1>3. free \in Seq(Indices)
  BY DEF Inv, TypeOK
<1>4. free' \in Seq(Indices)
  BY <1>1, <1>2, <1>3
<1>5. gone' # {} /\ UNCHANGED <<slots, cap, gone, uses>> /\ Indices' = Indices
  BY DEF TornDestroy, Indices
<1>6. TypeOK'
  BY <1>4, <1>5 DEF Inv, TypeOK
<1> QED
  BY <1>5, <1>6 DEF Inv, FreeList, Stored

LEMMA OtherSteps ==
  ASSUME Inv,
         \/ GrowFail \/ Ruin \/ Cleanup \/ UNCHANGED vars
         \/ \E h \in Handed : Get(h) \/ DestroyMiss(h)
         \/ \E h \in Handed \ {Invalid} : TornGet(h)
  PROVE  Inv'
<1>1. /\ UNCHANGED <<slots, cap, free, uses>>
      /\ gone' = gone \/ gone' \subseteq {"slots", "list"}
      /\ gone' = {} => gone = {}
  BY DEF GrowFail, Ruin, Cleanup, Get, DestroyMiss, TornGet, vars, pool
<1>2. gone' \subseteq {"slots", "list"}
  BY <1>1 DEF Inv, TypeOK
<1>3. Idle' = Idle /\ Indices' = Indices
  BY <1>1 DEF Idle, Indices
<1> QED
  BY <1>1, <1>2, <1>3 DEF Inv, TypeOK, FreeList, Stored

LEMMA InvNext == Inv /\ [Next]_vars => Inv'
  BY CreateStep, GrowStep, DestroyStep, TornCreateStep, TornDestroyStep, OtherSteps DEF Next

THEOREM Invariance == Spec => []Inv
  BY InitInv, InvNext, PTL DEF Spec

(* Every field keeps its type, and generations keep counting the uses.      *)
THEOREM TypeCorrect == Spec => []TypeOK
<1>1. Inv => TypeOK
  BY DEF Inv
<1> QED
  BY <1>1, Invariance, PTL

(* Until the pool is torn, the free list is the set of idle slots, without  *)
(* repetition.                                                              *)
THEOREM FreeListExact == Spec => []FreeList
<1>1. Inv => FreeList
  BY DEF Inv
<1> QED
  BY <1>1, Invariance, PTL

-----------------------------------------------------------------------------
(* What a handle resolves to.                                               *)

LEMMA HandleFacts ==
  ASSUME Inv, NEW h \in Handed, h # Invalid
  PROVE  /\ h.index \in Indices /\ h.use \in Nat /\ h.gen = Gen(h.use)
         /\ uses[h.index] \in Nat
         /\ h.use < uses[h.index] \/ (h.use = uses[h.index] /\ slots[h.index].active)
  BY PoolAssumption DEF Inv, TypeOK, Handed, Made, HandleOf, Indices

LEMMA ResolvesRight ==
  ASSUME Inv, NEW h \in Handed, h # Invalid
  PROVE  /\ Alive(h) => Resolves(h) /\ (gone = {} => slots[h.index].data = h.use)
         /\ Resolves(h) /\ ~ Alive(h) => /\ uses[h.index] - h.use >= GenMod
                                         /\ (uses[h.index] - h.use) % GenMod = 0
<1>1. /\ h.index \in Indices /\ h.use \in Nat /\ h.gen = Gen(h.use)
      /\ uses[h.index] \in Nat
      /\ h.use < uses[h.index] \/ (h.use = uses[h.index] /\ slots[h.index].active)
  BY HandleFacts
<1>2. slots[h.index].gen = Gen(uses[h.index])
  BY <1>1 DEF Inv, TypeOK
<1>3. h.index # 0 /\ h.index < cap
  BY <1>1 DEF Indices, Inv, TypeOK
<1>4. ASSUME Alive(h) PROVE Resolves(h) /\ (gone = {} => slots[h.index].data = h.use)
  BY <1>1, <1>2, <1>3, <1>4 DEF Alive, Resolves, Inv, Stored
<1>5. ASSUME Resolves(h), ~ Alive(h)
      PROVE  uses[h.index] - h.use >= GenMod /\ (uses[h.index] - h.use) % GenMod = 0
  <2>1. h.use < uses[h.index]
    BY <1>1, <1>5 DEF Alive
  <2>2. Gen(uses[h.index]) = Gen(h.use)
    BY <1>1, <1>2, <1>5 DEF Resolves
  <2> QED
    BY <1>1, <2>1, <2>2, GenEqual
<1> QED
  BY <1>4, <1>5

(* In a pool that is not torn, a living entity is always found by its       *)
(* handle; a stale handle is taken for another only after its slot was      *)
(* recycled a multiple of GenMod times.                                     *)
THEOREM AnswersRight == Spec => Answers
<1> DEFINE A == (gone = {} /\ ret'.op \in {"get", "destroy"} /\ ret'.handle # Invalid) =>
                LET h == ret'.handle
                    since == uses[h.index] - h.use
                IN  /\ Alive(h) => ret'.ok /\ ret'.data = h.use
                    /\ ret'.ok /\ ~ Alive(h) => since >= GenMod /\ since % GenMod = 0
<1>1. Inv /\ [Next]_vars => [A]_vars
  <2> SUFFICES ASSUME Inv, Next, gone = {} PROVE A
    OBVIOUS
  <2>1. CASE Create \/ GrowAndCreate \/ GrowFail \/ Cleanup
    BY <2>1 DEF Create, GrowAndCreate, GrowFail, Cleanup, Take, Reply
  <2>2. ASSUME NEW h \in Handed, Get(h) \/ DestroyMiss(h) \/ Destroy(h) PROVE A
    <3>1. ret'.handle = h /\ (ret'.ok <=> Resolves(h))
          /\ (ret'.ok => ret'.data = slots[h.index].data)
      BY <2>2 DEF Get, DestroyMiss, Destroy, Reply
    <3> QED
      BY <3>1, ResolvesRight
  <2> QED
    BY <2>1, <2>2 DEF Next, TornCreate, TornGet, TornDestroy, Ruin
<1> QED
  BY <1>1, Invariance, PTL DEF Spec, Answers

-----------------------------------------------------------------------------
(* The slots that a call leaves alone.                                      *)

LEMMA CreateApart == ASSUME Inv, gone = {}, Create, NEW i \in Indices, slots[i].active PROVE slots'[i] = slots[i]
<1>1. Top(free) \in Idle
  BY PopFacts DEF Inv, TypeOK, FreeList, Create, Top
<1>2. slots' = [slots EXCEPT ![Top(free)] = Filled(@, uses[Top(free)])]
  BY DEF Create, Take
<1>3. i # Top(free) /\ i \in DOMAIN slots
  BY <1>1 DEF Idle, Inv, TypeOK, Indices
<1> QED
  BY <1>2, <1>3

LEMMA GrowApart == ASSUME Inv, GrowAndCreate, NEW i \in Indices PROVE slots'[i] = slots[i]
<1> DEFINE S == Wider(slots, Vacant(1))
           F == Pushed(cap, 2 * cap)
<1>1. cap \in Nat /\ cap >= 2 /\ i \in 1 .. cap - 1
  BY DEF Inv, TypeOK, Indices
<1>2. S[i] = slots[i] /\ i \in DOMAIN S
  BY <1>1 DEF Wider
<1>3. F \in Seq(1 .. 2 * cap - 1) /\ F # <<>> /\ Len(F) = cap /\ F[cap] = cap
  BY <1>1 DEF Pushed
<1>4. \E x : slots' = [S EXCEPT ![Top(F)] = x]
  BY DEF GrowAndCreate, Take
<1> HIDE DEF S, F
<1>5. Top(F) = cap
  BY <1>3, PopFacts
<1> QED
  BY <1>1, <1>2, <1>4, <1>5

LEMMA DestroyApart ==
  ASSUME Inv, NEW h \in Handed, Destroy(h), NEW i \in Indices, i # h.index
  PROVE  slots'[i] = slots[i]
  BY DEF Destroy, Inv, TypeOK, Indices

(* A destruction that succeeds is by a handle of the slot's own generation. *)
LEMMA DestroyOwn ==
  ASSUME Inv, NEW h \in Handed, Destroy(h)
  PROVE  (uses[h.index] - h.use) % GenMod = 0
<1>1. Resolves(h) /\ h # Invalid
  BY DEF Destroy, Resolves, Invalid
<1>2. CASE Alive(h)
  <2>1. uses[h.index] - h.use = GenMod * 0 + 0
    BY <1>1, <1>2, HandleFacts, PoolAssumption DEF Alive
  <2> QED
    BY <2>1, PoolAssumption, ModUnique
<1> QED
  BY <1>1, <1>2, ResolvesRight

(* Nothing touches the slot of a living entity but its destruction, by its  *)
(* own handle or one that is a multiple of GenMod uses old: no creation or  *)
(* destruction of another, no growth and no failed growth.                  *)
THEOREM LivingUndisturbed == Spec => Undisturbed
<1> DEFINE A == gone = {} => \A i \in Indices :
                  slots[i].active /\ slots'[i] # slots[i] =>
                    /\ ret'.op = "destroy" /\ ret'.ok /\ ret'.handle.index = i
                    /\ (uses[i] - ret'.handle.use) % GenMod = 0
<1>1. Inv /\ [Next]_vars => [A]_vars
  <2> SUFFICES ASSUME Inv, Next, gone = {}, NEW i \in Indices, slots[i].active, slots'[i] # slots[i]
               PROVE  /\ ret'.op = "destroy" /\ ret'.ok /\ ret'.handle.index = i
                      /\ (uses[i] - ret'.handle.use) % GenMod = 0
    OBVIOUS
  <2>1. ~ Create /\ ~ GrowAndCreate
    BY CreateApart, GrowApart
  <2>2. ~ (GrowFail \/ Cleanup \/ \E h \in Handed : Get(h) \/ DestroyMiss(h))
    BY DEF GrowFail, Cleanup, Get, DestroyMiss, pool
  <2>3. PICK h \in Handed : Destroy(h)
    BY <2>1, <2>2 DEF Next, TornCreate, TornGet, TornDestroy, Ruin
  <2>4. i = h.index
    BY <2>3, DestroyApart
  <2>5. ret'.op = "destroy" /\ ret'.ok /\ ret'.handle = h
    BY <2>3 DEF Destroy, Reply
  <2> QED
    BY <2>3, <2>4, <2>5, DestroyOwn
<1> QED
  BY <1>1, Invariance, PTL DEF Spec, Undisturbed
-----------------------------------------------------------------------------
(* The mixers, for words of every width.  First, recursion has solutions.   *)

LEMMA LeastNat ==
  ASSUME NEW B \in SUBSET Nat, B # {}
  PROVE  \E b \in B : \A c \in B : b <= c
<1>1. PICK b \in B : \A c \in B : ~ <<c, b>> \in OpToRel(<, Nat)
  <2>1. IsWellFoundedOn(OpToRel(<, Nat), Nat)
    BY NatLessThanWellFounded
  <2>2. IsWellFoundedOn(OpToRel(<, Nat), B)
    BY <2>1, IsWellFoundedOnSubset
  <2> QED
    BY <2>2, WFMin
<1>2. ASSUME NEW c \in B PROVE b <= c
  <2>1. b \in Nat /\ c \in Nat
    BY <1>2
  <2>2. ~ c < b
    BY <1>1, <1>2, <2>1 DEF OpToRel
  <2> QED
    BY <2>1, <2>2
<1> QED
  BY <1>1, <1>2

(* A set of numbers that has 0, and with a number the next, has them all.   *)
LEMMA Upwards ==
  ASSUME NEW B \in SUBSET Nat, 0 \in B, \A n \in B : n + 1 \in B
  PROVE  B = Nat
<1>1. SUFFICES ASSUME Nat \ B # {} PROVE FALSE
  OBVIOUS
<1>2. PICK b \in Nat \ B : \A c \in Nat \ B : b <= c
  BY <1>1, LeastNat
<1>3. b # 0
  OBVIOUS
<1>4. b - 1 \in Nat /\ ~ b <= b - 1 /\ (b - 1) + 1 = b
  BY <1>2, <1>3
<1>5. b - 1 \in B
  BY <1>2, <1>4
<1> QED
  BY <1>2, <1>4, <1>5

(* A recursion on D: the step G gives the value for s from those for the    *)
(* smaller ones, in V.                                                      *)
Recursive(D, size, V, G) ==
  /\ size \in [D -> Nat] /\ V # {} /\ G \in [D \X [D -> V] -> V]
  /\ \A s \in D : \A f, h \in [D -> V] :
       (\A t \in D : size[t] < size[s] => f[t] = h[t]) => G[<<s, f>>] = G[<<s, h>>]

(* f solves it below size n.                                                *)
SolvesTo(D, size, V, G, n, f) == f \in [D -> V] /\ \A s \in D : size[s] < n => f[s] = G[<<s, f>>]

LEMMA SolvesNext ==
  ASSUME NEW D, NEW size, NEW V, NEW G, Recursive(D, size, V, G), NEW n \in Nat, NEW f, SolvesTo(D, size, V, G, n, f)
  PROVE  \E h : SolvesTo(D, size, V, G, n + 1, h)
<1>1. PICK h : h = [s \in D |-> IF size[s] < n THEN f[s] ELSE G[<<s, f>>]]
  OBVIOUS
<1>2. f \in [D -> V] /\ \A s \in D : G[<<s, f>>] \in V /\ size[s] \in Nat
  BY DEF Recursive, SolvesTo
<1>3. h \in [D -> V]
  BY <1>1, <1>2
<1>4. ASSUME NEW s \in D, size[s] < n + 1 PROVE h[s] = G[<<s, h>>]
  <2>1. h[s] = G[<<s, f>>]
    BY <1>1 DEF SolvesTo
  <2>2. ASSUME NEW t \in D, size[t] < size[s] PROVE f[t] = h[t]
    <3>1. size[t] \in Nat /\ size[s] \in Nat
      BY <1>2
    <3>2. size[t] < n
      BY <1>4, <2>2, <3>1
    <3> QED
      BY <1>1, <3>2
  <2>3. G[<<s, f>>] = G[<<s, h>>]
    BY <1>2, <1>3, <2>2 DEF Recursive
  <2> QED
    BY <2>1, <2>3
<1> QED
  BY <1>3, <1>4 DEF SolvesTo

LEMMA SolvesAll ==
  ASSUME NEW D, NEW size, NEW V, NEW G, Recursive(D, size, V, G)
  PROVE  \A n \in Nat : \E f : SolvesTo(D, size, V, G, n, f)
<1> DEFINE Good == {n \in Nat : \E f : SolvesTo(D, size, V, G, n, f)}
<1> HIDE DEF Good
<1>1. 0 \in Good
  <2>1. PICK v \in V : TRUE
    BY DEF Recursive
  <2>2. PICK f : f = [s \in D |-> v]
    OBVIOUS
  <2>3. f \in [D -> V] /\ \A s \in D : ~ size[s] < 0
    BY <2>1, <2>2 DEF Recursive
  <2>4. SolvesTo(D, size, V, G, 0, f)
    BY <2>3 DEF SolvesTo
  <2> QED
    BY <2>4 DEF Good
<1>2. \A n \in Good : n + 1 \in Good
  BY SolvesNext DEF Good
<1>3. Good = Nat
  BY <1>1, <1>2, Upwards DEF Good
<1> QED
  BY <1>3 DEF Good

(* Solutions agree as far as both go.                                       *)
LEMMA SolvesSame ==
  ASSUME NEW D, NEW size, NEW V, NEW G, Recursive(D, size, V, G), NEW m \in Nat, NEW n \in Nat, NEW f, NEW h,
         SolvesTo(D, size, V, G, m, f), SolvesTo(D, size, V, G, n, h)
  PROVE  \A s \in D : size[s] < m /\ size[s] < n => f[s] = h[s]
<1> DEFINE Bad == {k \in Nat : \E s \in D : k = size[s] /\ k < m /\ k < n /\ f[s] # h[s]}
<1> HIDE DEF Bad
<1>1. SUFFICES ASSUME Bad # {} PROVE FALSE
  BY DEF Bad, Recursive
<1>2. PICK k \in Bad : \A j \in Bad : k <= j
  BY <1>1, LeastNat DEF Bad
<1>3. PICK s \in D : k = size[s] /\ k < m /\ k < n /\ f[s] # h[s]
  BY <1>2 DEF Bad
<1>4. ASSUME NEW t \in D, size[t] < size[s] PROVE f[t] = h[t]
  <2>1. size[t] \in Nat /\ size[s] \in Nat
    BY DEF Recursive
  <2>2. size[t] < m /\ size[t] < n /\ ~ k <= size[t]
    BY <1>3, <1>4, <2>1
  <2>3. size[t] \notin Bad
    BY <1>2, <2>2
  <2> QED
    BY <2>1, <2>2, <2>3 DEF Bad
<1>5. f \in [D -> V] /\ h \in [D -> V]
  BY DEF SolvesTo
<1>6. G[<<s, f>>] = G[<<s, h>>]
  BY <1>4, <1>5 DEF Recursive
<1> QED
  BY <1>3, <1>6 DEF SolvesTo

(* The solution.                                                            *)
LEMMA RecursionSolved ==
  ASSUME NEW D, NEW size, NEW V, NEW G, Recursive(D, size, V, G)
  PROVE  \E f \in [D -> V] : \A s \in D : f[s] = G[<<s, f>>]
<1>1. PICK F : F = [n \in Nat |-> CHOOSE f : SolvesTo(D, size, V, G, n, f)]
  OBVIOUS
<1>2. \A n \in Nat : SolvesTo(D, size, V, G, n, F[n])
  BY <1>1, SolvesAll
<1>3. \A s \in D : size[s] \in Nat /\ size[s] + 1 \in Nat
  BY DEF Recursive
<1>4. PICK f : f = [s \in D |-> F[size[s] + 1][s]]
  OBVIOUS
<1>5. f \in [D -> V]
  <2>1. \A s \in D : F[size[s] + 1][s] \in V
    BY <1>2, <1>3 DEF SolvesTo
  <2> QED
    BY <1>4, <2>1
<1>6. ASSUME NEW s \in D PROVE f[s] = G[<<s, f>>]
  <2>1. PICK h : h = F[size[s] + 1]
    OBVIOUS
  <2>2. SolvesTo(D, size, V, G, size[s] + 1, h)
    BY <1>2, <1>3, <2>1
  <2>3. size[s] < size[s] + 1
    BY <1>3
  <2>4. f[s] = G[<<s, h>>] /\ h \in [D -> V]
    BY <1>4, <2>1, <2>2, <2>3 DEF SolvesTo
  <2>5. ASSUME NEW t \in D, size[t] < size[s] PROVE h[t] = f[t]
    <3>1. PICK e : e = F[size[t] + 1]
      OBVIOUS
    <3>2. SolvesTo(D, size, V, G, size[t] + 1, e)
      BY <1>2, <1>3, <3>1
    <3>3. size[t] < size[t] + 1 /\ size[t] < size[s] + 1
      BY <1>3, <2>5
    <3>4. h[t] = e[t]
      BY <1>3, <2>2, <3>2, <3>3, SolvesSame
    <3> QED
      BY <1>4, <3>1, <3>4
  <2>6. G[<<s, h>>] = G[<<s, f>>]
    BY <1>5, <2>4, <2>5 DEF Recursive
  <2> QED
    BY <2>4, <2>6
<1> QED
  BY <1>5, <1>6

-----------------------------------------------------------------------------
(* Powers of two.                                                           *)

LEMMA Pow2Solves ==
  \E f \in [Nat -> Nat] : f = [n \in Nat |-> IF n = 0 THEN 1 ELSE 2 * f[n - 1]]
<1>1. PICK D, V, size : D = Nat /\ V = Nat /\ size = [n \in Nat |-> n]
  OBVIOUS
<1>2. PICK G : G = [a \in D \X [D -> V] |-> IF a[1] = 0 THEN 1 ELSE 2 * a[2][a[1] - 1]]
  OBVIOUS
<1>3. ASSUME NEW n \in D, NEW f \in [D -> V]
      PROVE  /\ G[<<n, f>>] = (IF n = 0 THEN 1 ELSE 2 * f[n - 1]) /\ G[<<n, f>>] \in V
             /\ n # 0 => n - 1 \in D /\ size[n - 1] < size[n]
  BY <1>1, <1>2
<1>4. Recursive(D, size, V, G)
  <2>1. V # {} /\ size \in [D -> Nat]
    BY <1>1
  <2>2. G \in [D \X [D -> V] -> V]
    BY <1>2, <1>3
  <2>3. ASSUME NEW n \in D, NEW f \in [D -> V], NEW h \in [D -> V],
               \A t \in D : size[t] < size[n] => f[t] = h[t]
        PROVE  G[<<n, f>>] = G[<<n, h>>]
    BY <1>3, <2>3
  <2> QED
    BY <2>1, <2>2, <2>3 DEF Recursive
<1>5. PICK f \in [D -> V] : \A n \in D : f[n] = G[<<n, f>>]
  BY <1>4, RecursionSolved
<1>6. f \in [Nat -> Nat] /\ \A n \in Nat : f[n] = IF n = 0 THEN 1 ELSE 2 * f[n - 1]
  <2>1. f \in [Nat -> Nat]
    BY <1>1
  <2>2. ASSUME NEW n \in Nat PROVE f[n] = IF n = 0 THEN 1 ELSE 2 * f[n - 1]
    <3>1. n \in D /\ f \in [D -> V]
      BY <1>1
    <3> QED
      BY <1>3, <1>5, <3>1
  <2> QED
    BY <2>1, <2>2
<1>7. f = [n \in Nat |-> IF n = 0 THEN 1 ELSE 2 * f[n - 1]]
  BY <1>6
<1> QED
  BY <1>6, <1>7

LEMMA Pow2Is ==
  /\ Pow2 \in [Nat -> Nat] /\ Pow2[0] = 1
  /\ \A n \in Nat : Pow2[n + 1] = 2 * Pow2[n]
<1>1. PICK f \in [Nat -> Nat] : f = [n \in Nat |-> IF n = 0 THEN 1 ELSE 2 * f[n - 1]]
  BY Pow2Solves
<1>2. Pow2 = [n \in Nat |-> IF n = 0 THEN 1 ELSE 2 * Pow2[n - 1]]
  BY <1>1 DEF Pow2
<1> HIDE DEF Pow2
<1>3. ASSUME NEW n \in Nat PROVE Pow2[n + 1] = 2 * Pow2[n]
  BY <1>2
<1>4. Pow2[0] = 1
  BY <1>2
<1>5. \A n \in Nat : Pow2[n] \in Nat
  <2> DEFINE Good == {n \in Nat : Pow2[n] \in Nat}
  <2> HIDE DEF Good
  <2>1. 0 \in Good
    BY <1>4 DEF Good
  <2>2. ASSUME NEW n \in Good PROVE n + 1 \in Good
    BY <1>3 DEF Good
  <2>3. Good = Nat
    BY <2>1, <2>2, Upwards DEF Good
  <2> QED
    BY <2>3 DEF Good
<1>6. Pow2 \in [Nat -> Nat]
  BY <1>2, <1>5
<1> QED
  BY <1>3, <1>4, <1>6

LEMMA Pow2Typed == \A n \in Nat : Pow2[n] \in Nat \ {0}
<1> DEFINE Good == {n \in Nat : Pow2[n] \in Nat \ {0}}
<1> HIDE DEF Good
<1>1. 0 \in Good
  BY Pow2Is DEF Good
<1>2. ASSUME NEW n \in Good PROVE n + 1 \in Good
  <2>1. PICK x \in Nat \ {0} : x = Pow2[n]
    BY DEF Good
  <2>2. Pow2[n + 1] = 2 * x /\ n + 1 \in Nat
    BY <2>1, Pow2Is DEF Good
  <2> QED
    BY <2>2 DEF Good
<1>3. Good = Nat
  BY <1>1, <1>2, Upwards DEF Good
<1> QED
  BY <1>3 DEF Good

LEMMA Pow2Sum == \A m, n \in Nat : Pow2[m + n] = Pow2[m] * Pow2[n]
<1> SUFFICES ASSUME NEW m \in Nat PROVE \A n \in Nat : Pow2[m + n] = Pow2[m] * Pow2[n]
  OBVIOUS
<1> DEFINE Good == {n \in Nat : Pow2[m + n] = Pow2[m] * Pow2[n]}
<1> HIDE DEF Good
<1>0. PICK x \in Nat : x = Pow2[m]
  BY Pow2Typed
<1>1. 0 \in Good
  <2>1. m + 0 = m /\ x * 1 = x
    BY <1>0
  <2> QED
    BY <1>0, <2>1, Pow2Is DEF Good
<1>2. ASSUME NEW n \in Good PROVE n + 1 \in Good
  <2>1. n \in Nat /\ Pow2[m + n] = x * Pow2[n]
    BY <1>0 DEF Good
  <2>2. PICK y \in Nat : y = Pow2[n]
    BY <2>1, Pow2Typed
  <2>3. m + (n + 1) = (m + n) + 1 /\ m + n \in Nat
    BY <2>1
  <2>4. Pow2[m + (n + 1)] = 2 * (x * y)
    BY <2>1, <2>2, <2>3, Pow2Is
  <2>5. 2 * (x * y) = x * (2 * y)
    OBVIOUS
  <2>6. Pow2[n + 1] = 2 * y
    BY <2>1, <2>2, Pow2Is
  <2> QED
    BY <1>0, <2>1, <2>4, <2>5, <2>6 DEF Good
<1>3. Good = Nat
  BY <1>1, <1>2, Upwards DEF Good
<1> QED
  BY <1>3 DEF Good

LEMMA Pow2Grows == ASSUME NEW m \in Nat, NEW n \in Nat, m <= n PROVE Pow2[m] <= Pow2[n]
<1>1. PICK k \in Nat : n = m + k
  <2>1. n - m \in Nat /\ n = m + (n - m)
    OBVIOUS
  <2> QED
    BY <2>1
<1>2. PICK x \in Nat, y \in Nat \ {0} : x = Pow2[m] /\ y = Pow2[k]
  BY Pow2Typed
<1>3. Pow2[n] = x * y
  BY <1>1, <1>2, Pow2Sum
<1>4. x <= x * y
  BY <1>2
<1> QED
  BY <1>2, <1>3, <1>4

-----------------------------------------------------------------------------
(* Words, bit by bit.                                                      *)

LEMMA Halves ==
  ASSUME NEW a \in Nat
  PROVE  /\ a \div 2 \in Nat /\ a % 2 \in {0, 1} /\ a = 2 * (a \div 2) + (a % 2)
         /\ a # 0 => a \div 2 < a
  OBVIOUS

LEMMA HalfOf ==
  ASSUME NEW q \in Nat, NEW r \in {0, 1}
  PROVE  (2 * q + r) \div 2 = q /\ (2 * q + r) % 2 = r
  OBVIOUS

BitTable(t) == t \in [Bits -> {0, 1}] /\ t[<<0, 0>>] = 0

LEMMA BitsSolve ==
  ASSUME NEW t, BitTable(t)
  PROVE  \E f \in [Nat \X Nat -> Nat] :
           f = [p \in Nat \X Nat |-> IF p = <<0, 0>> THEN 0
                                     ELSE t[<<p[1] % 2, p[2] % 2>>] + 2 * f[<<p[1] \div 2, p[2] \div 2>>]]
<1> DEFINE Step(p, f) == IF p = <<0, 0>> THEN 0
                         ELSE t[<<p[1] % 2, p[2] % 2>>] + 2 * f[<<p[1] \div 2, p[2] \div 2>>]
<1>1. PICK D, V, size : D = Nat \X Nat /\ V = Nat /\ size = [p \in Nat \X Nat |-> p[1] + p[2]]
  OBVIOUS
<1>2. PICK G : G = [a \in D \X [D -> V] |-> Step(a[1], a[2])]
  OBVIOUS
<1>3. ASSUME NEW p \in D
      PROVE  /\ t[<<p[1] % 2, p[2] % 2>>] \in {0, 1} /\ <<p[1] \div 2, p[2] \div 2>> \in D
             /\ size[p] = p[1] + p[2] /\ size[<<p[1] \div 2, p[2] \div 2>>] = p[1] \div 2 + p[2] \div 2
             /\ p # <<0, 0>> => size[<<p[1] \div 2, p[2] \div 2>>] < size[p]
  <2>1. PICK a \in Nat, b \in Nat : p = <<a, b>>
    BY <1>1
  <2>2. a \div 2 \in Nat /\ b \div 2 \in Nat /\ a % 2 \in {0, 1} /\ b % 2 \in {0, 1}
    BY Halves
  <2>3. <<a % 2, b % 2>> \in Bits
    BY <2>2 DEF Bits
  <2>4. t[<<a % 2, b % 2>>] \in {0, 1} /\ <<a \div 2, b \div 2>> \in D
    BY <1>1, <2>2, <2>3 DEF BitTable
  <2>5. size[p] = a + b /\ size[<<a \div 2, b \div 2>>] = a \div 2 + b \div 2
    BY <1>1, <2>1, <2>4
  <2>6. a # 0 \/ b # 0 => a \div 2 + b \div 2 < a + b
    OBVIOUS
  <2> QED
    BY <2>1, <2>4, <2>5, <2>6
<1>4. ASSUME NEW p \in D, NEW f \in [D -> V] PROVE G[<<p, f>>] = Step(p, f) /\ Step(p, f) \in V
  <2>1. f[<<p[1] \div 2, p[2] \div 2>>] \in V
    BY <1>3
  <2>2. PICK r \in {0, 1}, q \in Nat : r = t[<<p[1] % 2, p[2] % 2>>] /\ q = f[<<p[1] \div 2, p[2] \div 2>>]
    BY <1>1, <1>3, <2>1
  <2>3. r + 2 * q \in V
    BY <1>1
  <2> QED
    BY <1>1, <1>2, <2>2, <2>3
<1>5. Recursive(D, size, V, G)
  <2>1. V # {} /\ size \in [D -> Nat]
    BY <1>1
  <2>2. G \in [D \X [D -> V] -> V]
    BY <1>2, <1>4
  <2>3. ASSUME NEW p \in D, NEW f \in [D -> V], NEW h \in [D -> V],
               \A q \in D : size[q] < size[p] => f[q] = h[q]
        PROVE  G[<<p, f>>] = G[<<p, h>>]
    <3>1. p # <<0, 0>> => f[<<p[1] \div 2, p[2] \div 2>>] = h[<<p[1] \div 2, p[2] \div 2>>]
      BY <1>3, <2>3
    <3>2. Step(p, f) = Step(p, h)
      BY <3>1
    <3> QED
      BY <1>4, <3>2
  <2> QED
    BY <2>1, <2>2, <2>3 DEF Recursive
<1>6. PICK f \in [D -> V] : \A p \in D : f[p] = G[<<p, f>>]
  BY <1>5, RecursionSolved
<1>7. \A p \in D : f[p] = Step(p, f)
  BY <1>4, <1>6
<1>8. f = [p \in D |-> Step(p, f)]
  BY <1>7
<1> QED
  BY <1>1, <1>8

LEMMA BitByBitIs ==
  ASSUME NEW t, BitTable(t), NEW a \in Nat, NEW b \in Nat
  PROVE  /\ BitByBit(t)[<<a, b>>] \in Nat
         /\ BitByBit(t)[<<a, b>>] \div 2 = BitByBit(t)[<<a \div 2, b \div 2>>]
         /\ BitByBit(t)[<<a, b>>] % 2 = t[<<a % 2, b % 2>>]
<1> DEFINE Step(p, f) == IF p = <<0, 0>> THEN 0
                         ELSE t[<<p[1] % 2, p[2] % 2>>] + 2 * f[<<p[1] \div 2, p[2] \div 2>>]
<1>1. PICK g : g = CHOOSE f : f = [p \in Nat \X Nat |-> Step(p, f)]
  OBVIOUS
<1>2. BitByBit(t) = g
  BY <1>1 DEF BitByBit
<1>3. PICK h \in [Nat \X Nat -> Nat] : h = [p \in Nat \X Nat |-> Step(p, h)]
  BY BitsSolve
<1>4. g = [p \in Nat \X Nat |-> Step(p, g)]
  BY <1>1, <1>3
<1>5. \A x, y \in Nat : g[<<x, y>>] = IF x = 0 /\ y = 0 THEN 0 ELSE t[<<x % 2, y % 2>>] + 2 * g[<<x \div 2, y \div 2>>]
  BY <1>4
<1>6. \A x, y \in Nat : t[<<x % 2, y % 2>>] \in {0, 1} /\ x \div 2 \in Nat /\ y \div 2 \in Nat
  <2> TAKE x, y \in Nat
  <2>1. x % 2 \in {0, 1} /\ y % 2 \in {0, 1} /\ x \div 2 \in Nat /\ y \div 2 \in Nat
    BY Halves
  <2>2. <<x % 2, y % 2>> \in Bits
    BY <2>1 DEF Bits
  <2> QED
    BY <2>1, <2>2 DEF BitTable
<1>7. \A x, y \in Nat : g[<<x, y>>] \in Nat
  <2> DEFINE Bad == {n \in Nat : \E x, y \in Nat : n = x + y /\ g[<<x, y>>] \notin Nat}
  <2> HIDE DEF Bad
  <2>0. SUFFICES ASSUME NEW x0 \in Nat, NEW y0 \in Nat, g[<<x0, y0>>] \notin Nat PROVE FALSE
    OBVIOUS
  <2>1. \E n0 \in Bad : n0 = x0 + y0
    <3>1. PICK n0 \in Nat : n0 = x0 + y0
      OBVIOUS
    <3> QED
      BY <2>0, <3>1 DEF Bad
  <2>2. PICK n \in Bad : \A m \in Bad : n <= m
    BY <2>1, LeastNat DEF Bad
  <2>3. PICK x \in Nat, y \in Nat : n = x + y /\ g[<<x, y>>] \notin Nat
    BY <2>2 DEF Bad
  <2>4. ~ (x = 0 /\ y = 0)
    BY <1>5, <2>3
  <2>5. PICK u \in Nat, v \in Nat : u = x \div 2 /\ v = y \div 2
    BY <1>6
  <2>6. u + v < x + y
    BY <2>4, <2>5
  <2>7. u + v \in Nat /\ ~ n <= u + v
    BY <2>3, <2>6
  <2>8. g[<<u, v>>] \in Nat
    BY <2>2, <2>7 DEF Bad
  <2>9. g[<<x, y>>] = t[<<x % 2, y % 2>>] + 2 * g[<<u, v>>] /\ t[<<x % 2, y % 2>>] \in {0, 1}
    BY <1>5, <1>6, <2>4, <2>5
  <2> QED
    BY <2>3, <2>8, <2>9
<1>8. g[<<a, b>>] = 2 * g[<<a \div 2, b \div 2>>] + t[<<a % 2, b % 2>>]
  <2>1. CASE a = 0 /\ b = 0
    <3>1. a \div 2 = 0 /\ b \div 2 = 0 /\ a % 2 = 0 /\ b % 2 = 0
      BY <2>1
    <3> QED
      BY <1>5, <2>1, <3>1 DEF BitTable
  <2>2. CASE ~ (a = 0 /\ b = 0)
    <3>1. PICK x, y \in Nat : x = t[<<a % 2, b % 2>>] /\ y = g[<<a \div 2, b \div 2>>]
      BY <1>6, <1>7
    <3> QED
      BY <1>5, <2>2, <3>1
  <2> QED
    BY <2>1, <2>2
<1>9. PICK q \in Nat, r \in {0, 1} : q = g[<<a \div 2, b \div 2>>] /\ r = t[<<a % 2, b % 2>>]
  BY <1>6, <1>7
<1>10. g[<<a, b>>] \div 2 = q /\ g[<<a, b>>] % 2 = r
  BY <1>8, <1>9, HalfOf
<1> QED
  BY <1>2, <1>7, <1>9, <1>10

XorTable == [p \in Bits |-> (p[1] + p[2]) % 2]
OrTable == [p \in Bits |-> IF p = <<0, 0>> THEN 0 ELSE 1]

LEMMA Tables == BitTable(XorTable) /\ BitTable(OrTable)
<1>1. \A p \in Bits : (p[1] + p[2]) % 2 \in {0, 1}
  BY DEF Bits
<1>2. <<0, 0>> \in Bits /\ (0 + 0) % 2 = 0
  BY DEF Bits
<1> QED
  BY <1>1, <1>2 DEF BitTable, XorTable, OrTable

XorBits(a, b) ==
  /\ Xor(a, b) \in Nat /\ Xor(a, b) \div 2 = Xor(a \div 2, b \div 2)
  /\ Xor(a, b) % 2 = ((a % 2) + (b % 2)) % 2

LEMMA XorIs == ASSUME NEW a \in Nat, NEW b \in Nat PROVE XorBits(a, b)
<1>1. \A x, y : Xor(x, y) = BitByBit(XorTable)[<<x, y>>]
  BY DEF Xor, XorTable
<1>2. <<a % 2, b % 2>> \in Bits
  BY Halves DEF Bits
<1>3. XorTable[<<a % 2, b % 2>>] = ((a % 2) + (b % 2)) % 2
  BY <1>2 DEF XorTable
<1> QED
  BY <1>1, <1>3, Tables, BitByBitIs DEF XorBits

OrBits(a, b) ==
  /\ Or(a, b) \in Nat /\ Or(a, b) \div 2 = Or(a \div 2, b \div 2)
  /\ Or(a, b) % 2 = IF a % 2 = 0 /\ b % 2 = 0 THEN 0 ELSE 1

LEMMA OrIs == ASSUME NEW a \in Nat, NEW b \in Nat PROVE OrBits(a, b)
<1>1. \A x, y : Or(x, y) = BitByBit(OrTable)[<<x, y>>]
  BY DEF Or, OrTable
<1>2. <<a % 2, b % 2>> \in Bits
  BY Halves DEF Bits
<1>3. OrTable[<<a % 2, b % 2>>] = IF a % 2 = 0 /\ b % 2 = 0 THEN 0 ELSE 1
  BY <1>2 DEF OrTable
<1> QED
  BY <1>1, <1>3, Tables, BitByBitIs DEF OrBits

(* Exclusive or can be undone.                                              *)
LEMMA SameHalves ==
  ASSUME NEW a \in Nat, NEW b \in Nat, a \div 2 = b \div 2, a % 2 = b % 2
  PROVE  a = b
  BY Halves

LEMMA XorSwapped == \A a, b \in Nat : Xor(a, b) = Xor(b, a)
<1> DEFINE Bad == {n \in Nat : \E a, b \in Nat : n = a + b /\ Xor(a, b) # Xor(b, a)}
<1> HIDE DEF Bad
<1>1. SUFFICES ASSUME NEW a0 \in Nat, NEW b0 \in Nat, Xor(a0, b0) # Xor(b0, a0) PROVE FALSE
  OBVIOUS
<1>2. PICK n0 \in Nat : n0 = a0 + b0
  OBVIOUS
<1>3. n0 \in Bad
  BY <1>1, <1>2 DEF Bad
<1>4. PICK n \in Bad : \A m \in Bad : n <= m
  BY <1>3, LeastNat DEF Bad
<1>5. PICK a \in Nat, b \in Nat : n = a + b /\ Xor(a, b) # Xor(b, a)
  BY <1>4 DEF Bad
<1>6. PICK u \in Nat, v \in Nat : u = a \div 2 /\ v = b \div 2
  BY Halves
<1>7. a # 0 \/ b # 0
  BY <1>5
<1>8. PICK m \in Nat : m = u + v /\ m < a + b
  BY <1>6, <1>7
<1>9. ~ n <= m
  BY <1>5, <1>8
<1>10. Xor(u, v) = Xor(v, u)
  BY <1>4, <1>8, <1>9 DEF Bad
<1>11. (a % 2) + (b % 2) = (b % 2) + (a % 2)
  BY Halves
<1>12. /\ Xor(a, b) \in Nat /\ Xor(b, a) \in Nat
       /\ Xor(a, b) \div 2 = Xor(b, a) \div 2 /\ Xor(a, b) % 2 = Xor(b, a) % 2
  <2>1. XorBits(a, b) /\ XorBits(b, a)
    BY XorIs
  <2> QED
    BY <1>6, <1>10, <1>11, <2>1 DEF XorBits
<1> QED
  BY <1>5, <1>12, SameHalves

LEMMA XorSecond ==
  ASSUME NEW a \in Nat, NEW b \in Nat, NEW c \in Nat, Xor(a, b) = Xor(a, c)
  PROVE  b = c
<1> DEFINE Bad == {n \in Nat : \E x, y, z \in Nat : n = y + z /\ Xor(x, y) = Xor(x, z) /\ y # z}
<1> HIDE DEF Bad
<1>1. SUFFICES ASSUME b # c PROVE FALSE
  OBVIOUS
<1>2. PICK n0 \in Nat : n0 = b + c
  OBVIOUS
<1>3. n0 \in Bad
  BY <1>1, <1>2 DEF Bad
<1>4. PICK n \in Bad : \A m \in Bad : n <= m
  BY <1>3, LeastNat DEF Bad
<1>5. PICK x \in Nat, y \in Nat, z \in Nat : n = y + z /\ Xor(x, y) = Xor(x, z) /\ y # z
  BY <1>4 DEF Bad
<1>6. PICK t \in Nat, u \in Nat, v \in Nat : t = x \div 2 /\ u = y \div 2 /\ v = z \div 2
  BY Halves
<1>7. XorBits(x, y) /\ XorBits(x, z)
  BY XorIs
<1>8. PICK m \in Nat : m = u + v /\ m < y + z
  BY <1>5, <1>6
<1>9. ~ n <= m
  BY <1>5, <1>8
<1>10. Xor(t, u) = Xor(t, v)
  BY <1>5, <1>6, <1>7 DEF XorBits
<1>11. u = v
  <2>1. SUFFICES ASSUME u # v PROVE FALSE
    OBVIOUS
  <2>2. m \in Bad
    <3>1. m = u + v /\ Xor(t, u) = Xor(t, v) /\ u # v
      BY <1>8, <1>10, <2>1
    <3> QED
      BY <3>1 DEF Bad
  <2> QED
    BY <1>4, <1>9, <2>2
<1>12. ((x % 2) + (y % 2)) % 2 = ((x % 2) + (z % 2)) % 2
  BY <1>5, <1>7 DEF XorBits
<1>13. y % 2 = z % 2
  <2>1. PICK i \in {0, 1}, j \in {0, 1}, k \in {0, 1} : i = x % 2 /\ j = y % 2 /\ k = z % 2
    BY Halves
  <2>2. (i + j) % 2 = (i + k) % 2
    BY <1>12, <2>1
  <2> QED
    BY <2>1, <2>2
<1> QED
  BY <1>5, <1>6, <1>11, <1>13, SameHalves

LEMMA XorFirst ==
  ASSUME NEW a \in Nat, NEW b \in Nat, NEW c \in Nat, Xor(b, a) = Xor(c, a)
  PROVE  b = c
  BY XorSwapped, XorSecond

LEMMA XorBelow ==
  ASSUME NEW n \in Nat
  PROVE  \A a, b \in 0 .. Pow2[n] - 1 : Xor(a, b) \in 0 .. Pow2[n] - 1
<1> DEFINE Good == {k \in Nat : \A a, b \in 0 .. Pow2[k] - 1 : Xor(a, b) \in 0 .. Pow2[k] - 1}
<1> HIDE DEF Good
<1>1. 0 \in Good
  <2>1. \A a \in 0 .. Pow2[0] - 1 : a = 0
    BY Pow2Is
  <2>2. Xor(0, 0) \in Nat /\ Xor(0, 0) \div 2 = Xor(0 \div 2, 0 \div 2) /\ Xor(0, 0) % 2 = ((0 % 2) + (0 % 2)) % 2
    <3>1. XorBits(0, 0)
      BY XorIs
    <3> QED
      BY <3>1 DEF XorBits
  <2>3. 0 \div 2 = 0 /\ 0 % 2 = 0
    OBVIOUS
  <2>4. PICK x \in Nat : x = Xor(0, 0)
    BY <2>2
  <2>5. x \div 2 = x /\ x % 2 = 0
    BY <2>2, <2>3, <2>4
  <2>6. x = 0
    BY <2>5
  <2>7. 0 \in 0 .. Pow2[0] - 1
    BY Pow2Is
  <2> QED
    BY <2>1, <2>4, <2>6, <2>7 DEF Good
<1>2. ASSUME NEW k \in Good PROVE k + 1 \in Good
  <2>1. PICK p \in Nat \ {0} : p = Pow2[k] /\ Pow2[k + 1] = 2 * p
    BY Pow2Typed, Pow2Is DEF Good
  <2>2. ASSUME NEW a \in 0 .. 2 * p - 1, NEW b \in 0 .. 2 * p - 1 PROVE Xor(a, b) \in 0 .. 2 * p - 1
    <3>1. PICK u \in 0 .. p - 1, v \in 0 .. p - 1 : u = a \div 2 /\ v = b \div 2
      OBVIOUS
    <3>2. PICK x \in 0 .. p - 1 : x = Xor(u, v)
      BY <2>1, <3>1 DEF Good
    <3>3. XorBits(a, b)
      <4>1. a \in Nat /\ b \in Nat
        OBVIOUS
      <4> QED
        BY <4>1, XorIs
    <3>4. PICK y \in Nat : y = Xor(a, b) /\ y \div 2 = x
      BY <3>1, <3>2, <3>3 DEF XorBits
    <3>5. y \in 0 .. 2 * p - 1
      BY <3>4
    <3> QED
      BY <3>4, <3>5
  <2> QED
    BY <2>1, <2>2 DEF Good
<1>3. Good = Nat
  BY <1>1, <1>2, Upwards DEF Good
<1> QED
  BY <1>3 DEF Good

-----------------------------------------------------------------------------
(* Division.                                                                *)

LEMMA DivOf ==
  ASSUME NEW Q \in Nat \ {0}, NEW q \in Nat, NEW r \in 0 .. Q - 1
  PROVE  (Q * q + r) \div Q = q /\ (Q * q + r) % Q = r
  OBVIOUS

LEMMA DivSplit ==
  ASSUME NEW Q \in Nat \ {0}, NEW a \in Nat
  PROVE  a \div Q \in Nat /\ a % Q \in 0 .. Q - 1 /\ a = Q * (a \div Q) + (a % Q)
  OBVIOUS

LEMMA DivTwice ==
  ASSUME NEW Q \in Nat \ {0}, NEW a \in Nat
  PROVE  a \div (2 * Q) = (a \div 2) \div Q /\ (a \div Q) \div 2 = (a \div 2) \div Q
<1>0. PICK b \in Nat : b = a \div 2
  BY Halves
<1>1. PICK q \in Nat, r \in 0 .. Q - 1 : a \div 2 = Q * q + r
  <2>1. b \div Q \in Nat /\ b % Q \in 0 .. Q - 1 /\ b = Q * (b \div Q) + (b % Q)
    BY DivSplit
  <2> QED
    BY <1>0, <2>1
<1>2. PICK s \in {0, 1} : a = 2 * (Q * q + r) + s
  BY <1>1, Halves
<1>3. PICK x \in Nat : x = Q * q
  OBVIOUS
<1>4. a = 2 * x + (2 * r + s) /\ 2 * x = (2 * Q) * q /\ 2 * x = Q * (2 * q)
  BY <1>2, <1>3
<1>5. a \div (2 * Q) = q
  <2>1. 2 * r + s \in 0 .. 2 * Q - 1 /\ 2 * Q \in Nat \ {0}
    OBVIOUS
  <2> QED
    BY <1>4, <2>1, DivOf
<1>6. (a \div 2) \div Q = q
  BY <1>1, DivOf
<1>7. (a \div Q) \div 2 = q
  <2>1. PICK w \in Nat, i \in {0, 1} : w = 2 * q + i /\ a \div Q = w
    <3>1. CASE 2 * r + s < Q
      <4>1. a \div Q = 2 * q
        BY <1>4, <3>1, DivOf
      <4> QED
        BY <4>1
    <3>2. CASE ~ 2 * r + s < Q
      <4>1. PICK e \in 0 .. Q - 1 : e = (2 * r + s) - Q
        BY <3>2
      <4>2. Q * (2 * q + 1) = Q * (2 * q) + Q
        OBVIOUS
      <4>3. a = Q * (2 * q + 1) + e
        BY <1>3, <1>4, <4>1, <4>2
      <4>4. a \div Q = 2 * q + 1
        BY <4>3, DivOf
      <4> QED
        BY <4>4
    <3> QED
      BY <3>1, <3>2
  <2> QED
    BY <2>1, HalfOf
<1> QED
  BY <1>5, <1>6, <1>7

-----------------------------------------------------------------------------
(* Each operation on words can be undone.                                   *)

(* What is shifted is halved with it.                                       *)
LEMMA ShiftHalved ==
  ASSUME NEW n \in Nat, NEW a \in Nat
  PROVE  /\ Right(a, n) \in Nat /\ Right(a, n) \div 2 = Right(a \div 2, n)
         /\ Right(a, n + 1) = Right(a \div 2, n) /\ Right(a, n) <= a
<1>1. PICK p \in Nat \ {0} : p = Pow2[n] /\ Pow2[n + 1] = 2 * p
  BY Pow2Typed, Pow2Is
<1>2. a \div p \in Nat /\ a \div p <= a
  <2>1. PICK q \in Nat, r \in Nat : q = a \div p /\ a = p * q + r
    BY DivSplit
  <2>2. q <= p * q
    OBVIOUS
  <2>3. q <= a
    BY <2>1, <2>2
  <2> QED
    BY <2>1, <2>3
<1>3. (a \div p) \div 2 = (a \div 2) \div p /\ a \div (2 * p) = (a \div 2) \div p
  BY DivTwice
<1> QED
  BY <1>1, <1>2, <1>3 DEF Right

LEMMA FoldUndone ==
  ASSUME NEW n \in Nat \ {0}, NEW a \in Nat, NEW b \in Nat, Fold(a, n) = Fold(b, n)
  PROVE  a = b
<1> DEFINE Bad == {k \in Nat : \E x, y \in Nat : k = x + y /\ Fold(x, n) = Fold(y, n) /\ x # y}
<1> HIDE DEF Bad
<1>1. SUFFICES ASSUME a # b PROVE FALSE
  OBVIOUS
<1>2. PICK k0 \in Nat : k0 = a + b
  OBVIOUS
<1>3. k0 \in Bad
  BY <1>1, <1>2 DEF Bad
<1>4. PICK k \in Bad : \A m \in Bad : k <= m
  BY <1>3, LeastNat DEF Bad
<1>5. PICK x \in Nat, y \in Nat : k = x + y /\ Fold(x, n) = Fold(y, n) /\ x # y
  BY <1>4 DEF Bad
<1>6. PICK u \in Nat, v \in Nat : u = x \div 2 /\ v = y \div 2
  BY Halves
<1>7. PICK m \in Nat : m = u + v /\ m < x + y
  BY <1>5, <1>6
<1>8. ~ k <= m
  BY <1>5, <1>7
<1>9. PICK i \in Nat : n = i + 1
  <2>1. n - 1 \in Nat /\ n = (n - 1) + 1
    OBVIOUS
  <2> QED
    BY <2>1
<1>10. PICK c \in Nat, d \in Nat : c = Right(x, n) /\ d = Right(y, n)
  BY ShiftHalved
<1>11. c \div 2 = Right(u, n) /\ d \div 2 = Right(v, n)
  BY <1>6, <1>10, ShiftHalved
<1>12. c = Right(u, i) /\ d = Right(v, i)
  BY <1>6, <1>9, <1>10, ShiftHalved
<1>13. XorBits(x, c) /\ XorBits(y, d) /\ Xor(x, c) = Xor(y, d)
  BY <1>5, <1>10, XorIs DEF Fold
<1>14. Fold(u, n) = Fold(v, n)
  BY <1>6, <1>11, <1>13 DEF XorBits, Fold
<1>15. u = v
  <2>1. SUFFICES ASSUME u # v PROVE FALSE
    OBVIOUS
  <2>2. m \in Bad
    <3>1. m = u + v /\ Fold(u, n) = Fold(v, n) /\ u # v
      BY <1>7, <1>14, <2>1
    <3> QED
      BY <3>1 DEF Bad
  <2> QED
    BY <1>4, <1>8, <2>2
<1>16. x % 2 = y % 2
  <2>1. c = d
    BY <1>12, <1>15
  <2>2. ((x % 2) + (c % 2)) % 2 = ((y % 2) + (c % 2)) % 2
    BY <1>13, <2>1 DEF XorBits
  <2>3. PICK p \in {0, 1}, q \in {0, 1}, r \in {0, 1} : p = x % 2 /\ q = y % 2 /\ r = c % 2
    BY Halves
  <2>4. (p + r) % 2 = (q + r) % 2
    BY <2>2, <2>3
  <2> QED
    BY <2>3, <2>4
<1> QED
  BY <1>5, <1>6, <1>15, <1>16, SameHalves

(* Equal remainders differ by a multiple.                                   *)
LEMMA SameRest ==
  ASSUME NEW M \in Nat \ {0}, NEW x \in Nat, NEW y \in Nat, x % M = y % M, x <= y
  PROVE  \E k \in Nat : y = x + M * k
<1>1. PICK p \in Nat, q \in Nat, r \in Nat : x = M * p + r /\ y = M * q + r
  <2>1. x \div M \in Nat /\ x % M \in 0 .. M - 1 /\ x = M * (x \div M) + (x % M)
    BY DivSplit
  <2>2. y \div M \in Nat /\ y = M * (y \div M) + (y % M)
    BY DivSplit
  <2>3. PICK p \in Nat, q \in Nat, r \in Nat : p = x \div M /\ q = y \div M /\ r = x % M
    BY <2>1, <2>2
  <2>4. x = M * p + r /\ y = M * q + r
    BY <2>1, <2>2, <2>3
  <2> QED
    BY <2>4
<1>2. p <= q
  <2>1. SUFFICES ASSUME q + 1 <= p PROVE FALSE
    BY <1>1
  <2>2. PICK e \in Nat : p = (q + 1) + e
    <3>1. p - (q + 1) \in Nat /\ p = (q + 1) + (p - (q + 1))
      BY <2>1
    <3> QED
      BY <3>1
  <2>3. M * p = M * q + M + M * e /\ M * e \in Nat /\ M * q \in Nat
    BY <2>2
  <2>4. M * p > M * q
    BY <2>3
  <2> QED
    BY <1>1, <2>3, <2>4
<1>3. PICK k \in Nat : q = p + k
  <2>1. q - p \in Nat /\ q = p + (q - p)
    BY <1>2
  <2> QED
    BY <2>1
<1>4. M * q = M * p + M * k
  BY <1>3
<1>5. M * p \in Nat /\ M * k \in Nat
  OBVIOUS
<1>6. y = x + M * k
  BY <1>1, <1>4, <1>5
<1> QED
  BY <1>6

(* A power of two divides what it divides times an odd number.              *)
LEMMA OddOut ==
  ASSUME NEW n \in Nat, NEW m \in Nat, m % 2 = 1
  PROVE  \A d, k \in Nat : m * d = Pow2[n] * k => \E j \in Nat : d = Pow2[n] * j
<1> DEFINE Good == {i \in Nat : \A d, k \in Nat : m * d = Pow2[i] * k => \E j \in Nat : d = Pow2[i] * j}
<1> HIDE DEF Good
<1>1. 0 \in Good
  <2>1. \A d \in Nat : d = Pow2[0] * d
    BY Pow2Is
  <2> QED
    BY <2>1 DEF Good
<1>2. ASSUME NEW i \in Good PROVE i + 1 \in Good
  <2>1. PICK p \in Nat \ {0} : p = Pow2[i] /\ Pow2[i + 1] = 2 * p
    BY Pow2Typed, Pow2Is DEF Good
  <2>2. ASSUME NEW d \in Nat, NEW k \in Nat, m * d = (2 * p) * k PROVE \E j \in Nat : d = (2 * p) * j
    <3>1. PICK w \in Nat : w = p * k /\ m * d = 2 * w
      <4>1. p * k \in Nat /\ (2 * p) * k = 2 * (p * k)
        OBVIOUS
      <4> QED
        BY <2>2, <4>1
    <3>2. PICK h \in Nat : m = 2 * h + 1
      <4>1. m \div 2 \in Nat /\ m = 2 * (m \div 2) + 1
        BY Halves
      <4> QED
        BY <4>1
    <3>3. PICK e \in Nat, r \in {0, 1} : d = 2 * e + r
      <4>1. d \div 2 \in Nat /\ d % 2 \in {0, 1} /\ d = 2 * (d \div 2) + (d % 2)
        BY Halves
      <4> QED
        BY <4>1
    <3>4. PICK x \in Nat, y \in Nat : x = h * d /\ y = m * e
      OBVIOUS
    <3>5. m * d = 2 * x + d
      BY <3>2, <3>4
    <3>6. r = 0
      BY <3>1, <3>3, <3>5
    <3>7. m * d = 2 * y
      <4>1. d = 2 * e
        BY <3>3, <3>6
      <4>2. m * (2 * e) = 2 * (m * e)
        OBVIOUS
      <4> QED
        BY <3>4, <4>1, <4>2
    <3>8. y = w
      BY <3>1, <3>7
    <3>9. PICK j \in Nat : e = p * j
      BY <2>1, <3>1, <3>4, <3>8 DEF Good
    <3>10. d = (2 * p) * j
      <4>1. d = 2 * e
        BY <3>3, <3>6
      <4>2. 2 * (p * j) = (2 * p) * j
        OBVIOUS
      <4> QED
        BY <3>9, <4>1, <4>2
    <3> QED
      BY <3>10
  <2> QED
    BY <2>1, <2>2 DEF Good
<1>3. Good = Nat
  BY <1>1, <1>2, Upwards DEF Good
<1> QED
  BY <1>3 DEF Good

(* The words.                                                               *)
LEMMA WordsAre ==
  /\ Pow2[WordBits] \in Nat \ {0} /\ Word = 0 .. Pow2[WordBits] - 1 /\ Word \subseteq Nat
  /\ \A a, b \in Word : Xor(a, b) \in Word
  /\ \A a, b \in Nat : Add(a, b) \in Word /\ Mul(a, b) \in Word
  /\ \A a \in Word, n \in Nat : Left(a, n) \in Word /\ Right(a, n) \in Word /\ Fold(a, n) \in Word
<1>1. WordBits \in Nat
  BY MixingAssumption
<1>2. PICK M \in Nat \ {0} : M = Pow2[WordBits] /\ Word = 0 .. M - 1
  BY <1>1, Pow2Typed DEF Word
<1>3. \A x \in Nat : x % M \in Word
  BY <1>2
<1>4. \A a, b \in Nat : Add(a, b) \in Word /\ Mul(a, b) \in Word
  <2> TAKE a, b \in Nat
  <2>1. a + b \in Nat /\ a * b \in Nat
    OBVIOUS
  <2> QED
    BY <1>2, <1>3, <2>1 DEF Add, Mul
<1>5. \A a, b \in Word : Xor(a, b) \in Word
  BY <1>1, <1>2, XorBelow
<1>6. \A a \in Word, n \in Nat : Left(a, n) \in Word /\ Right(a, n) \in Word /\ Fold(a, n) \in Word
  <2> TAKE a \in Word, n \in Nat
  <2>1. PICK p \in Nat : p = Pow2[n]
    BY Pow2Typed
  <2>2. a \in Nat /\ a * p \in Nat
    BY <1>2
  <2>3. Left(a, n) \in Word
    BY <1>2, <1>3, <2>1, <2>2 DEF Left
  <2>4. PICK r \in Nat : r = Right(a, n) /\ r <= a
    BY <2>2, ShiftHalved
  <2>5. r \in Word
    BY <1>2, <2>4
  <2> QED
    BY <1>5, <2>3, <2>4, <2>5 DEF Fold
<1> QED
  BY <1>2, <1>4, <1>5, <1>6

(* A word is less than one from it.                                         *)
LEMMA NoMultiple ==
  ASSUME NEW M \in Nat \ {0}, NEW a \in 0 .. M - 1, NEW b \in 0 .. M - 1, NEW k \in Nat, b = a + M * k
  PROVE  a = b
<1>1. SUFFICES ASSUME k # 0 PROVE FALSE
  OBVIOUS
<1>2. M * k >= M
  BY <1>1
<1> QED
  BY <1>2

LEMMA AddUndone ==
  ASSUME NEW a \in Word, NEW b \in Word, NEW c \in Nat, Add(a, c) = Add(b, c)
  PROVE  a = b
<1>1. PICK M \in Nat \ {0} : M = Pow2[WordBits] /\ Word = 0 .. M - 1
  BY WordsAre
<1>2. ASSUME NEW x \in Word, NEW y \in Word, Add(x, c) = Add(y, c), x <= y PROVE x = y
  <2>1. (x + c) % M = (y + c) % M /\ x + c \in Nat /\ y + c \in Nat /\ x + c <= y + c
    BY <1>1, <1>2 DEF Add
  <2>2. PICK k \in Nat : y + c = (x + c) + M * k
    BY <2>1, SameRest
  <2>3. PICK w \in Nat : w = M * k
    OBVIOUS
  <2>4. y = x + M * k
    <3>1. y \in Nat /\ x \in Nat /\ y + c = (x + c) + w
      BY <1>1, <2>2, <2>3
    <3>2. y = x + w
      BY <3>1
    <3> QED
      BY <2>3, <3>2
  <2> QED
    BY <1>1, <2>4, NoMultiple
<1>3. a <= b \/ b <= a
  BY <1>1
<1> QED
  BY <1>2, <1>3

LEMMA MulUndone ==
  ASSUME NEW a \in Word, NEW b \in Word, NEW m \in Nat, m % 2 = 1, Mul(a, m) = Mul(b, m)
  PROVE  a = b
<1>1. PICK M \in Nat \ {0} : M = Pow2[WordBits] /\ Word = 0 .. M - 1
  BY WordsAre
<1>2. ASSUME NEW x \in Word, NEW y \in Word, Mul(x, m) = Mul(y, m), x <= y PROVE x = y
  <2>1. PICK d \in Nat : y = x + d
    <3>1. y - x \in Nat /\ y = x + (y - x)
      BY <1>1, <1>2
    <3> QED
      BY <3>1
  <2>2. x \in Nat /\ y \in Nat
    BY <1>1
  <2>3. PICK s \in Nat, t \in Nat, e \in Nat : s = x * m /\ t = y * m /\ e = m * d /\ t = s + e
    <3>1. (x + d) * m = x * m + m * d
      BY <2>2
    <3>2. x * m \in Nat /\ m * d \in Nat
      BY <2>2
    <3> QED
      BY <2>1, <3>1, <3>2
  <2>4. s % M = t % M
    BY <1>1, <1>2, <2>3 DEF Mul
  <2>5. PICK k \in Nat : t = s + M * k
    <3>1. s <= t
      BY <2>3
    <3> QED
      BY <2>4, <3>1, SameRest
  <2>6. m * d = Pow2[WordBits] * k /\ WordBits \in Nat
    <3>1. PICK w \in Nat : w = M * k
      OBVIOUS
    <3>2. e = w
      BY <2>3, <2>5, <3>1
    <3> QED
      BY <1>1, <2>3, <3>1, <3>2, MixingAssumption
  <2>7. PICK j \in Nat : d = M * j
    <3>1. \A g, h \in Nat : m * g = Pow2[WordBits] * h => \E j \in Nat : g = Pow2[WordBits] * j
      BY <2>6, OddOut
    <3> QED
      BY <1>1, <2>6, <3>1
  <2> QED
    BY <1>1, <2>1, <2>7, NoMultiple
<1>3. a <= b \/ b <= a
  BY <1>1
<1> QED
  BY <1>2, <1>3

(* Parts of a word that do not overlap are added by or.                     *)
LEMMA OrAdds ==
  ASSUME NEW n \in Nat
  PROVE  \A x \in Nat, b \in 0 .. Pow2[n] - 1 :
           Or(x * Pow2[n], b) = x * Pow2[n] + b /\ Or(b, x * Pow2[n]) = x * Pow2[n] + b
<1> DEFINE Adds(i, x, b) == Or(x * Pow2[i], b) = x * Pow2[i] + b /\ Or(b, x * Pow2[i]) = x * Pow2[i] + b
           Good == {i \in Nat : \A x \in Nat, b \in 0 .. Pow2[i] - 1 : Adds(i, x, b)}
<1> HIDE DEF Good
<1>1. 0 \in Good
  <2>1. Or(0, 0) = 0
    <3>1. OrBits(0, 0)
      BY OrIs
    <3>2. PICK x \in Nat : x = Or(0, 0)
      BY <3>1 DEF OrBits
    <3>3. 0 \div 2 = 0 /\ 0 % 2 = 0
      OBVIOUS
    <3>4. x \div 2 = x /\ x % 2 = 0
      BY <3>1, <3>2, <3>3 DEF OrBits
    <3> QED
      BY <3>2, <3>4
  <2>2. \A x \in Nat : Or(x, 0) = x /\ Or(0, x) = x
    <3> DEFINE Bad == {x \in Nat : ~ (Or(x, 0) = x /\ Or(0, x) = x)}
    <3> HIDE DEF Bad
    <3>1. SUFFICES ASSUME Bad # {} PROVE FALSE
      BY DEF Bad
    <3>2. PICK x \in Bad : \A y \in Bad : x <= y
      BY <3>1, LeastNat DEF Bad
    <3>3. x \in Nat /\ x # 0
      BY <2>1, <3>2 DEF Bad
    <3>4. PICK h \in Nat : h = x \div 2 /\ h < x
      BY <3>3, Halves
    <3>5. Or(h, 0) = h /\ Or(0, h) = h
      BY <3>2, <3>3, <3>4 DEF Bad
    <3>6. OrBits(x, 0) /\ OrBits(0, x)
      BY <3>3, OrIs
    <3>7. 0 \div 2 = 0 /\ 0 % 2 = 0 /\ x % 2 \in {0, 1}
      BY <3>3, Halves
    <3>8. Or(x, 0) \in Nat /\ Or(x, 0) \div 2 = x \div 2 /\ Or(x, 0) % 2 = x % 2
      BY <3>4, <3>5, <3>6, <3>7 DEF OrBits
    <3>9. Or(0, x) \in Nat /\ Or(0, x) \div 2 = x \div 2 /\ Or(0, x) % 2 = x % 2
      BY <3>4, <3>5, <3>6, <3>7 DEF OrBits
    <3>10. Or(x, 0) = x /\ Or(0, x) = x
      BY <3>3, <3>8, <3>9, SameHalves
    <3> QED
      BY <3>2, <3>10 DEF Bad
  <2>3. ASSUME NEW x \in Nat, NEW b \in 0 .. Pow2[0] - 1 PROVE Adds(0, x, b)
    <3>1. b = 0 /\ x * Pow2[0] = x
      BY Pow2Is
    <3> QED
      BY <2>2, <3>1
  <2> QED
    BY <2>3 DEF Good
<1>2. ASSUME NEW i \in Good PROVE i + 1 \in Good
  <2>1. PICK p \in Nat \ {0} : p = Pow2[i] /\ Pow2[i + 1] = 2 * p
    BY Pow2Typed, Pow2Is DEF Good
  <2>2. ASSUME NEW x \in Nat, NEW b \in 0 .. 2 * p - 1 PROVE Adds(i + 1, x, b)
    <3>1. PICK c \in 0 .. p - 1, r \in {0, 1} : b = 2 * c + r /\ b \div 2 = c /\ b % 2 = r
      <4>1. b \in Nat
        OBVIOUS
      <4>2. b \div 2 \in Nat /\ b % 2 \in {0, 1} /\ b = 2 * (b \div 2) + (b % 2)
        BY <4>1, Halves
      <4>3. b \div 2 \in 0 .. p - 1
        BY <4>2
      <4> QED
        BY <4>2, <4>3
    <3>2. PICK y \in Nat : y = x * p
      OBVIOUS
    <3>3. PICK a \in Nat : a = x * (2 * p) /\ a = 2 * y + 0
      <4>1. x * (2 * p) = 2 * (x * p)
        OBVIOUS
      <4> QED
        BY <3>2, <4>1
    <3>4. a \div 2 = y /\ a % 2 = 0
      BY <3>3, HalfOf
    <3>5. Or(y, c) = y + c /\ Or(c, y) = y + c
      BY <2>1, <3>2 DEF Good
    <3>6. OrBits(a, b) /\ OrBits(b, a)
      <4>1. b \in Nat
        OBVIOUS
      <4> QED
        BY <4>1, OrIs
    <3>7. /\ Or(a, b) \in Nat /\ Or(a, b) \div 2 = y + c /\ Or(a, b) % 2 = r
          /\ Or(b, a) \in Nat /\ Or(b, a) \div 2 = y + c /\ Or(b, a) % 2 = r
      BY <3>1, <3>4, <3>5, <3>6 DEF OrBits
    <3>8. PICK s \in Nat : s = a + b /\ s \div 2 = y + c /\ s % 2 = r
      <4>1. a + b = 2 * (y + c) + r
        BY <3>1, <3>3
      <4> QED
        BY <3>1, <4>1, HalfOf
    <3>9. Or(a, b) = s /\ Or(b, a) = s
      BY <3>7, <3>8, SameHalves
    <3> QED
      BY <2>1, <3>3, <3>8, <3>9
  <2> QED
    BY <2>1, <2>2 DEF Good
<1>3. Good = Nat
  BY <1>1, <1>2, Upwards DEF Good
<1> QED
  BY <1>3 DEF Good

-----------------------------------------------------------------------------
(* The mixers can be undone.                                                *)

Odd(m) == m \in Word /\ m \in Nat /\ m % 2 = 1

LEMMA MixConstants ==
  /\ ShiftA \in Nat \ {0} /\ ShiftB \in Nat \ {0} /\ ShiftC \in Nat \ {0} /\ ShiftD \in Nat \ {0}
  /\ Up \in Nat /\ Down \in Nat /\ Seed \in Word
  /\ Odd(GOLDEN) /\ Odd(PRIME1) /\ Odd(PRIME2) /\ Odd(FMIX)
<1>1. Word \subseteq Nat
  BY WordsAre
<1> QED
  BY <1>1, MixingAssumption DEF Odd

(* A round of a finalizer.                                                  *)
LEMMA RoundTyped ==
  ASSUME NEW a \in Word, NEW n \in Nat \ {0}, NEW m, Odd(m)
  PROVE  Mul(Fold(a, n), m) \in Word
  BY WordsAre DEF Odd

LEMMA RoundUndone ==
  ASSUME NEW a \in Word, NEW b \in Word, NEW n \in Nat \ {0}, NEW m, Odd(m),
         Mul(Fold(a, n), m) = Mul(Fold(b, n), m)
  PROVE  a = b
<1>1. Fold(a, n) \in Word /\ Fold(b, n) \in Word /\ a \in Nat /\ b \in Nat
  BY WordsAre
<1>2. Fold(a, n) = Fold(b, n)
  BY <1>1, MulUndone DEF Odd
<1> QED
  BY <1>1, <1>2, FoldUndone

(* Two rounds and a fold, as all finalizers here are.                       *)
Finalizer(h, i, p, j, q, k) == Fold(Mul(Fold(Mul(Fold(h, i), p), j), q), k)

LEMMA FinalizerUndone ==
  ASSUME NEW i \in Nat \ {0}, NEW j \in Nat \ {0}, NEW k \in Nat \ {0},
         NEW p, Odd(p), NEW q, Odd(q), NEW a \in Word, NEW b \in Word
  PROVE  /\ Finalizer(a, i, p, j, q, k) \in Word
         /\ Finalizer(a, i, p, j, q, k) = Finalizer(b, i, p, j, q, k) => a = b
<1>1. PICK c \in Word, d \in Word : c = Mul(Fold(a, i), p) /\ d = Mul(Fold(b, i), p)
  BY RoundTyped
<1>2. PICK e \in Word, f \in Word : e = Mul(Fold(c, j), q) /\ f = Mul(Fold(d, j), q)
  BY RoundTyped
<1>3. Fold(e, k) \in Word
  BY WordsAre
<1>4. ASSUME Fold(e, k) = Fold(f, k) PROVE a = b
  <2>1. e \in Nat /\ f \in Nat
    BY WordsAre
  <2>2. e = f
    BY <1>4, <2>1, FoldUndone
  <2>3. Mul(Fold(c, j), q) = Mul(Fold(d, j), q)
    BY <1>2, <2>2
  <2>4. c = d
    BY <2>3, RoundUndone
  <2>5. Mul(Fold(a, i), p) = Mul(Fold(b, i), p)
    BY <1>1, <2>4
  <2> QED
    BY <2>5, RoundUndone
<1> QED
  BY <1>1, <1>2, <1>3, <1>4 DEF Finalizer

LEMMA AvalancheUndone ==
  ASSUME NEW a \in Word, NEW b \in Word
  PROVE  Avalanche(a) \in Word /\ (Avalanche(a) = Avalanche(b) => a = b)
<1>1. \A h : Avalanche(h) = Finalizer(h, ShiftA, PRIME1, ShiftB, PRIME2, ShiftC)
  BY DEF Avalanche, Finalizer
<1>2. /\ Finalizer(a, ShiftA, PRIME1, ShiftB, PRIME2, ShiftC) \in Word
      /\ Finalizer(a, ShiftA, PRIME1, ShiftB, PRIME2, ShiftC)
           = Finalizer(b, ShiftA, PRIME1, ShiftB, PRIME2, ShiftC) => a = b
  BY MixConstants, FinalizerUndone
<1> QED
  BY <1>1, <1>2

LEMMA SplitmixUndone ==
  ASSUME NEW a \in Word, NEW b \in Word
  PROVE  splitmix64(a) \in Word /\ (splitmix64(a) = splitmix64(b) => a = b)
<1>1. GOLDEN \in Nat /\ a \in Nat /\ b \in Nat
  BY WordsAre, MixConstants DEF Odd
<1>2. PICK c \in Word, d \in Word : c = Add(a, GOLDEN) /\ d = Add(b, GOLDEN)
  BY <1>1, WordsAre
<1>3. Avalanche(c) \in Word /\ (Avalanche(c) = Avalanche(d) => c = d)
  BY AvalancheUndone
<1>4. c = d => a = b
  BY <1>1, <1>2, AddUndone
<1> QED
  BY <1>2, <1>3, <1>4 DEF splitmix64

(* hash_combine can be undone for its second argument.                      *)
LEMMA CombineUndone ==
  ASSUME NEW h \in Word, NEW a \in Word, NEW b \in Word
  PROVE  hash_combine(h, a) \in Word /\ (hash_combine(h, a) = hash_combine(h, b) => a = b)
<1>1. GOLDEN \in Nat /\ Word \subseteq Nat /\ Up \in Nat /\ Down \in Nat
  BY WordsAre, MixConstants DEF Odd
<1>2. PICK s \in Word : s = Add(Left(h, Up), Right(h, Down))
  <2>1. Left(h, Up) \in Word /\ Right(h, Down) \in Word
    BY <1>1, WordsAre
  <2>2. Left(h, Up) \in Nat /\ Right(h, Down) \in Nat
    BY <1>1, <2>1
  <2> QED
    BY <2>2, WordsAre
<1>3. PICK c \in Word, d \in Word : c = Add(a, GOLDEN) /\ d = Add(b, GOLDEN)
  BY <1>1, WordsAre
<1>4. PICK e \in Word, f \in Word : e = Add(c, s) /\ f = Add(d, s)
  BY <1>1, WordsAre
<1>5. PICK x \in Word, y \in Word : x = Xor(h, e) /\ y = Xor(h, f)
  BY WordsAre
<1>6. splitmix64(x) \in Word /\ (splitmix64(x) = splitmix64(y) => x = y)
  BY SplitmixUndone
<1>7. x = y => e = f
  BY <1>1, <1>5, XorSecond
<1>8. e = f => c = d
  BY <1>1, <1>4, AddUndone
<1>9. c = d => a = b
  BY <1>1, <1>3, AddUndone
<1> QED
  BY <1>2, <1>3, <1>4, <1>5, <1>6, <1>7, <1>8, <1>9 DEF hash_combine

(* A column added can be undone, for what it was added to and for itself.   *)
LEMMA AddedUndone ==
  ASSUME NEW g \in Word, NEW h \in Word, NEW v \in Word, NEW w \in Word, NEW m, Odd(m)
  PROVE  /\ hash_add(g, v, m) \in Word
         /\ hash_add(g, v, m) = hash_add(h, v, m) => g = h
         /\ hash_add(g, v, m) = hash_add(g, w, m) => v = w
<1>1. \A x, y \in Word : Xor(x, y) \in Word /\ x \in Nat
  BY WordsAre
<1>2. \A x, y \in Word : Mul(x, m) \in Word /\ (Mul(x, m) = Mul(y, m) => x = y)
  <2> TAKE x, y \in Word
  <2>1. m \in Nat /\ m % 2 = 1 /\ x \in Nat
    BY <1>1 DEF Odd
  <2>2. Mul(x, m) \in Word
    BY <2>1, WordsAre
  <2> QED
    BY <2>1, <2>2, MulUndone
<1>3. hash_add(g, v, m) \in Word
  BY <1>1, <1>2 DEF hash_add
<1>4. ASSUME hash_add(g, v, m) = hash_add(h, v, m) PROVE g = h
  <2>1. Xor(g, v) = Xor(h, v)
    BY <1>1, <1>2, <1>4 DEF hash_add
  <2> QED
    BY <1>1, <2>1, XorFirst
<1>5. ASSUME hash_add(g, v, m) = hash_add(g, w, m) PROVE v = w
  <2>1. Xor(g, v) = Xor(g, w)
    BY <1>1, <1>2, <1>5 DEF hash_add
  <2> QED
    BY <1>1, <2>1, XorSecond
<1> QED
  BY <1>3, <1>4, <1>5

-----------------------------------------------------------------------------
(* Keys added column by column.                                             *)

ColumnStep(f, k, i, acc) ==
  IF i = 0 THEN Xor(Seed, GOLDEN) ELSE hash_add(acc[i - 1], Cast(f, i, k[i]), Prime(f, i))

(* What is added, and the multipliers.                                      *)
Contributes(f, k) == \A i \in 1 .. Arity(f) : Cast(f, i, k[i]) \in Word /\ Odd(Prime(f, i))

LEMMA ColumnTyped ==
  ASSUME NEW f, NEW k, Contributes(f, k), NEW n \in Nat, n = Arity(f),
         NEW i \in 0 .. n, NEW acc, i # 0 => acc[i - 1] \in Word
  PROVE  ColumnStep(f, k, i, acc) \in Word
<1>1. CASE i = 0
  <2>1. Xor(Seed, GOLDEN) \in Word
    BY WordsAre, MixConstants DEF Odd
  <2> QED
    BY <1>1, <2>1 DEF ColumnStep
<1>2. CASE i # 0
  <2>1. i \in 1 .. n
    BY <1>2
  <2>2. Cast(f, i, k[i]) \in Word /\ Odd(Prime(f, i)) /\ acc[i - 1] \in Word
    BY <1>2, <2>1 DEF Contributes
  <2>3. hash_add(acc[i - 1], Cast(f, i, k[i]), Prime(f, i)) \in Word
    BY <2>2, AddedUndone
  <2> QED
    BY <1>2, <2>3 DEF ColumnStep
<1> QED
  BY <1>1, <1>2

LEMMA ColumnsSolve ==
  ASSUME NEW f, NEW k, Contributes(f, k), NEW n \in Nat, n = Arity(f)
  PROVE  \E acc : acc = [i \in 0 .. n |-> ColumnStep(f, k, i, acc)]
<1>1. PICK D, V, size : D = 0 .. n /\ V = Word /\ size = [i \in D |-> i]
  OBVIOUS
<1>2. PICK G : G = [a \in D \X [D -> V] |-> ColumnStep(f, k, a[1], a[2])]
  OBVIOUS
<1>3. ASSUME NEW i \in D, NEW acc \in [D -> V]
      PROVE  G[<<i, acc>>] = ColumnStep(f, k, i, acc) /\ ColumnStep(f, k, i, acc) \in V
  <2>1. i \in 0 .. n /\ (i # 0 => i - 1 \in D)
    BY <1>1
  <2>2. i # 0 => acc[i - 1] \in Word
    BY <1>1, <2>1
  <2>3. ColumnStep(f, k, i, acc) \in Word
    BY <2>1, <2>2, ColumnTyped
  <2> QED
    BY <1>1, <1>2, <2>3
<1>4. Recursive(D, size, V, G)
  <2>1. V # {} /\ size \in [D -> Nat]
    <3>1. Seed \in Word
      BY MixConstants
    <3> QED
      BY <1>1, <3>1
  <2>2. G \in [D \X [D -> V] -> V]
    BY <1>2, <1>3
  <2>3. ASSUME NEW i \in D, NEW g \in [D -> V], NEW h \in [D -> V],
               \A t \in D : size[t] < size[i] => g[t] = h[t]
        PROVE  G[<<i, g>>] = G[<<i, h>>]
    <3>1. i # 0 => i - 1 \in D /\ size[i - 1] < size[i]
      BY <1>1
    <3>2. i # 0 => g[i - 1] = h[i - 1]
      BY <2>3, <3>1
    <3>3. ColumnStep(f, k, i, g) = ColumnStep(f, k, i, h)
      BY <3>2 DEF ColumnStep
    <3> QED
      BY <1>3, <3>3
  <2> QED
    BY <2>1, <2>2, <2>3 DEF Recursive
<1>5. PICK acc \in [D -> V] : \A i \in D : acc[i] = G[<<i, acc>>]
  BY <1>4, RecursionSolved
<1>6. \A i \in D : acc[i] = ColumnStep(f, k, i, acc)
  BY <1>3, <1>5
<1>7. acc = [i \in D |-> ColumnStep(f, k, i, acc)]
  BY <1>6
<1> QED
  BY <1>1, <1>7

(* The end of Columns, and its accumulator after each column.               *)
Finish(f, h) == IF f = "key_hash" THEN Fold(Mul(Fold(h, ShiftD), FMIX), ShiftD) ELSE Avalanche(h)

Accumulates(f, k, n, acc) ==
  \A i \in 0 .. n : acc[i] \in Word /\ acc[i] = ColumnStep(f, k, i, acc)

LEMMA ColumnsAre ==
  ASSUME NEW f, NEW k, Contributes(f, k), NEW n \in Nat, n = Arity(f)
  PROVE  \E acc : Accumulates(f, k, n, acc) /\ Columns(f, k) = Finish(f, acc[n])
<1>1. PICK a : a = CHOOSE acc : acc = [i \in 0 .. n |-> ColumnStep(f, k, i, acc)]
  OBVIOUS
<1>2. a = [i \in 0 .. n |-> ColumnStep(f, k, i, a)]
  BY <1>1, ColumnsSolve
<1>3. Columns(f, k) = Finish(f, a[n])
  BY <1>1 DEF Columns, Finish, ColumnStep
<1>4. \A i \in 0 .. n : a[i] = ColumnStep(f, k, i, a)
  BY <1>2
<1>5. \A i \in 0 .. n : a[i] \in Word
  <2> DEFINE Good == {i \in Nat : i <= n => a[i] \in Word}
  <2> HIDE DEF Good
  <2>1. 0 \in Good
    <3>1. 0 \in 0 .. n
      OBVIOUS
    <3>2. ColumnStep(f, k, 0, a) \in Word
      BY <3>1, ColumnTyped
    <3> QED
      BY <1>4, <3>1, <3>2 DEF Good
  <2>2. ASSUME NEW i \in Good PROVE i + 1 \in Good
    <3>1. SUFFICES ASSUME i + 1 <= n PROVE a[i + 1] \in Word
      BY DEF Good
    <3>2. i \in Nat /\ i + 1 \in 0 .. n /\ i + 1 # 0 /\ (i + 1) - 1 = i /\ a[i] \in Word
      BY <3>1 DEF Good
    <3>3. ColumnStep(f, k, i + 1, a) \in Word
      BY <3>2, ColumnTyped
    <3> QED
      BY <1>4, <3>2, <3>3
  <2>3. Good = Nat
    BY <2>1, <2>2, Upwards DEF Good
  <2> QED
    BY <2>3 DEF Good
<1> QED
  BY <1>3, <1>4, <1>5 DEF Accumulates

LEMMA FinishUndone ==
  ASSUME NEW f, NEW a \in Word, NEW b \in Word, Finish(f, a) = Finish(f, b)
  PROVE  a = b
<1>1. CASE f = "key_hash"
  <2>1. PICK c \in Word, d \in Word : c = Mul(Fold(a, ShiftD), FMIX) /\ d = Mul(Fold(b, ShiftD), FMIX)
    BY RoundTyped, MixConstants
  <2>2. Fold(c, ShiftD) = Fold(d, ShiftD) /\ c \in Nat /\ d \in Nat
    BY <1>1, <2>1, WordsAre DEF Finish
  <2>3. ShiftD \in Nat \ {0} /\ Odd(FMIX)
    BY MixConstants
  <2>4. c = d
    BY <2>2, <2>3, FoldUndone
  <2>5. Mul(Fold(a, ShiftD), FMIX) = Mul(Fold(b, ShiftD), FMIX)
    BY <2>1, <2>4
  <2> QED
    BY <2>3, <2>5, RoundUndone
<1>2. CASE f # "key_hash"
  BY <1>2, AvalancheUndone DEF Finish
<1> QED
  BY <1>1, <1>2

(* Keys that differ in what one column contributes have different hashes.   *)
LEMMA ColumnsDiffer ==
  ASSUME NEW f, NEW n \in Nat, n = Arity(f), NEW k, NEW l, NEW j \in 1 .. n,
         Contributes(f, k), Contributes(f, l), \A i \in 1 .. n : i # j => k[i] = l[i],
         Cast(f, j, k[j]) # Cast(f, j, l[j])
  PROVE  Columns(f, k) # Columns(f, l)
<1>1. PICK a : Accumulates(f, k, n, a) /\ Columns(f, k) = Finish(f, a[n])
  BY ColumnsAre
<1>2. PICK b : Accumulates(f, l, n, b) /\ Columns(f, l) = Finish(f, b[n])
  BY ColumnsAre
<1> DEFINE Good == {i \in Nat : i <= n => (a[i] = b[i] <=> i < j)}
<1> HIDE DEF Good
<1>3. 0 \in Good
  <2>1. 0 \in 0 .. n /\ 0 < j
    OBVIOUS
  <2>2. a[0] = b[0]
    BY <1>1, <1>2, <2>1 DEF Accumulates, ColumnStep
  <2> QED
    BY <2>1, <2>2 DEF Good
<1>4. ASSUME NEW i \in Good PROVE i + 1 \in Good
  <2>1. SUFFICES ASSUME i + 1 <= n PROVE a[i + 1] = b[i + 1] <=> i + 1 < j
    BY DEF Good
  <2>2. PICK s \in 1 .. n : s = i + 1 /\ s \in 0 .. n /\ s # 0 /\ s - 1 = i /\ i \in 0 .. n
    <3>1. i \in Nat
      BY DEF Good
    <3> QED
      BY <2>1, <3>1
  <2>3. PICK g \in Word, h \in Word : g = a[i] /\ h = b[i]
    BY <1>1, <1>2, <2>2 DEF Accumulates
  <2>4. PICK v \in Word, w \in Word, m \in Word :
          v = Cast(f, s, k[s]) /\ w = Cast(f, s, l[s]) /\ m = Prime(f, s) /\ Odd(m)
    BY DEF Contributes, Odd
  <2>5. a[s] = hash_add(g, v, m) /\ b[s] = hash_add(h, w, m)
    BY <1>1, <1>2, <2>2, <2>3, <2>4 DEF Accumulates, ColumnStep
  <2>6. g = h <=> i < j
    BY <2>2, <2>3 DEF Good
  <2>7. CASE s < j
    <3>1. g = h /\ v = w
      BY <2>2, <2>4, <2>6, <2>7
    <3> QED
      BY <2>2, <2>5, <2>7, <3>1
  <2>8. CASE s = j
    <3>1. g = h /\ v # w
      BY <2>2, <2>4, <2>6, <2>8
    <3>2. hash_add(g, v, m) # hash_add(g, w, m)
      BY <2>4, <3>1, AddedUndone
    <3> QED
      BY <2>2, <2>5, <2>8, <3>1, <3>2
  <2>9. CASE s > j
    <3>1. g # h /\ v = w
      BY <2>2, <2>4, <2>6, <2>9
    <3>2. hash_add(g, v, m) # hash_add(h, v, m)
      BY <2>4, <3>1, AddedUndone
    <3> QED
      BY <2>2, <2>5, <2>9, <3>1, <3>2
  <2> QED
    BY <2>7, <2>8, <2>9
<1>5. Good = Nat
  BY <1>3, <1>4, Upwards DEF Good
<1>6. a[n] # b[n] /\ n \in 0 .. n
  BY <1>5 DEF Good
<1>7. Finish(f, a[n]) # Finish(f, b[n])
  BY <1>1, <1>2, <1>6, FinishUndone DEF Accumulates
<1> QED
  BY <1>1, <1>2, <1>7

-----------------------------------------------------------------------------
(* Words packed of parts can be taken apart.                                *)

LEMMA Fits ==
  ASSUME NEW m \in Nat, NEW n \in Nat, NEW a \in 0 .. Pow2[m] - 1
  PROVE  a * Pow2[n] \in 0 .. Pow2[m + n] - 1
<1>1. PICK x \in Nat \ {0}, y \in Nat \ {0} : x = Pow2[m] /\ y = Pow2[n]
  BY Pow2Typed
<1>2. Pow2[m + n] = x * y
  BY <1>1, Pow2Sum
<1>3. a \in Nat /\ a + 1 <= x
  BY <1>1
<1>4. a * y \in Nat /\ a * y < x * y
  BY <1>3
<1> QED
  BY <1>1, <1>2, <1>4

LEMMA LeftIs ==
  ASSUME NEW m \in Nat, NEW n \in Nat, m + n <= WordBits, NEW a \in 0 .. Pow2[m] - 1
  PROVE  Left(a, n) = a * Pow2[n]
<1>1. PICK x \in Nat : x = a * Pow2[n] /\ x \in 0 .. Pow2[m + n] - 1
  <2>1. a * Pow2[n] \in 0 .. Pow2[m + n] - 1
    BY Fits
  <2>2. Pow2[m + n] \in Nat
    BY Pow2Typed
  <2>3. a * Pow2[n] \in Nat
    BY <2>1, <2>2
  <2> QED
    BY <2>1, <2>3
<1>2. WordBits \in Nat /\ m + n \in Nat
  BY MixingAssumption
<1>3. PICK t \in Nat \ {0}, s \in Nat : t = Pow2[WordBits] /\ s = Pow2[m + n] /\ s <= t
  BY <1>2, Pow2Typed, Pow2Grows
<1>4. x < t
  BY <1>1, <1>3
<1>5. x % t = x
  BY <1>4
<1> QED
  BY <1>1, <1>3, <1>5 DEF Left

(* A part above n bits and one in them.                                     *)
LEMMA Packs ==
  ASSUME NEW m \in Nat, NEW n \in Nat, m + n <= WordBits,
         NEW a \in 0 .. Pow2[m] - 1, NEW b \in 0 .. Pow2[n] - 1
  PROVE  /\ Or(Left(a, n), b) = a * Pow2[n] + b /\ Or(b, Left(a, n)) = a * Pow2[n] + b
         /\ a * Pow2[n] + b \in 0 .. Pow2[m + n] - 1
<1>1. Left(a, n) = a * Pow2[n]
  BY LeftIs
<1>2. a \in Nat
  OBVIOUS
<1>3. Or(a * Pow2[n], b) = a * Pow2[n] + b /\ Or(b, a * Pow2[n]) = a * Pow2[n] + b
  BY <1>2, OrAdds
<1>4. PICK x \in Nat \ {0}, y \in Nat \ {0} : x = Pow2[m] /\ y = Pow2[n]
  BY Pow2Typed
<1>5. Pow2[m + n] = x * y
  BY <1>4, Pow2Sum
<1>6. a * y \in Nat /\ a * y + y <= x * y
  BY <1>4
<1>7. a * y + b \in 0 .. x * y - 1
  BY <1>4, <1>6
<1> QED
  BY <1>1, <1>3, <1>4, <1>5, <1>7

LEMMA Unpacked ==
  ASSUME NEW n \in Nat, NEW a \in Nat, NEW b \in 0 .. Pow2[n] - 1,
         NEW c \in Nat, NEW d \in 0 .. Pow2[n] - 1, a * Pow2[n] + b = c * Pow2[n] + d
  PROVE  a = c /\ b = d
<1>1. PICK y \in Nat \ {0} : y = Pow2[n]
  BY Pow2Typed
<1>2. (y * a + b) \div y = a /\ (y * a + b) % y = b /\ (y * c + d) \div y = c /\ (y * c + d) % y = d
  BY <1>1, DivOf
<1>3. y * a = a * y /\ y * c = c * y
  BY <1>1
<1> QED
  BY <1>1, <1>2, <1>3

Halved == WordBits \div 2

LEMMA Places ==
  /\ Halved \in Nat /\ Halved + Halved <= WordBits
  /\ FieldBits \in Nat /\ FlagBits \in Nat /\ FieldBits + (FlagBits + FieldBits) <= WordBits
<1>1. WordBits \in Nat /\ FlagBits \in Nat /\ FlagBits <= WordBits
  BY MixingAssumption
<1>2. PICK d \in Nat : d = WordBits - FlagBits
  BY <1>1
<1>3. d \div 2 \in Nat /\ 2 * (d \div 2) <= d /\ WordBits \div 2 \in Nat /\ 2 * (WordBits \div 2) <= WordBits
  BY <1>1, <1>2
<1>4. FieldBits = d \div 2 /\ Halved = WordBits \div 2
  BY <1>2 DEF FieldBits, Halved
<1> QED
  BY <1>1, <1>2, <1>3, <1>4

PageIdPart == 0 .. Half - 1

LEMMA PageIdUnpacked ==
  ASSUME NEW a \in PageIdPart, NEW b \in PageIdPart, NEW c \in PageIdPart, NEW d \in PageIdPart,
         Or(Left(a, WordBits \div 2), b) = Or(Left(c, WordBits \div 2), d)
  PROVE  a = c /\ b = d
<1>1. PageIdPart = 0 .. Pow2[Halved] - 1 /\ Halved \in Nat /\ Halved + Halved <= WordBits
  BY Places DEF PageIdPart, Half, Halved
<1>2. Or(Left(a, Halved), b) = a * Pow2[Halved] + b /\ Or(Left(c, Halved), d) = c * Pow2[Halved] + d
  BY <1>1, Packs
<1>3. a \in Nat /\ c \in Nat
  BY <1>1
<1>4. Or(Left(a, Halved), b) = Or(Left(c, Halved), d)
  BY DEF Halved
<1>5. a * Pow2[Halved] + b = c * Pow2[Halved] + d
  BY <1>2, <1>4
<1> QED
  BY <1>1, <1>3, <1>5, Unpacked

SlotOf(a, b, c) == Or(Or(a, Left(b, FieldBits)), Left(c, FieldBits + FlagBits))

LEMMA SlotIs ==
  ASSUME NEW a \in 0 .. Lengths - 1, NEW b \in 0 .. Pow2[FlagBits] - 1, NEW c \in 0 .. Lengths - 1
  PROVE  /\ b * Pow2[FieldBits] + a \in 0 .. Pow2[FieldBits + FlagBits] - 1
         /\ SlotOf(a, b, c) = c * Pow2[FieldBits + FlagBits] + (b * Pow2[FieldBits] + a)
<1>1. PICK m \in Nat, n \in Nat : m = FieldBits /\ n = FlagBits /\ m + (n + m) <= WordBits /\ WordBits \in Nat
  BY Places, MixingAssumption
<1>2. a \in 0 .. Pow2[m] - 1 /\ c \in 0 .. Pow2[m] - 1 /\ b \in 0 .. Pow2[n] - 1
  BY <1>1 DEF Lengths
<1>3. n + m \in Nat /\ m + n \in Nat /\ n + m <= WordBits /\ m + (m + n) <= WordBits /\ n + m = m + n
  BY <1>1
<1>4. Or(a, Left(b, m)) = b * Pow2[m] + a /\ b * Pow2[m] + a \in 0 .. Pow2[n + m] - 1
  BY <1>2, <1>3, Packs
<1>5. PICK e \in 0 .. Pow2[m + n] - 1 : e = b * Pow2[m] + a
  BY <1>3, <1>4
<1>6. Or(e, Left(c, m + n)) = c * Pow2[m + n] + e
  BY <1>2, <1>3, Packs
<1> QED
  BY <1>1, <1>4, <1>5, <1>6 DEF SlotOf

LEMMA SlotUnpacked ==
  ASSUME NEW a \in 0 .. Lengths - 1, NEW b \in 0 .. Pow2[FlagBits] - 1, NEW c \in 0 .. Lengths - 1,
         NEW d \in 0 .. Lengths - 1, NEW e \in 0 .. Pow2[FlagBits] - 1, NEW f \in 0 .. Lengths - 1,
         SlotOf(a, b, c) = SlotOf(d, e, f)
  PROVE  a = d /\ b = e /\ c = f
<1>1. PICK m \in Nat, n \in Nat : m = FieldBits /\ n = FlagBits /\ m + n \in Nat
  BY Places
<1>2. /\ a \in 0 .. Pow2[m] - 1 /\ d \in 0 .. Pow2[m] - 1 /\ b \in Nat /\ e \in Nat /\ c \in Nat /\ f \in Nat
  BY <1>1 DEF Lengths
<1>3. PICK x \in 0 .. Pow2[m + n] - 1, y \in 0 .. Pow2[m + n] - 1 :
         /\ x = b * Pow2[m] + a /\ y = e * Pow2[m] + d
         /\ SlotOf(a, b, c) = c * Pow2[m + n] + x /\ SlotOf(d, e, f) = f * Pow2[m + n] + y
  BY <1>1, SlotIs
<1>4. c * Pow2[m + n] + x = f * Pow2[m + n] + y
  BY <1>3
<1>5. c = f /\ x = y
  BY <1>1, <1>2, <1>4, Unpacked
<1>6. b * Pow2[m] + a = e * Pow2[m] + d
  BY <1>3, <1>5
<1> QED
  BY <1>2, <1>5, <1>6, Unpacked
-----------------------------------------------------------------------------
(* Calls with keys that differ.                                             *)

(* The values of the arguments are words.                                   *)
LEMMA ValuesAre ==
  ASSUME NEW f, NEW i
  PROVE  Values(f, i) \in SUBSET Word
<1>1. WordBits \in Nat /\ ByteBits \in Nat /\ ByteBits <= WordBits
  BY MixingAssumption
<1>2. /\ Halved \in Nat /\ FieldBits \in Nat /\ FlagBits \in Nat
      /\ Halved <= WordBits /\ FieldBits <= WordBits /\ FlagBits <= WordBits
  <2>1. PICK h, m, n \in Nat : /\ h = Halved /\ m = FieldBits /\ n = FlagBits
                               /\ h + h <= WordBits /\ m + (n + m) <= WordBits
    BY Places
  <2> QED
    BY <1>1, <2>1
<1>3. ASSUME NEW b \in Nat, b <= WordBits PROVE 0 .. Pow2[b] - 1 \in SUBSET Word
  <2>1. PICK x \in Nat, y \in Nat : x = Pow2[b] /\ y = Pow2[WordBits] /\ x <= y
    BY <1>1, <1>3, Pow2Typed, Pow2Grows
  <2>2. Word = 0 .. y - 1
    BY <2>1, WordsAre
  <2>3. 0 .. x - 1 \subseteq 0 .. y - 1
    BY <2>1
  <2> QED
    BY <2>1, <2>2, <2>3
<1>4. 0 .. Half - 1 \in SUBSET Word
  BY <1>2, <1>3 DEF Half, Halved
<1>5. 0 .. Pow2[ByteBits] - 1 \in SUBSET Word
  BY <1>1, <1>3
<1>6. 0 .. Lengths - 1 \in SUBSET Word /\ 0 .. Pow2[FlagBits] - 1 \in SUBSET Word
  BY <1>2, <1>3 DEF Lengths
<1>7. 0 .. (IF i = 2 THEN Pow2[FlagBits] ELSE Lengths) - 1 \in SUBSET Word
  <2>1. CASE i = 2
    BY <1>6, <2>1
  <2>2. CASE i # 2
    BY <1>6, <2>2
  <2> QED
    BY <2>1, <2>2
<1> QED
  BY <1>4, <1>5, <1>7 DEF Values

LEMMA CastTyped ==
  ASSUME NEW f, NEW i, NEW v \in Word
  PROVE  Cast(f, i, v) \in Word
<1>1. PICK x \in Nat \ {0} : x = Pow2[ByteBits]
  BY Pow2Typed, MixingAssumption
<1>2. PICK y \in Nat : Word = 0 .. y - 1
  BY WordsAre
<1>3. v \in Nat /\ v < y /\ v % x \in Nat /\ v % x <= v
  BY <1>1, <1>2
<1>4. Byte(v) \in Word
  BY <1>1, <1>2, <1>3 DEF Byte
<1> QED
  BY <1>4 DEF Cast

LEMMA PrimesOdd ==
  ASSUME NEW f \in ByColumn, NEW i \in 1 .. Arity(f)
  PROVE  Odd(Prime(f, i))
<1>1. Odd(GOLDEN) /\ Odd(PRIME1) /\ Odd(PRIME2)
  BY MixConstants
<1>2. CASE f = "hash_key_4"
  BY <1>1, <1>2 DEF Prime
<1>3. CASE f = "hash_u64_array"
  BY <1>1, <1>3 DEF Prime
<1>4. CASE f = "hash_dynamic_row"
  BY <1>1, <1>4 DEF Prime
<1>5. CASE f \in {"key_hash", "hash_wide"}
  <2>1. Arity(f) = 4
    BY <1>5 DEF Arity
  <2>2. Prime(f, i) = <<PRIME1, PRIME2, GOLDEN, PRIME1>>[i]
    BY <1>5 DEF Prime
  <2>3. i \in {1, 2, 3, 4}
    BY <2>1
  <2>4. Prime(f, i) \in {PRIME1, PRIME2, GOLDEN}
    BY <2>2, <2>3
  <2> QED
    BY <1>1, <2>4
<1> QED
  BY <1>2, <1>3, <1>4, <1>5 DEF ByColumn

Key(f, k) == \A i \in 1 .. Arity(f) : k[i] \in Values(f, i)

LEMMA Contribute ==
  ASSUME NEW f \in ByColumn, NEW k, Key(f, k)
  PROVE  Contributes(f, k)
<1> SUFFICES ASSUME NEW i \in 1 .. Arity(f) PROVE Cast(f, i, k[i]) \in Word /\ Odd(Prime(f, i))
  BY DEF Contributes
<1>1. k[i] \in Word
  BY ValuesAre DEF Key
<1> QED
  BY <1>1, CastTyped, PrimesOdd

LEMMA ArityTyped == ASSUME NEW f \in Functions PROVE Arity(f) \in Nat
<1>1. NumCols \in Nat
  BY MixingAssumption
<1> QED
  BY <1>1 DEF Functions, ByColumn, Arity

(* Which columns of the others count.                                       *)
Counting(f, j) == f \in {"hash_short_composite", "hash_mixed_with_string"} => j >= Arity(f)

LEMMA CallDiffers ==
  ASSUME NEW f \in Functions, NEW j \in 1 .. Arity(f), NEW k, NEW l, Key(f, k), Key(f, l),
         \A i \in 1 .. Arity(f) : i # j => k[i] = l[i],
         Cast(f, j, k[j]) # Cast(f, j, l[j]), Counting(f, j)
  PROVE  Call(f, k) # Call(f, l)
<1>0. \A i \in 1 .. Arity(f) : k[i] \in Word /\ l[i] \in Word
  BY ValuesAre DEF Key
<1>1. CASE f \in ByColumn
  <2>1. PICK n \in Nat : n = Arity(f)
    BY ArityTyped
  <2>2. Contributes(f, k) /\ Contributes(f, l)
    BY <1>1, Contribute
  <2>3. Columns(f, k) # Columns(f, l)
    BY <2>1, <2>2, ColumnsDiffer
  <2>4. Call(f, k) = Columns(f, k) /\ Call(f, l) = Columns(f, l)
    BY <1>1 DEF Call, ByColumn
  <2> QED
    BY <2>3, <2>4
<1>2. ASSUME f \notin ByColumn PROVE k[j] # l[j]
  BY <1>2 DEF Cast, ByColumn
<1>3. CASE f = "splitmix64"
  <2>1. j = 1 /\ Arity(f) = 1
    BY <1>3 DEF Arity
  <2>2. k[1] \in Word /\ l[1] \in Word /\ k[1] # l[1]
    BY <1>0, <1>3, <1>2, <2>1 DEF ByColumn
  <2>3. Call(f, k) = splitmix64(k[1]) /\ Call(f, l) = splitmix64(l[1])
    BY <1>3 DEF Call, ByColumn
  <2> QED
    BY <2>2, <2>3, SplitmixUndone
<1>4. CASE f = "hash_key"
  <2>1. j = 1 /\ Arity(f) = 1
    BY <1>4 DEF Arity
  <2>2. k[1] \in Word /\ l[1] \in Word /\ k[1] # l[1]
    BY <1>0, <1>4, <1>2, <2>1 DEF ByColumn
  <2>3. /\ Call(f, k) = Finalizer(k[1], ShiftD, FMIX, ShiftD, FMIX, ShiftD)
        /\ Call(f, l) = Finalizer(l[1], ShiftD, FMIX, ShiftD, FMIX, ShiftD)
    BY <1>4 DEF Call, ByColumn, Finalizer
  <2>4. ShiftD \in Nat \ {0} /\ Odd(FMIX)
    BY MixConstants
  <2>5. Finalizer(k[1], ShiftD, FMIX, ShiftD, FMIX, ShiftD) # Finalizer(l[1], ShiftD, FMIX, ShiftD, FMIX, ShiftD)
    BY <2>2, <2>4, FinalizerUndone
  <2> QED
    BY <2>3, <2>5
<1>5. CASE f = "hash_short_composite"
  <2>1. j = 2 /\ Arity(f) = 2
    BY <1>5 DEF Arity, Counting
  <2>2. /\ k[1] = l[1] /\ k[1] \in Word /\ k[2] \in Word /\ l[2] \in Word /\ k[2] # l[2]
    BY <1>0, <1>5, <1>2, <2>1 DEF ByColumn
  <2>3. PICK h \in Word, a \in Word, b \in Word :
          h = splitmix64(k[1]) /\ a = splitmix64(k[2]) /\ b = splitmix64(l[2]) /\ a # b
    BY <2>2, SplitmixUndone
  <2>4. Call(f, k) = hash_combine(h, a) /\ Call(f, l) = hash_combine(h, b)
    BY <1>5, <2>2, <2>3 DEF Call, ByColumn
  <2> QED
    BY <2>3, <2>4, CombineUndone
<1>6. CASE f = "hash_mixed_with_string"
  <2>1. j = 3 /\ Arity(f) = 3
    BY <1>6 DEF Arity, Counting
  <2>2. /\ k[1] = l[1] /\ k[2] = l[2] /\ k[1] \in Word /\ k[2] \in Word
        /\ k[3] \in Word /\ l[3] \in Word /\ k[3] # l[3]
    BY <1>0, <1>6, <1>2, <2>1 DEF ByColumn
  <2>3. PICK h \in Word : h = hash_combine(k[1], k[2])
    BY <2>2, CombineUndone
  <2>4. Call(f, k) = hash_combine(h, k[3]) /\ Call(f, l) = hash_combine(h, l[3])
    BY <1>6, <2>2, <2>3 DEF Call, ByColumn
  <2> QED
    BY <2>2, <2>3, <2>4, CombineUndone
<1>7. CASE f = "make_page_id"
  <2>1. j \in {1, 2} /\ Arity(f) = 2
    BY <1>7 DEF Arity
  <2>2. \A i \in 1 .. 2 : Values(f, i) = PageIdPart
    BY <1>7 DEF Values, PageIdPart
  <2>3. k[1] \in PageIdPart /\ k[2] \in PageIdPart /\ l[1] \in PageIdPart /\ l[2] \in PageIdPart
    BY <2>1, <2>2 DEF Key
  <2>4. k[1] # l[1] \/ k[2] # l[2]
    BY <1>7, <1>2, <2>1 DEF ByColumn
  <2>5. Call(f, k) = Or(Left(k[1], WordBits \div 2), k[2]) /\ Call(f, l) = Or(Left(l[1], WordBits \div 2), l[2])
    BY <1>7 DEF Call, ByColumn
  <2> QED
    BY <2>3, <2>4, <2>5, PageIdUnpacked
<1>8. CASE f = "slot"
  <2>1. j \in {1, 2, 3} /\ Arity(f) = 3
    BY <1>8 DEF Arity
  <2>2. /\ Values(f, 1) = 0 .. Lengths - 1 /\ Values(f, 2) = 0 .. Pow2[FlagBits] - 1
        /\ Values(f, 3) = 0 .. Lengths - 1
    BY <1>8 DEF Values
  <2>3. /\ k[1] \in 0 .. Lengths - 1 /\ k[2] \in 0 .. Pow2[FlagBits] - 1 /\ k[3] \in 0 .. Lengths - 1
        /\ l[1] \in 0 .. Lengths - 1 /\ l[2] \in 0 .. Pow2[FlagBits] - 1 /\ l[3] \in 0 .. Lengths - 1
    <3>1. 1 \in 1 .. Arity(f) /\ 2 \in 1 .. Arity(f) /\ 3 \in 1 .. Arity(f)
      BY <2>1
    <3>2. /\ k[1] \in Values(f, 1) /\ k[2] \in Values(f, 2) /\ k[3] \in Values(f, 3)
          /\ l[1] \in Values(f, 1) /\ l[2] \in Values(f, 2) /\ l[3] \in Values(f, 3)
      BY <3>1 DEF Key
    <3> QED
      BY <2>2, <3>2
  <2>4. k[1] # l[1] \/ k[2] # l[2] \/ k[3] # l[3]
    BY <1>8, <1>2, <2>1 DEF ByColumn
  <2>5. SlotOf(k[1], k[2], k[3]) # SlotOf(l[1], l[2], l[3])
    BY <2>3, <2>4, SlotUnpacked
  <2>6. Call(f, k) = SlotOf(k[1], k[2], k[3]) /\ Call(f, l) = SlotOf(l[1], l[2], l[3])
    BY <1>8 DEF Call, ByColumn, SlotOf
  <2> QED
    BY <2>5, <2>6
<1> QED
  BY <1>1, <1>3, <1>4, <1>5, <1>6, <1>7, <1>8 DEF Functions

(* The two calls of a run.                                                  *)
MixInv ==
  how # "none" =>
    /\ how \in Functions /\ at \in 1 .. Arity(how) /\ fields \in [1 .. Arity(how) -> Sample]
    /\ \A i \in 1 .. Arity(how) : fields[i] \in Values(how, i)
    /\ one \in Values(how, at) /\ two \in Values(how, at)

LEMMA KeysApart == ASSUME MixInv PROVE KeysSeparate
<1> SUFFICES ASSUME how # "none", ~ Weak PROVE Call(how, With(one)) # Call(how, With(two))
  BY DEF KeysSeparate
<1>1. /\ how \in Functions /\ at \in 1 .. Arity(how) /\ fields \in [1 .. Arity(how) -> Sample]
      /\ \A i \in 1 .. Arity(how) : fields[i] \in Values(how, i)
      /\ one \in Values(how, at) /\ two \in Values(how, at)
  BY DEF MixInv
<1>2. \A v : \A i \in 1 .. Arity(how) : With(v)[i] = IF i = at THEN v ELSE fields[i]
  BY <1>1 DEF With
<1>3. Key(how, With(one)) /\ Key(how, With(two))
  BY <1>1, <1>2 DEF Key
<1>4. /\ \A i \in 1 .. Arity(how) : i # at => With(one)[i] = With(two)[i]
      /\ With(one)[at] = one /\ With(two)[at] = two
  BY <1>1, <1>2
<1>5. Cast(how, at, With(one)[at]) # Cast(how, at, With(two)[at])
  BY <1>4 DEF Weak
<1>6. Counting(how, at)
  <2>1. Arity(how) \in Nat
    BY <1>1, ArityTyped
  <2> QED
    BY <1>1, <2>1 DEF Weak, Counting
<1> QED
  BY <1>1, <1>3, <1>4, <1>5, <1>6, CallDiffers

LEMMA MixInvNext == ASSUME MixInv, [MixNext]_mixVars PROVE MixInv'
<1>1. CASE UNCHANGED mixVars
  BY <1>1 DEF MixInv, mixVars
<1>2. CASE MixNext
  BY <1>2 DEF MixNext, MixInv
<1> QED
  BY <1>1, <1>2

(* Whatever the width of a word, the shifts, the odd multipliers, the seed  *)
(* and the number of columns, two keys that differ in a column that counts  *)
(* have different hashes, and two packed words that are equal equal parts.  *)
THEOREM KeysDiffer == MixSpec => []KeysSeparate
<1>1. MixInit => MixInv
  BY DEF MixInit, MixInv
<1>2. MixInv /\ [MixNext]_mixVars => MixInv'
  BY MixInvNext
<1>3. MixInv => KeysSeparate
  BY KeysApart
<1> QED
  BY <1>1, <1>2, <1>3, PTL DEF MixSpec
=============================================================================
