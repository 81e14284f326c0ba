------------------------- MODULE LinearProbeProofs -------------------------
(***************************************************************************)
(* Proofs about LinearProbe for every set of pages, every hash function and *)
(* every capacity.                                                          *)
(***************************************************************************)
EXTENDS LinearProbe, FiniteSetTheorems, TLAPS

LEMMA HomeType ==
  ASSUME NEW p \in Page, NEW c \in Nat, c >= 1
  PROVE  Home(p, c) \in 0 .. c - 1
  BY HashAssumption DEF Home

LEMMA SuccType ==
  ASSUME NEW c \in Nat, c >= 1, NEW j \in 0 .. c - 1
  PROVE  Succ(j, c) \in 0 .. c - 1 /\ (c >= 2 => Succ(j, c) # j)
  BY DEF Succ

LEMMA DistType ==
  ASSUME NEW c \in Nat, c >= 1, NEW j \in 0 .. c - 1, NEW h \in 0 .. c - 1
  PROVE  Dist(j, h, c) \in 0 .. c - 1 /\ Dist(h, h, c) = 0
  BY DEF Dist

(* A position is one step further than the position before it, except home. *)
LEMMA DistSucc ==
  ASSUME NEW c \in Nat, c >= 1, NEW j \in 0 .. c - 1, NEW h \in 0 .. c - 1
  PROVE  IF Dist(j, h, c) = c - 1 THEN Dist(Succ(j, c), h, c) = 0
                                  ELSE Dist(Succ(j, c), h, c) = Dist(j, h, c) + 1
  BY DEF Dist, Succ

LEMMA DistInjective ==
  ASSUME NEW c \in Nat, c >= 1, NEW j \in 0 .. c - 1, NEW k \in 0 .. c - 1,
         NEW h \in 0 .. c - 1, Dist(j, h, c) = Dist(k, h, c)
  PROVE  j = k
  BY DEF Dist

(* The inductive invariant: what the loops know (Scanned) is what keeps the *)
(* layout when they end, and the layout is what makes an early end right.   *)
Inv == TypeOK /\ Layout /\ Counted /\ Scanned

LEMMA OccupiedFinite ==
  /\ IsFiniteSet(Occupied) /\ Cardinality(Occupied) \in Nat
  /\ Cardinality(Occupied) = Cap => Occupied = 0 .. Cap - 1
  <1>1. IsFiniteSet(0 .. Cap - 1) /\ Cardinality(0 .. Cap - 1) = Cap
    BY CapAssumption, FS_Interval
  <1>2. Occupied \in SUBSET (0 .. Cap - 1)
    BY DEF Occupied
  <1> QED
    BY <1>1, <1>2, FS_Subset, FS_CardinalityType

LEMMA InvInit == Init => Inv
  <1> SUFFICES ASSUME Init PROVE Inv
    OBVIOUS
  <1>1. Occupied = {}
    BY DEF Init, Unused, Occupied
  <1>2. TypeOK
    BY CapAssumption DEF Init, TypeOK, Unused, Bucket, No, Replies
  <1>3. Layout /\ Counted /\ Scanned
    BY <1>1, FS_EmptySet DEF Init, Layout, Counted, Scanned
  <1> QED
    BY <1>2, <1>3 DEF Inv

LEMMA Facts ==
  ASSUME Inv
  PROVE  /\ Cap \in Nat /\ Cap >= 1
         /\ call.page \in Page /\ call.frame \in Frame \cup {NoFrame}
         /\ call.op \in {"lookup", "insert", "delete"}
         /\ Home(call.page, Cap) \in 0 .. Cap - 1
         /\ \A j \in 0 .. Cap - 1 : Steps(j) \in 0 .. Cap - 1
         /\ \A i, j \in 0 .. Cap - 1 : Steps(i) = Steps(j) => i = j
  <1>1. call.page \in Page /\ call.frame \in Frame \cup {NoFrame}
          /\ call.op \in {"lookup", "insert", "delete"}
    BY DEF Inv, TypeOK, Calls
  <1>2. Home(call.page, Cap) \in 0 .. Cap - 1
    BY <1>1, CapAssumption, HomeType
  <1>3. \A j \in 0 .. Cap - 1 : Steps(j) \in 0 .. Cap - 1
    BY <1>2, CapAssumption, DistType DEF Steps
  <1>4. \A i, j \in 0 .. Cap - 1 : Steps(i) = Steps(j) => i = j
    BY <1>2, CapAssumption, DistInjective DEF Steps
  <1> QED
    BY <1>1, <1>2, <1>3, <1>4, CapAssumption

(* When the probe is over the page is nowhere.                              *)
LEMMA ProbeComplete ==
  ASSUME Inv, Exhausted
  PROVE  ~ Present(call.page)
  <1> SUFFICES ASSUME NEW j \in Occupied, buckets[j].page = call.page PROVE FALSE
    BY DEF Present
  <1>1. j \in 0 .. Cap - 1 /\ idx \in 0 .. Cap - 1 /\ pc = "scan" /\ n \in 0 .. Cap
    BY DEF Occupied, Inv, TypeOK, Exhausted
  <1>2. ~ Steps(j) < n
    BY <1>1 DEF Inv, Scanned
  <1>3. n # Cap
    BY <1>1, <1>2, Facts
  <1>4. n = Steps(idx) /\ AtEmpty
    <2>1. n < Cap
      BY <1>1, <1>3, CapAssumption
    <2> QED
      BY <2>1, <1>1, <1>3 DEF Inv, Scanned, Exhausted
  <1>5. CASE Steps(idx) < Steps(j)
    BY <1>1, <1>4, <1>5 DEF Inv, Layout, Steps, AtEmpty
  <1>6. CASE Steps(idx) = Steps(j)
    <2>1. idx = j
      BY <1>1, <1>6, Facts
    <2> QED
      BY <2>1, <1>4 DEF AtEmpty, Occupied
  <1> QED
    BY <1>1, <1>2, <1>4, <1>5, <1>6, Facts

(* The end of a call leaves only the buckets to be looked at.               *)
LEMMA ReturnLemma ==
  ASSUME Inv, NEW r \in Replies, Return(r), buckets' \in [0 .. Cap - 1 -> Bucket],
         count' \in 0 .. Cap, Layout', Counted'
  PROVE  Inv'
  BY CapAssumption DEF Inv, TypeOK, Scanned, Return

LEMMA SameBuckets ==
  ASSUME Inv, UNCHANGED <<buckets, count>>
  PROVE  Layout' /\ Counted' /\ Occupied' = Occupied
  BY DEF Inv, Layout, Counted, Occupied

LEMMA BeginStep ==
  ASSUME Inv, Begin
  PROVE  Inv'
  <1>1. Layout' /\ Counted'
    BY SameBuckets DEF Begin
  <1>2. TypeOK' /\ Scanned'
    BY DEF Inv, TypeOK, Scanned, Begin
  <1> QED
    BY <1>1, <1>2 DEF Inv

LEMMA StartStep ==
  ASSUME Inv, Start
  PROVE  Inv'
  <1>1. Layout' /\ Counted'
    BY SameBuckets DEF Start
  <1>2. /\ pc' = "scan" /\ idx' = Home(call.page, Cap)
        /\ UNCHANGED <<buckets, count, call, ret, n, tomb>>
        /\ call.op = "insert" => count < Cap
    BY Facts DEF Start, Full, Inv, TypeOK
  <1>3. TypeOK'
    BY <1>2, Facts DEF Inv, TypeOK
  <1>4. n = 0 /\ tomb = None
    BY DEF Start, Inv, Scanned
  <1>5. Steps(idx)' = 0 /\ \A j \in 0 .. Cap - 1 : Steps(j)' = Steps(j)
    BY <1>2, Facts, DistType DEF Steps
  <1>6. Scanned'
    BY <1>2, <1>4, <1>5, Facts DEF Scanned
  <1> QED
    BY <1>1, <1>3, <1>6 DEF Inv

LEMMA AdvanceStep ==
  ASSUME Inv, Advance
  PROVE  Inv'
  <1>1. Layout' /\ Counted' /\ Occupied' = Occupied
    BY SameBuckets DEF Advance
  <1>2. /\ pc = "scan" /\ n < Cap /\ ~ AtEmpty /\ ~ Hit
        /\ idx' = Succ(idx, Cap) /\ n' = n + 1
        /\ tomb' = IF call.op = "insert" /\ AtTombstone /\ tomb = None THEN idx ELSE tomb
        /\ UNCHANGED <<buckets, count, pc, call, ret>>
    BY DEF Advance
  <1>3. idx \in 0 .. Cap - 1 /\ idx' \in 0 .. Cap - 1 /\ n \in 0 .. Cap
    BY <1>2, CapAssumption, SuccType DEF Inv, TypeOK
  <1>4. TypeOK'
    <2>1. n' \in 0 .. Cap
      BY <1>2, <1>3, CapAssumption
    <2>2. tomb' \in 0 .. Cap - 1 \cup {None}
      BY <1>2, <1>3 DEF Inv, TypeOK
    <2> QED
      BY <2>1, <2>2, <1>2, <1>3 DEF Inv, TypeOK
  <1>5. n = Steps(idx)
    BY <1>2 DEF Inv, Scanned
  <1>6. n' < Cap => n' = Steps(idx)'
    BY <1>2, <1>3, <1>5, Facts, DistSucc DEF Steps
  <1>7. ASSUME NEW j \in 0 .. Cap - 1, Steps(j) < n'
        PROVE  /\ buckets[j].state # "EMPTY"
               /\ ~ (j \in Occupied /\ buckets[j].page = call.page)
               /\ call.op = "insert" /\ tomb' = None => j \in Occupied
    <2>1. CASE Steps(j) < n
      <3>1. tomb' = None => tomb = None
        BY <1>2, <1>3, NoneAssumption
      <3> QED
        BY <2>1, <3>1, <1>2 DEF Inv, Scanned
    <2>2. CASE j = idx
      <3>1. buckets[idx].state \in {"EMPTY", "OCCUPIED", "TOMBSTONE"}
        BY <1>3 DEF Inv, TypeOK, Bucket
      <3>2. idx # None
        BY <1>3, NoneAssumption
      <3> QED
        BY <2>2, <3>1, <3>2, <1>2, <1>3 DEF AtEmpty, Hit, AtTombstone, Occupied
    <2> QED
      BY <2>1, <2>2, <1>2, <1>3, <1>5, <1>7, Facts
  <1>8. tomb' # None => /\ call.op = "insert" /\ Steps(tomb') < n'
                        /\ buckets[tomb'].state = "TOMBSTONE"
    <2>1. CASE tomb' = tomb
      <3> SUFFICES ASSUME tomb # None
                   PROVE  /\ call.op = "insert" /\ Steps(tomb) < n + 1
                          /\ buckets[tomb].state = "TOMBSTONE"
        BY <2>1, <1>2
      <3>1. tomb \in 0 .. Cap - 1
        BY DEF Inv, TypeOK
      <3>2. Steps(tomb) \in 0 .. Cap - 1
        BY <3>1, Facts
      <3>3. call.op = "insert" /\ Steps(tomb) < n /\ buckets[tomb].state = "TOMBSTONE"
        BY <1>2 DEF Inv, Scanned
      <3> QED
        BY <3>2, <3>3, <1>3
    <2>2. CASE call.op = "insert" /\ buckets[idx].state = "TOMBSTONE" /\ tomb = None
      <3>1. tomb' = idx
        BY <2>2, <1>2 DEF AtTombstone
      <3> QED
        BY <2>2, <3>1, <1>2, <1>3, <1>5, Facts
    <2>3. CASE ~ (call.op = "insert" /\ buckets[idx].state = "TOMBSTONE" /\ tomb = None)
      BY <2>1, <2>3, <1>2 DEF AtTombstone
    <2> QED
      BY <2>2, <2>3
  <1>9. Scanned'
    BY <1>1, <1>2, <1>6, <1>7, <1>8 DEF Inv, Scanned, Steps
  <1> QED
    BY <1>1, <1>4, <1>9 DEF Inv

-----------------------------------------------------------------------------
LEMMA NotFoundStep ==
  ASSUME Inv, NotFound \/ SearchHit \/ Refuse
  PROVE  Inv'
  <1>1. PICK r \in Replies : Return(r)
    <2>1. CASE NotFound \/ Refuse
      BY <2>1 DEF NotFound, Refuse, No, Replies
    <2>2. CASE SearchHit
      <3>1. buckets[idx].frame \in Frame \cup {NoFrame}
        BY DEF Inv, TypeOK, Bucket
      <3> QED
        BY <2>2, <3>1 DEF SearchHit, Replies
    <2> QED
      BY <2>1, <2>2
  <1>2. UNCHANGED <<buckets, count>>
    BY DEF NotFound, SearchHit, Refuse
  <1>3. Layout' /\ Counted'
    BY <1>2, SameBuckets
  <1>4. buckets' \in [0 .. Cap - 1 -> Bucket] /\ count' \in 0 .. Cap
    BY <1>2 DEF Inv, TypeOK
  <1> QED
    BY <1>1, <1>3, <1>4, ReturnLemma

LEMMA DeleteStep ==
  ASSUME Inv, DeleteHit
  PROVE  Inv'
  <1>1. idx \in Occupied /\ idx \in 0 .. Cap - 1
    BY DEF DeleteHit, Hit, Occupied, Inv, TypeOK
  <1>2. \A j \in 0 .. Cap - 1 :
          buckets'[j] = IF j = idx THEN [buckets[j] EXCEPT !.state = "TOMBSTONE"] ELSE buckets[j]
    BY <1>1 DEF DeleteHit, Inv, TypeOK
  <1>3. buckets' \in [0 .. Cap - 1 -> Bucket]
    BY <1>1 DEF DeleteHit, Inv, TypeOK, Bucket
  <1>4. Occupied' = Occupied \ {idx}
    BY <1>1, <1>2, <1>3 DEF Occupied, Bucket, Inv, TypeOK
  <1>5. Layout'
    <2>1. \A j \in Occupied' : j \in Occupied /\ buckets'[j] = buckets[j] /\ j \in 0 .. Cap - 1
      BY <1>2, <1>4 DEF Occupied
    <2>2. \A i \in 0 .. Cap - 1 : buckets[i].state # "EMPTY" => buckets'[i].state # "EMPTY"
      BY <1>1, <1>2 DEF Inv, TypeOK, Bucket
    <2> QED
      BY <2>1, <2>2 DEF Inv, Layout
  <1>6. Counted' /\ count' \in 0 .. Cap
    <2>1. Cardinality(Occupied \ {idx}) = Cardinality(Occupied) - 1
      BY <1>1, OccupiedFinite, FS_RemoveElement
    <2>2. IsFiniteSet(Occupied \ {idx})
      BY OccupiedFinite, FS_RemoveElement
    <2>3. Cardinality(Occupied \ {idx}) \in Nat
      BY <2>2, FS_CardinalityType
    <2> QED
      BY <2>1, <2>3, <1>4, CapAssumption DEF Inv, TypeOK, Counted, DeleteHit
  <1>7. Return(Yes) /\ Yes \in Replies
    BY DEF DeleteHit, Yes, Replies
  <1> QED
    BY <1>3, <1>5, <1>6, <1>7, ReturnLemma

LEMMA UpdateStep ==
  ASSUME Inv, UpdateHit
  PROVE  Inv'
  <1>1. idx \in 0 .. Cap - 1
    BY DEF Inv, TypeOK
  <1>2. \A j \in 0 .. Cap - 1 : /\ buckets'[j].state = buckets[j].state
                                /\ buckets'[j].page = buckets[j].page
    BY <1>1 DEF UpdateHit, Inv, TypeOK, Bucket
  <1>3. buckets' \in [0 .. Cap - 1 -> Bucket]
    <2>1. [buckets[idx] EXCEPT !.frame = call.frame] \in Bucket
      BY <1>1, Facts DEF Inv, TypeOK, Bucket
    <2> QED
      BY <2>1, <1>1 DEF UpdateHit, Inv, TypeOK
  <1>4. Occupied' = Occupied /\ Occupied \subseteq 0 .. Cap - 1
    BY <1>2 DEF Occupied
  <1>5. Layout'
    BY <1>2, <1>4 DEF Inv, Layout
  <1>6. Counted' /\ count' \in 0 .. Cap
    BY <1>4 DEF Inv, TypeOK, Counted, UpdateHit
  <1>7. Return(Yes) /\ Yes \in Replies
    BY DEF UpdateHit, Yes, Replies
  <1> QED
    BY <1>3, <1>5, <1>6, <1>7, ReturnLemma

(* A bucket that a probe for the page reaches and that holds no page.       *)
LEMMA TargetLemma ==
  ASSUME Inv, Insert
  PROVE  /\ Target \in 0 .. Cap - 1 /\ Target \notin Occupied
         /\ \A i \in 0 .. Cap - 1 : Steps(i) < Steps(Target) => buckets[i].state # "EMPTY"
  <1>1. /\ pc = "scan" /\ call.op = "insert" /\ Exhausted /\ (n = Cap => tomb # None)
        /\ n \in 0 .. Cap /\ idx \in 0 .. Cap - 1
    BY DEF Insert, CanInsert, Exhausted, Inv, TypeOK
  <1>2. CASE tomb # None
    <2>1. Target = tomb /\ tomb \in 0 .. Cap - 1 /\ Steps(tomb) < n
            /\ buckets[tomb].state = "TOMBSTONE"
      BY <1>1, <1>2 DEF Inv, TypeOK, Scanned, Target
    <2>2. \A i \in 0 .. Cap - 1 : Steps(i) < Steps(tomb) => Steps(i) < n
      BY <1>1, <2>1, Facts
    <2>3. tomb \notin Occupied
      BY <2>1 DEF Occupied
    <2>4. \A i \in 0 .. Cap - 1 : Steps(i) < n => buckets[i].state # "EMPTY"
      BY <1>1 DEF Inv, Scanned
    <2> QED
      BY <2>1, <2>2, <2>3, <2>4
  <1>3. CASE tomb = None
    <2>1. Target = idx /\ n # Cap /\ n < Cap
      BY <1>1, <1>3, CapAssumption DEF Target
    <2>2. AtEmpty /\ n = Steps(idx)
      BY <2>1, <1>1 DEF Inv, Scanned, Exhausted
    <2>3. idx \notin Occupied
      BY <2>2 DEF AtEmpty, Occupied
    <2>4. \A i \in 0 .. Cap - 1 : Steps(i) < n => buckets[i].state # "EMPTY"
      BY <1>1 DEF Inv, Scanned
    <2> QED
      BY <2>1, <2>2, <2>3, <2>4, <1>1
  <1> QED
    BY <1>2, <1>3

LEMMA InsertStep ==
  ASSUME Inv, Insert
  PROVE  Inv'
  <1> DEFINE t == Target
             p == call.page
             e == Entry(call.page, call.frame)
  <1>1. t \in 0 .. Cap - 1 /\ t \notin Occupied
    BY TargetLemma
  <1>2. e \in Bucket /\ e.page = p /\ e.state = "OCCUPIED" /\ p \in Page
    BY Facts DEF Entry, Bucket
  <1>3. buckets' \in [0 .. Cap - 1 -> Bucket]
          /\ \A j \in 0 .. Cap - 1 : buckets'[j] = IF j = t THEN e ELSE buckets[j]
    BY <1>1, <1>2 DEF Insert, Inv, TypeOK
  <1>4. Occupied' = Occupied \cup {t} /\ Occupied \subseteq 0 .. Cap - 1
    BY <1>1, <1>2, <1>3 DEF Occupied
  <1>5. ~ Present(p)
    BY ProbeComplete DEF Insert, CanInsert
  <1>6. \A i \in 0 .. Cap - 1 : buckets[i].state # "EMPTY" => buckets'[i].state # "EMPTY"
    BY <1>2, <1>3
  <1>7. Layout'
    <2> SUFFICES ASSUME NEW j \in Occupied'
                 PROVE  /\ buckets'[j].page \in Page
                        /\ \A i \in 0 .. Cap - 1 :
                             Dist(i, Home(buckets'[j].page, Cap), Cap)
                               < Dist(j, Home(buckets'[j].page, Cap), Cap)
                             => buckets'[i].state # "EMPTY"
                        /\ \A k \in Occupied' : buckets'[k].page = buckets'[j].page => k = j
      BY DEF Layout
    <2>1. CASE j = t
      <3>1. buckets'[j] = e
        BY <2>1, <1>1, <1>3
      <3>2. \A k \in Occupied : buckets'[k].page # p
        BY <1>1, <1>3, <1>4, <1>5 DEF Present
      <3>3. \A i \in 0 .. Cap - 1 : Dist(i, Home(p, Cap), Cap) < Dist(t, Home(p, Cap), Cap)
                                      => buckets'[i].state # "EMPTY"
        BY <1>6, TargetLemma DEF Steps
      <3> QED
        BY <2>1, <3>1, <3>2, <3>3, <1>2, <1>4
    <2>2. CASE j # t
      <3>1. j \in Occupied /\ buckets'[j] = buckets[j] /\ buckets[j].page # p
        BY <2>2, <1>3, <1>4, <1>5 DEF Present
      <3>2. \A k \in Occupied' : buckets'[k].page = buckets'[j].page => k = j
        BY <3>1, <1>1, <1>2, <1>3, <1>4 DEF Inv, Layout
      <3> QED
        BY <3>1, <3>2, <1>6 DEF Inv, Layout
    <2> QED
      BY <2>1, <2>2
  <1>8. Counted' /\ count' \in 0 .. Cap
    <2>1. Cardinality(Occupied \cup {t}) = Cardinality(Occupied) + 1
      BY <1>1, OccupiedFinite, FS_AddElement
    <2>2. count < Cap /\ count' = count + 1
      BY DEF Inv, Scanned, Insert, CanInsert, Exhausted
    <2> QED
      BY <2>1, <2>2, <1>4, CapAssumption DEF Inv, TypeOK, Counted
  <1>9. Return(Yes) /\ Yes \in Replies
    BY DEF Insert, Yes, Replies
  <1> QED
    BY <1>3, <1>7, <1>8, <1>9, ReturnLemma

LEMMA InvNext ==
  ASSUME Inv, [Next]_vars
  PROVE  Inv'
  <1>1. CASE Begin \/ Start \/ Advance
    BY <1>1, BeginStep, StartStep, AdvanceStep
  <1>2. CASE NotFound \/ SearchHit \/ Refuse
    BY <1>2, NotFoundStep
  <1>3. CASE DeleteHit \/ UpdateHit \/ Insert
    BY <1>3, DeleteStep, UpdateStep, InsertStep
  <1>4. CASE UNCHANGED vars
    BY <1>4 DEF vars, Inv, TypeOK, Layout, Counted, Scanned, Occupied, Steps
  <1> QED
    BY <1>1, <1>2, <1>3, <1>4 DEF Next

THEOREM Invariance == Spec => []Inv
  <1>1. Init => Inv
    BY InvInit
  <1>2. Inv /\ [Next]_vars => Inv'
    BY InvNext
  <1> QED
    BY <1>1, <1>2, PTL DEF Spec

(* The fields and locals keep their types, the counts within the capacity.  *)
THEOREM TypeCorrect == Spec => []TypeOK
  <1>1. Inv => TypeOK
    BY DEF Inv
  <1> QED
    BY <1>1, Invariance, PTL

(* Stored pages stay reachable and unique across deletions and reuse of     *)
(* tombstones.                                                              *)
THEOREM LayoutKept == Spec => []Layout
  <1>1. Inv => Layout
    BY DEF Inv
  <1> QED
    BY <1>1, Invariance, PTL

(* The count is the number of occupied buckets.                             *)
THEOREM CountExact == Spec => []Counted
  <1>1. Inv => Counted
    BY DEF Inv
  <1> QED
    BY <1>1, Invariance, PTL

(* What the probing loop knows of the buckets behind it.                    *)
THEOREM ScanRight == Spec => []Scanned
  <1>1. Inv => Scanned
    BY DEF Inv
  <1> QED
    BY <1>1, Invariance, PTL

-----------------------------------------------------------------------------
(* A probe that went all the way around met a tombstone.                    *)
LEMMA NeverStuck ==
  ASSUME Inv, call.op = "insert", Exhausted
  PROVE  CanInsert
  <1> SUFFICES ASSUME n = Cap, tomb = None PROVE FALSE
    BY DEF CanInsert
  <1>1. pc = "scan" /\ count < Cap
    BY DEF Exhausted, Inv, Scanned
  <1>2. \A j \in 0 .. Cap - 1 : j \in Occupied
    BY <1>1, Facts DEF Inv, Scanned
  <1>3. Occupied = 0 .. Cap - 1
    BY <1>2 DEF Occupied
  <1>4. Cardinality(Occupied) = Cap
    BY <1>3, CapAssumption, FS_Interval
  <1> QED
    BY <1>1, <1>4, CapAssumption DEF Inv, Counted

LEMMA RefuseFull ==
  ASSUME Inv, Refuse
  PROVE  Occupied = 0 .. Cap - 1
  <1>1. pc = "enter" /\ Full
    BY NeverStuck DEF Refuse
  <1>2. Cardinality(Occupied) = Cap
    BY <1>1, CapAssumption DEF Full, Inv, TypeOK, Counted
  <1> QED
    BY <1>2, OccupiedFinite

(* insert answers false only when every bucket is OCCUPIED.                 *)
THEOREM OnlyFullRefuses == Spec => RefusedOnlyFull
  <1>1. ASSUME Inv, [Next]_vars,
               call.op = "insert", pc # "idle", pc' = "idle", ~ ret'.ok
        PROVE  Occupied = 0 .. Cap - 1
    <2>1. CASE Begin \/ Start \/ Advance \/ UNCHANGED vars
      BY <1>1, <2>1 DEF Begin, Start, Advance, vars
    <2>2. CASE NotFound \/ SearchHit \/ DeleteHit
      BY <1>1, <2>2 DEF NotFound, SearchHit, DeleteHit
    <2>3. CASE UpdateHit \/ Insert
      BY <1>1, <2>3 DEF UpdateHit, Insert, Return, Yes
    <2>4. CASE Refuse
      BY <1>1, <2>4, RefuseFull
    <2> QED
      BY <1>1, <2>1, <2>2, <2>3, <2>4 DEF Next
  <1>2. Inv /\ [Next]_vars =>
          [call.op = "insert" /\ pc # "idle" /\ pc' = "idle" /\ ~ ret'.ok
             => Occupied = 0 .. Cap - 1]_vars
    BY <1>1
  <1> QED
    BY <1>2, Invariance, PTL DEF Spec, RefusedOnlyFull

-----------------------------------------------------------------------------
(* LinearProbe implements PageMap.                                          *)

LEMMA ContentsPairs ==
  /\ \A e \in Contents : \E j \in Occupied : e = <<buckets[j].page, buckets[j].frame>>
  /\ \A j \in Occupied : /\ <<buckets[j].page, buckets[j].frame>> \in Contents
                         /\ <<buckets[j].page, buckets[j].frame>>[1] = buckets[j].page
  BY DEF Contents

LEMMA AbsentUnmapped ==
  ASSUME ~ Present(call.page)
  PROVE  ~ Map!Mapped(call.page) /\ Map!Without(call.page) = Contents
  <1>1. ASSUME NEW e \in Contents PROVE e[1] # call.page
    BY ContentsPairs DEF Present
  <1> QED
    BY <1>1 DEF Map!Mapped, Map!Without

LEMMA SearchMaps ==
  ASSUME Inv, NotFound \/ SearchHit \/ Refuse
  PROVE  Map!Next
  <1>1. /\ pc # "idle" /\ pc' = "idle" /\ call' = call /\ UNCHANGED <<buckets, count>>
    BY DEF NotFound, SearchHit, Refuse, Exhausted, Return
  <1>2. Contents' = Contents /\ Phase = "called" /\ Phase' = "idle"
    BY <1>1 DEF Contents, Occupied, Phase
  <1>3. CASE NotFound
    <2>1. ~ Present(call.page) /\ call.op \in {"lookup", "delete"} /\ ret' = Map!No
      BY <1>3, ProbeComplete, Facts DEF NotFound, Return, No, Map!No
    <2>2. Map!TakeEffect(Map!No)
      BY <1>1, <1>2, <2>1 DEF Map!TakeEffect
    <2> QED
      BY <1>2, <2>1, <2>2, AbsentUnmapped DEF Map!Lookup, Map!Delete, Map!Next
  <1>4. CASE Refuse
    <2>1. call.op = "insert" /\ ret' = Map!No
      BY <1>4 DEF Refuse, Return, No, Map!No
    <2>2. Map!TakeEffect(Map!No)
      BY <1>1, <1>2, <2>1 DEF Map!TakeEffect
    <2> QED
      BY <1>2, <2>1, <2>2 DEF Map!Refuse, Map!Next
  <1>5. CASE SearchHit
    <2> DEFINE e == <<buckets[idx].page, buckets[idx].frame>>
    <2>1. idx \in Occupied /\ buckets[idx].page = call.page /\ call.op = "lookup"
      BY <1>5 DEF SearchHit, Hit, Occupied, Inv, TypeOK
    <2>2. e \in Contents /\ e[1] = call.page /\ e[2] = buckets[idx].frame
      BY <2>1, ContentsPairs
    <2>3. Map!TakeEffect([ok |-> TRUE, frame |-> e[2]])
      BY <1>1, <1>2, <1>5, <2>2 DEF Map!TakeEffect, SearchHit, Return
    <2> QED
      BY <1>2, <2>1, <2>2, <2>3 DEF Map!Lookup, Map!Next
  <1> QED
    BY <1>3, <1>4, <1>5

(* One bucket t changes hands; the others, none of them for the page of the *)
(* call, keep their pairs.                                                  *)
LEMMA Rewrite ==
  ASSUME NEW t \in 0 .. Cap - 1,
         \A j \in Occupied \ {t} : buckets[j].page # call.page,
         \A j \in 0 .. Cap - 1 \ {t} : buckets'[j] = buckets[j],
         t \in Occupied => buckets[t].page = call.page
  PROVE  /\ t \notin Occupied' => Contents' = Map!Without(call.page)
         /\ t \in Occupied' =>
              Contents' = Map!Without(call.page) \cup {<<buckets'[t].page, buckets'[t].frame>>}
  <1>1. Occupied' \ {t} = Occupied \ {t}
    BY DEF Occupied
  <1> DEFINE Others == {<<buckets[j].page, buckets[j].frame>> : j \in Occupied \ {t}}
  <1>2. Map!Without(call.page) = Others
    <2>1. ASSUME NEW e \in Map!Without(call.page) PROVE e \in Others
      <3>1. e \in Contents /\ e[1] # call.page
        BY <2>1 DEF Map!Without
      <3>2. PICK j \in Occupied : e = <<buckets[j].page, buckets[j].frame>>
        BY <3>1, ContentsPairs
      <3>3. j # t
        BY <3>1, <3>2
      <3> QED
        BY <3>2, <3>3
    <2>2. ASSUME NEW j \in Occupied \ {t}
          PROVE  <<buckets[j].page, buckets[j].frame>> \in Map!Without(call.page)
      BY ContentsPairs DEF Map!Without
    <2> QED
      BY <2>1, <2>2
  <1>3. {<<buckets'[j].page, buckets'[j].frame>> : j \in Occupied' \ {t}} = Others
    <2>1. \A j \in Occupied \ {t} : buckets'[j] = buckets[j]
      BY DEF Occupied
    <2> QED
      BY <1>1, <2>1
  <1>4. t \notin Occupied' => Contents' = Others
    BY <1>3 DEF Contents
  <1>5. t \in Occupied' => Contents' = Others \cup {<<buckets'[t].page, buckets'[t].frame>>}
    <2>1. Contents' = {<<buckets'[j].page, buckets'[j].frame>> : j \in Occupied'}
      BY DEF Contents
    <2> HIDE DEF Others
    <2> QED
      BY <1>3, <2>1
  <1> QED
    BY <1>2, <1>4, <1>5

LEMMA WriteMaps ==
  ASSUME Inv, DeleteHit \/ UpdateHit \/ Insert
  PROVE  Map!Next
  <1>1. /\ pc = "scan" /\ pc' = "idle" /\ call' = call /\ ret' = Map!Yes
        /\ idx \in 0 .. Cap - 1 /\ buckets \in [0 .. Cap - 1 -> Bucket]
    BY DEF DeleteHit, UpdateHit, Insert, CanInsert, Exhausted, Return, Yes, Map!Yes, Inv, TypeOK
  <1>2. Map!TakeEffect(Map!Yes)
    BY <1>1 DEF Map!TakeEffect, Phase
  <1>3. CASE DeleteHit \/ UpdateHit
    <2>1. idx \in Occupied /\ buckets[idx].page = call.page
      BY <1>1, <1>3 DEF DeleteHit, UpdateHit, Hit, Occupied
    <2>2. \A j \in Occupied \ {idx} : buckets[j].page # call.page
      BY <2>1 DEF Inv, Layout
    <2>3. \A j \in 0 .. Cap - 1 \ {idx} : buckets'[j] = buckets[j]
      BY <1>1, <1>3 DEF DeleteHit, UpdateHit
    <2>4. CASE DeleteHit
      <3>1. idx \notin Occupied'
        BY <1>1, <2>4 DEF DeleteHit, Occupied, Bucket
      <3>2. Contents' = Map!Without(call.page) /\ call.op = "delete"
        BY <1>1, <2>1, <2>2, <2>3, <2>4, <3>1, Rewrite DEF DeleteHit
      <3>3. Map!Mapped(call.page)
        <4> DEFINE e == <<buckets[idx].page, buckets[idx].frame>>
        <4>1. e \in Contents /\ e[1] = call.page
          BY <2>1, ContentsPairs
        <4> QED
          BY <4>1 DEF Map!Mapped
      <3> QED
        BY <1>2, <3>2, <3>3 DEF Map!Delete, Map!Next
    <2>5. CASE UpdateHit
      <3>1. buckets'[idx].page = call.page /\ buckets'[idx].frame = call.frame
              /\ buckets'[idx].state = buckets[idx].state
        BY <1>1, <2>1, <2>5 DEF UpdateHit, Bucket
      <3>2. idx \in Occupied' /\ call.op = "insert"
        BY <1>1, <2>1, <2>5, <3>1 DEF UpdateHit, Occupied
      <3>3. Contents' = Map!Without(call.page) \cup {<<call.page, call.frame>>}
        BY <1>1, <2>1, <2>2, <2>3, <3>1, <3>2, Rewrite
      <3> QED
        BY <1>2, <3>2, <3>3 DEF Map!Insert, Map!Next
    <2> QED
      BY <1>3, <2>4, <2>5
  <1>4. CASE Insert
    <2> DEFINE t == Target
    <2>1. t \in 0 .. Cap - 1 /\ t \notin Occupied
      BY <1>4, TargetLemma
    <2>2. \A j \in Occupied \ {t} : buckets[j].page # call.page
      BY <1>4, ProbeComplete DEF Insert, CanInsert, Present
    <2>3. \A j \in 0 .. Cap - 1 \ {t} : buckets'[j] = buckets[j]
      BY <1>1, <1>4, <2>1 DEF Insert
    <2>4. buckets'[t].page = call.page /\ buckets'[t].frame = call.frame
            /\ buckets'[t].state = "OCCUPIED"
      BY <1>1, <1>4, <2>1 DEF Insert, Entry
    <2>5. t \in Occupied' /\ call.op = "insert"
      BY <1>4, <2>1, <2>4 DEF Insert, Occupied
    <2> HIDE DEF t
    <2>6. Contents' = Map!Without(call.page) \cup {<<call.page, call.frame>>}
      BY <2>1, <2>2, <2>3, <2>4, <2>5, Rewrite
    <2> QED
      BY <1>2, <2>5, <2>6 DEF Map!Insert, Map!Next
  <1> QED
    BY <1>3, <1>4

LEMMA StepMaps ==
  ASSUME Inv, [Next]_vars
  PROVE  [Map!Next]_(Map!vars)
  <1>1. CASE Begin
    <2>1. Phase = "idle" /\ Phase' = "called" /\ Contents' = Contents /\ ret' = ret
      BY <1>1 DEF Begin, Phase, Contents, Occupied
    <2>2. call' \in Map!Calls
      BY <1>1 DEF Begin, Calls, Map!Calls
    <2> QED
      BY <2>1, <2>2 DEF Map!Begin, Map!Next
  <1>2. CASE Start \/ Advance
    <2>1. UNCHANGED <<buckets, call, ret>> /\ pc # "idle" /\ pc' # "idle"
      BY <1>2 DEF Start, Advance
    <2> QED
      BY <2>1 DEF Map!vars, Phase, Contents, Occupied
  <1>3. CASE NotFound \/ SearchHit \/ Refuse
    BY <1>3, SearchMaps
  <1>4. CASE DeleteHit \/ UpdateHit \/ Insert
    BY <1>4, WriteMaps
  <1>5. CASE UNCHANGED vars
    BY <1>5 DEF vars, Map!vars, Phase, Contents, Occupied
  <1> QED
    BY <1>1, <1>2, <1>3, <1>4, <1>5 DEF Next

(* The table of hashtable1.odin is a map that may refuse insertions.        *)
THEOREM Implements == Spec => Refines
  <1>1. Init => Map!Init
    <2> SUFFICES ASSUME Init PROVE Map!Init
      OBVIOUS
    <2>1. Occupied = {}
      BY DEF Init, Unused, Occupied
    <2> QED
      BY <2>1 DEF Init, Map!Init, Contents, Phase, Calls, Map!Calls, No, Map!No
  <1>2. Inv /\ [Next]_vars => [Map!Next]_(Map!vars)
    BY StepMaps
  <1> QED
    BY <1>1, <1>2, Invariance, PTL DEF Spec, Map!Spec, Refines
=============================================================================
