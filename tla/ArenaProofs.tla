---------------------------- MODULE ArenaProofs ----------------------------
(***************************************************************************)
(* Proofs about Arena, for every buffer and every set of sizes that does    *)
(* not make the source's additions wrap.                                    *)
(***************************************************************************)
EXTENDS Arena, TLAPS

NoWrap == \A n \in Sizes, al \in Aligns \cup {0} : BufLen + al + n < Word

-----------------------------------------------------------------------------
(* Arithmetic.                                                              *)

LEMMA DivMod ==
  ASSUME NEW m \in Nat, m >= 1, NEW a \in Nat
  PROVE  a \div m \in Nat /\ a % m \in 0 .. m - 1 /\ a = m * (a \div m) + (a % m)
  BY SMT

LEMMA ModUnique ==
  ASSUME NEW m \in Nat, m >= 1, NEW q \in Nat, NEW r \in 0 .. m - 1
  PROVE  (m * q + r) % m = r
  BY SMT

LEMMA ModSmall ==
  ASSUME NEW m \in Nat, NEW a \in Nat, a < m
  PROVE  a % m = a
<1>1. (m * 0 + a) % m = a
  BY ModUnique
<1> QED
  BY <1>1

LEMMA AlignFacts ==
  ASSUME NEW p \in Nat, NEW al \in Nat, al >= 1
  PROVE  /\ AlignForward(p, al) \in Nat
         /\ p <= AlignForward(p, al) /\ AlignForward(p, al) < p + al
         /\ AlignForward(p, al) % al = 0
<1> DEFINE q == p \div al
           r == p % al
<1>1. q \in Nat /\ r \in 0 .. al - 1 /\ p = al * q + r
  BY DivMod
<1>2. AlignForward(p, al) = IF r = 0 THEN p ELSE p + (al - r)
  BY DEF AlignForward
<1> HIDE DEF q, r
<1>3. CASE r = 0
  <2>1. (al * q + 0) % al = 0
    BY <1>1, ModUnique
  <2> QED
    BY <1>1, <1>2, <1>3, <2>1
<1>4. CASE r > 0
  <2>1. (al * (q + 1) + 0) % al = 0
    BY <1>1, ModUnique
  <2>2. p + (al - r) = al * (q + 1) + 0
    BY <1>1
  <2> QED
    BY <1>1, <1>2, <1>4, <2>1, <2>2
<1> QED
  BY <1>1, <1>3, <1>4

-----------------------------------------------------------------------------
(* The inductive invariant.                                                 *)

(* A block that would be resized in place is the topmost of all.            *)
Topmost ==
  \A i \in Ids : Sized(i) /\ blocks[i].off = prev =>
    \A k \in Ids : k # i /\ Live(k) => End(blocks[k]) <= prev

(* What a scope restores suits the blocks it keeps, at the sizes they had.  *)
Scopes ==
  \A t \in Temps : \A i \in Ids : Kept(t, i) =>
    /\ Live(i)
    /\ blocks[i].off + temps[t].had[i].size <= temps[t].curr
    /\ blocks[i].off = temps[t].prev /\ temps[t].had[i].size > 0 =>
         \A k \in Ids : k # i /\ Kept(t, k) =>
           blocks[k].off + temps[t].had[k].size <= temps[t].prev

Filling == \A i \in Ids : Live(i) => blocks[i].full <= blocks[i].size

Inv == TypeOK /\ Disjoint /\ Topmost /\ Scopes /\ Filling /\ Aligned

LEMMA InitInv == Init => Inv
  BY ArenaAssumption
  DEF Init, Inv, TypeOK, Disjoint, Topmost, Scopes, Filling, Aligned, Closed, Dead, Seen,
      Kept, Live, Sized, Block

LEMMA ForgetFacts ==
  ASSUME TypeOK, NEW S \in SUBSET Ids
  PROVE  /\ Forget(S) \in [Temps -> [open : BOOLEAN, prev : 0 .. BufLen, curr : 0 .. BufLen,
                                     had : [Ids -> [live : BOOLEAN, size : Nat]]]]
         /\ \A t \in Temps :
              /\ Forget(S)[t].prev = temps[t].prev /\ Forget(S)[t].curr = temps[t].curr
              /\ \A i \in Ids : i \notin S => Forget(S)[t].had[i] = temps[t].had[i]
              /\ \A i \in S : ~ Forget(S)[t].had[i].live
<1> DEFINE h(t) == [i \in Ids |-> IF i \in S THEN Seen(Dead) ELSE temps[t].had[i]]
           T == [open : BOOLEAN, prev : 0 .. BufLen, curr : 0 .. BufLen,
                 had : [Ids -> [live : BOOLEAN, size : Nat]]]
<1>1. ASSUME NEW t \in Temps
      PROVE  /\ temps[t] \in T
             /\ h(t) \in [Ids -> [live : BOOLEAN, size : Nat]]
             /\ \A i \in Ids : h(t)[i] = IF i \in S THEN Seen(Dead) ELSE temps[t].had[i]
  BY DEF TypeOK, Seen, Dead
<1>2. Seen(Dead).live = FALSE
  BY DEF Seen, Dead
<1>3. Forget(S) = [t \in Temps |-> [temps[t] EXCEPT !.had = h(t)]]
  BY DEF Forget
<1> HIDE DEF h
<1>4. ASSUME NEW t \in Temps
      PROVE  LET e == [temps[t] EXCEPT !.had = h(t)] IN
             e \in T /\ e.prev = temps[t].prev /\ e.curr = temps[t].curr /\ e.had = h(t)
  BY <1>1
<1> QED
  BY <1>1, <1>2, <1>3, <1>4

-----------------------------------------------------------------------------
(* Placing block i at the first aligned offset behind all others.           *)

OffsetPart(i, n, al) ==
  /\ Fits(Offset(al), n)
  /\ prev' = Offset(al) /\ curr' = (Offset(al) + n) % Word

BlockPart(i, n, al) ==
  /\ blocks' \in [Ids -> Block]
  /\ \A k \in Ids : k # i => blocks'[k] = blocks[k]
  /\ blocks'[i].live /\ blocks'[i].off = Offset(al) /\ blocks'[i].size = n
  /\ blocks'[i].align = al /\ blocks'[i].full <= n

ScopePart(i) ==
  /\ temps' \in [Temps -> [open : BOOLEAN, prev : 0 .. BufLen, curr : 0 .. BufLen,
                           had : [Ids -> [live : BOOLEAN, size : Nat]]]]
  /\ \A t \in Temps :
       /\ temps'[t].prev = temps[t].prev /\ temps'[t].curr = temps[t].curr
       /\ \A k \in Ids : k # i => temps'[t].had[k] = temps[t].had[k]
       /\ ~ temps'[t].had[i].live

LEMMA OffsetFacts ==
  ASSUME NoWrap, Inv, NEW n \in Sizes, NEW al \in Aligns, Fits(Offset(al), n)
  PROVE  /\ n \in Nat /\ al \in Nat /\ al >= 1
         /\ Offset(al) \in Nat /\ curr <= Offset(al) /\ Offset(al) + n <= BufLen
         /\ (Offset(al) + n) % Word = Offset(al) + n
         /\ (Base + Offset(al)) % al = 0
<1>1. /\ n \in Nat /\ al \in Nat /\ al >= 1 /\ Word \in Nat /\ Base \in Nat /\ BufLen \in Nat
      /\ curr \in 0 .. BufLen
  BY ArenaAssumption DEF Inv, TypeOK
<1>2. BufLen + al + n < Word
  BY DEF NoWrap
<1>3. /\ AlignForward(Base + curr, al) \in Nat /\ Base + curr <= AlignForward(Base + curr, al)
      /\ AlignForward(Base + curr, al) < Base + curr + al
      /\ AlignForward(Base + curr, al) % al = 0
  <2>1. \A p \in Nat, a \in Nat : a >= 1 =>
          /\ AlignForward(p, a) \in Nat /\ p <= AlignForward(p, a)
          /\ AlignForward(p, a) < p + a /\ AlignForward(p, a) % a = 0
    BY AlignFacts
  <2>2. Base + curr \in Nat
    BY <1>1
  <2> QED
    BY <1>1, <2>1, <2>2, Zenon
<1>4. /\ Offset(al) \in Nat /\ curr <= Offset(al) /\ Offset(al) < curr + al
      /\ Base + Offset(al) = AlignForward(Base + curr, al)
  BY <1>1, <1>3 DEF Offset
<1>5. Offset(al) + n \in Nat /\ Offset(al) + n < Word
  BY <1>1, <1>2, <1>4
<1>6. (Offset(al) + n) % Word = Offset(al) + n
  BY <1>1, <1>5, ModSmall
<1> QED
  BY <1>1, <1>3, <1>4, <1>5, <1>6 DEF Fits

LEMMA Placing ==
  ASSUME NoWrap, Inv, NEW i \in Ids, NEW n \in Sizes, NEW al \in Aligns,
         OffsetPart(i, n, al), BlockPart(i, n, al), ScopePart(i),
         mem' \in [0 .. BufLen - 1 -> Ids \cup {0}]
  PROVE  Inv'
<1> DEFINE o == Offset(al)
<1>1. /\ n \in Nat /\ al \in Nat /\ o \in Nat /\ curr <= o /\ o + n <= BufLen
      /\ (Base + o) % al = 0 /\ prev' = o /\ curr' = o + n
  BY OffsetFacts DEF OffsetPart
<1>2. /\ blocks' \in [Ids -> Block]
      /\ \A k \in Ids : k # i => blocks'[k] = blocks[k]
      /\ blocks'[i].live /\ blocks'[i].off = o /\ blocks'[i].size = n
      /\ blocks'[i].align = al /\ blocks'[i].full <= n
  BY DEF BlockPart
<1> HIDE DEF o
<1>3. curr \in Nat /\ BufLen \in Nat /\ blocks \in [Ids -> Block]
      /\ \A k \in Ids : /\ blocks[k].off \in Nat /\ blocks[k].size \in Nat
                        /\ Live(k) => blocks[k].off + blocks[k].size <= curr
  BY ArenaAssumption DEF Inv, TypeOK, Disjoint, End, Block
<1>4. TypeOK'
  BY <1>1, <1>2, <1>3 DEF TypeOK, ScopePart
<1>5. Disjoint'
  <2>1. \A k \in Ids : Live(k)' => End(blocks[k])' <= curr'
    BY <1>1, <1>2, <1>3 DEF Live, End
  <2>2. \A j, k \in Ids : j # k /\ Sized(j)' /\ Sized(k)' =>
          End(blocks[j])' <= blocks'[k].off \/ End(blocks[k])' <= blocks'[j].off
    <3> SUFFICES ASSUME NEW j \in Ids, NEW k \in Ids, j # k, Sized(j)', Sized(k)'
                 PROVE  End(blocks[j])' <= blocks'[k].off \/ End(blocks[k])' <= blocks'[j].off
      OBVIOUS
    <3>1. CASE j = i
      BY <1>1, <1>2, <1>3, <3>1 DEF Live, Sized, End
    <3>2. CASE k = i
      BY <1>1, <1>2, <1>3, <3>2 DEF Live, Sized, End
    <3>3. CASE j # i /\ k # i
      BY <1>2, <3>3 DEF Inv, Disjoint, Sized, End
    <3> QED
      BY <3>1, <3>2, <3>3
  <2> QED
    BY <2>1, <2>2 DEF Disjoint
<1>6. Topmost'
  BY <1>1, <1>2, <1>3 DEF Topmost, Live, Sized, End
<1>7. Scopes'
  <2>1. \A t \in Temps :
          /\ temps'[t].prev = temps[t].prev /\ temps'[t].curr = temps[t].curr
          /\ \A k \in Ids : k # i => temps'[t].had[k] = temps[t].had[k]
          /\ ~ temps'[t].had[i].live
    BY DEF ScopePart
  <2>2. Scopes
    BY DEF Inv
  <2> SUFFICES ASSUME NEW t \in Temps, NEW j \in Ids, Kept(t, j)'
               PROVE  /\ Live(j)'
                      /\ blocks'[j].off + temps'[t].had[j].size <= temps'[t].curr
                      /\ blocks'[j].off = temps'[t].prev /\ temps'[t].had[j].size > 0 =>
                           \A k \in Ids : k # j /\ Kept(t, k)' =>
                             blocks'[k].off + temps'[t].had[k].size <= temps'[t].prev
    BY DEF Scopes
  <2>3. \A k \in Ids : Kept(t, k)' =>
          k # i /\ Kept(t, k) /\ temps'[t].had[k] = temps[t].had[k] /\ blocks'[k] = blocks[k]
    BY <1>2, <2>1 DEF Kept
  <2> QED
    BY <2>1, <2>2, <2>3 DEF Scopes, Live
<1>8. Filling' /\ Aligned'
  BY <1>1, <1>2 DEF Inv, Filling, Aligned, Live
<1> QED
  BY <1>4, <1>5, <1>6, <1>7, <1>8 DEF Inv

-----------------------------------------------------------------------------
(* The actions.                                                             *)

LEMMA BumpParts ==
  ASSUME NoWrap, Inv, NEW i \in Ids, NEW n \in Sizes, NEW al \in Aligns, Bump(i, n, al)
  PROVE  /\ OffsetPart(i, n, al) /\ BlockPart(i, n, al)
         /\ mem' \in [0 .. BufLen - 1 -> Ids \cup {0}]
<1>1. OffsetPart(i, n, al)
  BY DEF Bump, OffsetPart
<1>2. n \in Nat /\ al \in Nat /\ Offset(al) \in Nat
  BY <1>1, OffsetFacts DEF OffsetPart
<1>3. BlockPart(i, n, al)
  BY <1>2 DEF Bump, BlockPart, New, Block, Inv, TypeOK
<1>4. mem' \in [0 .. BufLen - 1 -> Ids \cup {0}]
  BY DEF Bump, Zero, Inv, TypeOK
<1> QED
  BY <1>1, <1>3, <1>4

LEMMA ForgetOne ==
  ASSUME Inv, NEW i \in Ids, temps' = Forget({i})
  PROVE  ScopePart(i)
<1>1. TypeOK
  BY DEF Inv
<1>2. {i} \in SUBSET Ids
  OBVIOUS
<1> QED
  BY <1>1, <1>2, ForgetFacts DEF ScopePart

LEMMA AllocInv ==
  ASSUME NoWrap, Inv, NEW i \in Ids, NEW n \in Sizes, NEW al \in Aligns, Alloc(i, n, al)
  PROVE  Inv'
<1>1. OffsetPart(i, n, al) /\ BlockPart(i, n, al) /\ mem' \in [0 .. BufLen - 1 -> Ids \cup {0}]
  BY BumpParts DEF Alloc
<1>2. ScopePart(i)
  <2>1. temps' = temps /\ ~ Live(i)
    BY DEF Alloc, NextId, Live
  <2>2. \A t \in Temps : ~ Kept(t, i)
    BY <2>1 DEF Inv, Scopes
  <2> QED
    BY <2>1, <2>2 DEF ScopePart, Kept, Inv, TypeOK
<1> QED
  BY <1>1, <1>2, Placing

LEMMA ResizeEmptyInv ==
  ASSUME NoWrap, Inv, NEW i \in Ids, NEW n \in Sizes, NEW al \in Aligns, ResizeEmpty(i, n, al)
  PROVE  Inv'
<1>1. OffsetPart(i, n, al) /\ BlockPart(i, n, al) /\ mem' \in [0 .. BufLen - 1 -> Ids \cup {0}]
  BY BumpParts DEF ResizeEmpty
<1>2. ScopePart(i)
  BY ForgetOne DEF ResizeEmpty
<1> QED
  BY <1>1, <1>2, Placing

LEMMA ResizeMoveInv ==
  ASSUME NoWrap, Inv, NEW i \in Ids, NEW n \in Sizes, NEW al \in Aligns, ResizeMove(i, n, al)
  PROVE  Inv'
<1> DEFINE b == blocks[i]
<1>1. OffsetPart(i, n, al)
  BY DEF ResizeMove, OffsetPart
<1>2. /\ n \in Nat /\ al \in Nat /\ Offset(al) \in Nat
      /\ curr <= Offset(al) /\ Offset(al) + n <= BufLen
  BY <1>1, OffsetFacts DEF OffsetPart
<1>3. b \in Block /\ b.live /\ b.off + b.size <= curr
  BY DEF ResizeMove, Sized, Live, Inv, TypeOK, Disjoint, End
<1>4. BlockPart(i, n, al)
  <2>1. blocks' = [blocks EXCEPT ![i] = [New(Offset(al), n, al) EXCEPT !.full = Least(b.full, n)]]
    BY DEF ResizeMove
  <2>2. Least(b.full, n) \in Nat /\ Least(b.full, n) <= n
    BY <1>2, <1>3 DEF Least, Block
  <2> QED
    BY <1>2, <2>1, <2>2 DEF BlockPart, New, Block, Inv, TypeOK
<1>5. mem' \in [0 .. BufLen - 1 -> Ids \cup {0}]
  <2> DEFINE m == Zero(mem, Offset(al), Offset(al) + n)
  <2>1. m \in [0 .. BufLen - 1 -> Ids \cup {0}]
    BY DEF Zero, Inv, TypeOK
  <2>2. mem' = Copy(m, b.off, Offset(al), Least(b.size, n))
    BY DEF ResizeMove
  <2> HIDE DEF m
  <2>3. b.off \in Nat /\ b.size \in Nat /\ Least(b.size, n) <= b.size /\ BufLen \in Nat
        /\ Least(b.size, n) \in Nat /\ curr \in 0 .. BufLen
    BY <1>2, <1>3, ArenaAssumption DEF Least, Block, Inv, TypeOK
  <2> DEFINE k == Least(b.size, n)
             o == Offset(al)
  <2>4. b.off \in Nat /\ k \in Nat /\ b.off + k <= BufLen /\ o \in Nat /\ BufLen \in Nat
    BY <1>2, <1>3, <2>3
  <2> HIDE DEF b, k, o
  <2>5. ASSUME NEW j \in 0 .. BufLen - 1, o <= j, j < o + k
        PROVE  b.off + (j - o) \in 0 .. BufLen - 1
    BY <2>4, <2>5
  <2>6. Copy(m, b.off, o, k) \in [0 .. BufLen - 1 -> Ids \cup {0}]
    BY <2>1, <2>5 DEF Copy
  <2> QED
    BY <2>2, <2>6 DEF b, k, o
<1>6. ScopePart(i)
  BY ForgetOne DEF ResizeMove
<1> QED
  BY <1>1, <1>4, <1>5, <1>6, Placing

LEMMA ResizeInPlaceInv ==
  ASSUME NoWrap, Inv, NEW i \in Ids, NEW n \in Sizes, ResizeInPlace(i, n)
  PROVE  Inv'
<1>1. n \in Nat /\ BufLen \in Nat /\ prev \in 0 .. BufLen /\ curr \in 0 .. BufLen /\ Word \in Nat
  BY ArenaAssumption DEF Inv, TypeOK
<1>2. curr' = prev + n /\ prev + n <= BufLen
  <2>1. BufLen + 0 + n < Word
    BY DEF NoWrap
  <2>2. prev + n \in Nat /\ prev + n < Word
    BY <1>1, <2>1
  <2>3. (prev + n) % Word = prev + n
    BY <1>1, <2>2, ModSmall
  <2> QED
    BY <2>3 DEF ResizeInPlace, Fits
<1>3. /\ prev' = prev /\ temps' = temps
      /\ Sized(i) /\ blocks[i].off = prev
      /\ blocks \in [Ids -> Block]
  BY DEF ResizeInPlace, IsLast, Inv, TypeOK
<1>4. /\ blocks' \in [Ids -> Block]
      /\ \A k \in Ids : k # i => blocks'[k] = blocks[k]
      /\ blocks'[i].live = blocks[i].live /\ blocks'[i].off = prev /\ blocks'[i].size = n
      /\ blocks'[i].align = blocks[i].align /\ blocks'[i].full <= n
  <2>1. blocks' = [blocks EXCEPT ![i] = Cut(blocks[i], n)]
    BY DEF ResizeInPlace
  <2>2. Least(blocks[i].full, n) \in Nat /\ Least(blocks[i].full, n) <= n
    BY <1>1, <1>3 DEF Least, Block
  <2>3. /\ Cut(blocks[i], n) \in Block
        /\ Cut(blocks[i], n).live = blocks[i].live /\ Cut(blocks[i], n).off = blocks[i].off
        /\ Cut(blocks[i], n).size = n /\ Cut(blocks[i], n).align = blocks[i].align
        /\ Cut(blocks[i], n).full <= n
    BY <1>1, <1>3, <2>2 DEF Cut, Block
  <2> QED
    BY <1>3, <2>1, <2>3
<1>5. \A k \in Ids : k # i /\ Live(k) => End(blocks[k]) <= prev
  BY <1>3 DEF Inv, Topmost
<1>6. mem' \in [0 .. BufLen - 1 -> Ids \cup {0}]
  BY DEF ResizeInPlace, WithTail, Zero, Inv, TypeOK
<1>7. TypeOK'
  BY <1>1, <1>2, <1>3, <1>4, <1>6 DEF Inv, TypeOK
<1>8. Disjoint'
  BY <1>1, <1>2, <1>3, <1>4, <1>5 DEF Inv, Disjoint, Live, Sized, End, Block
<1>9. Topmost'
  BY <1>1, <1>2, <1>3, <1>4, <1>5 DEF Topmost, Live, Sized, End, Block
<1>10. Scopes'
  <2>1. \A k \in Ids : blocks'[k].live = blocks[k].live /\ blocks'[k].off = blocks[k].off
    BY <1>3, <1>4
  <2> QED
    BY <1>3, <2>1 DEF Inv, Scopes, Kept, Live
<1>11. Filling' /\ Aligned'
  <2>1. \A k \in Ids : blocks'[k].live = blocks[k].live /\ blocks'[k].off = blocks[k].off
                       /\ blocks'[k].align = blocks[k].align
    BY <1>3, <1>4
  <2>2. Filling'
    <3> SUFFICES ASSUME NEW k \in Ids, Live(k)'
                 PROVE  blocks'[k].full <= blocks'[k].size
      BY DEF Filling
    <3>1. CASE k = i
      BY <1>4, <3>1
    <3>2. CASE k # i
      BY <1>4, <3>2 DEF Inv, Filling, Live
    <3> QED
      BY <3>1, <3>2
  <2>3. Aligned'
    BY <2>1 DEF Inv, Aligned, Live
  <2> QED
    BY <2>2, <2>3
<1> QED
  BY <1>7, <1>8, <1>9, <1>10, <1>11 DEF Inv

LEMMA WriteInv ==
  ASSUME Inv, NEW i \in Ids, Write(i)
  PROVE  Inv'
<1>1. /\ prev' = prev /\ curr' = curr /\ temps' = temps /\ blocks \in [Ids -> Block]
      /\ mem' \in [0 .. BufLen - 1 -> Ids \cup {0}]
  BY DEF Write, Inv, TypeOK
<1>2. /\ blocks' \in [Ids -> Block]
      /\ \A k \in Ids : /\ blocks'[k].live = blocks[k].live /\ blocks'[k].off = blocks[k].off
                        /\ blocks'[k].size = blocks[k].size /\ blocks'[k].align = blocks[k].align
                        /\ blocks'[k].full = IF k = i THEN blocks[k].size ELSE blocks[k].full
  BY <1>1 DEF Write, Block
<1>3. TypeOK' /\ Disjoint' /\ Topmost'
  BY <1>1, <1>2 DEF Inv, TypeOK, Disjoint, Topmost, Live, Sized, End
<1>4. Scopes' /\ Aligned'
  BY <1>1, <1>2 DEF Inv, Scopes, Kept, Live, Aligned
<1>5. Filling'
  <2>1. \A k \in Ids : blocks[k].size \in Nat
    BY <1>1 DEF Block
  <2>2. \A k \in Ids : blocks[k].live => blocks[k].full <= blocks[k].size
    BY DEF Inv, Filling, Live
  <2>3. \A k \in Ids : blocks'[k].live => blocks'[k].full <= blocks'[k].size
    BY <1>2, <2>1, <2>2
  <2> QED
    BY <2>3 DEF Filling, Live
<1> QED
  BY <1>3, <1>4, <1>5 DEF Inv

LEMMA FreeAllInv ==
  ASSUME Inv, FreeAll
  PROVE  Inv'
<1>1. /\ prev' = 0 /\ curr' = 0 /\ mem' = mem /\ BufLen \in Nat
      /\ blocks' \in [Ids -> Block] /\ \A i \in Ids : ~ Live(i)'
  BY ArenaAssumption DEF FreeAll, Dead, Block, Live
<1>2. /\ temps' \in [Temps -> [open : BOOLEAN, prev : 0 .. BufLen, curr : 0 .. BufLen,
                               had : [Ids -> [live : BOOLEAN, size : Nat]]]]
      /\ \A t \in Temps, i \in Ids : ~ Kept(t, i)'
  <2>1. TypeOK /\ Ids \in SUBSET Ids /\ temps' = Forget(Ids)
    BY DEF Inv, FreeAll
  <2> QED
    BY <2>1, ForgetFacts DEF Kept
<1>3. TypeOK'
  BY <1>1, <1>2 DEF Inv, TypeOK
<1> QED
  BY <1>1, <1>2, <1>3 DEF Inv, Disjoint, Topmost, Scopes, Filling, Aligned, Sized, Live

LEMMA TempBeginInv ==
  ASSUME Inv, NEW t \in Temps, TempBegin(t)
  PROVE  Inv'
<1> DEFINE h == [i \in Ids |-> Seen(blocks[i])]
<1>1. /\ prev' = prev /\ curr' = curr /\ mem' = mem /\ blocks' = blocks
      /\ temps' = [temps EXCEPT ![t] = [open |-> TRUE, prev |-> prev, curr |-> curr, had |-> h]]
  BY DEF TempBegin
<1>2. /\ h \in [Ids -> [live : BOOLEAN, size : Nat]]
      /\ \A i \in Ids : h[i].live = blocks[i].live /\ h[i].size = blocks[i].size
  BY DEF Seen, Inv, TypeOK, Block
<1> HIDE DEF h
<1>3. TypeOK'
  BY <1>1, <1>2 DEF Inv, TypeOK
<1>4. /\ \A u \in Temps : u # t => temps'[u] = temps[u]
      /\ temps'[t].prev = prev /\ temps'[t].curr = curr /\ temps'[t].had = h
  BY <1>1 DEF Inv, TypeOK
<1>5. Scopes'
  <2>1. \A u \in Temps, i \in Ids : u # t => (Kept(u, i)' <=> Kept(u, i))
    BY <1>4 DEF Kept
  <2>2. \A i \in Ids : Kept(t, i)' <=> Live(i)
    BY <1>2, <1>4 DEF Kept, Live
  <2>3. \A i \in Ids : Live(i) => End(blocks[i]) <= curr
    BY DEF Inv, Disjoint
  <2>4. Scopes /\ Topmost
    BY DEF Inv
  <2> SUFFICES ASSUME NEW u \in Temps, NEW i \in Ids, Kept(u, i)'
               PROVE  /\ Live(i)'
                      /\ blocks'[i].off + temps'[u].had[i].size <= temps'[u].curr
                      /\ blocks'[i].off = temps'[u].prev /\ temps'[u].had[i].size > 0 =>
                           \A k \in Ids : k # i /\ Kept(u, k)' =>
                             blocks'[k].off + temps'[u].had[k].size <= temps'[u].prev
    BY DEF Scopes
  <2>5. CASE u = t
    BY <1>1, <1>2, <1>4, <2>2, <2>3, <2>4, <2>5 DEF Topmost, Live, Sized, End
  <2>6. CASE u # t
    BY <1>1, <1>4, <2>1, <2>4, <2>6 DEF Scopes, Live
  <2> QED
    BY <2>5, <2>6
<1>6. Disjoint' /\ Topmost' /\ Filling' /\ Aligned'
  BY <1>1 DEF Inv, Disjoint, Topmost, Filling, Aligned, Live, Sized, End
<1> QED
  BY <1>3, <1>5, <1>6 DEF Inv

(* What the end of a scope does to the blocks.                              *)
LEMMA CutFacts ==
  ASSUME NEW b \in Block, NEW n \in Nat
  PROVE  /\ Cut(b, n) \in Block
         /\ Cut(b, n).live = b.live /\ Cut(b, n).off = b.off /\ Cut(b, n).align = b.align
         /\ Cut(b, n).size = n /\ Cut(b, n).full = Least(b.full, n)
<1>1. Least(b.full, n) \in Nat
  BY DEF Least, Block
<1> QED
  BY <1>1 DEF Cut, Block

LEMMA TempEndBlocks ==
  ASSUME Inv, NEW t \in Temps, TempEnd(t)
  PROVE  /\ blocks' \in [Ids -> Block]
         /\ \A i \in Ids :
              IF Kept(t, i)
              THEN /\ blocks'[i].live /\ blocks'[i].off = blocks[i].off
                   /\ blocks'[i].align = blocks[i].align
                   /\ blocks'[i].size <= blocks[i].size
                   /\ blocks'[i].size <= temps[t].had[i].size
                   /\ blocks'[i].full = Least(blocks[i].full, blocks'[i].size)
              ELSE ~ blocks'[i].live
<1> DEFINE c(i) == Cut(blocks[i], Least(blocks[i].size, temps[t].had[i].size))
<1>1. ASSUME NEW i \in Ids
      PROVE  /\ blocks[i] \in Block /\ blocks[i].size \in Nat /\ temps[t].had[i].size \in Nat
             /\ Kept(t, i) => blocks[i].live
  BY DEF Inv, TypeOK, Block, Scopes, Live
<1>2. ASSUME NEW i \in Ids
      PROVE  /\ c(i) \in Block
             /\ c(i).live = blocks[i].live /\ c(i).off = blocks[i].off
             /\ c(i).align = blocks[i].align
             /\ c(i).size <= blocks[i].size /\ c(i).size <= temps[t].had[i].size
             /\ c(i).full = Least(blocks[i].full, c(i).size)
  <2> DEFINE n == Least(blocks[i].size, temps[t].had[i].size)
  <2>1. n \in Nat /\ n <= blocks[i].size /\ n <= temps[t].had[i].size
    BY <1>1 DEF Least
  <2>2. c(i) = Cut(blocks[i], n)
    OBVIOUS
  <2> HIDE DEF n
  <2>3. /\ Cut(blocks[i], n) \in Block
        /\ Cut(blocks[i], n).live = blocks[i].live /\ Cut(blocks[i], n).off = blocks[i].off
        /\ Cut(blocks[i], n).align = blocks[i].align /\ Cut(blocks[i], n).size = n
        /\ Cut(blocks[i], n).full = Least(blocks[i].full, n)
    BY <1>1, <2>1, CutFacts
  <2> HIDE DEF c
  <2> QED
    BY <2>1, <2>2, <2>3
<1>3. blocks' = [i \in Ids |-> IF Kept(t, i) THEN c(i) ELSE Dead]
  BY DEF TempEnd
<1> HIDE DEF c
<1>4. Dead \in Block /\ ~ Dead.live
  BY DEF Dead, Block
<1> QED
  BY <1>1, <1>2, <1>3, <1>4

LEMMA TempEndInv ==
  ASSUME Inv, NEW t \in Temps, TempEnd(t)
  PROVE  Inv'
<1> DEFINE S == {i \in Ids : ~ Kept(t, i)}
<1>1. prev' = temps[t].prev /\ curr' = temps[t].curr /\ mem' = mem
      /\ temps' = [Forget(S) EXCEPT ![t] = Closed]
  BY DEF TempEnd
<1>2. /\ blocks' \in [Ids -> Block]
      /\ \A i \in Ids : Live(i)' <=> Kept(t, i)
      /\ \A i \in Ids : Kept(t, i) =>
           /\ blocks'[i].off = blocks[i].off /\ blocks'[i].align = blocks[i].align
           /\ blocks'[i].size <= blocks[i].size /\ blocks'[i].size <= temps[t].had[i].size
           /\ blocks'[i].full <= blocks'[i].size
  <2>1. \A i \in Ids : blocks[i].full \in Nat /\ blocks'[i].size \in Nat
    BY TempEndBlocks DEF Inv, TypeOK, Block
  <2>2. \A i \in Ids : Least(blocks[i].full, blocks'[i].size) <= blocks'[i].size
    BY <2>1 DEF Least
  <2> QED
    BY TempEndBlocks, <2>2 DEF Live
<1>3. /\ \A u \in Temps : temps[u].prev \in 0 .. BufLen /\ temps[u].curr \in 0 .. BufLen
      /\ \A u \in Temps, i \in Ids : temps[u].had[i].size \in Nat
      /\ BufLen \in Nat
      /\ \A i \in Ids : blocks[i].off \in Nat /\ blocks[i].size \in Nat
      /\ \A i \in Ids : blocks'[i].off \in Nat /\ blocks'[i].size \in Nat
  <2>1. BufLen \in Nat /\ blocks \in [Ids -> Block] /\ TypeOK
    BY ArenaAssumption DEF Inv, TypeOK
  <2>2. blocks' \in [Ids -> Block]
    BY <1>2
  <2>3. \A b \in Block : b.off \in Nat /\ b.size \in Nat
    BY DEF Block
  <2>4. \A i \in Ids : blocks[i] \in Block /\ blocks'[i] \in Block
    BY <2>1, <2>2
  <2>5. \A u \in Temps : /\ temps[u].prev \in 0 .. BufLen /\ temps[u].curr \in 0 .. BufLen
                         /\ \A i \in Ids : temps[u].had[i].size \in Nat
    BY <2>1 DEF TypeOK
  <2> QED
    BY <2>1, <2>3, <2>4, <2>5
<1>4. /\ temps' \in [Temps -> [open : BOOLEAN, prev : 0 .. BufLen, curr : 0 .. BufLen,
                               had : [Ids -> [live : BOOLEAN, size : Nat]]]]
      /\ \A i \in Ids : ~ Kept(t, i)'
      /\ \A u \in Temps, i \in Ids : Kept(u, i)' =>
           /\ u # t /\ Kept(u, i) /\ Kept(t, i)
           /\ temps'[u].had[i] = temps[u].had[i]
           /\ temps'[u].prev = temps[u].prev /\ temps'[u].curr = temps[u].curr
  <2>1. TypeOK /\ S \in SUBSET Ids
    BY DEF Inv
  <2>2. /\ Forget(S) \in [Temps -> [open : BOOLEAN, prev : 0 .. BufLen, curr : 0 .. BufLen,
                                     had : [Ids -> [live : BOOLEAN, size : Nat]]]]
        /\ \A u \in Temps :
             /\ Forget(S)[u].prev = temps[u].prev /\ Forget(S)[u].curr = temps[u].curr
             /\ \A i \in Ids : i \notin S => Forget(S)[u].had[i] = temps[u].had[i]
             /\ \A i \in S : ~ Forget(S)[u].had[i].live
    BY <2>1, ForgetFacts
  <2>3. \A i \in Ids : i \in S <=> ~ Kept(t, i)
    OBVIOUS
  <2>4. Closed \in [open : BOOLEAN, prev : 0 .. BufLen, curr : 0 .. BufLen,
                    had : [Ids -> [live : BOOLEAN, size : Nat]]]
        /\ \A i \in Ids : ~ Closed.had[i].live
    BY <1>3 DEF Closed, Seen, Dead
  <2> HIDE DEF S
  <2>5. \A u \in Temps : temps'[u] = IF u = t THEN Closed ELSE Forget(S)[u]
    BY <1>1, <2>2
  <2>6. temps' \in [Temps -> [open : BOOLEAN, prev : 0 .. BufLen, curr : 0 .. BufLen,
                               had : [Ids -> [live : BOOLEAN, size : Nat]]]]
    BY <1>1, <2>2, <2>4
  <2> QED
    BY <2>2, <2>3, <2>4, <2>5, <2>6 DEF Kept
<1>5. Scopes
  BY DEF Inv
<1>6. TypeOK'
  BY <1>1, <1>2, <1>3, <1>4 DEF Inv, TypeOK
<1>7. Disjoint'
  <2>1. \A i \in Ids : Live(i)' => End(blocks[i])' <= curr'
    BY <1>1, <1>2, <1>3, <1>5 DEF Scopes, End
  <2>2. \A i \in Ids : Sized(i)' => Kept(t, i) /\ Sized(i)
    BY <1>2, <1>3, <1>5 DEF Scopes, Sized, Live
  <2>3. \A i, k \in Ids : i # k /\ Sized(i)' /\ Sized(k)' =>
          End(blocks[i])' <= blocks'[k].off \/ End(blocks[k])' <= blocks'[i].off
    <3> SUFFICES ASSUME NEW i \in Ids, NEW k \in Ids, i # k, Sized(i)', Sized(k)'
                 PROVE  End(blocks[i])' <= blocks'[k].off \/ End(blocks[k])' <= blocks'[i].off
      OBVIOUS
    <3>1. End(blocks[i]) <= blocks[k].off \/ End(blocks[k]) <= blocks[i].off
      BY <2>2 DEF Inv, Disjoint
    <3> QED
      BY <1>2, <1>3, <2>2, <3>1 DEF End
  <2> QED
    BY <2>1, <2>3 DEF Disjoint
<1>8. Topmost'
  <2> SUFFICES ASSUME NEW i \in Ids, Sized(i)', blocks'[i].off = prev',
                      NEW k \in Ids, k # i, Live(k)'
               PROVE  End(blocks[k])' <= prev'
    BY DEF Topmost
  <2>1. Kept(t, i) /\ Kept(t, k) /\ temps[t].had[i].size > 0 /\ blocks[i].off = temps[t].prev
    BY <1>1, <1>2, <1>3 DEF Sized, Live
  <2>2. blocks[k].off + temps[t].had[k].size <= temps[t].prev
    BY <1>5, <2>1 DEF Scopes
  <2> QED
    BY <1>1, <1>2, <1>3, <2>1, <2>2 DEF End
<1>9. Scopes'
  <2> SUFFICES ASSUME NEW u \in Temps, NEW i \in Ids, Kept(u, i)'
               PROVE  /\ Live(i)'
                      /\ blocks'[i].off + temps'[u].had[i].size <= temps'[u].curr
                      /\ blocks'[i].off = temps'[u].prev /\ temps'[u].had[i].size > 0 =>
                           \A k \in Ids : k # i /\ Kept(u, k)' =>
                             blocks'[k].off + temps'[u].had[k].size <= temps'[u].prev
    BY DEF Scopes
  <2>1. /\ u # t /\ Kept(u, i) /\ Kept(t, i)
        /\ temps'[u].had[i] = temps[u].had[i]
        /\ temps'[u].prev = temps[u].prev /\ temps'[u].curr = temps[u].curr
    BY <1>4
  <2>2. Live(i)' /\ blocks'[i].off = blocks[i].off
    BY <1>2, <2>1
  <2>3. blocks[i].off + temps[u].had[i].size <= temps[u].curr
    BY <1>5, <2>1 DEF Scopes
  <2>4. ASSUME blocks[i].off = temps[u].prev, temps[u].had[i].size > 0,
               NEW k \in Ids, k # i, Kept(u, k)'
        PROVE  blocks'[k].off + temps'[u].had[k].size <= temps'[u].prev
    <3>1. Kept(u, k) /\ Kept(t, k) /\ temps'[u].had[k] = temps[u].had[k]
      BY <1>4, <2>4
    <3>2. blocks[k].off + temps[u].had[k].size <= temps[u].prev
      BY <1>5, <2>1, <2>4, <3>1 DEF Scopes
    <3> QED
      BY <1>2, <2>1, <3>1, <3>2
  <2> QED
    BY <2>1, <2>2, <2>3, <2>4
<1>10. Filling' /\ Aligned'
  BY <1>2, <1>5 DEF Inv, Filling, Aligned, Scopes, Live
<1> QED
  BY <1>6, <1>7, <1>8, <1>9, <1>10 DEF Inv

-----------------------------------------------------------------------------
(* The theorems.                                                            *)

LEMMA NextInv ==
  ASSUME NoWrap, Inv, [Next]_vars
  PROVE  Inv'
<1>1. CASE UNCHANGED vars
  BY <1>1 DEF vars, Inv, TypeOK, Disjoint, Topmost, Scopes, Filling, Aligned, Kept, Live, Sized, End
<1>2. ASSUME NEW i \in Ids, NEW n \in Sizes, NEW al \in Aligns,
             Alloc(i, n, al) \/ ResizeEmpty(i, n, al) \/ ResizeMove(i, n, al)
      PROVE  Inv'
  BY <1>2, AllocInv, ResizeEmptyInv, ResizeMoveInv
<1>3. ASSUME NEW i \in Ids, NEW n \in Sizes, ResizeInPlace(i, n)
      PROVE  Inv'
  BY <1>3, ResizeInPlaceInv
<1>4. ASSUME NEW i \in Ids, Write(i)
      PROVE  Inv'
  BY <1>4, WriteInv
<1>5. CASE FreeAll
  BY <1>5, FreeAllInv
<1>6. ASSUME NEW t \in Temps, TempBegin(t) \/ TempEnd(t)
      PROVE  Inv'
  BY <1>6, TempBeginInv, TempEndInv
<1> QED
  BY <1>1, <1>2, <1>3, <1>4, <1>5, <1>6 DEF Next

LEMMA Safe ==
  ASSUME NoWrap
  PROVE  Spec => []Inv
<1>1. Inv /\ [Next]_vars => Inv'
  BY NextInv
<1> QED
  BY <1>1, InitInv, PTL DEF Spec

(* The offsets never leave the buffer: no memset or memmove of the arena    *)
(* goes beyond backing_buffer.                                              *)
THEOREM OffsetsInBuffer ==
  ASSUME NoWrap
  PROVE  Spec => []TypeOK
<1>1. Inv => TypeOK
  BY DEF Inv
<1> QED
  BY <1>1, Safe, PTL

(* No two blocks share a byte and all lie below curr_offset, whatever is    *)
(* allocated, resized in place or moved inside and outside scopes.          *)
THEOREM BlocksDisjoint ==
  ASSUME NoWrap
  PROVE  Spec => []Disjoint
<1>1. Inv => Disjoint
  BY DEF Inv
<1> QED
  BY <1>1, Safe, PTL

(* Every block is at an address of the alignment it was allocated with.     *)
THEOREM BlocksAligned ==
  ASSUME NoWrap
  PROVE  Spec => []Aligned
<1>1. Inv => Aligned
  BY DEF Inv
<1> QED
  BY <1>1, Safe, PTL

-----------------------------------------------------------------------------
(* What the blocks hold.                                                    *)

(* A block that an action leaves where it is, no longer than before and     *)
(* with as much of it written, is intact when its bytes are left alone.     *)
LEMMA StaysIntact ==
  ASSUME Inv, Intact, NEW k \in Ids, Live(k), blocks'[k] \in Block,
         blocks'[k].off = blocks[k].off, blocks'[k].size <= blocks[k].size,
         \A j \in 0 .. blocks'[k].size - 1 : j < blocks'[k].full <=> j < blocks[k].full,
         \A x \in 0 .. BufLen - 1 :
           blocks[k].off <= x /\ x < End(blocks[k]) => mem'[x] = mem[x]
  PROVE  \A j \in 0 .. blocks'[k].size - 1 :
           mem'[blocks'[k].off + j] = IF j < blocks'[k].full THEN k ELSE 0
<1>1. /\ blocks[k].off \in Nat /\ blocks[k].size \in Nat /\ blocks'[k].size \in Nat
      /\ blocks[k].off + blocks[k].size <= curr /\ curr \in 0 .. BufLen /\ BufLen \in Nat
  BY ArenaAssumption DEF Inv, TypeOK, Disjoint, Block, End
<1> SUFFICES ASSUME NEW j \in 0 .. blocks'[k].size - 1
             PROVE  mem'[blocks'[k].off + j] = IF j < blocks'[k].full THEN k ELSE 0
  OBVIOUS
<1>2. /\ j \in 0 .. blocks[k].size - 1 /\ blocks[k].off + j \in 0 .. BufLen - 1
      /\ blocks[k].off <= blocks[k].off + j /\ blocks[k].off + j < End(blocks[k])
  BY <1>1 DEF End
<1>3. mem'[blocks[k].off + j] = mem[blocks[k].off + j]
  BY <1>2
<1>4. mem[blocks[k].off + j] = IF j < blocks[k].full THEN k ELSE 0
  BY <1>2 DEF Intact
<1> QED
  BY <1>3, <1>4

(* Placing a block behind all the others leaves their bytes alone.          *)
LEMMA PlacingIntact ==
  ASSUME Inv, Intact, NEW i \in Ids, NEW n \in Nat, NEW o \in Nat,
         curr <= o, o + n <= BufLen,
         blocks' \in [Ids -> Block], \A k \in Ids : k # i => blocks'[k] = blocks[k],
         blocks'[i].off = o, blocks'[i].size = n,
         \A x \in 0 .. BufLen - 1 : x < curr => mem'[x] = mem[x],
         \A j \in 0 .. n - 1 : mem'[o + j] = IF j < blocks'[i].full THEN i ELSE 0
  PROVE  Intact'
<1> SUFFICES ASSUME NEW k \in Ids, Live(k)'
             PROVE  \A j \in 0 .. blocks'[k].size - 1 :
                      mem'[blocks'[k].off + j] = IF j < blocks'[k].full THEN k ELSE 0
  BY DEF Intact
<1>1. CASE k = i
  BY <1>1
<1>2. CASE k # i
  <2>1. Live(k) /\ blocks'[k] = blocks[k] /\ blocks[k] \in Block
    BY <1>2 DEF Live
  <2>2. blocks[k].size \in Nat /\ End(blocks[k]) <= curr /\ curr \in Nat /\ blocks[k].off \in Nat
        /\ End(blocks[k]) \in Nat
    BY <2>1 DEF Inv, TypeOK, Disjoint, Block, End
  <2>3. \A x \in 0 .. BufLen - 1 :
          blocks[k].off <= x /\ x < End(blocks[k]) => mem'[x] = mem[x]
    BY <2>2, ArenaAssumption
  <2>4. blocks'[k].size <= blocks[k].size
    BY <2>1, <2>2
  <2> QED
    BY <2>1, <2>3, <2>4, StaysIntact
<1> QED
  BY <1>1, <1>2

LEMMA BumpIntact ==
  ASSUME NoWrap, Inv, Intact, NEW i \in Ids, NEW n \in Sizes, NEW al \in Aligns, Bump(i, n, al)
  PROVE  Intact'
<1> DEFINE o == Offset(al)
<1>1. OffsetPart(i, n, al) /\ BlockPart(i, n, al)
  BY BumpParts
<1>2. n \in Nat /\ o \in Nat /\ curr <= o /\ o + n <= BufLen /\ curr \in 0 .. BufLen
  BY <1>1, OffsetFacts DEF OffsetPart, Inv, TypeOK
<1>3. /\ blocks' \in [Ids -> Block] /\ \A k \in Ids : k # i => blocks'[k] = blocks[k]
      /\ blocks'[i].off = o /\ blocks'[i].size = n /\ blocks'[i].full = 0
  BY <1>1 DEF BlockPart, Bump, New, Inv, TypeOK
<1>4. mem' = Zero(mem, o, o + n) /\ DOMAIN mem = 0 .. BufLen - 1 /\ BufLen \in Nat
  BY ArenaAssumption DEF Bump, Inv, TypeOK
<1> HIDE DEF o
<1>5. \A x \in 0 .. BufLen - 1 : x < curr => mem'[x] = mem[x]
  BY <1>2, <1>4 DEF Zero
<1>6. \A j \in 0 .. n - 1 : mem'[o + j] = 0
  BY <1>2, <1>4 DEF Zero
<1> QED
  BY <1>2, <1>3, <1>5, <1>6, PlacingIntact

LEMMA ResizeMoveIntact ==
  ASSUME NoWrap, Inv, Intact, NEW i \in Ids, NEW n \in Sizes, NEW al \in Aligns,
         ResizeMove(i, n, al)
  PROVE  Intact'
<1> DEFINE o == Offset(al)
           b == blocks[i]
           k == Least(b.size, n)
           m == Zero(mem, o, o + n)
<1>1. OffsetPart(i, n, al)
  BY DEF ResizeMove, OffsetPart
<1>2. n \in Nat /\ al \in Nat /\ o \in Nat /\ curr <= o /\ o + n <= BufLen /\ curr \in 0 .. BufLen
  BY <1>1, OffsetFacts DEF OffsetPart, Inv, TypeOK
<1>3. /\ b \in Block /\ b.off \in Nat /\ b.size \in Nat /\ b.full \in Nat
      /\ b.off + b.size <= curr /\ Live(i) /\ b.full <= b.size
  BY DEF ResizeMove, Sized, Live, Inv, TypeOK, Disjoint, End, Block, Filling
<1>4. /\ blocks' \in [Ids -> Block] /\ \A h \in Ids : h # i => blocks'[h] = blocks[h]
      /\ blocks'[i].off = o /\ blocks'[i].size = n /\ blocks'[i].full = Least(b.full, n)
  <2>1. blocks' = [blocks EXCEPT ![i] = [New(o, n, al) EXCEPT !.full = Least(b.full, n)]]
    BY DEF ResizeMove
  <2>2. Least(b.full, n) \in Nat
    BY <1>2, <1>3 DEF Least
  <2> HIDE DEF o, b
  <2> QED
    BY <1>2, <2>1, <2>2 DEF New, Block, Inv, TypeOK
<1>5. mem' = Copy(m, b.off, o, k) /\ DOMAIN mem = 0 .. BufLen - 1 /\ BufLen \in Nat
  BY ArenaAssumption DEF ResizeMove, Inv, TypeOK
<1>6. \A j \in 0 .. b.size - 1 : mem[b.off + j] = IF j < b.full THEN i ELSE 0
  BY <1>3 DEF Intact
<1>7. k \in Nat /\ k <= n /\ k <= b.size /\ (k = n \/ k = b.size)
  BY <1>2, <1>3 DEF Least
<1> HIDE DEF o, b, k
<1>8. DOMAIN m = 0 .. BufLen - 1
      /\ \A x \in 0 .. BufLen - 1 : m[x] = IF o <= x /\ x < o + n THEN 0 ELSE mem[x]
  BY <1>5 DEF Zero
<1> HIDE DEF m
<1>9. \A x \in 0 .. BufLen - 1 :
        mem'[x] = IF o <= x /\ x < o + k THEN m[b.off + (x - o)] ELSE m[x]
  BY <1>5, <1>8 DEF Copy
<1>10. \A x \in 0 .. BufLen - 1 : x < curr => mem'[x] = mem[x]
  BY <1>2, <1>8, <1>9
<1>11. ASSUME NEW j \in 0 .. n - 1
       PROVE  mem'[o + j] = IF j < blocks'[i].full THEN i ELSE 0
  <2>1. o + j \in 0 .. BufLen - 1 /\ o <= o + j /\ o + j < o + n
    BY <1>2, <1>5
  <2>2. CASE j < k
    <3>1. mem'[o + j] = m[b.off + j]
      <4>1. b.off + ((o + j) - o) = b.off + j /\ o + j < o + k
        BY <1>2, <1>3, <1>7, <2>2
      <4> QED
        BY <1>9, <2>1, <4>1
    <3>2. m[b.off + j] = mem[b.off + j]
      <4>1. b.off + j \in 0 .. BufLen - 1 /\ b.off + j < o
        BY <1>2, <1>3, <1>5, <1>7, <2>2
      <4> QED
        BY <1>2, <1>8, <4>1
    <3>3. mem[b.off + j] = IF j < b.full THEN i ELSE 0
      BY <1>3, <1>6, <1>7, <2>2
    <3>4. j < b.full <=> j < Least(b.full, n)
      BY <1>2, <1>3 DEF Least
    <3> QED
      BY <1>4, <3>1, <3>2, <3>3, <3>4
  <2>3. CASE ~ (j < k)
    <3>1. mem'[o + j] = 0
      BY <1>2, <1>7, <1>8, <1>9, <2>1, <2>3
    <3>2. ~ (j < Least(b.full, n))
      BY <1>2, <1>3, <1>7, <2>3 DEF Least
    <3> QED
      BY <1>4, <3>1, <3>2
  <2> QED
    BY <2>2, <2>3
<1> QED
  BY <1>2, <1>4, <1>10, <1>11, PlacingIntact

LEMMA ResizeInPlaceIntact ==
  ASSUME NoWrap, Inv, Intact, NEW i \in Ids, NEW n \in Sizes, ResizeInPlace(i, n)
  PROVE  Intact'
<1> DEFINE b == blocks[i]
<1>1. /\ n \in Nat /\ BufLen \in Nat /\ prev \in 0 .. BufLen /\ curr \in 0 .. BufLen
      /\ b \in Block /\ b.off = prev /\ b.size \in Nat /\ b.full \in Nat /\ b.full <= b.size
      /\ Sized(i) /\ Live(i) /\ prev + b.size <= curr
  BY ArenaAssumption
  DEF Inv, TypeOK, ResizeInPlace, IsLast, Block, Sized, Live, Filling, Disjoint, End
<1>2. /\ blocks' \in [Ids -> Block] /\ \A k \in Ids : k # i => blocks'[k] = blocks[k]
      /\ blocks'[i].off = prev /\ blocks'[i].size = n /\ blocks'[i].full = Least(b.full, n)
  <2>1. blocks' = [blocks EXCEPT ![i] = Cut(b, n)]
    BY DEF ResizeInPlace
  <2>2. /\ Cut(b, n) \in Block /\ Cut(b, n).off = b.off /\ Cut(b, n).size = n
        /\ Cut(b, n).full = Least(b.full, n)
    BY <1>1, CutFacts
  <2> HIDE DEF b
  <2> QED
    BY <1>1, <2>1, <2>2 DEF Inv, TypeOK
<1>3. \A k \in Ids : k # i /\ Live(k) => End(blocks[k]) <= prev
  BY <1>1 DEF Inv, Topmost
<1>4. /\ mem' = WithTail(mem, b, n) /\ DOMAIN mem = 0 .. BufLen - 1
      /\ prev + n <= BufLen
  <2>1. BufLen + 0 + n < Word /\ Word \in Nat
    BY ArenaAssumption DEF NoWrap
  <2>2. prev + n \in Nat /\ prev + n < Word
    BY <1>1, <2>1
  <2>3. (prev + n) % Word = prev + n
    BY <2>1, <2>2, ModSmall
  <2> QED
    BY <2>3 DEF ResizeInPlace, Fits, Inv, TypeOK
<1>5. \A x \in 0 .. BufLen - 1 :
        mem'[x] = IF prev + b.size <= x /\ x < prev + n THEN 0 ELSE mem[x]
  BY <1>1, <1>4 DEF WithTail, Zero
<1>6. \A j \in 0 .. b.size - 1 : mem[prev + j] = IF j < b.full THEN i ELSE 0
  BY <1>1 DEF Intact
<1> HIDE DEF b
<1> SUFFICES ASSUME NEW k \in Ids, Live(k)'
             PROVE  \A j \in 0 .. blocks'[k].size - 1 :
                      mem'[blocks'[k].off + j] = IF j < blocks'[k].full THEN k ELSE 0
  BY DEF Intact
<1>7. CASE k = i
  <2> SUFFICES ASSUME NEW j \in 0 .. n - 1
               PROVE  mem'[prev + j] = IF j < Least(b.full, n) THEN i ELSE 0
    BY <1>2, <1>7
  <2>1. prev + j \in 0 .. BufLen - 1 /\ (j < Least(b.full, n) <=> j < b.full)
    BY <1>1, <1>4 DEF Least
  <2>2. CASE j < b.size
    BY <1>1, <1>5, <1>6, <2>1, <2>2
  <2>3. CASE ~ (j < b.size)
    BY <1>1, <1>5, <2>1, <2>3
  <2> QED
    BY <2>2, <2>3
<1>8. CASE k # i
  <2>1. Live(k) /\ blocks'[k] = blocks[k] /\ blocks[k] \in Block
    BY <1>2, <1>8 DEF Live
  <2>2. blocks[k].size \in Nat /\ End(blocks[k]) \in Nat /\ End(blocks[k]) <= prev
    BY <1>3, <1>8, <2>1 DEF Block, End
  <2>3. \A x \in 0 .. BufLen - 1 :
          blocks[k].off <= x /\ x < End(blocks[k]) => mem'[x] = mem[x]
    BY <1>1, <1>5, <2>2
  <2>4. blocks'[k].size <= blocks[k].size
    BY <2>1, <2>2
  <2> QED
    BY <2>1, <2>3, <2>4, StaysIntact
<1> QED
  BY <1>7, <1>8

LEMMA WriteIntact ==
  ASSUME Inv, Intact, NEW i \in Ids, Write(i)
  PROVE  Intact'
<1>1. /\ blocks \in [Ids -> Block] /\ DOMAIN mem = 0 .. BufLen - 1 /\ BufLen \in Nat
      /\ Sized(i) /\ curr \in 0 .. BufLen
  BY ArenaAssumption DEF Write, Inv, TypeOK
<1>2. /\ \A k \in Ids : k # i => blocks'[k] = blocks[k]
      /\ blocks'[i].off = blocks[i].off /\ blocks'[i].size = blocks[i].size
      /\ blocks'[i].full = blocks[i].size
  BY <1>1 DEF Write, Block
<1>3. \A x \in 0 .. BufLen - 1 :
        mem'[x] = IF blocks[i].off <= x /\ x < End(blocks[i]) THEN i ELSE mem[x]
  BY <1>1 DEF Write, End
<1> SUFFICES ASSUME NEW k \in Ids, Live(k)'
             PROVE  \A j \in 0 .. blocks'[k].size - 1 :
                      mem'[blocks'[k].off + j] = IF j < blocks'[k].full THEN k ELSE 0
  BY DEF Intact
<1>4. CASE k = i
  <2>1. /\ blocks[i].off \in Nat /\ blocks[i].size \in Nat /\ End(blocks[i]) <= curr
    BY <1>1 DEF Inv, Disjoint, Sized, Live, Block
  <2> QED
    BY <1>1, <1>2, <1>3, <1>4, <2>1 DEF End
<1>5. CASE k # i
  <2>1. Live(k) /\ blocks'[k] = blocks[k] /\ blocks[k] \in Block
    BY <1>1, <1>2, <1>5 DEF Live
  <2>2. /\ blocks[k].size \in Nat /\ blocks[k].off \in Nat /\ blocks[i].off \in Nat
        /\ blocks[i].size \in Nat
    BY <1>1, <2>1 DEF Block
  <2>3. \A x \in 0 .. BufLen - 1 :
          blocks[k].off <= x /\ x < End(blocks[k]) => mem'[x] = mem[x]
    <3> SUFFICES ASSUME NEW x \in 0 .. BufLen - 1, blocks[k].off <= x, x < End(blocks[k])
                 PROVE  ~ (blocks[i].off <= x /\ x < End(blocks[i]))
      BY <1>3
    <3>1. Sized(k)
      BY <2>1, <2>2 DEF Sized, Live, End
    <3>2. End(blocks[i]) <= blocks[k].off \/ End(blocks[k]) <= blocks[i].off
      BY <1>1, <1>5, <3>1 DEF Inv, Disjoint
    <3> QED
      BY <2>2, <3>2 DEF End
  <2>4. blocks'[k].size <= blocks[k].size
    BY <2>1, <2>2
  <2> QED
    BY <2>1, <2>3, <2>4, StaysIntact
<1> QED
  BY <1>4, <1>5

LEMMA TempEndIntact ==
  ASSUME Inv, Intact, NEW t \in Temps, TempEnd(t)
  PROVE  Intact'
<1>1. mem' = mem
  BY DEF TempEnd
<1> SUFFICES ASSUME NEW k \in Ids, Live(k)'
             PROVE  \A j \in 0 .. blocks'[k].size - 1 :
                      mem'[blocks'[k].off + j] = IF j < blocks'[k].full THEN k ELSE 0
  BY DEF Intact
<1>2. /\ blocks'[k] \in Block /\ Live(k) /\ blocks'[k].off = blocks[k].off
      /\ blocks'[k].size <= blocks[k].size
      /\ blocks'[k].full = Least(blocks[k].full, blocks'[k].size)
  BY TempEndBlocks DEF Live, Inv, Scopes
<1>3. blocks[k].full \in Nat /\ blocks'[k].size \in Nat
  BY <1>2 DEF Inv, TypeOK, Block
<1>4. \A j \in 0 .. blocks'[k].size - 1 : j < blocks'[k].full <=> j < blocks[k].full
  BY <1>2, <1>3 DEF Least
<1> QED
  BY <1>1, <1>2, <1>4, StaysIntact

(* A block keeps what its caller wrote, and is zero where the caller has    *)
(* not written, through every allocation, resize and scope.                 *)
THEOREM BlocksIntact ==
  ASSUME NoWrap
  PROVE  Spec => []Intact
<1>1. Init => Intact
  BY DEF Init, Intact, Live, Dead
<1>2. ASSUME Inv, Intact, [Next]_vars
      PROVE  Intact'
  <2>1. CASE UNCHANGED vars
    BY <1>2, <2>1 DEF vars, Intact, Live
  <2>2. ASSUME NEW i \in Ids, NEW n \in Sizes, NEW al \in Aligns,
               Alloc(i, n, al) \/ ResizeEmpty(i, n, al) \/ ResizeMove(i, n, al)
        PROVE  Intact'
    BY <1>2, <2>2, BumpIntact, ResizeMoveIntact DEF Alloc, ResizeEmpty
  <2>3. ASSUME NEW i \in Ids, NEW n \in Sizes, ResizeInPlace(i, n)
        PROVE  Intact'
    BY <1>2, <2>3, ResizeInPlaceIntact
  <2>4. ASSUME NEW i \in Ids, Write(i)
        PROVE  Intact'
    BY <1>2, <2>4, WriteIntact
  <2>5. CASE FreeAll
    BY <2>5 DEF FreeAll, Intact, Live, Dead
  <2>6. ASSUME NEW t \in Temps, TempBegin(t)
        PROVE  Intact'
    BY <1>2, <2>6 DEF TempBegin, Intact, Live
  <2>7. ASSUME NEW t \in Temps, TempEnd(t)
        PROVE  Intact'
    BY <1>2, <2>7, TempEndIntact
  <2> QED
    BY <1>2, <2>1, <2>2, <2>3, <2>4, <2>5, <2>6, <2>7 DEF Next
<1>3. Inv /\ Intact /\ [Next]_vars => Intact'
  BY <1>2
<1> QED
  BY <1>1, <1>3, Safe, PTL DEF Spec
=============================================================================
