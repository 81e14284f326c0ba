--------------------------- MODULE ProgramsProofs ---------------------------
(***************************************************************************)
(* For every number of frames and of children: the types of the swizzling   *)
(* pool, what it caches until it is full, which frame goes first, and which *)
(* frame is the only one ever written to disk; where a tagged word of the   *)
(* sketches leads, and how a saved list comes back.  Then the chained table,*)
(* the lexers and the flat AST, for inputs of every size: no node of a chain*)
(* is lost, the table is a map, the tokens are the text's and the array is  *)
(* the tree; of the io_uring reader, no request is lost and no failure goes *)
(* unnoticed.  Last, side by side each program runs as it does alone.       *)
(***************************************************************************)
EXTENDS Programs, FiniteSetTheorems, WellFoundedInduction, TLAPS

-----------------------------------------------------------------------------
(* The swizzling pool.                                                      *)

(* A number below another, and with it added.                               *)
LEMMA TagBit ==
  ASSUME NEW t \in Nat \ {0}, NEW x \in 0 .. t - 1
  PROVE  /\ (x \div t) % 2 = 0 /\ ((x + t) \div t) % 2 = 1 /\ (x + t) % t = x
<1>1. x \div t = 0
  OBVIOUS
<1>2. (x + t) \div t = 1
  OBVIOUS
<1>3. (x + t) % t = x
  OBVIOUS
<1> QED
  BY <1>1, <1>2, <1>3

(* A pointer is what its tag says.                                          *)
LEMMA PointerFacts ==
  ASSUME NEW x \in Pointer
  PROVE  /\ IsSwizzled(x) => x.frame \in FrameIds /\ x = Swz(x.frame)
         /\ ~ IsSwizzled(x) => x.page \in PageIds /\ x = Id(x.page)
  BY DEF Pointer, IsSwizzled, Swz, Id

LEMMA SwzFacts ==
  /\ \A f \in FrameIds : Swz(f) \in Pointer /\ IsSwizzled(Swz(f)) /\ Swz(f).frame = f
  /\ \A p \in PageIds : Id(p) \in Pointer /\ ~ IsSwizzled(Id(p)) /\ Id(p).page = p
  BY DEF Pointer, IsSwizzled, Swz, Id

LEMMA Ranges ==
  /\ Root \in FrameIds /\ Root \in PageIds /\ Last \in Slots
  /\ \A s \in Slots : Child(s) \in PageIds /\ Child(s) # 0
  /\ \A s, t \in Slots : Child(s) = Child(t) => s = t
  BY SizeAssumption DEF Root, FrameIds, PageIds, Last, Slots, Child

(* What Patch writes: one child slot of one frame, and that it is dirty.    *)
LEMMA PatchFacts ==
  ASSUME NEW F \in [FrameIds -> Frame], NEW f \in FrameIds, NEW s \in Slots, NEW x \in Pointer
  PROVE  /\ Patch(F, f, s, x) \in [FrameIds -> Frame]
         /\ \A g \in FrameIds \ {f} : Patch(F, f, s, x)[g] = F[g]
         /\ LET a == Patch(F, f, s, x)[f] IN
            /\ a.page.children[s] = x
            /\ \A t \in Slots \ {s} : a.page.children[t] = F[f].page.children[t]
            /\ a.pid = F[f].pid /\ a.used = F[f].used /\ a.ref = F[f].ref
            /\ a.parent = F[f].parent /\ a.slot = F[f].slot /\ a.dirty
  BY DEF Patch, Frame, Page

LEMMA LoadFacts ==
  ASSUME NEW F \in [FrameIds -> Frame], NEW D \in [PageIds -> Page],
         NEW f \in FrameIds, NEW p \in PageIds, NEW s \in Slots
  PROVE  /\ Load(F, D, f, p, s) \in [FrameIds -> Frame]
         /\ \A g \in FrameIds \ {f} : Load(F, D, f, p, s)[g] = F[g]
         /\ Load(F, D, f, p, s)[f].page = D[p] /\ Load(F, D, f, p, s)[f].pid = p
         /\ ~ Load(F, D, f, p, s)[f].dirty /\ Load(F, D, f, p, s)[f].used
         /\ Load(F, D, f, p, s)[f].parent = Root /\ Load(F, D, f, p, s)[f].slot = s
  BY Ranges DEF Load, Frame

LEMMA FollowType ==
  ASSUME TypeOK, NEW s \in Slots
  PROVE  Follow(frames, s) \in Pointer
  BY Ranges DEF TypeOK, Follow, Frame, Page

LEMMA SweepFacts ==
  ASSUME TypeOK
  PROVE  /\ Sweep \in [FrameIds -> Frame]
         /\ \A f \in FrameIds :
              /\ Sweep[f].page = frames[f].page /\ Sweep[f].pid = frames[f].pid
              /\ Sweep[f].dirty = frames[f].dirty /\ Sweep[f].parent = frames[f].parent
              /\ Sweep[f].slot = frames[f].slot
  BY DEF Sweep, TypeOK, Frame

(* Unswizzle patches the victim's parent, which is the root's frame.        *)
LEMMA UnswizzleFacts ==
  ASSUME NEW F \in [FrameIds -> Frame], NEW v \in FrameIds
  PROVE  /\ Unswizzle(F, v) \in [FrameIds -> Frame]
         /\ F[v].parent \in {Root, NoFrame} =>
              \A g \in FrameIds \ {Root} : Unswizzle(F, v)[g] = F[g]
         /\ F[v].parent \in {Root, NoFrame} =>
              \A g \in FrameIds : Unswizzle(F, v)[g].parent = F[g].parent
<1>1. F[v].parent \in FrameIds \cup {NoFrame} /\ F[v].slot \in Slots /\ F[v].pid \in PageIds
  BY DEF Frame
<1>2. CASE F[v].parent = NoFrame
  BY <1>2 DEF Unswizzle
<1>3. CASE F[v].parent # NoFrame
  <2>1. Id(F[v].pid) \in Pointer
    BY <1>1, SwzFacts
  <2>2. Unswizzle(F, v) = Patch(F, F[v].parent, F[v].slot, Id(F[v].pid))
    BY <1>3 DEF Unswizzle
  <2>3. F[v].parent \in FrameIds
    BY <1>1, <1>3
  <2>. QED BY <1>1, <1>3, <2>1, <2>2, <2>3, PatchFacts
<1>. QED BY <1>2, <1>3

LEMMA FlushType ==
  ASSUME NEW F \in [FrameIds -> Frame], NEW v \in FrameIds, disk \in [PageIds -> Page]
  PROVE  Flush(F, v) \in [PageIds -> Page]
  BY DEF Flush, Frame

(* The frames after a load and the patch of the root's slot.                *)
Brought(F, D, f, s) == Patch(Load(F, D, f, Follow(frames, s).page, s), Root, s, Swz(f))

LEMMA BroughtFacts ==
  ASSUME NEW F \in [FrameIds -> Frame], NEW D \in [PageIds -> Page], NEW f \in FrameIds,
         NEW s \in Slots, Follow(frames, s).page \in PageIds
  PROVE  /\ Brought(F, D, f, s) \in [FrameIds -> Frame]
         /\ \A g \in FrameIds \ {Root, f} : Brought(F, D, f, s)[g] = F[g]
         /\ f # Root => Brought(F, D, f, s)[f] = Load(F, D, f, Follow(frames, s).page, s)[f]
         /\ LET a == Brought(F, D, f, s)[Root] IN
            /\ a.page.children[s] = Swz(f)
            /\ f # Root =>
                 /\ \A t \in Slots \ {s} : a.page.children[t] = F[Root].page.children[t]
                 /\ a.pid = F[Root].pid /\ a.used = F[Root].used /\ a.ref = F[Root].ref
                 /\ a.parent = F[Root].parent
            /\ f = Root => a.parent = Root
<1> DEFINE p == Follow(frames, s).page
           L == Load(F, D, f, p, s)
<1>0. p \in PageIds
  OBVIOUS
<1> HIDE DEF p
<1>1. /\ L \in [FrameIds -> Frame]
      /\ \A g \in FrameIds \ {f} : L[g] = F[g]
      /\ L[f].parent = Root
  BY <1>0, LoadFacts
<1>2. Swz(f) \in Pointer /\ Root \in FrameIds
  BY SwzFacts, Ranges
<1>3. Brought(F, D, f, s) = Patch(L, Root, s, Swz(f))
  BY DEF Brought, p
<1> HIDE DEF L
<1>4. /\ Patch(L, Root, s, Swz(f)) \in [FrameIds -> Frame]
      /\ \A g \in FrameIds \ {Root} : Patch(L, Root, s, Swz(f))[g] = L[g]
      /\ LET a == Patch(L, Root, s, Swz(f))[Root] IN
         /\ a.page.children[s] = Swz(f)
         /\ \A t \in Slots \ {s} : a.page.children[t] = L[Root].page.children[t]
         /\ a.pid = L[Root].pid /\ a.used = L[Root].used /\ a.ref = L[Root].ref
         /\ a.parent = L[Root].parent
  BY <1>1, <1>2, PatchFacts
<1>5. f # Root => Patch(L, Root, s, Swz(f))[f] = Load(F, D, f, Follow(frames, s).page, s)[f]
  BY <1>4 DEF L, p
<1>. QED BY <1>1, <1>2, <1>3, <1>4, <1>5

-----------------------------------------------------------------------------
LEMMA TypeInit == Init => TypeOK
<1> SUFFICES ASSUME Init PROVE TypeOK
  OBVIOUS
<1>1. \A p \in PageIds : Image(p) \in Page
  BY SwzFacts, Ranges DEF Image, Page, PageIds, Slots, Root
<1>2. Zeroed \in Page /\ 0 \in Slots /\ 0 \in PageIds /\ 0 \in FrameIds
  BY SwzFacts, SizeAssumption DEF Zeroed, Page, PageIds, Slots, FrameIds
<1>3. Unused \in Frame
  BY <1>2 DEF Unused, Frame
<1>4. \A f \in FrameIds :
        (IF f = Root THEN [Unused EXCEPT !.used = TRUE, !.page = Image(Root)] ELSE Unused) \in Frame
  BY <1>1, <1>3, Ranges DEF Unused, Frame
<1>5. frames \in [FrameIds -> Frame]
  BY <1>4 DEF Init
<1>6. disk \in [PageIds -> Page]
  BY <1>1 DEF Init
<1>7. got.slot \in Slots /\ got.frame \in FrameIds \cup {NoFrame}
  BY <1>2 DEF Init
<1>8. hand \in FrameIds /\ linked \in BOOLEAN /\ evictions \in 0 .. MaxEvict
  <2>1. hand = 0 /\ linked = FALSE /\ evictions = 0
    BY DEF Init
  <2>2. 0 \in 0 .. MaxEvict
    BY SizeAssumption
  <2>. QED BY <1>2, <2>1, <2>2
<1>. QED BY <1>5, <1>6, <1>7, <1>8 DEF TypeOK

LEMMA LinkType == TypeOK /\ Link => TypeOK'
<1> SUFFICES ASSUME TypeOK, Link PROVE TypeOK'
  OBVIOUS
<1>1. Id(Child(Last)) \in Pointer /\ Root \in FrameIds /\ Last \in Slots
  BY SwzFacts, Ranges
<1>2. PICK f : f = frames[Root]
  OBVIOUS
<1>3. f \in Frame
  BY <1>1, <1>2 DEF TypeOK
<1>4. [f EXCEPT !.page.children[Last] = Id(Child(Last))] \in Frame
  BY <1>1, <1>3 DEF Frame, Page
<1>5. frames' = [frames EXCEPT ![Root] = [f EXCEPT !.page.children[Last] = Id(Child(Last))]]
  BY <1>1, <1>2 DEF Link, TypeOK
<1>6. frames' \in [FrameIds -> Frame]
  BY <1>4, <1>5 DEF TypeOK
<1>. QED BY <1>6 DEF Link, TypeOK

LEMMA HitType == ASSUME TypeOK, NEW s \in Slots, Hit(s) PROVE TypeOK'
<1>1. Follow(frames, s).frame \in FrameIds
  BY FollowType, PointerFacts DEF Hit
<1>2. frames' \in [FrameIds -> Frame]
  BY <1>1 DEF Hit, TypeOK, Frame
<1>. QED BY <1>1, <1>2 DEF Hit, TypeOK

(* The page id in an unswizzled slot.                                       *)
LEMMA PageType ==
  ASSUME TypeOK, NEW s \in Slots, ~ IsSwizzled(Follow(frames, s))
  PROVE  Follow(frames, s).page \in PageIds
  BY FollowType, PointerFacts

LEMMA FreeType == ASSUME TypeOK, NEW s \in Slots, MissFree(s) PROVE TypeOK'
<1>1. PICK f \in Free : /\ frames' = Brought(frames, disk, f, s)
                        /\ got' = [slot |-> s, frame |-> f]
  BY DEF MissFree, Brought
<1>2. f \in FrameIds /\ Follow(frames, s).page \in PageIds
  BY PageType DEF Free, MissFree
<1>3. frames' \in [FrameIds -> Frame]
  BY <1>1, <1>2, BroughtFacts DEF TypeOK
<1>. QED BY <1>1, <1>2, <1>3 DEF MissFree, TypeOK

(* What an eviction does, by its victim.                                    *)
LEMMA EvictFacts ==
  ASSUME TypeOK, NEW s \in Slots, MissEvict(s)
  PROVE  \E v \in FrameIds :
           /\ IsVictim(v) /\ hand' = After(v)
           /\ disk' = Flush(Unswizzle(Sweep, v), v) /\ disk' \in [PageIds -> Page]
           /\ frames' = Brought(Unswizzle(Sweep, v), disk', v, s)
           /\ Unswizzle(Sweep, v) \in [FrameIds -> Frame]
           /\ Follow(frames, s).page \in PageIds
           /\ got' = [slot |-> s, frame |-> v]
<1>1. PICK v \in FrameIds :
           /\ IsVictim(v) /\ hand' = After(v)
           /\ disk' = Flush(Unswizzle(Sweep, v), v)
           /\ frames' = Brought(Unswizzle(Sweep, v), disk', v, s)
           /\ got' = [slot |-> s, frame |-> v]
  BY DEF MissEvict, Brought
<1>2. Unswizzle(Sweep, v) \in [FrameIds -> Frame]
  BY SweepFacts, UnswizzleFacts
<1>3. disk' \in [PageIds -> Page]
  BY <1>1, <1>2, FlushType DEF TypeOK
<1>4. Follow(frames, s).page \in PageIds
  BY PageType DEF MissEvict
<1>. QED BY <1>1, <1>2, <1>3, <1>4

LEMMA EvictType == ASSUME TypeOK, NEW s \in Slots, MissEvict(s) PROVE TypeOK'
<1>1. PICK v \in FrameIds :
           /\ hand' = After(v) /\ disk' \in [PageIds -> Page]
           /\ frames' = Brought(Unswizzle(Sweep, v), disk', v, s)
           /\ Unswizzle(Sweep, v) \in [FrameIds -> Frame]
           /\ Follow(frames, s).page \in PageIds
           /\ got' = [slot |-> s, frame |-> v]
  BY EvictFacts
<1>2. frames' \in [FrameIds -> Frame]
  BY <1>1, BroughtFacts
<1>3. hand' \in FrameIds
  BY <1>1, SizeAssumption DEF After, FrameIds
<1>4. evictions' \in 0 .. MaxEvict
  BY SizeAssumption DEF MissEvict, TypeOK
<1>. QED BY <1>1, <1>2, <1>3, <1>4 DEF MissEvict, TypeOK

LEMMA TypeNext == TypeOK /\ [Next]_vars => TypeOK'
<1> SUFFICES ASSUME TypeOK, [Next]_vars PROVE TypeOK'
  OBVIOUS
<1>1. CASE Link
  BY <1>1, LinkType
<1>2. CASE \E s \in Slots : Hit(s)
  BY <1>2, HitType
<1>3. CASE \E s \in Slots : MissFree(s)
  BY <1>3, FreeType
<1>4. CASE \E s \in Slots : MissEvict(s)
  BY <1>4, EvictType
<1>5. CASE UNCHANGED vars
  BY <1>5 DEF vars, TypeOK
<1>. QED BY <1>1, <1>2, <1>3, <1>4, <1>5 DEF Next

(* The fields of the pool keep their types and the hand stays in it.        *)
THEOREM TypeCorrect == Spec => []TypeOK
<1>1. Init => TypeOK
  BY TypeInit
<1>2. TypeOK /\ [Next]_vars => TypeOK'
  BY TypeNext
<1>. QED BY <1>1, <1>2, PTL DEF Spec

-----------------------------------------------------------------------------
(* Only the root's frame is ever marked dirty, and no other is a parent.    *)
OnlyRoot ==
  \A f \in FrameIds : frames[f].parent \in {Root, NoFrame} /\ (frames[f].dirty => f = Root)

LEMMA OnlyRootInit == Init => OnlyRoot
<1> SUFFICES ASSUME Init, NEW f \in FrameIds
             PROVE  frames[f].parent \in {Root, NoFrame} /\ ~ frames[f].dirty
  BY DEF OnlyRoot
<1>1. frames[f] = IF f = Root THEN [Unused EXCEPT !.used = TRUE, !.page = Image(Root)] ELSE Unused
  BY DEF Init
<1>. QED BY <1>1 DEF Unused

(* A victim that is written is the root's frame.                            *)
LEMMA VictimWritten ==
  ASSUME TypeOK, OnlyRoot, NEW v \in FrameIds, Flush(Unswizzle(Sweep, v), v) # disk
  PROVE  v = Root
<1>1. Sweep[v].parent \in {Root, NoFrame} /\ Sweep[v].dirty = frames[v].dirty
  BY SweepFacts DEF OnlyRoot
<1>2. v # Root => Unswizzle(Sweep, v)[v] = Sweep[v]
  BY <1>1, SweepFacts, UnswizzleFacts
<1>3. Unswizzle(Sweep, v)[v].dirty
  BY DEF Flush
<1>. QED BY <1>1, <1>2, <1>3 DEF OnlyRoot

LEMMA BroughtOnlyRoot ==
  ASSUME NEW F \in [FrameIds -> Frame], NEW D \in [PageIds -> Page], NEW f \in FrameIds,
         NEW s \in Slots, Follow(frames, s).page \in PageIds,
         \A g \in FrameIds : F[g].parent \in {Root, NoFrame},
         \A g \in FrameIds \ {Root, f} : ~ F[g].dirty,
         frames' = Brought(F, D, f, s)
  PROVE  OnlyRoot'
<1> SUFFICES ASSUME NEW g \in FrameIds
             PROVE  frames'[g].parent \in {Root, NoFrame} /\ (frames'[g].dirty => g = Root)
  BY DEF OnlyRoot
<1>1. CASE g = Root
  BY <1>1, BroughtFacts
<1>2. CASE g = f /\ g # Root
  <2> DEFINE p == Follow(frames, s).page
  <2>1. p \in PageIds /\ frames'[f] = Load(F, D, f, p, s)[f]
    BY <1>2, BroughtFacts
  <2> HIDE DEF p
  <2>2. Load(F, D, f, p, s)[f].parent = Root /\ ~ Load(F, D, f, p, s)[f].dirty
    BY <2>1, LoadFacts
  <2>. QED BY <1>2, <2>1, <2>2
<1>3. CASE g \notin {Root, f}
  BY <1>3, BroughtFacts
<1>. QED BY <1>1, <1>2, <1>3

LEMMA OnlyRootNext == TypeOK /\ OnlyRoot /\ [Next]_vars => OnlyRoot'
<1> SUFFICES ASSUME TypeOK, OnlyRoot, [Next]_vars PROVE OnlyRoot'
  OBVIOUS
<1>1. CASE Link
  <2>1. \A f \in FrameIds : frames'[f].parent = frames[f].parent /\ frames'[f].dirty = frames[f].dirty
    BY <1>1 DEF Link, TypeOK, Frame
  <2>. QED BY <2>1 DEF OnlyRoot
<1>2. ASSUME NEW s \in Slots, Hit(s) PROVE OnlyRoot'
  <2>1. \A f \in FrameIds : frames'[f].parent = frames[f].parent /\ frames'[f].dirty = frames[f].dirty
    BY <1>2 DEF Hit, TypeOK, Frame
  <2>. QED BY <2>1 DEF OnlyRoot
<1>3. ASSUME NEW s \in Slots, MissFree(s) PROVE OnlyRoot'
  <2>1. PICK f \in FrameIds : frames' = Brought(frames, disk, f, s)
    BY <1>3 DEF MissFree, Brought, Free
  <2>2. Follow(frames, s).page \in PageIds
    BY <1>3, PageType DEF MissFree
  <2>3. frames \in [FrameIds -> Frame] /\ disk \in [PageIds -> Page]
    BY DEF TypeOK
  <2>. QED BY <2>1, <2>2, <2>3, BroughtOnlyRoot DEF OnlyRoot
<1>4. ASSUME NEW s \in Slots, MissEvict(s) PROVE OnlyRoot'
  <2>1. PICK v \in FrameIds :
           /\ disk' \in [PageIds -> Page]
           /\ frames' = Brought(Unswizzle(Sweep, v), disk', v, s)
           /\ Unswizzle(Sweep, v) \in [FrameIds -> Frame]
           /\ Follow(frames, s).page \in PageIds
    BY <1>4, EvictFacts
  <2>2. Sweep \in [FrameIds -> Frame] /\ Sweep[v].parent \in {Root, NoFrame}
    BY SweepFacts DEF OnlyRoot
  <2>3. /\ \A g \in FrameIds \ {Root} : Unswizzle(Sweep, v)[g] = Sweep[g]
        /\ \A g \in FrameIds : Unswizzle(Sweep, v)[g].parent = Sweep[g].parent
    BY <2>2, UnswizzleFacts
  <2>4. \A g \in FrameIds : Unswizzle(Sweep, v)[g].parent \in {Root, NoFrame}
    BY <2>3, SweepFacts DEF OnlyRoot
  <2>5. \A g \in FrameIds \ {Root, v} : ~ Unswizzle(Sweep, v)[g].dirty
    BY <2>3, SweepFacts DEF OnlyRoot
  <2>. QED BY <2>1, <2>4, <2>5, BroughtOnlyRoot
<1>5. CASE UNCHANGED vars
  BY <1>5 DEF vars, OnlyRoot
<1>. QED BY <1>1, <1>2, <1>3, <1>4, <1>5 DEF Next

(* bp_evict and unswizzle_frame, over any number of evictions: nothing is   *)
(* written to disk but the root's frame, although the sweep may take any.   *)
THEOREM WritesRootOnly == Spec => OnlyRootWritten
<1>1. Init => TypeOK /\ OnlyRoot
  BY TypeInit, OnlyRootInit
<1>2. TypeOK /\ OnlyRoot /\ [Next]_vars => OnlyRoot'
  BY OnlyRootNext
<1>3. TypeOK /\ OnlyRoot /\ [Next]_vars => [disk' # disk => got'.frame = Root]_vars
  <2> SUFFICES ASSUME TypeOK, OnlyRoot, Next, disk' # disk PROVE got'.frame = Root
    OBVIOUS
  <2>1. PICK s \in Slots : MissEvict(s)
    BY DEF Next, Link, Hit, MissFree
  <2>2. PICK v \in FrameIds : /\ disk' = Flush(Unswizzle(Sweep, v), v)
                              /\ got' = [slot |-> s, frame |-> v]
    BY <2>1, EvictFacts
  <2>. QED BY <2>2, VictimWritten
<1>. QED BY <1>1, <1>2, <1>3, TypeCorrect, PTL DEF Spec, OnlyRootWritten

-----------------------------------------------------------------------------
(* As long as nothing was evicted: the hand has not moved, the root's frame *)
(* is in use and has no ref_bit, a slot of the root that is not swizzled    *)
(* holds its child's page id, and swizzled slots and frames in use pair up. *)
Loaded(f) ==
  /\ frames[f].parent = Root /\ frames[f].pid = Child(frames[f].slot)
  /\ frames[f].page.self = Child(frames[f].slot)
  /\ Follow(frames, frames[f].slot) = Swz(f)

Paired(s) ==
  IF IsSwizzled(Follow(frames, s))
    THEN LET f == Follow(frames, s).frame IN
         f # Root /\ frames[f].used /\ frames[f].slot = s
    ELSE Follow(frames, s) = Id(IF s = Last /\ ~ linked THEN 0 ELSE Child(s))

Fresh ==
  /\ hand = 0 /\ disk = [p \in PageIds |-> Image(p)]
  /\ frames[Root].used /\ ~ frames[Root].ref /\ frames[Root].pid = Root
  /\ ~ linked => ~ IsSwizzled(Follow(frames, Last))
  /\ \A s \in Slots : Paired(s)
  /\ \A f \in FrameIds \ {Root} : frames[f].used => Loaded(f)

WhileFresh == evictions = 0 => Fresh

LEMMA FreshInit == Init => WhileFresh
<1> SUFFICES ASSUME Init PROVE Fresh
  BY DEF WhileFresh
<1>1. \A f \in FrameIds : frames[f] = IF f = Root THEN [Unused EXCEPT !.used = TRUE, !.page = Image(Root)]
                                       ELSE Unused
  BY DEF Init
<1>2. frames[Root].page = Image(Root) /\ frames[Root].used /\ ~ frames[Root].ref /\ frames[Root].pid = Root
  BY <1>1, Ranges DEF Unused, Root
<1>3. \A f \in FrameIds \ {Root} : ~ frames[f].used
  BY <1>1 DEF Unused
<1>4. \A s \in Slots : Follow(frames, s) = Id(IF s = Last THEN 0 ELSE Child(s))
  BY <1>2 DEF Follow, Image
<1>5. 0 \in PageIds
  BY Ranges DEF Root
<1>6. \A s \in Slots : ~ IsSwizzled(Follow(frames, s))
  BY <1>4, <1>5, SwzFacts, Ranges
<1>7. ~ linked
  BY DEF Init
<1>8. \A s \in Slots : Paired(s)
  BY <1>4, <1>6, <1>7 DEF Paired
<1>. QED BY <1>2, <1>3, <1>6, <1>8, Ranges DEF Fresh, Init

LEMMA FreshLink == TypeOK /\ Fresh /\ Link => Fresh'
<1> SUFFICES ASSUME TypeOK, Fresh, Link PROVE Fresh'
  OBVIOUS
<1>1. /\ \A f \in FrameIds \ {Root} : frames'[f] = frames[f]
      /\ frames'[Root].used = frames[Root].used /\ frames'[Root].ref = frames[Root].ref
      /\ frames'[Root].pid = frames[Root].pid
      /\ Follow(frames', Last) = Id(Child(Last))
      /\ \A s \in Slots \ {Last} : Follow(frames', s) = Follow(frames, s)
  BY Ranges DEF Link, TypeOK, Frame, Page, Follow
<1>2. linked' /\ ~ linked /\ hand' = hand /\ disk' = disk
  BY DEF Link
<1>3. ~ IsSwizzled(Follow(frames', Last)) /\ ~ IsSwizzled(Follow(frames, Last))
  BY <1>1, <1>2, SwzFacts, Ranges DEF Fresh
<1>4. \A s \in Slots : Paired(s)'
  <2> SUFFICES ASSUME NEW s \in Slots PROVE Paired(s)'
    OBVIOUS
  <2>1. Paired(s)
    BY DEF Fresh
  <2>2. CASE s = Last
    BY <1>1, <1>2, <1>3, <2>2 DEF Paired
  <2>3. CASE s # Last
    <3>1. Follow(frames, s) \in Pointer /\ (IsSwizzled(Follow(frames, s)) => Follow(frames, s).frame \in FrameIds)
      BY FollowType, PointerFacts
    <3>. QED BY <1>1, <1>2, <2>1, <2>3, <3>1 DEF Paired
  <2>. QED BY <2>2, <2>3
<1>5. \A f \in FrameIds \ {Root} : frames'[f].used => Loaded(f)'
  <2> SUFFICES ASSUME NEW f \in FrameIds \ {Root}, frames'[f].used PROVE Loaded(f)'
    OBVIOUS
  <2>1. Loaded(f) /\ frames'[f] = frames[f]
    BY <1>1 DEF Fresh
  <2>2. frames[f].slot \in Slots /\ IsSwizzled(Swz(f))
    BY SwzFacts DEF TypeOK, Frame
  <2>3. frames[f].slot # Last
    BY <1>3, <2>1, <2>2 DEF Loaded
  <2>. QED BY <1>1, <2>1, <2>2, <2>3 DEF Loaded
<1>. QED BY <1>1, <1>2, <1>4, <1>5 DEF Fresh

LEMMA FreshHit == ASSUME TypeOK, Fresh, NEW s \in Slots, Hit(s) PROVE Fresh'
<1> DEFINE g == Follow(frames, s).frame
<1>1. g \in FrameIds /\ g # Root
  BY FollowType, PointerFacts DEF Hit, Fresh, Paired
<1>2. frames' = [frames EXCEPT ![g].ref = TRUE] /\ UNCHANGED <<hand, disk, linked>>
  BY DEF Hit
<1> HIDE DEF g
<1>3. /\ frames'[Root] = frames[Root]
      /\ \A f \in FrameIds : /\ frames'[f].used = frames[f].used /\ frames'[f].slot = frames[f].slot
                             /\ frames'[f].parent = frames[f].parent /\ frames'[f].pid = frames[f].pid
                             /\ frames'[f].page = frames[f].page
  BY <1>1, <1>2, Ranges DEF TypeOK, Frame
<1>4. \A t \in Slots : Follow(frames', t) = Follow(frames, t)
  BY <1>3 DEF Follow
<1>5. \A t \in Slots : Paired(t)'
  <2> SUFFICES ASSUME NEW t \in Slots PROVE Paired(t)'
    OBVIOUS
  <2>1. Follow(frames, t) \in Pointer /\ (IsSwizzled(Follow(frames, t)) => Follow(frames, t).frame \in FrameIds)
    BY FollowType, PointerFacts
  <2>2. Paired(t) /\ Follow(frames', t) = Follow(frames, t) /\ linked' = linked
    BY <1>2, <1>4 DEF Fresh
  <2>3. CASE IsSwizzled(Follow(frames, t))
    <3>1. Follow(frames, t).frame \in FrameIds
      BY <2>1, <2>3
    <3>. QED BY <1>3, <2>2, <2>3, <3>1 DEF Paired
  <2>4. CASE ~ IsSwizzled(Follow(frames, t))
    BY <2>2, <2>4 DEF Paired
  <2>. QED BY <2>3, <2>4
<1>6. \A f \in FrameIds \ {Root} : frames'[f].used => Loaded(f)'
  <2>1. \A f \in FrameIds : frames[f].slot \in Slots
    BY DEF TypeOK, Frame
  <2>. QED BY <1>3, <1>4, <2>1 DEF Fresh, Loaded
<1>7. ~ linked' => ~ IsSwizzled(Follow(frames', Last))
  BY <1>2, <1>4, Ranges DEF Fresh
<1>. QED BY <1>2, <1>3, <1>5, <1>6, <1>7 DEF Fresh

LEMMA FreshFree == ASSUME TypeOK, Fresh, NEW s \in Slots, MissFree(s) PROVE Fresh'
<1>1. PICK f \in FrameIds : frames' = Brought(frames, disk, f, s) /\ ~ frames[f].used
  BY DEF MissFree, Brought, Free
<1>2. f # Root
  BY <1>1 DEF Fresh
<1>3. Follow(frames, s) = Id(Child(s)) /\ Follow(frames, s).page = Child(s) /\ (s = Last => linked)
  BY SwzFacts, Ranges DEF MissFree, Fixable, Fresh, Paired
<1>4. UNCHANGED <<hand, disk, linked>> /\ disk[Child(s)].self = Child(s)
  BY Ranges DEF MissFree, Fresh, Image
<1>5. frames \in [FrameIds -> Frame] /\ disk \in [PageIds -> Page] /\ Child(s) \in PageIds
  BY Ranges DEF TypeOK
<1>6. /\ \A g \in FrameIds \ {Root, f} : frames'[g] = frames[g]
      /\ frames'[f] = Load(frames, disk, f, Child(s), s)[f]
      /\ Follow(frames', s) = Swz(f)
      /\ \A t \in Slots \ {s} : Follow(frames', t) = Follow(frames, t)
      /\ frames'[Root].pid = frames[Root].pid /\ frames'[Root].used = frames[Root].used
      /\ frames'[Root].ref = frames[Root].ref
  BY <1>1, <1>2, <1>3, <1>5, BroughtFacts DEF Follow
<1>7. /\ frames'[f].page.self = Child(s) /\ frames'[f].pid = Child(s) /\ frames'[f].used
      /\ frames'[f].parent = Root /\ frames'[f].slot = s
  BY <1>4, <1>5, <1>6, LoadFacts
<1>8. Swz(f) \in Pointer /\ IsSwizzled(Swz(f)) /\ Swz(f).frame = f
  BY SwzFacts
<1>9. \A t \in Slots : Paired(t)'
  <2> SUFFICES ASSUME NEW t \in Slots PROVE Paired(t)'
    OBVIOUS
  <2>1. CASE t = s
    BY <1>2, <1>6, <1>7, <1>8, <2>1 DEF Paired
  <2>2. CASE t # s
    <3>1. Paired(t) /\ Follow(frames', t) = Follow(frames, t)
      BY <1>6, <2>2 DEF Fresh
    <3>2. IsSwizzled(Follow(frames, t)) => Follow(frames, t).frame \in FrameIds \ {Root, f}
      BY <3>1, <1>1, FollowType, PointerFacts DEF Paired
    <3>. QED BY <1>4, <1>6, <3>1, <3>2 DEF Paired
  <2>. QED BY <2>1, <2>2
<1>10. \A g \in FrameIds \ {Root} : frames'[g].used => Loaded(g)'
  <2> SUFFICES ASSUME NEW g \in FrameIds \ {Root}, frames'[g].used PROVE Loaded(g)'
    OBVIOUS
  <2>1. CASE g = f
    BY <1>6, <1>7, <2>1 DEF Loaded
  <2>2. CASE g # f
    <3>1. Loaded(g) /\ frames'[g] = frames[g] /\ frames[g].slot \in Slots
      BY <1>5, <1>6, <2>2 DEF Fresh, Frame
    <3>2. frames[g].slot # s
      BY <3>1, SwzFacts DEF Loaded, MissFree
    <3>. QED BY <1>6, <3>1, <3>2 DEF Loaded
  <2>. QED BY <2>1, <2>2
<1>11. ~ linked' => ~ IsSwizzled(Follow(frames', Last))
  BY <1>3, <1>4, <1>6, Ranges DEF Fresh
<1>. QED BY <1>4, <1>6, <1>9, <1>10, <1>11 DEF Fresh

LEMMA FreshNext == TypeOK /\ WhileFresh /\ [Next]_vars => WhileFresh'
<1> SUFFICES ASSUME TypeOK, WhileFresh, [Next]_vars, evictions' = 0 PROVE Fresh'
  BY DEF WhileFresh
<1>1. evictions \in Nat
  BY SizeAssumption DEF TypeOK
<1>2. CASE Link
  BY <1>2, FreshLink DEF Link, WhileFresh
<1>3. CASE \E s \in Slots : Hit(s)
  BY <1>3, FreshHit DEF Hit, WhileFresh
<1>4. CASE \E s \in Slots : MissFree(s)
  BY <1>4, FreshFree DEF MissFree, WhileFresh
<1>5. CASE \E s \in Slots : MissEvict(s)
  BY <1>1, <1>5 DEF MissEvict
<1>6. CASE UNCHANGED vars
  <2>1. Fresh
    BY <1>6 DEF WhileFresh, vars
  <2>. QED BY <1>6, <2>1 DEF vars, Fresh, Paired, Loaded, Follow
<1>. QED BY <1>2, <1>3, <1>4, <1>5, <1>6 DEF Next

LEMMA FreshCached == TypeOK /\ WhileFresh => Cached
<1> SUFFICES ASSUME TypeOK, Fresh, NEW s \in Slots, IsSwizzled(Follow(frames, s)),
                    NEW g, g = Follow(frames, s).frame
             PROVE  /\ frames[g].used /\ frames[g].parent = Root /\ frames[g].slot = s
                    /\ frames[g].pid = Child(s) /\ frames[g].page.self = Child(s)
                    /\ \A f \in FrameIds : frames[f].used /\ frames[f].pid = Child(s) => frames[f] = frames[g]
  BY DEF Cached, WhileFresh
<1>1. g \in FrameIds \ {Root} /\ frames[g].used /\ frames[g].slot = s
  BY FollowType, PointerFacts DEF Fresh, Paired
<1>2. Loaded(g)
  BY <1>1 DEF Fresh
<1>3. ASSUME NEW f \in FrameIds, frames[f].used, frames[f].pid = Child(s) PROVE f = g
  <2>1. f # Root
    BY <1>3, Ranges DEF Fresh, Root
  <2>2. Loaded(f) /\ frames[f].slot \in Slots
    BY <1>3, <2>1 DEF Fresh, TypeOK, Frame
  <2>3. frames[f].slot = s
    BY <1>3, <2>2, Ranges DEF Loaded
  <2>. QED BY <2>2, <2>3, SwzFacts DEF Loaded
<1>. QED BY <1>1, <1>2, <1>3 DEF Loaded

(* fix_child until the pool is full: a swizzled slot leads to the one frame *)
(* that holds its child, which knows the slot.                              *)
THEOREM CachedRight == Spec => []Cached
<1>1. Init => TypeOK /\ WhileFresh
  BY TypeInit, FreshInit
<1>2. TypeOK /\ WhileFresh /\ [Next]_vars => WhileFresh'
  BY FreshNext
<1>3. TypeOK /\ WhileFresh => Cached
  BY FreshCached
<1>. QED BY <1>1, <1>2, <1>3, TypeCorrect, PTL DEF Spec

(* The first victim is the root's frame: its ref_bit is never set, and the  *)
(* hand starts at it.                                                       *)
LEMMA FirstVictim ==
  ASSUME TypeOK, Fresh, NEW v \in FrameIds, IsVictim(v)
  PROVE  v = Root
<1>1. ~ AllSet
  BY Ranges DEF Fresh, AllSet
<1>2. Ahead(Root) = 0 /\ Ahead(v) = v
  <2>1. N \in Nat \ {0} /\ hand = 0 /\ v \in 0 .. N - 1 /\ Root = 0
    BY SizeAssumption DEF Fresh, FrameIds, Root
  <2>2. (v + N) % N = v /\ (0 + N) % N = 0
    BY <2>1
  <2> QED
    BY <2>1, <2>2 DEF Ahead
<1>3. v \in Nat
  BY SizeAssumption DEF FrameIds
<1>. QED BY <1>1, <1>2, <1>3, Ranges DEF IsVictim, Fresh, Root

(* bp_evict on a pool that is full for the first time takes the root, which *)
(* main calls permanent: RootStays ends with the first eviction, however    *)
(* many frames there are.                                                   *)
THEOREM EvictsRootFirst == Spec => RootGoesFirst
<1>1. Init => TypeOK /\ WhileFresh
  BY TypeInit, FreshInit
<1>2. TypeOK /\ WhileFresh /\ [Next]_vars => WhileFresh'
  BY FreshNext
<1>3. TypeOK /\ WhileFresh /\ [Next]_vars => [evictions = 0 /\ evictions' = 1 => got'.frame = Root]_vars
  <2> SUFFICES ASSUME TypeOK, WhileFresh, Next, evictions = 0, evictions' = 1 PROVE got'.frame = Root
    OBVIOUS
  <2>1. PICK s \in Slots : MissEvict(s)
    BY DEF Next, Link, Hit, MissFree
  <2>2. PICK v \in FrameIds : IsVictim(v) /\ got' = [slot |-> s, frame |-> v]
    BY <2>1, EvictFacts
  <2>. QED BY <2>2, FirstVictim DEF WhileFresh
<1>. QED BY <1>1, <1>2, <1>3, TypeCorrect, PTL DEF Spec, RootGoesFirst

-----------------------------------------------------------------------------
(* The tagged references: the words of the root and of the pages in memory.*)

(* A word below the tag is an address; with the tag it is an id, which is   *)
(* read back as it was.                                                     *)
LEMMA References ==
  ASSUME Tag!TaggedAssumption
  PROVE  /\ \A a \in Words : a \in Nat /\ a # Tag!Root /\ Tag!is_swizzled(a)
         /\ \A i \in 0 .. Tag!UNSWIZZLED_TAG - 1 :
              /\ Tag!make_unswizzled(i) \in Nat /\ ~ Tag!is_swizzled(Tag!make_unswizzled(i))
              /\ Tag!get_page_id(Tag!make_unswizzled(i)) = i
<1> DEFINE t == Tag!UNSWIZZLED_TAG
<1>1. t \in Nat \ {0} /\ Words \subseteq 1 .. t - 1
  BY DEF Tag!TaggedAssumption
<1> HIDE DEF t
<1>2. ASSUME NEW i \in 0 .. t - 1
      PROVE  (i \div t) % 2 = 0 /\ ((i + t) \div t) % 2 = 1 /\ (i + t) % t = i
  BY <1>1, TagBit
<1>3. ASSUME NEW a \in Words PROVE a \in Nat /\ a # 0 /\ (a \div t) % 2 = 0
  BY <1>1, <1>2
<1>4. ASSUME NEW i \in 0 .. t - 1
      PROVE  /\ (IF (i \div t) % 2 = 0 THEN i + t ELSE i) = i + t
             /\ i + t \in Nat
  BY <1>1, <1>2
<1> QED
  BY <1>2, <1>3, <1>4 DEF t, Tag!is_swizzled, Tag!make_unswizzled, Tag!get_page_id, Tag!Root

Word(r, h, p) == IF p = Tag!Root THEN r ELSE h[p].child
Wanted(p) == IF p = Tag!Root THEN PageId ELSE 0
LeadsIn(h, ref, i) ==
  IF Tag!is_swizzled(ref) THEN ref \in DOMAIN h /\ h[ref].page_id = i ELSE Tag!get_page_id(ref) = i

TypedIn(r, h) ==
  /\ r \in Nat /\ DOMAIN h \subseteq Words /\ h = [a \in DOMAIN h |-> h[a]]
  /\ \A a \in DOMAIN h : h[a] \in [page_id : Nat, child : Nat]
AllLead(r, h) ==
  \A p \in DOMAIN h \cup {Tag!Root} :
    /\ LeadsIn(h, Word(r, h, p), Wanted(p))
    /\ Tag!is_swizzled(Word(r, h, p)) =>
         \A q \in DOMAIN h \cup {Tag!Root} : Word(r, h, p) = Word(r, h, q) => p = q

(* Following and evicting keep what is known of the references, since an    *)
(* address that is given was nowhere in use, and the one that goes was the  *)
(* only reference to its page.                                              *)
TagInv == Tag!TaggedAssumption /\ TypedIn(reference, pages) /\ AllLead(reference, pages)

LEMMA LeadsSame ==
  Tag!TaggedAssumption /\ TypedIn(reference, pages) => (AllLead(reference, pages) <=> Tag!RefLeads)
BY References DEF TypedIn, AllLead, Word, Wanted, LeadsIn, Tag!RefLeads, Tag!LeadsTo, Tag!Child

(* One reference is written over another heap.                               *)
LEMMA Written ==
  ASSUME NEW p \in Tag!Parents, NEW ref \in Nat, NEW h, Tag!Root \notin Words,
         TypedIn(reference, h), Tag!SetChild(p, ref, h)
  PROVE  /\ DOMAIN pages' = DOMAIN h /\ TypedIn(reference', pages')
         /\ \A q \in DOMAIN h : pages'[q].page_id = h[q].page_id
         /\ \A q \in DOMAIN h \cup {Tag!Root} :
              Word(reference', pages', q) = IF q = p THEN ref ELSE Word(reference, h, q)
<1>1. CASE p = Tag!Root
  BY <1>1 DEF Tag!SetChild, TypedIn, Word
<1>2. CASE p # Tag!Root
  <2>1. pages' = [h EXCEPT ![p].child = ref] /\ reference' = reference
    BY <1>2 DEF Tag!SetChild
  <2>2. DOMAIN pages' = DOMAIN h /\ pages' = [a \in DOMAIN pages' |-> pages'[a]]
    BY <2>1
  <2>3. ASSUME NEW q \in DOMAIN h
        PROVE  /\ pages'[q] \in [page_id : Nat, child : Nat] /\ pages'[q].page_id = h[q].page_id
               /\ pages'[q].child = IF q = p THEN ref ELSE h[q].child
    BY <2>1 DEF TypedIn
  <2> QED
    BY <1>2, <2>1, <2>2, <2>3 DEF TypedIn, Word
<1> QED
  BY <1>1, <1>2

LEMMA TagInit ==
  ASSUME Tag!TaggedAssumption, Tag!Init
  PROVE  TagInv
<1>1. PageId \in 0 .. Tag!UNSWIZZLED_TAG - 1
  BY DEF Tag!TaggedAssumption
<1>2. DOMAIN pages = {} /\ pages = [a \in DOMAIN pages |-> pages[a]]
  BY DEF Tag!Init
<1> QED
  BY <1>1, <1>2, References DEF TagInv, TypedIn, AllLead, Tag!Init, LeadsIn, Word, Wanted

LEMMA Parenthood ==
  ASSUME TagInv, NEW p \in Tag!Parents
  PROVE  /\ p \in DOMAIN pages \cup {Tag!Root} /\ Tag!Child(p) = Word(reference, pages, p) /\ Tag!Child(p) \in Nat
         /\ Tag!Root \notin Words /\ Wanted(p) \in 0 .. Tag!UNSWIZZLED_TAG - 1
         /\ LeadsIn(pages, Tag!Child(p), Wanted(p))
<1>1. p \in DOMAIN pages \cup {Tag!Root} /\ Tag!Root \notin Words /\ Tag!Child(p) = Word(reference, pages, p)
  BY References DEF TagInv, Tag!Parents, Tag!Child, Word
<1> QED
  BY <1>1 DEF TagInv, TypedIn, AllLead, Word, Wanted, Tag!TaggedAssumption

LEMMA Resolves ==
  ASSUME TagInv, NEW p \in Tag!Parents, Tag!Resolve(p)
  PROVE  TagInv'
<1>1. PICK a \in Words \ DOMAIN pages :
        Tag!SetChild(p, a, Tag!With(a, Tag!Fetched(Tag!get_page_id(Tag!Child(p)))))
  BY DEF Tag!Resolve
<1>2. PICK page : page = Tag!Fetched(Tag!get_page_id(Tag!Child(p)))
  OBVIOUS
<1>3. /\ page.page_id = Wanted(p) /\ page \in [page_id : Nat, child : Nat]
      /\ ~ Tag!is_swizzled(page.child) /\ Tag!get_page_id(page.child) = 0
  BY <1>2, Parenthood, References DEF TagInv, Tag!TaggedAssumption, Tag!Fetched, LeadsIn, Tag!Resolve
<1>4. PICK h : h = Tag!With(a, page)
  OBVIOUS
<1>5. /\ DOMAIN h = DOMAIN pages \cup {a} /\ h[a] = page /\ h = [b \in DOMAIN h |-> h[b]]
      /\ \A b \in DOMAIN pages : h[b] = pages[b]
  BY <1>4 DEF Tag!With
<1>6. Tag!SetChild(p, a, h)
  BY <1>1, <1>2, <1>4
<1>7. a \in Nat /\ Tag!is_swizzled(a) /\ a # Tag!Root /\ Tag!Root \notin Words
  BY References DEF TagInv
<1>8. TypedIn(reference, h)
  BY <1>3, <1>5 DEF TagInv, TypedIn
<1>9. /\ DOMAIN pages' = DOMAIN h /\ TypedIn(reference', pages')
      /\ \A q \in DOMAIN h : pages'[q].page_id = h[q].page_id
      /\ \A q \in DOMAIN h \cup {Tag!Root} :
           Word(reference', pages', q) = IF q = p THEN a ELSE Word(reference, h, q)
  BY <1>6, <1>7, <1>8, Written
<1>10. \A q \in DOMAIN pages \cup {Tag!Root} : Word(reference, h, q) = Word(reference, pages, q)
  BY <1>5, <1>7 DEF Word, TagInv, TypedIn
<1>11. Word(reference, h, a) = page.child /\ p # a
  BY <1>5, <1>7, Parenthood DEF Word
<1>12. ASSUME NEW q \in DOMAIN pages \cup {Tag!Root}
       PROVE  /\ LeadsIn(pages', Word(reference, pages, q), Wanted(q))
              /\ Tag!is_swizzled(Word(reference, pages, q)) => Word(reference, pages, q) # a
  BY <1>5, <1>9 DEF TagInv, AllLead, LeadsIn
<1>13. LeadsIn(pages', a, Wanted(p)) /\ LeadsIn(pages', page.child, 0)
  BY <1>3, <1>5, <1>7, <1>9 DEF LeadsIn
<1>14. ASSUME NEW q \in DOMAIN pages' \cup {Tag!Root}
       PROVE  LeadsIn(pages', Word(reference', pages', q), Wanted(q))
  BY <1>5, <1>7, <1>9, <1>10, <1>11, <1>12, <1>13 DEF Wanted
<1>15. ASSUME NEW q \in DOMAIN pages' \cup {Tag!Root}, NEW r \in DOMAIN pages' \cup {Tag!Root},
              Tag!is_swizzled(Word(reference', pages', q)), Word(reference', pages', q) = Word(reference', pages', r)
       PROVE  q = r
  <2>1. ASSUME NEW x \in DOMAIN pages \cup {Tag!Root}, NEW y \in DOMAIN pages \cup {Tag!Root},
               Tag!is_swizzled(Word(reference, pages, x)), Word(reference, pages, x) = Word(reference, pages, y)
        PROVE  x = y
    BY <2>1 DEF TagInv, AllLead
  <2>2. q # a /\ r # a
    BY <1>3, <1>9, <1>11, <1>15, <1>5
  <2> QED
    BY <1>15, <2>1, <2>2, <1>5, <1>9, <1>10, <1>12
<1> QED
  BY <1>9, <1>14, <1>15 DEF TagInv, AllLead, Tag!TaggedAssumption, Tag!UNSWIZZLED_TAG

LEMMA Evicts ==
  ASSUME TagInv, NEW p \in Tag!Parents, Tag!Evict(p)
  PROVE  TagInv'
<1>1. PICK c : c = Tag!Child(p)
  OBVIOUS
<1>2. /\ c \in DOMAIN pages /\ pages[c].page_id = Wanted(p) /\ Tag!is_swizzled(c)
      /\ c = Word(reference, pages, p) /\ p \in DOMAIN pages \cup {Tag!Root}
  BY <1>1, Parenthood DEF Tag!Evict, LeadsIn
<1>3. PICK h : h = Tag!Restrict(pages, DOMAIN pages \ {c})
  OBVIOUS
<1>4. /\ DOMAIN h = DOMAIN pages \ {c} /\ h = [b \in DOMAIN h |-> h[b]]
      /\ \A b \in DOMAIN h : h[b] = pages[b]
  BY <1>3 DEF Tag!Restrict
<1>5. PICK ref : ref = Tag!make_unswizzled(Wanted(p))
  OBVIOUS
<1>6. ref \in Nat /\ ~ Tag!is_swizzled(ref) /\ Tag!get_page_id(ref) = Wanted(p) /\ Tag!Root \notin Words
  BY <1>5, Parenthood, References DEF TagInv
<1>7. Tag!SetChild(p, ref, h)
  BY <1>1, <1>2, <1>3, <1>5 DEF Tag!Evict
<1>8. TypedIn(reference, h)
  BY <1>4 DEF TagInv, TypedIn
<1>9. /\ DOMAIN pages' = DOMAIN h /\ TypedIn(reference', pages')
      /\ \A q \in DOMAIN h : pages'[q].page_id = h[q].page_id
      /\ \A q \in DOMAIN h \cup {Tag!Root} :
           Word(reference', pages', q) = IF q = p THEN ref ELSE Word(reference, h, q)
  BY <1>6, <1>7, <1>8, Written
<1>10. \A q \in DOMAIN h \cup {Tag!Root} : Word(reference, h, q) = Word(reference, pages, q)
  BY <1>4, <1>6 DEF Word, TagInv, TypedIn
<1>11. ASSUME NEW q \in DOMAIN h \cup {Tag!Root}, q # p
       PROVE  /\ LeadsIn(pages', Word(reference, pages, q), Wanted(q))
              /\ Tag!is_swizzled(Word(reference, pages, q)) => Word(reference, pages, q) # c
  BY <1>2, <1>4, <1>9, <1>11 DEF TagInv, AllLead, LeadsIn
<1>12. LeadsIn(pages', ref, Wanted(p))
  BY <1>6 DEF LeadsIn
<1>13. ASSUME NEW q \in DOMAIN pages' \cup {Tag!Root}
       PROVE  LeadsIn(pages', Word(reference', pages', q), Wanted(q))
  BY <1>9, <1>10, <1>11, <1>12
<1>14. ASSUME NEW q \in DOMAIN pages' \cup {Tag!Root}, NEW r \in DOMAIN pages' \cup {Tag!Root},
              Tag!is_swizzled(Word(reference', pages', q)), Word(reference', pages', q) = Word(reference', pages', r)
       PROVE  q = r
  BY <1>4, <1>6, <1>9, <1>10, <1>14 DEF TagInv, AllLead
<1> QED
  BY <1>9, <1>13, <1>14 DEF TagInv, AllLead, Tag!TaggedAssumption, Tag!UNSWIZZLED_TAG

(* For every width of the word, every set of addresses and every page: a    *)
(* reference leads to the page it was made for, whatever was fetched and    *)
(* evicted.                                                                 *)
THEOREM WordsLead == Tag!TaggedAssumption /\ Tag!Spec => []RefLeads
<1>1. Tag!TaggedAssumption /\ Tag!Init => TagInv
  BY TagInit
<1>2. TagInv /\ [Tag!Next]_Tag!vars => TagInv'
  <2> SUFFICES ASSUME TagInv, [Tag!Next]_Tag!vars
               PROVE  TagInv'
    OBVIOUS
  <2>1. CASE Tag!Next
    BY <2>1, Resolves, Evicts DEF Tag!Next
  <2>2. CASE UNCHANGED Tag!vars
    BY <2>2 DEF Tag!vars, TagInv, AllLead, Tag!TaggedAssumption, Tag!UNSWIZZLED_TAG
  <2> QED
    BY <2>1, <2>2
<1>3. TagInv => RefLeads
  BY LeadsSame DEF TagInv, RefLeads
<1> QED
  BY <1>1, <1>2, <1>3, PTL DEF Tag!Spec

-----------------------------------------------------------------------------
(* The saved list.                                                          *)

(* The least of a set of numbers is one of them.                            *)
LEMMA Least ==
  ASSUME NEW S, S \subseteq Nat, S # {}
  PROVE  List!Min(S) \in S /\ \A n \in S : List!Min(S) <= n
<1>1. \E x \in S : \A y \in S : ~ <<y, x>> \in OpToRel(<, Nat)
  <2>1. IsWellFoundedOn(OpToRel(<, Nat), Nat)
    BY NatLessThanWellFounded
  <2> HIDE DEF OpToRel
  <2> QED
    BY <2>1, WFMin
<1>2. PICK x \in S : \A y \in S : ~ <<y, x>> \in OpToRel(<, Nat)
  BY <1>1
<1>3. ASSUME NEW y \in S PROVE ~ y < x
  <2>1. y < x => <<y, x>> \in OpToRel(<, Nat)
    BY DEF OpToRel
  <2> QED
    BY <1>2, <2>1
<1>4. \E z \in S : \A y \in S : z <= y
  BY <1>3
<1> QED
  BY <1>4 DEF List!Min

ListTyped ==
  /\ original \in Seq(Data)
  /\ listPc \in {"list", "saved", "restored", "freed", "undefined"}

LEMMA Counts ==
  ASSUME List!ListAssumption, original \in Seq(Data)
  PROVE  /\ List!Count \in Nat /\ List!Count <= Len(original)
         /\ List!Count <= MAX_NODES
<1>1. Len(original) \in Nat /\ MAX_NODES \in Nat
  BY DEF List!ListAssumption
<1>2. {Len(original), MAX_NODES} \subseteq Nat /\ {Len(original), MAX_NODES} # {}
  BY <1>1
<1> QED
  BY <1>1, <1>2, Least DEF List!Count

IdOf(i) == IF i < Len(original) THEN List!NextId(i, original[i + 1]) ELSE List!NULL

(* The successor found has the right data, and is the right node if no      *)
(* other has the same.                                                      *)
LEMMA Found ==
  ASSUME List!ListAssumption, original \in Seq(Data), NEW i \in 1 .. List!Count
  PROVE  /\ i < List!Count => /\ IdOf(i) \in 1 .. List!Count
                              /\ original[IdOf(i)] = original[i + 1]
         /\ List!IsInjective(original) => IdOf(i) = IF i < List!Count THEN i + 1 ELSE List!NULL
<1> DEFINE c == List!Count
           match == {j \in 1 .. c : original[j] = original[i + 1]}
<1>1. c \in Nat /\ c <= Len(original) /\ Len(original) \in Nat /\ DOMAIN original = 1 .. Len(original)
  BY Counts
<1>2. List!NextId(i, original[i + 1]) = IF match = {} THEN List!NULL ELSE List!Min(match)
  BY DEF List!NextId
<1> HIDE DEF c
<1>3. match # {} => List!Min(match) \in match
  <2>1. match \subseteq Nat
    BY <1>1
  <2> HIDE DEF match
  <2> QED
    BY <2>1, Least
<1>4. CASE i < c
  <2>1. i + 1 \in match /\ i < Len(original)
    BY <1>1, <1>4 DEF c
  <2>2. IdOf(i) \in match
    BY <1>2, <1>3, <2>1 DEF IdOf
  <2>3. List!IsInjective(original) => IdOf(i) = i + 1
    BY <1>1, <2>1, <2>2 DEF List!IsInjective
  <2> QED
    BY <1>4, <2>2, <2>3 DEF c
<1>5. CASE ~ i < c
  <2>1. i = c
    BY <1>1, <1>5 DEF c
  <2>2. ASSUME List!IsInjective(original), i < Len(original) PROVE match = {}
    BY <1>1, <2>1, <2>2 DEF List!IsInjective
  <2>3. List!IsInjective(original) => IdOf(i) = List!NULL
    BY <1>2, <2>2 DEF IdOf
  <2> QED
    BY <1>5, <2>3 DEF c
<1> QED
  BY <1>4, <1>5

(* What was written, and what of it is still to be freed.                   *)
FirstOf(h, c) == IF h = 0 THEN c + 1 ELSE h
Saved ==
  listPc # "list" => /\ DOMAIN saved = 1 .. List!Count
                     /\ \A i \in 1 .. List!Count : saved[i].data = original[i] /\ saved[i].next_id = IdOf(i)
Left ==
  List!IsInjective(original) =>
    /\ listPc \in {"restored", "freed"} =>
         /\ head \in 0 .. List!Count /\ DOMAIN restored = FirstOf(head, List!Count) .. List!Count
         /\ \A i \in DOMAIN restored : restored[i].data = original[i] /\ restored[i].next = IdOf(i)
    /\ listPc = "freed" => head = List!NULL
    /\ listPc # "undefined"
ListInv == List!ListAssumption /\ ListTyped /\ Saved /\ Left

LEMMA Reloads ==
  ASSUME ListInv
  PROVE  List!ListReloaded
<1>1. List!Count \in Nat
  BY Counts DEF ListInv, ListTyped
<1>2. ASSUME listPc # "list", NEW i \in 1 .. List!Count - 1
      PROVE  saved[i].next_id \in DOMAIN saved /\ saved[saved[i].next_id].data = original[i + 1]
  <2>1. i \in 1 .. List!Count /\ i < List!Count
    BY <1>1
  <2> QED
    BY <1>2, <2>1, Found DEF ListInv, ListTyped, Saved
<1>3. ASSUME List!IsInjective(original)
      PROVE  /\ listPc = "restored" => /\ DOMAIN restored = FirstOf(head, List!Count) .. List!Count
                                       /\ \A i \in DOMAIN restored : restored[i].data = original[i]
             /\ listPc # "undefined" /\ (listPc = "freed" => DOMAIN restored = {})
  BY <1>1, <1>3 DEF ListInv, Left, FirstOf, List!NULL
<1> QED
  BY <1>2, <1>3 DEF List!ListReloaded, FirstOf, List!NULL

LEMMA ListBegins ==
  ASSUME List!ListAssumption, List!Init
  PROVE  ListInv
<1>1. original \in Seq(Data)
  <2>1. PICK m \in 0 .. MaxLength : original \in [1 .. m -> Data]
    BY DEF List!Init, List!BoundedSeq, List!SeqOf, List!ListAssumption
  <2> QED
    BY <2>1 DEF List!ListAssumption
<1> QED
  BY <1>1 DEF List!Init, ListInv, ListTyped, Saved, Left, List!NULL

LEMMA ListStep ==
  ASSUME ListInv, [List!Next]_List!vars
  PROVE  ListInv'
<1>1. /\ original' = original /\ List!ListAssumption /\ original \in Seq(Data)
      /\ List!Count \in Nat /\ (List!Count)' = List!Count /\ List!Count <= Len(original)
  BY Counts DEF ListInv, ListTyped, List!Count, List!Next, List!Unswizzle, List!Swizzle, List!FreeNode,
     List!FreeEnds, List!vars
<1>2. PICK c \in Nat : c = List!Count /\ c = (List!Count)'
  BY <1>1
<1>3. PICK id : id = [i \in 1 .. c |-> IdOf(i)]
  OBVIOUS
<1>4. \A i \in 1 .. c : id[i] = IdOf(i) /\ id[i] = (IdOf(i))'
  BY <1>1, <1>2, <1>3 DEF IdOf, List!NextId
<1>5. (List!IsInjective(original))' => List!IsInjective(original)
  BY <1>1 DEF List!IsInjective
<1>6. List!IsInjective(original) => \A i \in 1 .. c : id[i] = IF i < c THEN i + 1 ELSE 0
  BY <1>1, <1>2, <1>4, Found DEF List!NULL
<1>7. ListTyped'
  BY <1>1 DEF ListInv, ListTyped, List!Next, List!Unswizzle, List!Swizzle, List!FreeNode, List!FreeEnds, List!vars
<1>8. CASE List!Unswizzle
  <2>1. /\ DOMAIN saved' = 1 .. c
        /\ \A i \in 1 .. c : saved'[i].data = original[i] /\ saved'[i].next_id = id[i]
    BY <1>2, <1>4, <1>8 DEF List!Unswizzle, IdOf
  <2>2. Saved'
    BY <1>1, <1>2, <1>4, <2>1 DEF Saved
  <2>3. Left'
    BY <1>8 DEF List!Unswizzle, Left
  <2> QED
    BY <1>1, <1>7, <2>2, <2>3 DEF ListInv, List!ListAssumption
<1>9. ASSUME UNCHANGED saved, listPc # "list" PROVE Saved'
  BY <1>1, <1>2, <1>4, <1>9 DEF ListInv, Saved
<1>10. CASE List!Swizzle
  <2>1. Saved'
    BY <1>9, <1>10 DEF List!Swizzle
  <2>2. DOMAIN saved = 1 .. c /\ \A i \in 1 .. c : saved[i].data = original[i] /\ saved[i].next_id = id[i]
    BY <1>2, <1>4, <1>10 DEF ListInv, Saved, List!Swizzle
  <2>3. DOMAIN restored' = 1 .. c /\ \A i \in 1 .. c : restored'[i].data = original[i] /\ restored'[i].next = id[i]
    BY <1>10, <2>2 DEF List!Swizzle
  <2>4. head' = IF c = 0 THEN 0 ELSE 1
    <3>1. CASE c = 0
      BY <1>10, <2>2, <3>1 DEF List!Swizzle, List!NULL
    <3>2. CASE c # 0
      <4>1. DOMAIN saved # {} /\ DOMAIN << >> = {}
        BY <2>2, <3>2
      <4> QED
        BY <1>10, <4>1, <3>2 DEF List!Swizzle
    <3> QED
      BY <3>1, <3>2
  <2>5. DOMAIN restored' = FirstOf(head', c) .. c /\ head' \in 0 .. c
    BY <1>2, <2>3, <2>4 DEF FirstOf, List!NULL
  <2>6. Left'
    BY <1>1, <1>2, <1>4, <1>10, <2>3, <2>5 DEF Left, List!Swizzle
  <2> QED
    BY <1>1, <1>7, <2>1, <2>6 DEF ListInv, List!ListAssumption
<1>11. CASE List!FreeNode
  <2>1. Saved'
    BY <1>9, <1>11 DEF List!FreeNode
  <2>2. ASSUME List!IsInjective(original)
        PROVE  /\ head' \in 0 .. c /\ DOMAIN restored' = FirstOf(head', c) .. c
               /\ \A i \in DOMAIN restored' : restored'[i].data = original[i] /\ restored'[i].next = id[i]
    <3>1. /\ head \in 0 .. c /\ DOMAIN restored = FirstOf(head, c) .. c /\ head \in Nat
          /\ \A i \in DOMAIN restored : restored[i].data = original[i] /\ restored[i].next = id[i]
      BY <1>2, <1>4, <1>11, <2>2 DEF ListInv, Left, List!FreeNode, FirstOf, List!NULL
    <3>2. head \in 1 .. c /\ head' = IF head < c THEN head + 1 ELSE 0
      BY <1>6, <1>11, <2>2, <3>1 DEF List!FreeNode, FirstOf
    <3>3. FirstOf(head, c) = head
      BY <3>2 DEF FirstOf
    <3>4. DOMAIN restored' = (head + 1) .. c
      <4>1. DOMAIN restored' = (head .. c) \ {head}
        BY <1>11, <3>1, <3>3 DEF List!FreeNode
      <4> QED
        BY <3>2, <4>1
    <3>5. FirstOf(head', c) = head + 1
      <4>1. CASE head < c
        BY <3>2, <4>1 DEF FirstOf
      <4>2. CASE ~ head < c
        BY <3>2, <4>2 DEF FirstOf
      <4> QED
        BY <4>1, <4>2
    <3> QED
      BY <1>11, <3>1, <3>2, <3>4, <3>5 DEF List!FreeNode
  <2>3. listPc' = "restored"
    BY <1>11 DEF List!FreeNode
  <2>4. Left'
    BY <1>1, <1>2, <1>4, <1>5, <2>2, <2>3 DEF Left, FirstOf
  <2> QED
    BY <1>1, <1>7, <2>1, <2>4 DEF ListInv, List!ListAssumption
<1>12. CASE List!FreeEnds
  <2>1. Saved'
    BY <1>9, <1>12 DEF List!FreeEnds
  <2>2. ASSUME List!IsInjective(original)
        PROVE  /\ head \in 0 .. c /\ DOMAIN restored = FirstOf(head, c) .. c /\ head = 0
               /\ \A i \in DOMAIN restored : restored[i].data = original[i] /\ restored[i].next = id[i]
    BY <1>2, <1>4, <1>12, <2>2 DEF ListInv, Left, List!FreeEnds, FirstOf, List!NULL
  <2>3. UNCHANGED <<head, restored>> /\ (head = 0 => listPc' = "freed") /\ listPc' \in {"freed", "undefined"}
    BY <1>12 DEF List!FreeEnds, List!NULL
  <2>4. Left'
    BY <1>1, <1>2, <1>4, <1>5, <2>2, <2>3 DEF Left, FirstOf, List!NULL
  <2> QED
    BY <1>1, <1>7, <2>1, <2>4 DEF ListInv, List!ListAssumption
<1>13. CASE UNCHANGED List!vars
  <2>2. Saved'
    BY <1>1, <1>2, <1>4, <1>13 DEF ListInv, Saved, List!vars
  <2>3. Left'
    BY <1>1, <1>2, <1>4, <1>5, <1>13 DEF ListInv, Left, FirstOf, List!vars
  <2> QED
    BY <1>1, <1>7, <2>2, <2>3 DEF ListInv, List!ListAssumption
<1> QED
  BY <1>8, <1>10, <1>11, <1>12, <1>13 DEF List!Next

(* For every list and every room for it: the successor written down holds   *)
(* the right data, and a list without repetitions comes back in order, to   *)
(* its end, and is freed.                                                   *)
THEOREM ListComesBack == List!ListAssumption /\ List!Spec => []ListReloaded
<1>1. List!ListAssumption /\ List!Init => ListInv
  BY ListBegins
<1>2. ListInv /\ [List!Next]_List!vars => ListInv'
  BY ListStep
<1>3. ListInv => ListReloaded
  BY Reloads DEF ListReloaded
<1> QED
  BY <1>1, <1>2, <1>3, PTL DEF List!Spec

-----------------------------------------------------------------------------
(* The chained table.                                                       *)

(* The inductive invariant: every node is in the chain of its key's bucket, *)
(* no two have the same key, and a walk has not passed the key it looks for.*)

ChainNode == [key : Keys, value : Payload, next : Addr \cup {Null}]
Buckets == [0 .. Size - 1 -> Addr \cup {Null}]

ChainTyped ==
  /\ chainPc \in {"idle", "walk", "free", "freed"}
  /\ DOMAIN heap \subseteq Addr /\ heap \in [DOMAIN heap -> ChainNode]
  /\ chainPc # "freed" => buckets \in Buckets /\ index \in 0 .. Size - 1
  /\ chainPc = "walk" => call \in Chain!Calls /\ index = Chain!Home(call.page, Size)

Chained == \A a \in DOMAIN heap : a \in Chain!From({buckets[Chain!Home(heap[a].key, Size)]})
Separate == \A a, b \in DOMAIN heap : heap[a].key = heap[b].key => a = b
Walked ==
  /\ \A a \in DOMAIN heap : heap[a].key = call.page => a \in Chain!From({current})
  /\ prev = Null => current = buckets[index]
  /\ prev # Null => prev \in DOMAIN heap /\ heap[prev].next = current

ChainInv ==
  /\ Chain!ChainingAssumption /\ ChainTyped /\ Chain!ChainOwned
  /\ chainPc \in {"idle", "walk"} => Chained /\ Separate
  /\ chainPc = "walk" => Walked

-----------------------------------------------------------------------------
(* What is reached.                                                         *)

LEMMA Elim ==
  ASSUME NEW as, NEW a \in Chain!From(as), NEW S \in SUBSET DOMAIN heap,
         as \cap DOMAIN heap \subseteq S, Chain!Closed(S)
  PROVE  a \in S
  BY DEF Chain!From

LEMMA HomeType ==
  ASSUME Chain!ChainingAssumption, NEW p \in Keys
  PROVE  Chain!Home(p, Size) \in 0 .. Size - 1
  <1>1. KeyHash[p] \in Nat /\ Size \in Nat /\ Size >= 1
    BY DEF Chain!ChainingAssumption
  <1> QED
    BY <1>1 DEF Chain!Home

LEMMA ChainFacts ==
  ASSUME ChainInv
  PROVE  /\ \A a \in DOMAIN heap : /\ a \in Addr /\ a # Null /\ heap[a] \in ChainNode
                                   /\ heap[a].key \in Keys /\ heap[a].value \in Payload
                                   /\ heap[a].next \in DOMAIN heap \cup {Null}
         /\ Null \notin DOMAIN heap /\ current \in DOMAIN heap \cup {Null}
         /\ \A a \in DOMAIN heap : Chain!Home(heap[a].key, Size) \in 0 .. Size - 1
         /\ chainPc \in {"idle", "walk"} => /\ Chain!Live = 0 .. Size - 1
                                            /\ Chain!Heads = {buckets[i] : i \in 0 .. Size - 1}
                                            /\ \A i \in 0 .. Size - 1 : buckets[i] \in DOMAIN heap \cup {Null}
  <1>1. ASSUME NEW a \in DOMAIN heap
        PROVE  /\ a \in Addr /\ a # Null /\ heap[a] \in ChainNode
               /\ heap[a].key \in Keys /\ heap[a].value \in Payload
               /\ heap[a].next \in DOMAIN heap \cup {Null}
    <2>1. a \in Addr /\ a # Null /\ heap[a] \in ChainNode
      BY DEF ChainInv, ChainTyped, Chain!ChainingAssumption
    <2>2. heap[a].key \in Keys /\ heap[a].value \in Payload
      BY <2>1 DEF ChainNode
    <2>3. heap[a].next \in DOMAIN heap \cup {Null}
      BY DEF ChainInv, Chain!ChainOwned
    <2> QED
      BY <2>1, <2>2, <2>3
  <1>2. Null \notin DOMAIN heap /\ current \in DOMAIN heap \cup {Null}
    BY DEF ChainInv, ChainTyped, Chain!ChainingAssumption, Chain!ChainOwned
  <1>3. \A a \in DOMAIN heap : Chain!Home(heap[a].key, Size) \in 0 .. Size - 1
    BY <1>1, HomeType DEF ChainInv
  <1>4. chainPc \in {"idle", "walk"} => Chain!Live = 0 .. Size - 1 /\ Chain!Heads = {buckets[i] : i \in 0 .. Size - 1}
    BY DEF Chain!Live, Chain!Heads
  <1>5. chainPc \in {"idle", "walk"} => \A i \in 0 .. Size - 1 : buckets[i] \in DOMAIN heap \cup {Null}
    BY <1>4 DEF ChainInv, Chain!ChainOwned
  <1> QED
    BY <1>1, <1>2, <1>3, <1>4, <1>5

LEMMA ChainBegins == Chain!ChainingAssumption /\ Chain!Init => ChainInv
  <1> SUFFICES ASSUME Chain!ChainingAssumption, Chain!Init PROVE ChainInv
    OBVIOUS
  <1>1. heap = << >> /\ DOMAIN heap = {}
    BY DEF Chain!Init
  <1>2. ChainTyped
    BY <1>1 DEF Chain!Init, ChainTyped, Buckets, Chain!ChainingAssumption
  <1>3. Chain!ChainOwned
    BY <1>1 DEF Chain!Init, Chain!ChainOwned, Chain!From, Chain!Heads, Chain!Live
  <1> QED
    BY <1>1, <1>2, <1>3 DEF ChainInv, Chained, Separate, Chain!Init

-----------------------------------------------------------------------------
(* Steps that change no pointer of the table.                               *)

LEMMA SameNext ==
  ASSUME DOMAIN heap' = DOMAIN heap, \A a \in DOMAIN heap : heap'[a].next = heap[a].next
  PROVE  \A as : (Chain!From(as))' = Chain!From(as)
  <1>1. \A S \in SUBSET DOMAIN heap : (Chain!Closed(S))' <=> Chain!Closed(S)
    BY DEF Chain!Closed
  <1> QED
    BY <1>1 DEF Chain!From

LEMMA LookNext ==
  ASSUME ChainInv, Chain!Begin \/ Chain!Walk \/ Chain!Answer \/ Chain!Update
  PROVE  ChainInv'
  <1>1. /\ chainPc \in {"idle", "walk"} /\ chainPc' \in {"idle", "walk"} /\ buckets' = buckets
        /\ Chain!ChainingAssumption
    BY DEF Chain!Begin, Chain!Walk, Chain!Answer, Chain!Update, Chain!Return, Chain!Hit, Chain!AtEnd, ChainInv
  <1>2. /\ DOMAIN heap' = DOMAIN heap /\ heap' \in [DOMAIN heap -> ChainNode]
        /\ \A a \in DOMAIN heap : heap'[a].next = heap[a].next /\ heap'[a].key = heap[a].key
    <2>1. CASE heap' = heap
      BY <2>1 DEF ChainInv, ChainTyped
    <2>2. CASE Chain!Update
      <3>1. current \in DOMAIN heap /\ call.frame \in Payload /\ heap' = [heap EXCEPT ![current].value = call.frame]
        BY <2>2, ChainFacts DEF Chain!Update, Chain!Hit, ChainInv, ChainTyped, Chain!Calls
      <3>2. heap \in [DOMAIN heap -> ChainNode]
        BY DEF ChainInv, ChainTyped
      <3> QED
        BY <3>1, <3>2 DEF ChainNode
    <2> QED
      BY <2>1, <2>2 DEF Chain!Begin, Chain!Walk, Chain!Answer
  <1>3. \A as : (Chain!From(as))' = Chain!From(as)
    BY <1>2, SameNext
  <1>4. Chain!Live' = Chain!Live /\ Chain!Heads' = Chain!Heads
    BY <1>1 DEF Chain!Live, Chain!Heads
  <1>5. Chain!Begin => /\ call' \in Chain!Calls /\ call'.page \in Keys /\ index' = Chain!Home(call'.page, Size)
                       /\ index' \in 0 .. Size - 1 /\ current' = buckets[index'] /\ prev' = Null /\ heap' = heap
    <2> SUFFICES ASSUME Chain!Begin PROVE /\ call' \in Chain!Calls /\ call'.page \in Keys
                                          /\ index' = Chain!Home(call'.page, Size) /\ index' \in 0 .. Size - 1
                                          /\ current' = buckets[index'] /\ prev' = Null /\ heap' = heap
      OBVIOUS
    <2>1. call' \in Chain!Calls /\ index' = Chain!Home(call'.page, Size) /\ current' = buckets[index']
            /\ prev' = Null /\ heap' = heap
      BY DEF Chain!Begin
    <2>2. call'.page \in Keys
      BY <2>1 DEF Chain!Calls
    <2> QED
      BY <1>1, <2>1, <2>2, HomeType
  <1>6. ~ Chain!Begin => UNCHANGED <<call, index>>
    BY DEF Chain!Walk, Chain!Answer, Chain!Update, Chain!Return
  <1>7. current' \in DOMAIN heap \cup {Null}
    <2>1. CASE Chain!Begin
      BY <2>1, <1>1, <1>5, ChainFacts
    <2>2. CASE ~ Chain!Begin
      BY <2>2, ChainFacts DEF Chain!Walk, Chain!Answer, Chain!Update, Chain!Return, Chain!Hit, Chain!AtEnd
    <2> QED
      BY <2>1, <2>2
  <1>8. ChainTyped'
    <2>1. DOMAIN heap' \subseteq Addr /\ heap' \in [DOMAIN heap' -> ChainNode]
      BY <1>2 DEF ChainInv, ChainTyped
    <2>2. buckets' \in Buckets /\ index' \in 0 .. Size - 1
      BY <1>1, <1>5, <1>6 DEF ChainInv, ChainTyped
    <2>3. chainPc' = "walk" => call' \in Chain!Calls /\ index' = Chain!Home(call'.page, Size)
      <3>1. ~ Chain!Begin => (chainPc' = "walk" => chainPc = "walk")
        BY DEF Chain!Walk, Chain!Answer, Chain!Update, Chain!Return
      <3> QED
        BY <3>1, <1>5, <1>6 DEF ChainInv, ChainTyped
    <2> QED
      BY <1>1, <2>1, <2>2, <2>3 DEF ChainTyped
  <1>9. Chain!ChainOwned'
    <2>1. /\ DOMAIN heap' = (Chain!From(Chain!Heads))'
          /\ \A i, j \in Chain!Live' : buckets'[i] = buckets'[j] => i = j \/ buckets'[i] = Null
      BY <1>1, <1>2, <1>3, <1>4 DEF ChainInv, Chain!ChainOwned
    <2>2. \A a \in Chain!Heads' \cup {heap'[b].next : b \in DOMAIN heap'} \cup {current'} : a = Null \/ a \in DOMAIN heap'
      BY <1>2, <1>4, <1>7 DEF ChainInv, Chain!ChainOwned
    <2>3. /\ \A a, b \in DOMAIN heap' : heap'[a].next = heap'[b].next => a = b \/ heap'[a].next = Null
          /\ \A b \in DOMAIN heap' : heap'[b].next \in Chain!Heads' => heap'[b].next = Null
      BY <1>2, <1>4 DEF ChainInv, Chain!ChainOwned
    <2> QED
      BY <1>1, <2>1, <2>2, <2>3 DEF Chain!ChainOwned
  <1>10. Chained' /\ Separate'
    <2>1. Chained /\ Separate
      BY <1>1 DEF ChainInv
    <2> QED
      BY <1>1, <1>2, <1>3, <2>1 DEF Chained, Separate
  <1>11. Chain!Begin => Walked'
    <2> SUFFICES ASSUME Chain!Begin PROVE Walked'
      OBVIOUS
    <2>1. ASSUME NEW a \in DOMAIN heap, heap[a].key = call'.page
          PROVE  a \in Chain!From({current'})
      BY <1>1, <1>5, <2>1 DEF ChainInv, Chained
    <2> QED
      BY <1>1, <1>3, <1>5, <2>1 DEF Walked
  <1>12. Chain!Walk => Walked'
    <2> SUFFICES ASSUME Chain!Walk PROVE Walked'
      OBVIOUS
    <2>1. /\ chainPc = "walk" /\ current \in DOMAIN heap /\ current # Null /\ heap[current].key # call.page
          /\ prev' = current /\ current' = heap[current].next /\ heap' = heap /\ call' = call
      BY ChainFacts DEF Chain!Walk, Chain!Hit, Chain!AtEnd
    <2>2. ASSUME NEW a \in DOMAIN heap, heap[a].key = call.page
          PROVE  a \in Chain!From({current'})
      <3> SUFFICES ASSUME NEW S \in SUBSET DOMAIN heap, {current'} \cap DOMAIN heap \subseteq S, Chain!Closed(S)
                   PROVE  a \in S
        BY DEF Chain!From
      <3>1. a \in Chain!From({current})
        BY <2>1, <2>2 DEF ChainInv, Walked
      <3>2. Chain!Closed(S \cup {current})
        BY <2>1 DEF Chain!Closed
      <3>3. a \in S \cup {current}
        BY <3>1, <3>2, <2>1, Elim
      <3> QED
        BY <3>3, <2>1, <2>2
    <2> QED
      BY <1>3, <2>1, <2>2 DEF Walked
  <1>13. chainPc' = "walk" => Walked'
    BY <1>11, <1>12 DEF Chain!Answer, Chain!Update, Chain!Return
  <1> QED
    BY <1>1, <1>8, <1>9, <1>10, <1>13 DEF ChainInv

-----------------------------------------------------------------------------
(* A walk to the end has passed every node that could hold the key.         *)
LEMMA NotFound ==
  ASSUME ChainInv, Chain!AtEnd
  PROVE  \A a \in DOMAIN heap : heap[a].key # call.page
  <1> SUFFICES ASSUME NEW a \in DOMAIN heap, heap[a].key = call.page PROVE FALSE
    OBVIOUS
  <1>1. current = Null /\ a \in Chain!From({current})
    BY DEF Chain!AtEnd, ChainInv, Walked
  <1>2. {Null} \cap DOMAIN heap = {}
    BY ChainFacts
  <1>3. Chain!Closed({})
    BY DEF Chain!Closed
  <1> QED
    BY <1>1, <1>2, <1>3, Elim

LEMMA PrependNext ==
  ASSUME ChainInv, Chain!Prepend
  PROVE  ChainInv'
  <1>1. /\ chainPc = "walk" /\ chainPc' = "idle" /\ current' = Null /\ prev' = Null /\ index' = index
        /\ call \in Chain!Calls /\ call.op = "insert" /\ index \in 0 .. Size - 1 /\ Chain!ChainingAssumption
        /\ index = Chain!Home(call.page, Size)
    BY DEF Chain!Prepend, Chain!AtEnd, Chain!Return, ChainInv, ChainTyped
  <1>2. call.page \in Keys /\ call.frame \in Payload
    BY <1>1 DEF Chain!Calls
  <1>3. PICK n \in Addr \ DOMAIN heap :
               heap' = Chain!With(heap, n, Chain!New) /\ buckets' = [buckets EXCEPT ![index] = n]
    BY DEF Chain!Prepend
  <1>4. /\ DOMAIN heap' = DOMAIN heap \cup {n}
        /\ \A b \in DOMAIN heap : heap'[b] = heap[b]
        /\ heap'[n] = Chain!New
    BY <1>3 DEF Chain!With
  <1>5. Chain!New.key = call.page /\ Chain!New.next = buckets[index] /\ Chain!New \in ChainNode
    BY <1>1, <1>2, ChainFacts DEF Chain!New, ChainNode, ChainInv, ChainTyped, Buckets
  <1>6. /\ buckets \in Buckets /\ buckets' \in Buckets /\ buckets'[index] = n
        /\ \A i \in 0 .. Size - 1 : i # index => buckets'[i] = buckets[i]
    BY <1>1, <1>3 DEF ChainInv, ChainTyped, Buckets
  <1>7. Chain!Live = 0 .. Size - 1 /\ Chain!Live' = 0 .. Size - 1
    BY <1>1 DEF Chain!Live
  <1>8. /\ Chain!Heads = {buckets[i] : i \in 0 .. Size - 1}
        /\ Chain!Heads' = {buckets'[i] : i \in 0 .. Size - 1}
    BY <1>1, <1>7 DEF Chain!Heads
  <1>9. ASSUME NEW S \in SUBSET DOMAIN heap', (Chain!Closed(S))'
        PROVE  Chain!Closed(S \ {n})
    <2> SUFFICES ASSUME NEW b \in S \ {n}, heap[b].next \in DOMAIN heap
                 PROVE  heap[b].next \in S \ {n}
      BY DEF Chain!Closed
    <2>1. b \in DOMAIN heap /\ heap'[b].next = heap[b].next
      BY <1>4
    <2>2. heap[b].next \in DOMAIN heap' /\ heap[b].next # n
      BY <1>3, <1>4
    <2> QED
      BY <2>1, <2>2, <1>9 DEF Chain!Closed
  <1>10. ASSUME NEW S \in SUBSET DOMAIN heap', (Chain!Closed(S))', n \in S, buckets[index] \in DOMAIN heap
         PROVE  buckets[index] \in S \ {n}
    BY <1>3, <1>4, <1>5, <1>10 DEF Chain!Closed
  <1>11. ChainTyped'
    <2>1. DOMAIN heap' \subseteq Addr /\ heap' \in [DOMAIN heap' -> ChainNode]
      BY <1>3, <1>4, <1>5 DEF ChainInv, ChainTyped, Chain!With
    <2> QED
      BY <1>1, <1>6, <2>1 DEF ChainTyped
  <1>12. DOMAIN heap' = (Chain!From(Chain!Heads))'
    <2> SUFFICES ASSUME NEW a \in DOMAIN heap', NEW S \in SUBSET DOMAIN heap',
                        Chain!Heads' \cap DOMAIN heap' \subseteq S, (Chain!Closed(S))'
                 PROVE  a \in S
      BY DEF Chain!From
    <2>1. n \in S
      BY <1>1, <1>4, <1>6, <1>8
    <2>2. Chain!Heads \cap DOMAIN heap \subseteq S \ {n}
      <3> SUFFICES ASSUME NEW i \in 0 .. Size - 1, buckets[i] \in DOMAIN heap
                   PROVE  buckets[i] \in S \ {n}
        BY <1>8
      <3>1. CASE i = index
        BY <2>1, <3>1, <1>10
      <3>2. CASE i # index
        BY <3>2, <1>3, <1>4, <1>6, <1>8
      <3> QED
        BY <3>1, <3>2
    <2>3. a \in DOMAIN heap => a \in Chain!From(Chain!Heads)
      BY DEF ChainInv, Chain!ChainOwned
    <2>4. S \ {n} \in SUBSET DOMAIN heap
      BY <1>4
    <2> QED
      BY <2>1, <2>2, <2>3, <2>4, <1>4, <1>9, Elim
  <1>13. \A a \in Chain!Heads' \cup {heap'[b].next : b \in DOMAIN heap'} \cup {current'} : a = Null \/ a \in DOMAIN heap'
    <2>1. \A i \in 0 .. Size - 1 : buckets'[i] = Null \/ buckets'[i] \in DOMAIN heap'
      BY <1>1, <1>4, <1>6, ChainFacts
    <2>2. \A b \in DOMAIN heap' : heap'[b].next = Null \/ heap'[b].next \in DOMAIN heap'
      BY <1>1, <1>4, <1>5, ChainFacts
    <2> QED
      BY <1>1, <1>8, <2>1, <2>2
  <1>14. ASSUME NEW a \in DOMAIN heap', NEW b \in DOMAIN heap', heap'[a].next = heap'[b].next
         PROVE  a = b \/ heap'[a].next = Null
    <2>1. \A c \in DOMAIN heap : heap[c].next = buckets[index] => heap[c].next = Null
      BY <1>1, <1>8 DEF ChainInv, Chain!ChainOwned
    <2> QED
      BY <1>4, <1>5, <1>14, <2>1 DEF ChainInv, Chain!ChainOwned
  <1>15. ASSUME NEW i \in Chain!Live', NEW j \in Chain!Live', buckets'[i] = buckets'[j]
         PROVE  i = j \/ buckets'[i] = Null
    BY <1>1, <1>3, <1>6, <1>7, <1>15, ChainFacts DEF ChainInv, Chain!ChainOwned, Chain!ChainingAssumption
  <1>16. ASSUME NEW b \in DOMAIN heap', heap'[b].next \in Chain!Heads'
         PROVE  heap'[b].next = Null
    <2>1. PICK j \in 0 .. Size - 1 : heap'[b].next = buckets'[j]
      BY <1>8, <1>16
    <2>2. CASE b = n
      BY <2>1, <2>2, <1>1, <1>3, <1>4, <1>5, <1>6, <1>7, ChainFacts DEF ChainInv, Chain!ChainOwned, Chain!ChainingAssumption
    <2>3. CASE b # n
      <3>1. b \in DOMAIN heap /\ heap'[b].next = heap[b].next /\ heap[b].next # n
        BY <2>3, <1>3, <1>4, ChainFacts DEF ChainInv, Chain!ChainingAssumption
      <3>2. heap[b].next = buckets[j]
        BY <2>1, <3>1, <1>6
      <3> QED
        BY <3>1, <3>2, <1>8 DEF ChainInv, Chain!ChainOwned
    <2> QED
      BY <2>2, <2>3
  <1>17. Chain!ChainOwned'
    BY <1>1, <1>12, <1>13, <1>14, <1>15, <1>16 DEF Chain!ChainOwned
  <1>18. Chained'
    <2> SUFFICES ASSUME NEW a \in DOMAIN heap', NEW S \in SUBSET DOMAIN heap',
                        {buckets'[Chain!Home(heap'[a].key, Size)]} \cap DOMAIN heap' \subseteq S, (Chain!Closed(S))'
                 PROVE  a \in S
      BY DEF Chained, Chain!From
    <2>1. CASE a = n
      BY <2>1, <1>1, <1>4, <1>5, <1>6
    <2>2. CASE a # n
      <3> DEFINE h == Chain!Home(heap[a].key, Size)
      <3>1. a \in DOMAIN heap /\ heap'[a] = heap[a] /\ h \in 0 .. Size - 1 /\ a \in Chain!From({buckets[h]})
        BY <2>2, <1>1, <1>4, ChainFacts DEF ChainInv, Chained
      <3>2. {buckets'[h]} \cap DOMAIN heap' \subseteq S
        BY <3>1
      <3> HIDE DEF h
      <3>3. {buckets[h]} \cap DOMAIN heap \subseteq S \ {n}
        <4>1. CASE h = index
          <5>1. n \in S
            BY <3>2, <4>1, <1>4, <1>6
          <5> QED
            BY <4>1, <5>1, <1>10
        <4>2. CASE h # index
          BY <3>1, <3>2, <4>2, <1>3, <1>4, <1>6
        <4> QED
          BY <4>1, <4>2
      <3>4. S \ {n} \in SUBSET DOMAIN heap
        BY <1>4
      <3> QED
        BY <3>1, <3>3, <3>4, <1>9, Elim
    <2> QED
      BY <2>1, <2>2
  <1>19. Separate'
    <2>1. \A a \in DOMAIN heap : heap[a].key # call.page
      BY NotFound DEF Chain!Prepend
    <2> QED
      BY <2>1, <1>1, <1>4, <1>5 DEF ChainInv, Separate
  <1> QED
    BY <1>1, <1>11, <1>17, <1>18, <1>19 DEF ChainInv

-----------------------------------------------------------------------------
(* A node is taken out of its chain, at the head or behind another.         *)

LEMMA DeleteFacts ==
  ASSUME ChainInv, Chain!Delete
  PROVE  /\ chainPc = "walk" /\ chainPc' = "idle" /\ current' = Null /\ prev' = Null /\ index' = index
         /\ index \in 0 .. Size - 1 /\ Chain!ChainingAssumption /\ current # Null
         /\ current \in DOMAIN heap /\ DOMAIN heap' = DOMAIN heap \ {current}
         /\ \A b \in DOMAIN heap' : /\ heap'[b].key = heap[b].key /\ heap'[b].value = heap[b].value
                                    /\ prev = Null \/ b # prev => heap'[b] = heap[b]
         /\ buckets \in Buckets /\ buckets' \in Buckets
         /\ \A i \in 0 .. Size - 1 : i # index => buckets'[i] = buckets[i]
         /\ Chain!Live = 0 .. Size - 1 /\ Chain!Live' = 0 .. Size - 1
         /\ Chain!Heads = {buckets[i] : i \in 0 .. Size - 1}
         /\ Chain!Heads' = {buckets'[i] : i \in 0 .. Size - 1}
         /\ ChainTyped'
  <1>1. /\ chainPc = "walk" /\ chainPc' = "idle" /\ current' = Null /\ prev' = Null /\ index' = index
        /\ index \in 0 .. Size - 1 /\ Chain!ChainingAssumption /\ buckets \in Buckets
        /\ heap \in [DOMAIN heap -> ChainNode] /\ DOMAIN heap \subseteq Addr
    BY DEF Chain!Delete, Chain!Hit, Chain!Return, ChainInv, ChainTyped
  <1>2. current # Null /\ current \in DOMAIN heap /\ heap[current].next \in DOMAIN heap \cup {Null}
    BY ChainFacts DEF Chain!Delete, Chain!Hit
  <1>3. prev # Null => prev \in DOMAIN heap
    BY <1>1 DEF ChainInv, Walked
  <1>4. /\ DOMAIN heap' = DOMAIN heap \ {current} /\ heap' \in [DOMAIN heap' -> ChainNode]
        /\ \A b \in DOMAIN heap' : /\ heap'[b].key = heap[b].key /\ heap'[b].value = heap[b].value
                                   /\ prev = Null \/ b # prev => heap'[b] = heap[b]
    <2>1. CASE prev = Null
      <3>1. heap' = Chain!Restrict(heap, DOMAIN heap \ {current})
        BY <2>1 DEF Chain!Delete, Chain!Unlink, Chain!Freed
      <3> QED
        BY <3>1, <2>1, <1>1 DEF Chain!Restrict
    <2>2. CASE prev # Null
      <3> DEFINE g == [heap EXCEPT ![prev].next = heap[current].next]
      <3>1. heap' = Chain!Restrict(g, DOMAIN g \ {current})
        BY <2>2 DEF Chain!Delete, Chain!Unlink, Chain!Freed
      <3>2. g \in [DOMAIN heap -> ChainNode] /\ DOMAIN g = DOMAIN heap
        BY <1>1, <1>2, <1>3, <2>2 DEF ChainNode
      <3>3. \A b \in DOMAIN heap : /\ g[b].key = heap[b].key /\ g[b].value = heap[b].value
                                   /\ b # prev => g[b] = heap[b]
        BY <1>1, <1>2, <1>3, <2>2 DEF ChainNode
      <3> HIDE DEF g
      <3> QED
        BY <3>1, <3>2, <3>3, <2>2 DEF Chain!Restrict
    <2> QED
      BY <2>1, <2>2
  <1>5. buckets' \in Buckets /\ \A i \in 0 .. Size - 1 : i # index => buckets'[i] = buckets[i]
    BY <1>1, <1>2 DEF Chain!Delete, Chain!Unlink, Buckets
  <1>6. Chain!Live = 0 .. Size - 1 /\ Chain!Live' = 0 .. Size - 1
    BY <1>1 DEF Chain!Live
  <1>7. /\ Chain!Heads = {buckets[i] : i \in 0 .. Size - 1}
        /\ Chain!Heads' = {buckets'[i] : i \in 0 .. Size - 1}
    BY <1>1, <1>6 DEF Chain!Heads
  <1>8. ChainTyped'
    BY <1>1, <1>4, <1>5 DEF ChainTyped
  <1> QED
    BY <1>1, <1>2, <1>4, <1>5, <1>6, <1>7, <1>8

LEMMA Removed ==
  ASSUME ChainInv, Chain!Delete
  PROVE  Separate'
  BY DeleteFacts DEF Separate, ChainInv

(* The head of a chain.                                                     *)
LEMMA UnlinkHeadNext ==
  ASSUME ChainInv, Chain!Delete, prev = Null
  PROVE  ChainInv'
  <1> USE DeleteFacts
  <1>1. /\ current = buckets[index] /\ buckets'[index] = heap[current].next
        /\ \A b \in DOMAIN heap' : heap'[b] = heap[b]
    BY DEF ChainInv, Walked, Chain!Delete, Chain!Unlink, Buckets
  <1>2. /\ \A b \in DOMAIN heap : heap[b].next # current
        /\ \A i \in 0 .. Size - 1 : i # index => buckets[i] # current
    <2>1. current \in Chain!Heads
      BY <1>1
    <2>2. \A b \in DOMAIN heap : heap[b].next \in Chain!Heads => heap[b].next = Null
      BY DEF ChainInv, Chain!ChainOwned
    <2>3. \A i \in 0 .. Size - 1 : buckets[i] = buckets[index] => i = index \/ buckets[i] = Null
      BY DEF ChainInv, Chain!ChainOwned
    <2> QED
      BY <2>1, <2>2, <2>3, <1>1
  <1>3. ASSUME NEW S \in SUBSET DOMAIN heap', (Chain!Closed(S))'
        PROVE  /\ S \in SUBSET DOMAIN heap /\ Chain!Closed(S)
               /\ heap[current].next \in S \cup {Null} =>
                    S \cup {current} \in SUBSET DOMAIN heap /\ Chain!Closed(S \cup {current})
    <2>1. S \in SUBSET DOMAIN heap /\ S \cup {current} \in SUBSET DOMAIN heap
      OBVIOUS
    <2>2. \A b \in S : heap[b].next \in DOMAIN heap => heap[b].next \in S
      BY <1>1, <1>2, <1>3 DEF Chain!Closed
    <2> QED
      BY <2>1, <2>2, ChainFacts DEF Chain!Closed
  <1>4. heap[current].next \in DOMAIN heap' \cup {Null}
    BY <1>2, ChainFacts
  <1>5. DOMAIN heap' = (Chain!From(Chain!Heads))'
    <2> SUFFICES ASSUME NEW a \in DOMAIN heap', NEW S \in SUBSET DOMAIN heap',
                        Chain!Heads' \cap DOMAIN heap' \subseteq S, (Chain!Closed(S))'
                 PROVE  a \in S
      BY DEF Chain!From
    <2>1. heap[current].next \in S \cup {Null}
      BY <1>1, <1>4
    <2>2. Chain!Heads \cap DOMAIN heap \subseteq S \cup {current}
      BY <1>1, <1>2
    <2>3. a \in Chain!From(Chain!Heads) /\ a # current
      BY DEF ChainInv, Chain!ChainOwned
    <2>4. S \cup {current} \in SUBSET DOMAIN heap /\ Chain!Closed(S \cup {current})
      BY <2>1, <1>3
    <2>5. a \in S \cup {current}
      BY <2>2, <2>3, <2>4, Elim
    <2> QED
      BY <2>3, <2>5
  <1>6. \A a \in Chain!Heads' \cup {heap'[b].next : b \in DOMAIN heap'} \cup {current'} : a = Null \/ a \in DOMAIN heap'
    <2>1. \A i \in 0 .. Size - 1 : buckets'[i] = Null \/ buckets'[i] \in DOMAIN heap'
      BY <1>1, <1>2, <1>4, ChainFacts
    <2>2. \A b \in DOMAIN heap' : heap'[b].next = Null \/ heap'[b].next \in DOMAIN heap'
      BY <1>1, <1>2, ChainFacts
    <2> QED
      BY <2>1, <2>2
  <1>7. \A a, b \in DOMAIN heap' : heap'[a].next = heap'[b].next => a = b \/ heap'[a].next = Null
    BY <1>1 DEF ChainInv, Chain!ChainOwned
  <1>8. ASSUME NEW i \in 0 .. Size - 1, NEW j \in 0 .. Size - 1, buckets'[i] = buckets'[j]
        PROVE  i = j \/ buckets'[i] = Null
    <2>1. \A k \in 0 .. Size - 1 : buckets[k] = heap[current].next => heap[current].next = Null
      BY DEF ChainInv, Chain!ChainOwned
    <2>2. \A k, l \in 0 .. Size - 1 : buckets[k] = buckets[l] => k = l \/ buckets[k] = Null
      BY DEF ChainInv, Chain!ChainOwned
    <2>3. CASE i = index \/ j = index
      BY <2>1, <2>3, <1>1, <1>8
    <2>4. CASE i # index /\ j # index
      BY <2>2, <2>4, <1>8
    <2> QED
      BY <2>3, <2>4
  <1>9. ASSUME NEW b \in DOMAIN heap', heap'[b].next \in Chain!Heads'
        PROVE  heap'[b].next = Null
    <2>1. PICK j \in 0 .. Size - 1 : heap'[b].next = buckets'[j]
      BY <1>9
    <2>2. CASE j = index
      BY <2>1, <2>2, <1>1 DEF ChainInv, Chain!ChainOwned
    <2>3. CASE j # index
      BY <2>1, <2>3, <1>1 DEF ChainInv, Chain!ChainOwned
    <2> QED
      BY <2>2, <2>3
  <1>10. Chain!ChainOwned'
    BY <1>5, <1>6, <1>7, <1>8, <1>9 DEF Chain!ChainOwned
  <1>11. Chained'
    <2> SUFFICES ASSUME NEW a \in DOMAIN heap', NEW S \in SUBSET DOMAIN heap',
                        {buckets'[Chain!Home(heap'[a].key, Size)]} \cap DOMAIN heap' \subseteq S, (Chain!Closed(S))'
                 PROVE  a \in S
      BY DEF Chained, Chain!From
    <2> DEFINE h == Chain!Home(heap[a].key, Size)
    <2>1. /\ a \in DOMAIN heap /\ a # current /\ h \in 0 .. Size - 1 /\ a \in Chain!From({buckets[h]})
          /\ {buckets'[h]} \cap DOMAIN heap' \subseteq S
      BY <1>1, ChainFacts DEF ChainInv, Chained
    <2> HIDE DEF h
    <2>2. CASE h = index
      <3>1. heap[current].next \in S \cup {Null}
        BY <2>1, <2>2, <1>1, <1>4
      <3>2. {buckets[h]} \cap DOMAIN heap \subseteq S \cup {current}
        BY <2>2, <1>1
      <3>3. a \in S \cup {current}
        BY <2>1, <3>1, <3>2, <1>3, Elim
      <3> QED
        BY <2>1, <3>3
    <2>3. CASE h # index
      <3>1. {buckets[h]} \cap DOMAIN heap \subseteq S
        BY <2>1, <2>3, <1>2
      <3> QED
        BY <2>1, <3>1, <1>3, Elim
    <2> QED
      BY <2>2, <2>3
  <1> QED
    BY <1>10, <1>11, Removed DEF ChainInv

(* A node behind another, which bypasses it.                                *)
LEMMA BypassNext ==
  ASSUME ChainInv, Chain!Delete, prev # Null
  PROVE  ChainInv'
  <1> USE DeleteFacts
  <1>1. /\ prev \in DOMAIN heap /\ heap[prev].next = current /\ buckets' = buckets
        /\ heap[current].next \in DOMAIN heap \cup {Null} /\ heap \in [DOMAIN heap -> ChainNode]
    BY ChainFacts DEF ChainInv, Walked, Chain!Delete, Chain!Unlink, ChainTyped
  <1>2. /\ \A b \in DOMAIN heap : b # prev => heap[b].next # current
        /\ \A i \in 0 .. Size - 1 : buckets[i] # current
        /\ heap[current].next # current
    <2>1. \A b \in DOMAIN heap : b # prev => heap[b].next # current
      BY <1>1 DEF ChainInv, Chain!ChainOwned
    <2>2. \A i \in 0 .. Size - 1 : buckets[i] # current
      BY <1>1 DEF ChainInv, Chain!ChainOwned
    <2>3. prev # current
      <3> SUFFICES ASSUME prev = current PROVE FALSE
        OBVIOUS
      <3>1. Chain!Closed(DOMAIN heap \ {current})
        BY <2>1 DEF Chain!Closed
      <3>2. Chain!Heads \cap DOMAIN heap \subseteq DOMAIN heap \ {current}
        BY <2>2
      <3>3. current \in Chain!From(Chain!Heads)
        BY DEF ChainInv, Chain!ChainOwned
      <3> QED
        BY <3>1, <3>2, <3>3, Elim
    <2> QED
      BY <2>1, <2>2, <2>3
  <1>3. /\ prev \in DOMAIN heap' /\ heap'[prev].next = heap[current].next
        /\ \A b \in DOMAIN heap' : b # prev => heap'[b] = heap[b]
    <2> DEFINE g == [heap EXCEPT ![prev].next = heap[current].next]
    <2>1. heap' = Chain!Restrict(g, DOMAIN g \ {current})
      BY DEF Chain!Delete, Chain!Unlink, Chain!Freed
    <2>2. DOMAIN g = DOMAIN heap /\ g[prev].next = heap[current].next /\ prev # current
      BY <1>1, <1>2 DEF ChainNode
    <2> HIDE DEF g
    <2> QED
      BY <2>1, <2>2, <1>1 DEF Chain!Restrict
  <1>4. heap[current].next \in DOMAIN heap' \cup {Null}
    BY <1>1, <1>2
  <1>5. ASSUME NEW S \in SUBSET DOMAIN heap', (Chain!Closed(S))'
        PROVE  /\ prev \in S => S \cup {current} \in SUBSET DOMAIN heap /\ Chain!Closed(S \cup {current})
               /\ prev \notin S => S \in SUBSET DOMAIN heap /\ Chain!Closed(S)
    <2>1. \A b \in S : b # prev /\ heap[b].next \in DOMAIN heap => heap[b].next \in S
      BY <1>2, <1>3, <1>5 DEF Chain!Closed
    <2>2. prev \in S /\ heap[current].next \in DOMAIN heap => heap[current].next \in S
      BY <1>2, <1>3, <1>5 DEF Chain!Closed
    <2> QED
      BY <1>1, <2>1, <2>2 DEF Chain!Closed
  <1>6. ASSUME NEW as, NEW a \in Chain!From(as), a # current, current \notin as
        PROVE  a \in (Chain!From(as))'
    <2> SUFFICES ASSUME NEW S \in SUBSET DOMAIN heap', as \cap DOMAIN heap' \subseteq S, (Chain!Closed(S))'
                 PROVE  a \in S
      BY <1>6 DEF Chain!From
    <2>1. as \cap DOMAIN heap \subseteq S
      BY <1>6
    <2>2. CASE prev \in S
      <3>1. S \cup {current} \in SUBSET DOMAIN heap /\ Chain!Closed(S \cup {current})
        BY <2>2, <1>5
      <3>2. a \in S \cup {current}
        BY <2>1, <3>1, <1>6, Elim
      <3> QED
        BY <3>2, <1>6
    <2>3. CASE prev \notin S
      <3>1. S \in SUBSET DOMAIN heap /\ Chain!Closed(S)
        BY <2>3, <1>5
      <3> QED
        BY <2>1, <3>1, <1>6, Elim
    <2> QED
      BY <2>2, <2>3
  <1>7. DOMAIN heap' = (Chain!From(Chain!Heads))'
    <2>1. Chain!Heads' = Chain!Heads /\ current \notin Chain!Heads
      <3>1. Chain!Heads = {buckets[i] : i \in 0 .. Size - 1} /\ Chain!Heads' = {buckets'[i] : i \in 0 .. Size - 1}
        OBVIOUS
      <3> QED
        BY <3>1, <1>1, <1>2
    <2>2. \A a \in DOMAIN heap' : a \in Chain!From(Chain!Heads) /\ a # current
      BY DEF ChainInv, Chain!ChainOwned
    <2>3. \A a \in DOMAIN heap' : a \in (Chain!From(Chain!Heads))'
      <3> DEFINE hs == Chain!Heads
      <3> HIDE DEF hs
      <3>1. \A a \in DOMAIN heap' : a \in (Chain!From(hs))'
        BY <2>1, <2>2, <1>6 DEF hs
      <3> QED
        BY <3>1, <2>1 DEF hs
    <2> QED
      BY <2>3 DEF Chain!From
  <1>8. \A a \in Chain!Heads' \cup {heap'[b].next : b \in DOMAIN heap'} \cup {current'} : a = Null \/ a \in DOMAIN heap'
    <2>1. \A i \in 0 .. Size - 1 : buckets'[i] = Null \/ buckets'[i] \in DOMAIN heap'
      BY <1>1, <1>2, ChainFacts
    <2>2. \A b \in DOMAIN heap' : heap'[b].next = Null \/ heap'[b].next \in DOMAIN heap'
      BY <1>2, <1>3, <1>4, ChainFacts
    <2> QED
      BY <2>1, <2>2
  <1>9. \A a, b \in DOMAIN heap' : heap'[a].next = heap'[b].next => a = b \/ heap'[a].next = Null
    BY <1>3 DEF ChainInv, Chain!ChainOwned
  <1>10. \A i, j \in 0 .. Size - 1 : buckets'[i] = buckets'[j] => i = j \/ buckets'[i] = Null
    BY <1>1 DEF ChainInv, Chain!ChainOwned
  <1>11. \A b \in DOMAIN heap' : heap'[b].next \in Chain!Heads' => heap'[b].next = Null
    BY <1>1, <1>3 DEF ChainInv, Chain!ChainOwned
  <1>12. Chain!ChainOwned'
    BY <1>7, <1>8, <1>9, <1>10, <1>11 DEF Chain!ChainOwned
  <1>13. Chained'
    <2> SUFFICES ASSUME NEW a \in DOMAIN heap', NEW S \in SUBSET DOMAIN heap',
                        {buckets'[Chain!Home(heap'[a].key, Size)]} \cap DOMAIN heap' \subseteq S, (Chain!Closed(S))'
                 PROVE  a \in S
      BY DEF Chained, Chain!From
    <2> DEFINE h == Chain!Home(heap[a].key, Size)
    <2>1. /\ a \in DOMAIN heap /\ a # current /\ h \in 0 .. Size - 1 /\ a \in Chain!From({buckets[h]})
          /\ Chain!Home(heap'[a].key, Size) = h
      BY ChainFacts DEF ChainInv, Chained
    <2> HIDE DEF h
    <2>2. PICK x : x = buckets[h]
      OBVIOUS
    <2>3. x # current /\ buckets'[h] = x /\ a \in Chain!From({x})
      BY <2>1, <2>2, <1>1, <1>2
    <2>4. a \in (Chain!From({x}))'
      BY <2>1, <2>3, <1>6
    <2>5. {x} \cap DOMAIN heap' \subseteq S
      BY <2>1, <2>3
    <2> QED
      BY <2>4, <2>5 DEF Chain!From
  <1> QED
    BY <1>12, <1>13, Removed DEF ChainInv

-----------------------------------------------------------------------------
(* The final free_table.                                                    *)

LEMMA FreeTableNext ==
  ASSUME ChainInv, Chain!FreeTable
  PROVE  ChainInv'
  <1>1. /\ chainPc = "idle" /\ chainPc' = "free" /\ index' = 0 /\ current' = buckets[0] /\ buckets' = buckets
        /\ heap' = heap /\ Size \in Nat /\ Size >= 1 /\ Chain!ChainingAssumption
    BY DEF Chain!FreeTable, ChainInv, Chain!ChainingAssumption
  <1>2. Chain!Live = 0 .. Size - 1 /\ Chain!Live' = 1 .. Size - 1
    BY <1>1 DEF Chain!Live
  <1>3. Chain!Heads = {buckets[i] : i \in 0 .. Size - 1}
        /\ Chain!Heads' = {buckets[i] : i \in 1 .. Size - 1} \cup {buckets[0]}
    BY <1>1, <1>2 DEF Chain!Heads
  <1>4. Chain!Heads' = Chain!Heads
    <2>1. 0 .. Size - 1 = (1 .. Size - 1) \cup {0}
      BY <1>1
    <2> QED
      BY <1>3, <2>1
  <1>5. ChainTyped'
    BY <1>1 DEF ChainInv, ChainTyped
  <1>6. Chain!ChainOwned'
    <2>1. DOMAIN heap' = (Chain!From(Chain!Heads))'
      <3>1. \A as : (Chain!From(as))' = Chain!From(as)
        BY <1>1, SameNext
      <3> QED
        BY <3>1, <1>1, <1>4 DEF ChainInv, Chain!ChainOwned
    <2>2. \A i, j \in 0 .. Size - 1 : buckets[i] = buckets[j] => i = j \/ buckets[i] = Null
      BY <1>2 DEF ChainInv, Chain!ChainOwned
    <2>3. /\ \A i, j \in Chain!Live' : buckets'[i] = buckets'[j] => i = j \/ buckets'[i] = Null
          /\ \A i \in Chain!Live' : buckets'[i] = current' => current' = Null
      BY <1>1, <1>2, <2>2
    <2>4. current' = Null \/ current' \in DOMAIN heap'
      BY <1>1, ChainFacts
    <2>5. /\ \A a \in Chain!Heads \cup {heap[b].next : b \in DOMAIN heap} \cup {current} : a = Null \/ a \in DOMAIN heap
          /\ \A a, b \in DOMAIN heap : heap[a].next = heap[b].next => a = b \/ heap[a].next = Null
          /\ \A b \in DOMAIN heap : heap[b].next \in Chain!Heads => heap[b].next = Null
      BY DEF ChainInv, Chain!ChainOwned
    <2> QED
      BY <1>1, <1>4, <2>1, <2>3, <2>4, <2>5 DEF Chain!ChainOwned
  <1> QED
    BY <1>1, <1>5, <1>6 DEF ChainInv

LEMMA FreeNodeNext ==
  ASSUME ChainInv, Chain!FreeStep, current # Null
  PROVE  ChainInv'
  <1>1. /\ chainPc = "free" /\ chainPc' = "free" /\ buckets' = buckets /\ index' = index /\ Chain!ChainingAssumption
        /\ heap' = Chain!Freed(heap, current) /\ current' = heap[current].next
    BY DEF Chain!FreeStep, ChainInv
  <1>2. current \in DOMAIN heap /\ heap[current].next \in DOMAIN heap \cup {Null}
    BY ChainFacts
  <1>3. DOMAIN heap' = DOMAIN heap \ {current} /\ \A b \in DOMAIN heap' : heap'[b] = heap[b]
    BY <1>1 DEF Chain!Freed, Chain!Restrict
  <1>4. /\ Chain!Live' = Chain!Live /\ current \in Chain!Heads
        /\ Chain!Heads = {buckets[i] : i \in Chain!Live} \cup {current}
        /\ Chain!Heads' = {buckets[i] : i \in Chain!Live} \cup {heap[current].next}
    BY <1>1 DEF Chain!Live, Chain!Heads
  <1>5. /\ \A b \in DOMAIN heap : heap[b].next \in Chain!Heads => heap[b].next = Null
        /\ \A a, b \in DOMAIN heap : heap[a].next = heap[b].next => a = b \/ heap[a].next = Null
        /\ \A i \in Chain!Live : buckets[i] # current /\ buckets[i] \in DOMAIN heap \cup {Null}
    BY <1>1, <1>4 DEF ChainInv, Chain!ChainOwned
  <1>6. /\ \A b \in DOMAIN heap : heap[b].next # current
    BY <1>4, <1>5
  <1>7. ChainTyped'
    <2>1. DOMAIN heap' \subseteq Addr /\ heap' \in [DOMAIN heap' -> ChainNode]
      BY <1>1, <1>3 DEF ChainInv, ChainTyped, Chain!Freed, Chain!Restrict
    <2> QED
      BY <1>1, <2>1 DEF ChainInv, ChainTyped
  <1>8. DOMAIN heap' = (Chain!From(Chain!Heads))'
    <2> SUFFICES ASSUME NEW a \in DOMAIN heap', NEW S \in SUBSET DOMAIN heap',
                        Chain!Heads' \cap DOMAIN heap' \subseteq S, (Chain!Closed(S))'
                 PROVE  a \in S
      BY DEF Chain!From
    <2>1. heap[current].next \in S \cup {Null}
      BY <1>2, <1>3, <1>4, <1>6
    <2>2. Chain!Closed(S \cup {current}) /\ S \cup {current} \in SUBSET DOMAIN heap
      BY <2>1, <1>2, <1>3, <1>6, ChainFacts DEF Chain!Closed
    <2>3. Chain!Heads \cap DOMAIN heap \subseteq S \cup {current}
      BY <1>3, <1>4
    <2>4. a \in Chain!From(Chain!Heads) /\ a # current
      BY <1>3 DEF ChainInv, Chain!ChainOwned
    <2> QED
      BY <2>2, <2>3, <2>4, Elim
  <1>9. \A a \in Chain!Heads' \cup {heap'[b].next : b \in DOMAIN heap'} \cup {current'} : a = Null \/ a \in DOMAIN heap'
    <2>1. heap[current].next \in DOMAIN heap' \cup {Null}
      BY <1>2, <1>3, <1>6
    <2>2. \A b \in DOMAIN heap' : heap'[b].next \in DOMAIN heap' \cup {Null}
      BY <1>3, <1>6, ChainFacts
    <2>3. \A i \in Chain!Live : buckets[i] \in DOMAIN heap' \cup {Null}
      BY <1>3, <1>5
    <2> QED
      BY <1>1, <1>4, <2>1, <2>2, <2>3
  <1>10. Chain!ChainOwned'
    <2>1. \A a, b \in DOMAIN heap' : heap'[a].next = heap'[b].next => a = b \/ heap'[a].next = Null
      BY <1>3, <1>5
    <2>2. \A i, j \in Chain!Live' : buckets'[i] = buckets'[j] => i = j \/ buckets'[i] = Null
      BY <1>1, <1>4 DEF ChainInv, Chain!ChainOwned
    <2>3. \A b \in DOMAIN heap' : heap'[b].next \in Chain!Heads' => heap'[b].next = Null
      BY <1>2, <1>3, <1>4, <1>5
    <2>4. \A i \in Chain!Live' : buckets'[i] = current' => current' = Null
      BY <1>1, <1>2, <1>4, <1>5
    <2> QED
      BY <1>8, <1>9, <2>1, <2>2, <2>3, <2>4 DEF Chain!ChainOwned
  <1> QED
    BY <1>1, <1>7, <1>10 DEF ChainInv

LEMMA FreeNextNext ==
  ASSUME ChainInv, Chain!FreeStep, current = Null
  PROVE  ChainInv'
  <1>1. /\ chainPc = "free" /\ heap' = heap /\ Chain!ChainingAssumption
        /\ Size \in Nat /\ index \in 0 .. Size - 1 /\ buckets \in Buckets
    BY DEF Chain!FreeStep, ChainInv, ChainTyped, Chain!ChainingAssumption
  <1>2. \A as : (Chain!From(as))' = Chain!From(as)
    BY <1>1, SameNext
  <1>3. Chain!Live = index + 1 .. Size - 1 /\ Chain!Heads = {buckets[i] : i \in Chain!Live} \cup {Null}
    BY <1>1 DEF Chain!Live, Chain!Heads
  <1>4. CASE index < Size - 1
    <2>1. /\ chainPc' = "free" /\ index' = index + 1 /\ current' = buckets[index + 1] /\ buckets' = buckets
      BY <1>1, <1>4 DEF Chain!FreeStep
    <2>2. /\ Chain!Live' = index + 2 .. Size - 1 /\ index + 1 \in Chain!Live /\ Chain!Live = Chain!Live' \cup {index + 1}
          /\ index + 1 \notin Chain!Live'
      BY <1>1, <1>3, <1>4, <2>1 DEF Chain!Live
    <2>3. Chain!Heads' = {buckets[i] : i \in Chain!Live'} \cup {buckets[index + 1]}
      BY <2>1 DEF Chain!Heads
    <2>4. Chain!Heads' \subseteq Chain!Heads /\ Chain!Heads = Chain!Heads' \cup {Null}
      BY <1>3, <2>2, <2>3
    <2>5. ChainTyped'
      BY <1>1, <1>4, <2>1 DEF ChainInv, ChainTyped
    <2>6. DOMAIN heap' = (Chain!From(Chain!Heads))'
      <3>1. Chain!Heads \cap DOMAIN heap = Chain!Heads' \cap DOMAIN heap
        BY <2>4, ChainFacts
      <3>2. DOMAIN heap = Chain!From(Chain!Heads)
        BY DEF ChainInv, Chain!ChainOwned
      <3> SUFFICES ASSUME NEW a \in DOMAIN heap', NEW S \in SUBSET DOMAIN heap',
                          Chain!Heads' \cap DOMAIN heap' \subseteq S, (Chain!Closed(S))'
                   PROVE  a \in S
        BY DEF Chain!From
      <3>3. Chain!Closed(S) /\ Chain!Heads \cap DOMAIN heap \subseteq S
        BY <1>1, <3>1 DEF Chain!Closed
      <3> QED
        BY <1>1, <3>2, <3>3, Elim
    <2>7. Chain!ChainOwned'
      <3>1. /\ \A a \in Chain!Heads \cup {heap[b].next : b \in DOMAIN heap} \cup {current} : a = Null \/ a \in DOMAIN heap
            /\ \A a, b \in DOMAIN heap : heap[a].next = heap[b].next => a = b \/ heap[a].next = Null
            /\ \A i, j \in Chain!Live : buckets[i] = buckets[j] => i = j \/ buckets[i] = Null
            /\ \A b \in DOMAIN heap : heap[b].next \in Chain!Heads => heap[b].next = Null
        BY DEF ChainInv, Chain!ChainOwned
      <3>2. \A i \in Chain!Live' : buckets'[i] = current' => current' = Null
        BY <2>1, <2>2, <3>1
      <3>3. \A i, j \in Chain!Live' : buckets'[i] = buckets'[j] => i = j \/ buckets'[i] = Null
        BY <2>1, <2>2, <3>1
      <3>4. current' \in Chain!Heads
        BY <2>1, <2>3, <2>4
      <3> QED
        BY <1>1, <2>4, <2>6, <3>1, <3>2, <3>3, <3>4 DEF Chain!ChainOwned
    <2> QED
      BY <1>1, <2>1, <2>5, <2>7 DEF ChainInv
  <1>5. CASE ~ index < Size - 1
    <2>1. chainPc' = "freed" /\ current' = Null
      BY <1>1, <1>5 DEF Chain!FreeStep
    <2>2. Chain!Live = {} /\ Chain!Heads = {Null}
      BY <1>1, <1>3, <1>5
    <2>3. DOMAIN heap = {}
      <3>1. {Null} \cap DOMAIN heap = {} /\ DOMAIN heap = Chain!From(Chain!Heads)
        BY ChainFacts DEF ChainInv, Chain!ChainOwned
      <3>2. Chain!Closed({})
        BY DEF Chain!Closed
      <3> QED
        BY <2>2, <3>1, <3>2, Elim
    <2>4. Chain!Live' = {} /\ Chain!Heads' = {}
      BY <2>1 DEF Chain!Live, Chain!Heads
    <2>5. Chain!ChainOwned'
      BY <1>1, <2>1, <2>3, <2>4 DEF Chain!ChainOwned, Chain!From
    <2>6. ChainTyped'
      BY <1>1, <2>1 DEF ChainInv, ChainTyped
    <2> QED
      BY <1>1, <2>1, <2>5, <2>6 DEF ChainInv
  <1> QED
    BY <1>4, <1>5

-----------------------------------------------------------------------------
LEMMA ChainNext == ChainInv /\ [Chain!Next]_Chain!vars => ChainInv'
  <1> SUFFICES ASSUME ChainInv, [Chain!Next]_Chain!vars PROVE ChainInv'
    OBVIOUS
  <1>1. CASE Chain!Delete
    BY <1>1, UnlinkHeadNext, BypassNext
  <1>2. CASE Chain!FreeStep
    BY <1>2, FreeNodeNext, FreeNextNext
  <1>3. CASE UNCHANGED Chain!vars
    <2>1. \A as : (Chain!From(as))' = Chain!From(as)
      BY <1>3, SameNext DEF Chain!vars
    <2>2. Chain!Heads' = Chain!Heads /\ Chain!Live' = Chain!Live
      BY <1>3 DEF Chain!vars, Chain!Heads, Chain!Live
    <2>3. ChainTyped' /\ (chainPc \in {"idle", "walk"} => Separate')
      BY <1>3 DEF Chain!vars, ChainInv, ChainTyped, Separate
    <2>4. Chain!ChainOwned'
      BY <1>3, <2>1, <2>2 DEF Chain!vars, ChainInv, Chain!ChainOwned
    <2>5. chainPc \in {"idle", "walk"} => Chained'
      BY <1>3, <2>1 DEF Chain!vars, ChainInv, Chained
    <2>6. chainPc = "walk" => Walked'
      BY <1>3, <2>1 DEF Chain!vars, ChainInv, Walked
    <2> QED
      BY <1>3, <2>3, <2>4, <2>5, <2>6 DEF Chain!vars, ChainInv
  <1> QED
    BY <1>1, <1>2, <1>3, LookNext, PrependNext, FreeTableNext DEF Chain!Next

(* No node is lost, freed too early or reached by two pointers, through any *)
(* sequence of calls on any number of chains and the final free_table.      *)
THEOREM NoNodeLost == Chain!ChainingAssumption /\ Chain!Spec => []ChainOwned
  <1>1. ChainInv => ChainOwned
    BY DEF ChainInv, ChainOwned
  <1> QED
    BY <1>1, ChainBegins, ChainNext, PTL DEF Chain!Spec

-----------------------------------------------------------------------------
(* The map.                                                                 *)

Pair(h, a) == <<h[a].key, h[a].value>>
Pairs(h) == {Pair(h, a) : a \in DOMAIN h}

LEMMA ContentsPairs ==
  ASSUME ChainInv, ChainInv'
  PROVE  Chain!Contents = Pairs(heap) /\ Chain!Contents' = Pairs(heap')
  <1>1. DOMAIN heap = Chain!From(Chain!Heads) /\ DOMAIN heap' = (Chain!From(Chain!Heads))'
    BY DEF ChainInv, Chain!ChainOwned
  <1> QED
    BY <1>1 DEF Chain!Contents, Pairs, Pair

LEMMA MappedIs ==
  ASSUME ChainInv, ChainInv'
  PROVE  /\ \A p : Map!Mapped(p) <=> \E a \in DOMAIN heap : heap[a].key = p
         /\ \A p : Map!Without(p) = {Pair(heap, a) : a \in {b \in DOMAIN heap : heap[b].key # p}}
  <1>1. Chain!Contents = Pairs(heap)
    BY ContentsPairs
  <1>2. \A a : Pair(heap, a)[1] = heap[a].key
    BY DEF Pair
  <1>3. \A p : Map!Mapped(p) <=> \E a \in DOMAIN heap : heap[a].key = p
    BY <1>1, <1>2 DEF Map!Mapped, Pairs
  <1>4. ASSUME NEW p
        PROVE  Map!Without(p) = {Pair(heap, a) : a \in {b \in DOMAIN heap : heap[b].key # p}}
    BY <1>1, <1>2 DEF Map!Without, Pairs
  <1> QED
    BY <1>3, <1>4

Mapping ==
  chainPc' \in {"idle", "walk"} =>
    \/ UNCHANGED Map!vars
    \/ Map!Next /\ (chainPc' = "idle" /\ call.op = "insert" => ret'.ok)

LEMMA BeginMaps ==
  ASSUME ChainInv, ChainInv', Chain!Begin
  PROVE  Mapping
  <1>1. Chain!Contents' = Chain!Contents
    BY ContentsPairs DEF Chain!Begin
  <1>2. chainPc = "idle" /\ chainPc' = "walk" /\ call' \in Map!Calls /\ ret' = ret
    BY DEF Chain!Begin, Chain!Calls, Map!Calls
  <1>3. Map!Begin
    BY <1>1, <1>2 DEF Map!Begin
  <1> QED
    BY <1>2, <1>3 DEF Mapping, Map!Next

LEMMA WalkMaps ==
  ASSUME ChainInv, ChainInv', Chain!Walk
  PROVE  Mapping
  <1>1. Chain!Contents' = Chain!Contents
    BY ContentsPairs DEF Chain!Walk
  <1> QED
    BY <1>1 DEF Chain!Walk, Mapping, Map!vars

LEMMA AnswerMaps ==
  ASSUME ChainInv, ChainInv', Chain!Answer
  PROVE  Mapping
  <1>1. /\ chainPc = "walk" /\ chainPc' = "idle" /\ call' = call /\ call \in Chain!Calls /\ heap' = heap
    BY DEF Chain!Answer, Chain!Hit, Chain!AtEnd, Chain!Return, ChainInv, ChainTyped
  <1>2. Chain!Contents' = Chain!Contents
    BY <1>1, ContentsPairs
  <1>3. CASE Chain!Hit /\ call.op = "lookup"
    <2>1. current \in DOMAIN heap /\ heap[current].key = call.page
            /\ ret' = [ok |-> TRUE, frame |-> heap[current].value]
      BY <1>3, ChainFacts DEF Chain!Answer, Chain!Hit, Chain!AtEnd, Chain!Return
    <2>2. Pair(heap, current) \in Chain!Contents /\ Pair(heap, current)[1] = call.page
            /\ Pair(heap, current)[2] = heap[current].value
      BY <2>1, ContentsPairs DEF Pairs, Pair
    <2>3. Map!TakeEffect([ok |-> TRUE, frame |-> Pair(heap, current)[2]])
      BY <1>1, <2>1, <2>2 DEF Map!TakeEffect
    <2>4. Map!Lookup
      BY <1>2, <1>3, <2>2, <2>3 DEF Map!Lookup
    <2> QED
      BY <1>3, <2>4 DEF Mapping, Map!Next
  <1>4. CASE Chain!AtEnd /\ call.op # "insert"
    <2>1. ~ Map!Mapped(call.page)
      BY <1>4, NotFound, MappedIs
    <2>2. ret' = Chain!No /\ Chain!No = Map!No
      BY <1>4 DEF Chain!Answer, Chain!Hit, Chain!AtEnd, Chain!Return, Chain!No, Map!No
    <2>3. Map!TakeEffect(Map!No)
      BY <1>1, <2>2 DEF Map!TakeEffect
    <2>4. CASE call.op = "lookup"
      <3>1. Map!Lookup
        BY <1>2, <2>1, <2>3, <2>4 DEF Map!Lookup
      <3> QED
        BY <2>4, <3>1 DEF Mapping, Map!Next
    <2>5. CASE call.op = "delete"
      <3>1. Map!Without(call.page) = Chain!Contents
        BY <2>1 DEF Map!Without, Map!Mapped
      <3>2. Map!Delete
        BY <1>2, <2>1, <2>3, <2>5, <3>1 DEF Map!Delete
      <3> QED
        BY <2>5, <3>2 DEF Mapping, Map!Next
    <2>6. call.op \in {"lookup", "insert", "delete"}
      BY <1>1 DEF Chain!Calls
    <2> QED
      BY <1>4, <2>4, <2>5, <2>6
  <1> QED
    BY <1>3, <1>4 DEF Chain!Answer

LEMMA InsertMaps ==
  ASSUME ChainInv, ChainInv', Chain!Update \/ Chain!Prepend
  PROVE  Mapping
  <1>1. /\ chainPc = "walk" /\ chainPc' = "idle" /\ call' = call /\ call.op = "insert"
        /\ ret' = Map!Yes /\ ret'.ok
    BY DEF Chain!Update, Chain!Prepend, Chain!Hit, Chain!AtEnd, Chain!Return, Chain!Yes, Map!Yes
  <1>2. Chain!Contents' = Map!Without(call.page) \cup {<<call.page, call.frame>>}
    <2>1. CASE Chain!Update
      <3>1. /\ current \in DOMAIN heap /\ heap[current].key = call.page
            /\ heap' = [heap EXCEPT ![current].value = call.frame]
        BY <2>1, ChainFacts DEF Chain!Update, Chain!Hit
      <3>2. heap \in [DOMAIN heap -> ChainNode]
        BY DEF ChainInv, ChainTyped
      <3>3. /\ DOMAIN heap' = DOMAIN heap
            /\ Pair(heap', current) = <<call.page, call.frame>>
            /\ \A a \in DOMAIN heap : a # current => Pair(heap', a) = Pair(heap, a)
        BY <3>1, <3>2 DEF ChainNode, Pair
      <3>4. {b \in DOMAIN heap : heap[b].key # call.page} = DOMAIN heap \ {current}
        BY <2>1, <3>1 DEF ChainInv, Separate, Chain!Update, Chain!Hit
      <3>5. Chain!Contents' = {Pair(heap, a) : a \in DOMAIN heap \ {current}} \cup {<<call.page, call.frame>>}
        <4>1. Chain!Contents' = {Pair(heap', a) : a \in DOMAIN heap}
          BY <3>3, ContentsPairs DEF Pairs
        <4> QED
          BY <3>1, <3>3, <4>1
      <3> QED
        BY <3>4, <3>5, MappedIs
    <2>2. CASE Chain!Prepend
      <3>1. PICK n \in Addr \ DOMAIN heap : heap' = Chain!With(heap, n, Chain!New)
        BY <2>2 DEF Chain!Prepend
      <3>2. /\ DOMAIN heap' = DOMAIN heap \cup {n}
            /\ Pair(heap', n) = <<call.page, call.frame>>
            /\ \A a \in DOMAIN heap : Pair(heap', a) = Pair(heap, a)
        BY <3>1 DEF Chain!With, Chain!New, Pair
      <3>3. {b \in DOMAIN heap : heap[b].key # call.page} = DOMAIN heap
        BY <2>2, NotFound DEF Chain!Prepend
      <3>4. Chain!Contents' = {Pair(heap, a) : a \in DOMAIN heap} \cup {<<call.page, call.frame>>}
        <4>1. Chain!Contents' = {Pair(heap', a) : a \in DOMAIN heap \cup {n}}
          BY <3>2, ContentsPairs DEF Pairs
        <4> QED
          BY <3>2, <4>1
      <3> QED
        BY <3>3, <3>4, MappedIs
    <2> QED
      BY <2>1, <2>2
  <1>3. Map!TakeEffect(Map!Yes)
    BY <1>1 DEF Map!TakeEffect
  <1>4. Map!Insert
    BY <1>1, <1>2, <1>3 DEF Map!Insert
  <1> QED
    BY <1>1, <1>4 DEF Mapping, Map!Next

LEMMA DeleteMaps ==
  ASSUME ChainInv, ChainInv', Chain!Delete
  PROVE  Mapping
  <1>1. /\ chainPc = "walk" /\ chainPc' = "idle" /\ call' = call /\ call.op = "delete"
        /\ ret' = Map!Yes /\ current \in DOMAIN heap /\ heap[current].key = call.page
    BY ChainFacts DEF Chain!Delete, Chain!Hit, Chain!Return, Chain!Yes, Map!Yes
  <1>2. /\ DOMAIN heap' = DOMAIN heap \ {current}
        /\ \A a \in DOMAIN heap' : Pair(heap', a) = Pair(heap, a)
    BY DeleteFacts DEF Pair
  <1>3. {b \in DOMAIN heap : heap[b].key # call.page} = DOMAIN heap \ {current}
    BY <1>1 DEF ChainInv, Separate
  <1>4. Chain!Contents' = Map!Without(call.page)
    <2>1. Chain!Contents' = {Pair(heap', a) : a \in DOMAIN heap \ {current}}
      BY <1>2, ContentsPairs DEF Pairs
    <2>2. Chain!Contents' = {Pair(heap, a) : a \in DOMAIN heap \ {current}}
      BY <1>2, <2>1
    <2> QED
      BY <1>3, <2>2, MappedIs
  <1>5. Map!Mapped(call.page)
    BY <1>1, MappedIs
  <1>6. Map!TakeEffect(Map!Yes)
    BY <1>1 DEF Map!TakeEffect
  <1>7. Map!Delete
    BY <1>1, <1>4, <1>5, <1>6 DEF Map!Delete
  <1> QED
    BY <1>1, <1>7 DEF Mapping, Map!Next

(* Each call on the table takes effect on the map in one step, with the     *)
(* map's own reply, and an insertion is never refused.                      *)
THEOREM TableIsMap == Chain!ChainingAssumption /\ Chain!Spec => ChainMaps
  <1>1. ChainInv /\ ChainInv' /\ [Chain!Next]_Chain!vars => [Mapping]_Chain!vars
    <2> SUFFICES ASSUME ChainInv, ChainInv', Chain!Next PROVE Mapping
      OBVIOUS
    <2>1. CASE Chain!FreeTable \/ Chain!FreeStep
      <3>1. chainPc' \in {"free", "freed"}
        BY <2>1 DEF Chain!FreeTable, Chain!FreeStep
      <3> QED
        BY <3>1 DEF Mapping
    <2> QED
      BY <2>1, BeginMaps, WalkMaps, AnswerMaps, InsertMaps, DeleteMaps DEF Chain!Next
  <1>2. [][Mapping]_Chain!vars => ChainMaps
    BY PTL DEF ChainMaps, Mapping, chainVars, Chain!vars
  <1> QED
    BY <1>1, <1>2, ChainBegins, ChainNext, PTL DEF Chain!Spec

-----------------------------------------------------------------------------
(* The lexer: the inductive invariant and its parts.                        *)

Reading == lexPc \in {"number", "word"}
Done == IF Reading THEN start ELSE cursor

TokenType == {"number", "keyword", "identifier", "error"} \cup Lex!Accepted
LexToken == [type : TokenType, first : Nat \ {0}, last : Nat \ {0}]

LexTyped ==
  /\ lexPc \in {"init", "skip", "number", "word", "stopped"}
  /\ lexPc # "init" => lexer \in DOMAIN Symbols
  /\ text \in Seq(Lex!Chars) /\ tokens \in Seq(LexToken)
  /\ cursor \in 1 .. Len(text) + 1 /\ start \in 1 .. cursor
  /\ lexPc = "init" => tokens = << >> /\ cursor = 1

(* The tokens are in order, behind the one being read.                      *)
InOrder ==
  /\ \A k \in DOMAIN tokens : tokens[k].first <= tokens[k].last /\ tokens[k].last < Done
  /\ \A j, k \in DOMAIN tokens : j < k => tokens[j].last < tokens[k].first

(* They cover what was read but white space.                                *)
In(p) == \E k \in DOMAIN tokens : p \in tokens[k].first .. tokens[k].last
Covering ==
  lexPc # "stopped" => \A p \in 1 .. Done - 1 : In(p) <=> text[p] \notin Spaces

(* The token being read.                                                    *)
Scanned ==
  /\ Reading => start < cursor
  /\ lexPc = "number" => \A p \in start .. cursor - 1 : text[p] \in Digits
  /\ lexPc = "word" => /\ text[start] \in Lex!Letters
                       /\ \A p \in start .. cursor - 1 : text[p] \in Lex!Letters \cup Digits

(* A token is what the text says.                                           *)
Sound(t) ==
  /\ t.type = "number" => Lex!AllIn(t, Digits) /\ Lex!NextOut(t, Digits)
  /\ t.type \in {"keyword", "identifier"} =>
       /\ text[t.first] \in Lex!Letters
       /\ Lex!AllIn(t, Lex!Letters \cup Digits) /\ Lex!NextOut(t, Lex!Letters \cup Digits)
       /\ t.type = "keyword" <=> Lex!Word(t) \in Keywords
  /\ t.type = "error" =>
       t.first = t.last /\ text[t.first] \in Lex!Chars \ (Lex!Letters \cup Digits \cup Spaces)
  /\ t.type \in Lex!Accepted => t.first = t.last /\ text[t.first] = t.type

LexInv ==
  /\ Lex!LexerAssumption /\ LexTyped /\ InOrder /\ Covering /\ Scanned
  /\ \A k \in DOMAIN tokens : Sound(tokens[k])

LEMMA SoundCase ==
  ASSUME Lex!LexerAssumption, NEW t \in LexToken, Sound(t)
  PROVE  CASE t.type = "number" -> Lex!AllIn(t, Digits) /\ Lex!NextOut(t, Digits)
           [] t.type \in {"keyword", "identifier"} ->
                /\ text[t.first] \in Lex!Letters
                /\ Lex!AllIn(t, Lex!Letters \cup Digits) /\ Lex!NextOut(t, Lex!Letters \cup Digits)
                /\ t.type = "keyword" <=> Lex!Word(t) \in Keywords
           [] t.type = "error" -> t.first = t.last /\ text[t.first] \in Lex!Chars \ (Lex!Letters \cup Digits \cup Spaces)
           [] OTHER -> t.first = t.last /\ text[t.first] = t.type
<1>1. t.type \in TokenType
  BY DEF LexToken
<1>2. CASE t.type = "number"
  BY <1>2 DEF Sound
<1>3. CASE t.type \in {"keyword", "identifier"}
  BY <1>3 DEF Sound
<1>4. CASE t.type = "error"
  BY <1>4 DEF Sound
<1>5. CASE t.type \in Lex!Accepted
  BY <1>5 DEF Sound, Lex!LexerAssumption
<1> QED
  BY <1>1, <1>2, <1>3, <1>4, <1>5 DEF TokenType

LEMMA Tiles ==
  ASSUME LexInv
  PROVE  Lex!TextTiled
<1>1. cursor <= Len(text) + 1
  BY DEF LexInv, LexTyped
<1>2. \A k \in 1 .. Len(tokens) - 1 : tokens[k].last < tokens[k + 1].first
  BY DEF LexInv, InOrder, LexTyped
<1>3. ASSUME lexPc = "skip", NEW p \in 1 .. cursor - 1
      PROVE  p \in Lex!Between <=> text[p] \notin Spaces
  BY <1>3 DEF LexInv, Covering, In, Done, Reading, Lex!Between, Lex!Range1
<1>4. ASSUME NEW k \in DOMAIN tokens PROVE tokens[k] \in LexToken /\ Sound(tokens[k])
  BY DEF LexInv, LexTyped
<1> QED
  BY <1>1, <1>2, <1>3, <1>4, SoundCase DEF Lex!TextTiled, LexInv

LEMMA Peeking ==
  ASSUME Lex!LexerAssumption, LexTyped
  PROVE  /\ Len(text) \in Nat /\ cursor \in Nat \ {0} /\ start \in Nat \ {0}
         /\ Lex!peek = Lex!NUL => cursor = Len(text) + 1 /\ Lex!AfterPeek = cursor
         /\ Lex!peek # Lex!NUL => /\ cursor \in 1 .. Len(text) /\ Lex!peek = text[cursor]
                                  /\ text[cursor] \in Lex!Chars /\ Lex!AfterPeek = cursor + 1
<1>1. Len(text) \in Nat /\ cursor \in 1 .. Len(text) + 1 /\ start \in 1 .. cursor
      /\ \A p \in 1 .. Len(text) : text[p] \in Lex!Chars
  BY DEF LexTyped
<1>2. Lex!NUL \notin Lex!Chars
  BY DEF Lex!LexerAssumption
<1> QED
  BY <1>1, <1>2 DEF Lex!peek, Lex!AfterPeek

LEMMA SoundKept ==
  ASSUME UNCHANGED <<text, lexer>>, NEW t
  PROVE  Sound(t) => (Sound(t))'
BY DEF Sound, Lex!AllIn, Lex!NextOut, Lex!Word, Lex!Folded, Lex!Range1

LEMMA Before ==
  \A d, e \in Nat : \A p \in 1 .. e - 1 :
    \/ p \in 1 .. d - 1 /\ p \notin d .. e - 1
    \/ p \in d .. e - 1
OBVIOUS

(* A turn that hands out nothing passes over white space only.              *)
LEMMA NoTokenNew ==
  ASSUME LexInv, UNCHANGED <<text, lexer, tokens>>, NEW d \in Nat, NEW e \in Nat, d = Done, e = Done', d <= e,
         lexPc' = "stopped" \/ \A p \in d .. e - 1 : text[p] \in Spaces,
         lexPc # "stopped"
  PROVE  InOrder' /\ Covering' /\ \A k \in DOMAIN tokens' : (Sound(tokens[k]))'
<1>2. tokens \in Seq(LexToken) /\ \A k \in DOMAIN tokens : tokens[k] \in LexToken
  BY DEF LexInv, LexTyped
<1>3. InOrder'
  <2>1. ASSUME NEW k \in DOMAIN tokens PROVE tokens[k].last < e /\ tokens[k].first <= tokens[k].last
    <3>1. PICK t \in LexToken : t = tokens[k]
      BY <1>2
    <3>2. t.last < d /\ t.first <= t.last
      BY <3>1 DEF LexInv, InOrder
    <3> QED
      BY <3>1, <3>2 DEF LexToken
  <2> QED
    BY <2>1 DEF LexInv, InOrder
<1>4. Covering'
  <2>1. ASSUME lexPc' # "stopped", NEW p \in 1 .. e - 1 PROVE In(p) <=> text[p] \notin Spaces
    <3>1. CASE p \in 1 .. d - 1
      BY <3>1 DEF LexInv, Covering
    <3>2. CASE p \in d .. e - 1
      <4>1. ASSUME NEW k \in DOMAIN tokens PROVE p \notin tokens[k].first .. tokens[k].last
        <5>1. PICK t \in LexToken : t = tokens[k]
          BY <1>2
        <5>2. t.last < d
          BY <5>1 DEF LexInv, InOrder
        <5> QED
          BY <3>2, <5>1, <5>2 DEF LexToken
      <4> QED
        BY <2>1, <3>2, <4>1 DEF In
    <3> QED
      BY <3>1, <3>2, Before
  <2> QED
    BY <2>1 DEF Covering, In
<1>5. \A t : Sound(t) => (Sound(t))'
  BY SoundKept
<1>6. ASSUME NEW k \in DOMAIN tokens' PROVE (Sound(tokens[k]))'
  <2>1. PICK t : t = tokens[k]
    OBVIOUS
  <2>2. Sound(t)
    BY <2>1 DEF LexInv
  <2>3. t = tokens'[k] /\ (Sound(t))'
    BY <1>5, <2>1, <2>2
  <2> QED
    BY <2>3 DEF Sound, Lex!AllIn, Lex!NextOut, Lex!Word, Lex!Range1
<1> QED
  BY <1>3, <1>4, <1>6

(* A token handed out covers all of what was read since the one before.     *)
LEMMA Handed ==
  ASSUME LexInv, UNCHANGED <<text, lexer>>, lexPc # "stopped", NEW t \in LexToken,
         tokens' = Append(tokens, t), Sound(t),
         NEW d \in Nat, NEW e \in Nat, d = Done, e = Done', d < e,
         t.first = d, t.last = e - 1,
         \A p \in d .. e - 1 : text[p] \notin Spaces
  PROVE  /\ InOrder' /\ Covering' /\ \A k \in DOMAIN tokens' : (Sound(tokens[k]))'
         /\ tokens' \in Seq(LexToken)
<1>1. Len(tokens) \in Nat
  BY DEF LexInv, LexTyped
<1>2. /\ tokens \in Seq(LexToken) /\ DOMAIN tokens = 1 .. Len(tokens)
      /\ \A k \in DOMAIN tokens : tokens[k] \in LexToken
  BY DEF LexInv, LexTyped
<1>3. /\ tokens' \in Seq(LexToken) /\ DOMAIN tokens' = 1 .. Len(tokens) + 1
      /\ tokens'[Len(tokens) + 1] = t /\ \A k \in DOMAIN tokens : tokens'[k] = tokens[k]
  BY <1>2
<1>4. ASSUME NEW k \in DOMAIN tokens
      PROVE  tokens[k].first \in Nat /\ tokens[k].last < d /\ tokens[k].first <= tokens[k].last
  BY <1>2 DEF LexInv, InOrder, LexToken
<1>5. InOrder'
  <2>1. ASSUME NEW k \in DOMAIN tokens'
        PROVE  tokens'[k].first <= tokens'[k].last /\ tokens'[k].last < e
    <3>1. CASE k = Len(tokens) + 1
      BY <1>3, <3>1
    <3>2. CASE k \in DOMAIN tokens
      <4>1. PICK u \in LexToken : u = tokens[k] /\ u = tokens'[k]
        BY <1>2, <1>3, <3>2
      <4>2. u.last \in Nat /\ u.last < d /\ u.first <= u.last
        BY <1>4, <3>2, <4>1 DEF LexToken
      <4> QED
        BY <4>1, <4>2
    <3> QED
      BY <1>1, <1>2, <1>3, <3>1, <3>2
  <2>2. ASSUME NEW j \in DOMAIN tokens', NEW k \in DOMAIN tokens', j < k
        PROVE  tokens'[j].last < tokens'[k].first
    <3>1. j \in DOMAIN tokens
      BY <1>1, <1>2, <1>3, <2>2
    <3>2. CASE k = Len(tokens) + 1
      BY <1>3, <1>4, <3>1, <3>2
    <3>3. CASE k \in DOMAIN tokens
      BY <1>3, <2>2, <3>1, <3>3 DEF LexInv, InOrder
    <3> QED
      BY <1>1, <1>2, <1>3, <3>2, <3>3
  <2> QED
    BY <2>1, <2>2 DEF InOrder
<1>6. Covering'
  <2>1. ASSUME NEW p \in 1 .. e - 1
        PROVE  (\E k \in DOMAIN tokens' : p \in tokens'[k].first .. tokens'[k].last) <=> text[p] \notin Spaces
    <3>1. CASE p \in 1 .. d - 1 /\ p \notin d .. e - 1
      <4>1. In(p) <=> text[p] \notin Spaces
        BY <3>1 DEF LexInv, Covering
      <4>2. p \notin t.first .. t.last
        BY <3>1
      <4>3. DOMAIN tokens' = DOMAIN tokens \cup {Len(tokens) + 1}
        BY <1>1, <1>2, <1>3
      <4>4. In(p) <=> \E k \in DOMAIN tokens' : p \in tokens'[k].first .. tokens'[k].last
        BY <1>3, <4>2, <4>3, Zenon DEF In
      <4> QED
        BY <4>1, <4>4
    <3>2. CASE p \in d .. e - 1
      <4>1. p \in t.first .. t.last /\ text[p] \notin Spaces
        BY <3>2
      <4>2. Len(tokens) + 1 \in DOMAIN tokens' /\ tokens'[Len(tokens) + 1] = t
        BY <1>1, <1>3
      <4> QED
        BY <4>1, <4>2, Zenon
    <3> QED
      BY <3>1, <3>2, Before
  <2> QED
    BY <2>1 DEF Covering, In
<1>7. \A u : Sound(u) => (Sound(u))'
  BY SoundKept
<1>8. ASSUME NEW k \in DOMAIN tokens' PROVE (Sound(tokens[k]))'
  <2>1. PICK u : u = tokens'[k]
    OBVIOUS
  <2>2. Sound(u)
    BY <1>1, <1>2, <1>3, <2>1 DEF LexInv
  <2>3. (Sound(u))'
    BY <1>7, <2>2
  <2> QED
    BY <2>1, <2>3 DEF Sound, Lex!AllIn, Lex!NextOut, Lex!Word, Lex!Range1
<1> QED
  BY <1>3, <1>5, <1>6, <1>8

LEMMA LexBegins ==
  ASSUME Lex!LexerAssumption, Lex!Init
  PROVE  LexInv
BY DEF Lex!Init, LexInv, LexTyped, InOrder, Covering, Scanned, Done, Reading, In

LEMMA Opens ==
  ASSUME LexInv, Lex!Open
  PROVE  LexInv'
<1>1. text' \in Seq(Lex!Chars) /\ lexer' \in DOMAIN Symbols
  <2>1. PICK m \in 0 .. MaxText : text' \in [1 .. m -> Lex!Chars]
    BY DEF Lex!Open, Lex!BoundedSeq, Lex!SeqOf, LexInv, Lex!LexerAssumption
  <2> QED
    BY <2>1 DEF LexInv, Lex!LexerAssumption, Lex!Open
<1>2. /\ lexPc' = "skip" /\ tokens' = << >> /\ cursor' = 1 /\ start' = 1
  BY DEF Lex!Open, LexInv, LexTyped
<1>3. LexTyped'
  BY <1>1, <1>2 DEF LexTyped
<1> QED
  BY <1>2, <1>3 DEF LexInv, InOrder, Covering, Scanned, Done, Reading, Lex!LexerAssumption

LEMMA Skips ==
  ASSUME LexInv, Lex!Skip \/ Lex!AtEnd
  PROVE  LexInv'
<1>1. LexTyped /\ Lex!LexerAssumption /\ lexPc = "skip" /\ lexPc' = "skip"
      /\ UNCHANGED <<lexer, text, start, tokens>>
  BY DEF LexInv, Lex!Skip, Lex!AtEnd
<1>2. \/ cursor \in 1 .. Len(text) /\ cursor' = cursor + 1 /\ text[cursor] \in Spaces
      \/ cursor' = cursor
  BY <1>1, Peeking DEF Lex!Skip, Lex!AtEnd
<1>3. LexTyped'
  BY <1>1, <1>2 DEF LexTyped
<1>4. PICK d \in Nat : d = cursor
  BY <1>1 DEF LexTyped
<1>5. PICK e \in Nat : e = cursor'
  BY <1>3 DEF LexTyped
<1>6. d <= e /\ \A p \in d .. e - 1 : text[p] \in Spaces
  <2>1. CASE text[cursor] \in Spaces /\ cursor' = cursor + 1
    <3>1. e = d + 1 /\ \A p \in d .. e - 1 : p = d
      BY <1>4, <1>5, <2>1
    <3> QED
      BY <1>4, <2>1, <3>1
  <2>2. CASE cursor' = cursor
    BY <1>4, <1>5, <2>2
  <2> QED
    BY <1>2, <2>1, <2>2
<1>7. d = Done /\ e = Done'
  BY <1>1, <1>4, <1>5 DEF Done, Reading
<1>8. InOrder' /\ Covering' /\ \A k \in DOMAIN tokens' : (Sound(tokens[k]))'
  BY <1>1, <1>6, <1>7, NoTokenNew
<1> QED
  BY <1>1, <1>3, <1>8 DEF LexInv, Scanned, Reading, Lex!LexerAssumption

(* A token of one character.                                                *)
LEMMA Takes ==
  ASSUME LexInv, NEW type, lexPc = "skip", Lex!peek # Lex!NUL, Lex!peek \notin Spaces,
         tokens' = Append(tokens, [type |-> type, first |-> cursor, last |-> cursor]),
         \/ type = "error" /\ Lex!peek \notin Lex!Letters \cup Digits
         \/ type = Lex!peek /\ type \in Symbols[lexer],
         cursor' = Lex!AfterPeek, UNCHANGED <<lexer, text, lexPc, start>>
  PROVE  LexInv'
<1>1. LexTyped /\ Lex!LexerAssumption
  BY DEF LexInv
<1>2. cursor \in 1 .. Len(text) /\ Lex!peek = text[cursor] /\ text[cursor] \in Lex!Chars /\ cursor' = cursor + 1
  BY <1>1, Peeking
<1>3. PICK d \in Nat : d = cursor /\ d + 1 = cursor'
  BY <1>1, <1>2 DEF LexTyped
<1>4. d = Done /\ d + 1 = Done' /\ d \in Nat \ {0}
  BY <1>1, <1>3 DEF Done, Reading, LexTyped
<1>5. PICK t : t = [type |-> type, first |-> d, last |-> d]
  OBVIOUS
<1>6. /\ t.type = type /\ t.first = d /\ t.last = (d + 1) - 1 /\ t.first = t.last
      /\ tokens' = Append(tokens, t)
  BY <1>3, <1>5
<1>7. type = "error" \/ type \in Lex!Accepted
  BY <1>1 DEF Lex!Accepted, LexTyped
<1>8. t \in LexToken
  BY <1>4, <1>5, <1>7 DEF LexToken, TokenType
<1>9. Sound(t)
  <2>1. CASE type = "error"
    <3>1. t.type = "error" /\ t.type \notin Lex!Accepted
      BY <1>1, <1>6, <2>1 DEF Lex!LexerAssumption
    <3>2. text[t.first] \in Lex!Chars \ (Lex!Letters \cup Digits \cup Spaces)
      BY <1>1, <1>2, <1>3, <1>6, <2>1, <3>1 DEF Lex!Accepted, LexTyped
    <3> QED
      BY <1>6, <3>1, <3>2 DEF Sound
  <2>2. CASE type = Lex!peek /\ type \in Symbols[lexer]
    <3>1. t.type \in Lex!Accepted /\ text[t.first] = t.type
      BY <1>1, <1>2, <1>3, <1>6, <2>2 DEF Lex!Accepted, LexTyped
    <3>2. t.type \notin {"number", "keyword", "identifier", "error"}
      BY <1>1, <3>1 DEF Lex!LexerAssumption
    <3> QED
      BY <1>6, <3>1, <3>2 DEF Sound
  <2> QED
    BY <2>1, <2>2
<1>10. \A p \in d .. (d + 1) - 1 : text[p] \notin Spaces
  BY <1>2, <1>3
<1>11. d < d + 1 /\ d + 1 \in Nat
  OBVIOUS
<1>12. /\ InOrder' /\ Covering' /\ \A k \in DOMAIN tokens' : (Sound(tokens[k]))'
       /\ tokens' \in Seq(LexToken)
  BY <1>4, <1>6, <1>8, <1>9, <1>10, <1>11, Handed
<1>13. LexTyped'
  BY <1>1, <1>2, <1>12 DEF LexTyped
<1> QED
  BY <1>1, <1>12, <1>13 DEF LexInv, Scanned, Reading, Lex!LexerAssumption

LEMMA Errs ==
  ASSUME LexInv, Lex!Error
  PROVE  LexInv'
<1>1. /\ LexTyped /\ Lex!LexerAssumption /\ lexPc = "skip" /\ cursor' = Lex!AfterPeek
      /\ Lex!peek \notin Spaces \cup Symbols[lexer] \cup Digits \cup Lex!Letters \cup {Lex!NUL}
      /\ UNCHANGED <<lexer, text, start>>
  BY DEF LexInv, Lex!Error
<1>2. CASE lexer = "lex"
  <2>1. lexPc' = "stopped" /\ tokens' = tokens /\ cursor' = cursor + 1 /\ cursor \in 1 .. Len(text)
    BY <1>1, <1>2, Peeking DEF Lex!Error
  <2>2. LexTyped'
    BY <1>1, <2>1 DEF LexTyped
  <2>3. PICK d \in Nat : d = cursor /\ d + 1 = cursor'
    BY <1>1, <2>1 DEF LexTyped
  <2>4. d = Done /\ d + 1 = Done'
    BY <1>1, <2>1, <2>3 DEF Done, Reading
  <2>5. d <= d + 1 /\ d + 1 \in Nat
    OBVIOUS
  <2>6. InOrder' /\ Covering' /\ \A k \in DOMAIN tokens' : (Sound(tokens[k]))'
    BY <1>1, <2>1, <2>4, <2>5, NoTokenNew
  <2> QED
    BY <1>1, <2>1, <2>2, <2>6 DEF LexInv, Scanned, Reading, Lex!LexerAssumption
<1>3. CASE lexer # "lex"
  <2>1. lexPc' = lexPc /\ tokens' = Append(tokens, [type |-> "error", first |-> cursor, last |-> cursor])
    BY <1>3 DEF Lex!Error, Lex!Emit
  <2> QED
    BY <1>1, <2>1, Takes
<1> QED
  BY <1>2, <1>3

LEMMA Symbolises ==
  ASSUME LexInv, Lex!Symbol
  PROVE  LexInv'
<1>1. /\ LexTyped /\ Lex!LexerAssumption /\ lexPc = "skip" /\ cursor' = Lex!AfterPeek
      /\ Lex!peek \in Symbols[lexer] /\ UNCHANGED <<lexer, text, lexPc, start>>
      /\ tokens' = Append(tokens, [type |-> Lex!peek, first |-> cursor, last |-> cursor])
  BY DEF LexInv, Lex!Symbol, Lex!Emit
<1>2. Lex!peek \in Lex!Accepted /\ Lex!peek \in Lex!Chars
  BY <1>1 DEF LexTyped, Lex!Accepted, Lex!Chars
<1>3. Lex!peek # Lex!NUL /\ Lex!peek \notin Spaces
  BY <1>1, <1>2 DEF Lex!LexerAssumption
<1> QED
  BY <1>1, <1>3, Takes

LEMMA Begins ==
  ASSUME LexInv, Lex!Begin
  PROVE  LexInv'
<1>1. /\ LexTyped /\ Lex!LexerAssumption /\ lexPc = "skip" /\ cursor' = Lex!AfterPeek
      /\ Lex!peek \in Digits \cup Lex!Letters /\ start' = cursor /\ UNCHANGED <<lexer, text, tokens>>
      /\ lexPc' = IF Lex!peek \in Digits THEN "number" ELSE "word"
  BY DEF LexInv, Lex!Begin
<1>2. Lex!peek # Lex!NUL
  BY <1>1 DEF Lex!LexerAssumption, Lex!Chars
<1>3. cursor \in 1 .. Len(text) /\ Lex!peek = text[cursor] /\ cursor' = cursor + 1
  BY <1>1, <1>2, Peeking
<1>4. LexTyped'
  BY <1>1, <1>3 DEF LexTyped
<1>5. PICK d \in Nat : d = cursor
  BY <1>1 DEF LexTyped
<1>6. d = Done /\ d = Done' /\ Reading'
  BY <1>1, <1>5 DEF Done, Reading
<1>7. \A p \in d .. d - 1 : text[p] \in Spaces
  OBVIOUS
<1>8. InOrder' /\ Covering' /\ \A k \in DOMAIN tokens' : (Sound(tokens[k]))'
  BY <1>1, <1>6, <1>7, NoTokenNew
<1>9. Scanned'
  <2>1. \A p \in start' .. cursor' - 1 : p = cursor
    BY <1>1, <1>3
  <2> QED
    BY <1>1, <1>3, <2>1 DEF Scanned
<1> QED
  BY <1>1, <1>4, <1>8, <1>9 DEF LexInv, Lex!LexerAssumption

LEMMA Extends ==
  ASSUME LexInv, Lex!Extend
  PROVE  LexInv'
<1>1. /\ LexTyped /\ Lex!LexerAssumption /\ Scanned /\ lexPc \in {"number", "word"} /\ cursor' = Lex!AfterPeek
      /\ Lex!peek \in (IF lexPc = "number" THEN Digits ELSE Digits \cup Lex!Letters)
      /\ UNCHANGED <<lexer, text, lexPc, start, tokens>>
  BY DEF LexInv, Lex!Extend, Lex!Goes
<1>2. Lex!peek # Lex!NUL
  BY <1>1 DEF Lex!LexerAssumption, Lex!Chars
<1>3. cursor \in 1 .. Len(text) /\ Lex!peek = text[cursor] /\ cursor' = cursor + 1
  BY <1>1, <1>2, Peeking
<1>4. LexTyped'
  BY <1>1, <1>3 DEF LexTyped
<1>5. PICK d \in Nat : d = start
  BY <1>1 DEF LexTyped
<1>6. d = Done /\ d = Done'
  BY <1>1, <1>5 DEF Done, Reading
<1>7. \A p \in d .. d - 1 : text[p] \in Spaces
  OBVIOUS
<1>8. InOrder' /\ Covering' /\ \A k \in DOMAIN tokens' : (Sound(tokens[k]))'
  BY <1>1, <1>6, <1>7, NoTokenNew
<1>9. Scanned'
  <2>1. \A p \in start' .. cursor' - 1 : p \in start .. cursor - 1 \/ p = cursor
    BY <1>1, <1>3 DEF LexTyped
  <2> QED
    BY <1>1, <1>3, <2>1 DEF Scanned, Reading, LexTyped
<1> QED
  BY <1>1, <1>4, <1>8, <1>9 DEF LexInv, Lex!LexerAssumption

(* The comparison with a keyword, over the word and then for its end, is    *)
(* equality.                                                                *)
LEMMA Compares ==
  ASSUME LexInv, start < cursor, NEW k \in Keywords, NEW t, t.first = start, t.last = cursor - 1
  PROVE  Lex!Equals(k) <=> Lex!Word(t) = k
<1>1. /\ k \in Seq(LowerCase) /\ Len(k) \in Nat /\ DOMAIN k = 1 .. Len(k) /\ k = [i \in 1 .. Len(k) |-> k[i]]
      /\ cursor \in Nat /\ start \in Nat
  BY DEF LexInv, Lex!LexerAssumption, LexTyped
<1>2. PICK n \in Nat : n = cursor - start /\ t.last - t.first + 1 = n
  BY <1>1
<1>3. PICK w : w = [i \in 1 .. n |-> Lex!Folded(text[start + i - 1])]
  OBVIOUS
<1>4. Lex!Word(t) = w
  BY <1>2, <1>3 DEF Lex!Word
<1>5. ASSUME NEW i \in 1 .. n PROVE w[i] = Lex!Folded(text[start + (i - 1)])
  BY <1>1, <1>3
<1>6. ASSUME w = k PROVE Lex!Equals(k)
  <2>1. Len(k) = n
    <3>1. DOMAIN w = 1 .. n
      BY <1>3
    <3> QED
      BY <1>1, <1>6, <3>1
  <2>2. ASSUME NEW j \in 0 .. n - 1
        PROVE  Lex!Folded(text[start + j]) = IF j < Len(k) THEN k[j + 1] ELSE Lex!NUL
    <3>1. j + 1 \in 1 .. n /\ (j + 1) - 1 = j /\ j < Len(k)
      BY <2>1
    <3> QED
      BY <1>5, <1>6, <3>1
  <2>3. cursor - start - 1 = n - 1
    BY <1>2
  <2> QED
    BY <1>2, <2>1, <2>2, <2>3 DEF Lex!Equals
<1>7. ASSUME Lex!Equals(k) PROVE w = k
  <2>1. Len(k) = n /\ \A j \in 0 .. n - 1 :
          Lex!Folded(text[start + j]) = IF j < Len(k) THEN k[j + 1] ELSE Lex!NUL
    BY <1>2, <1>7 DEF Lex!Equals
  <2>2. ASSUME NEW i \in 1 .. n PROVE w[i] = k[i]
    <3>1. i - 1 \in 0 .. n - 1 /\ (i - 1) + 1 = i /\ i - 1 < n
      OBVIOUS
    <3> QED
      BY <1>5, <2>1, <3>1
  <2> QED
    BY <1>1, <1>3, <2>1, <2>2
<1> QED
  BY <1>4, <1>6, <1>7

LEMMA Finishes ==
  ASSUME LexInv, Lex!Finish
  PROVE  LexInv'
<1>1. /\ LexTyped /\ Lex!LexerAssumption /\ Scanned /\ lexPc \in {"number", "word"} /\ lexPc' = "skip"
      /\ start < cursor /\ UNCHANGED <<lexer, text, start, cursor>> /\ ~ Lex!Goes
  BY DEF LexInv, Lex!Finish, Scanned, Reading
<1>2. PICK type : type = IF lexPc = "number" THEN "number" ELSE
                           IF \E k \in Keywords : Lex!Equals(k) THEN "keyword" ELSE "identifier"
  OBVIOUS
<1>3. PICK d \in Nat : d = start /\ d # 0
  BY <1>1 DEF LexTyped
<1>4. PICK e \in Nat : e = cursor /\ d < e
  BY <1>1, <1>3 DEF LexTyped
<1>5. PICK t : t = [type |-> type, first |-> d, last |-> e - 1]
  OBVIOUS
<1>6. /\ t.type = type /\ t.first = d /\ t.last = e - 1 /\ tokens' = Append(tokens, t)
  BY <1>2, <1>3, <1>4, <1>5 DEF Lex!Finish, Lex!Emit
<1>7. type \in {"number", "keyword", "identifier"}
  BY <1>2
<1>8. t \in LexToken
  BY <1>3, <1>4, <1>5, <1>7 DEF LexToken, TokenType
<1>9. t.type # "error" /\ t.type \notin Lex!Accepted
  BY <1>1, <1>6, <1>7 DEF Lex!LexerAssumption
<1>10. t.last = Len(text) \/ text[t.last + 1] \notin (IF lexPc = "number" THEN Digits ELSE Lex!Letters \cup Digits)
  <2>1. t.last + 1 = cursor
    BY <1>4, <1>6
  <2>2. CASE Lex!peek = Lex!NUL
    <3>1. cursor = Len(text) + 1 /\ Len(text) \in Nat
      BY <1>1, <2>2, Peeking
    <3> QED
      BY <1>4, <1>6, <3>1
  <2>3. CASE Lex!peek # Lex!NUL
    <3>1. Lex!peek = text[cursor]
      BY <1>1, <2>3, Peeking
    <3> QED
      BY <1>1, <2>1, <3>1 DEF Lex!Goes
  <2> QED
    BY <2>2, <2>3
<1>11. \A p \in d .. e - 1 : text[p] \notin Spaces /\ text[p] \in (IF lexPc = "number" THEN Digits ELSE Lex!Letters \cup Digits)
  <2>1. \A p \in d .. e - 1 : text[p] \in (IF lexPc = "number" THEN Digits ELSE Lex!Letters \cup Digits)
    BY <1>1, <1>3, <1>4 DEF Scanned
  <2>2. Spaces \cap (Lex!Letters \cup Digits) = {}
    BY <1>1 DEF Lex!LexerAssumption, Lex!Accepted
  <2> QED
    BY <2>1, <2>2
<1>12. Sound(t)
  <2>1. CASE lexPc = "number"
    BY <1>2, <1>6, <1>9, <1>10, <1>11, <2>1 DEF Sound, Lex!AllIn, Lex!NextOut, Lex!Range1
  <2>2. CASE lexPc = "word"
    <3>1. t.type \in {"keyword", "identifier"} /\ (t.type = "keyword" <=> \E k \in Keywords : Lex!Equals(k))
      BY <1>2, <1>6, <2>2
    <3>2. (\E k \in Keywords : Lex!Equals(k)) <=> Lex!Word(t) \in Keywords
      <4>1. t.first = start /\ t.last = cursor - 1
        BY <1>3, <1>4, <1>6
      <4>2. \A k \in Keywords : Lex!Equals(k) <=> Lex!Word(t) = k
        BY <1>1, <4>1, Compares
      <4> QED
        BY <4>2, Zenon
    <3>3. text[t.first] \in Lex!Letters
      BY <1>1, <1>3, <1>6, <2>2 DEF Scanned
    <3>4. Lex!AllIn(t, Lex!Letters \cup Digits) /\ Lex!NextOut(t, Lex!Letters \cup Digits)
      BY <1>6, <1>10, <1>11, <2>2 DEF Lex!AllIn, Lex!NextOut, Lex!Range1
    <3>5. t.type # "number" /\ t.type # "error"
      BY <3>1
    <3> QED
      BY <1>9, <3>1, <3>2, <3>3, <3>4, <3>5 DEF Sound
  <2> QED
    BY <1>1, <2>1, <2>2
<1>13. d = Done /\ e = Done' /\ lexPc # "stopped"
  BY <1>1, <1>3, <1>4 DEF Done, Reading
<1>14. /\ InOrder' /\ Covering' /\ \A k \in DOMAIN tokens' : (Sound(tokens[k]))'
       /\ tokens' \in Seq(LexToken)
  BY <1>1, <1>4, <1>6, <1>8, <1>11, <1>12, <1>13, Handed
<1>15. LexTyped'
  BY <1>1, <1>14 DEF LexTyped
<1> QED
  BY <1>1, <1>14, <1>15 DEF LexInv, Scanned, Reading, Lex!LexerAssumption

LEMMA LexStill ==
  ASSUME LexInv, UNCHANGED Lex!vars
  PROVE  LexInv'
<1>1. UNCHANGED <<lexer, text, lexPc, start, cursor, tokens>>
  BY DEF Lex!vars
<1>2. \A k \in DOMAIN tokens' : (Sound(tokens[k]))'
  BY <1>1 DEF LexInv, Sound, Lex!AllIn, Lex!NextOut, Lex!Word, Lex!Folded, Lex!Range1
<1>3. LexTyped' /\ InOrder' /\ Covering' /\ Scanned'
  BY <1>1 DEF LexInv, LexTyped, InOrder, Covering, Scanned, Done, Reading, In
<1> QED
  BY <1>1, <1>2, <1>3 DEF LexInv, Lex!LexerAssumption

(* For every text and every set of characters and keywords: the tokens are  *)
(* what the text says.                                                      *)
THEOREM TokensRight == Lex!LexerAssumption /\ Lex!Spec => []TextTiled
<1>1. Lex!LexerAssumption /\ Lex!Init => LexInv
  BY LexBegins
<1>2. LexInv /\ [Lex!Next]_Lex!vars => LexInv'
  BY Opens, Skips, Errs, Symbolises, Begins, Extends, Finishes, LexStill DEF Lex!Next
<1>3. LexInv => TextTiled
  BY Tiles DEF TextTiled
<1> QED
  BY <1>1, <1>2, <1>3, PTL DEF Lex!Spec

-----------------------------------------------------------------------------
(* The lowering, over what the tree, the calls and the array are.           *)
Kinds == {"ADD", "MUL"}
NodeRec == [kind : {"NUMBER", "VAR"} \cup Kinds, value : Numbers \cup {0}, left : Int, right : Int]
Parent(A, p, c) == p \in DOMAIN A /\ Flat!IsBinary(A[p]) /\ c \in {A[p].left, A[p].right}

(* Children are older than their parent, and have only one.                 *)
IsTree(A) ==
  /\ A \in Seq(NodeRec)
  /\ \A a \in DOMAIN A :
       \/ A[a] \in Flat!Leaves
       \/ \E k \in Kinds : \E l, r \in 1 .. a - 1 : l # r /\ A[a] = Flat!Binary(k, l, r)
  /\ \A p, q, c : Parent(A, p, c) /\ Parent(A, q, c) => p = q
LooseIn(A, loosen) ==
  /\ loosen \subseteq DOMAIN A /\ (A # << >> => Len(A) \in loosen)
  /\ \A c \in DOMAIN A : c \notin loosen => \E p : Parent(A, p, c)
  /\ \A c \in loosen, p \in DOMAIN A : ~ Parent(A, p, c)
Rooted(A) == Len(A) >= 1 /\ \A c \in 1 .. Len(A) - 1 : \E p : Parent(A, p, c)

(* The calls are a path down the tree.                                      *)
FrameRec(A) == [node : DOMAIN A, left : Nat \cup {-1}, right : Nat \cup {-1}]
IsPath(A, F) ==
  /\ F \in Seq(FrameRec(A))
  /\ F # << >> => F[1].node = Len(A)
  /\ \A k \in DOMAIN F :
       k < Len(F) => /\ Flat!IsBinary(A[F[k].node]) /\ F[k].right = -1
                     /\ F[k + 1].node = IF F[k].left = -1 THEN A[F[k].node].left ELSE A[F[k].node].right
  /\ \A j, k \in DOMAIN F : j < k => F[k].node < F[j].node
  /\ \A k \in DOMAIN F :
       /\ F[k].right # -1 => F[k].left # -1 /\ F[k].left < F[k].right
       /\ ~ Flat!IsBinary(A[F[k].node]) => F[k].left = -1 /\ F[k].right = -1

(* The array C is a copy of the part D of the tree; the roots of that part  *)
(* are the children that were handed up to a caller.                        *)
CopyOf(A, C, D, m) ==
  /\ D \subseteq DOMAIN A /\ m \in Flat!Bijection(D, 0 .. Len(C) - 1)
  /\ \A a \in D :
       /\ ~ Flat!IsBinary(A[a]) => C[m[a] + 1] = A[a]
       /\ Flat!IsBinary(A[a]) => /\ A[a].left \in D /\ A[a].right \in D
                                 /\ m[A[a].left] < m[A[a].right] /\ m[A[a].right] < m[a]
                                 /\ C[m[a] + 1] = Flat!Binary(A[a].kind, m[A[a].left], m[A[a].right])
Handing(A, f, D, m) ==
  /\ f.node \notin D
  /\ Flat!IsBinary(A[f.node]) =>
       /\ f.left # -1 => A[f.node].left \in D /\ m[A[f.node].left] = f.left
       /\ f.right # -1 => A[f.node].right \in D /\ m[A[f.node].right] = f.right
HandedUp(A, f, a) ==
  (a = A[f.node].left /\ f.left # -1) \/ (a = A[f.node].right /\ f.right # -1)
Known(A, F, D) ==
  \A a \in D : \/ a = Len(A) \/ \E p \in D : Parent(A, p, a)
               \/ \E k \in DOMAIN F : Parent(A, F[k].node, a) /\ HandedUp(A, F[k], a)

(* g gives the nodes in S of the array or tree B their values.              *)
IsValue(S, B, g) == g = [a \in S |-> Flat!Value(B[a], g[B[a].left], g[B[a].right])]
Meaning(A) == CHOOSE g : IsValue(DOMAIN A, A, g)
FromZero(C) == [i \in 0 .. Len(C) - 1 |-> C[i + 1]]

FlatInv ==
  /\ Flat!FlatAssumption
  /\ flatPc \in {"build", "lower", "lowered", "freed", "done"}
  /\ nodes \in Seq(NodeRec) /\ capacity \in Nat /\ Len(nodes) <= capacity /\ IsTree(ast)
  /\ flatPc = "build" => LooseIn(ast, loose) /\ nodes = << >>
  /\ flatPc \in {"lower", "lowered", "freed"} =>
       /\ Rooted(ast) /\ IsPath(ast, stack)
       /\ flatPc = "lower" <=> stack # << >>
       /\ \E D, m : /\ CopyOf(ast, nodes, D, m) /\ Known(ast, stack, D)
                    /\ \A k \in DOMAIN stack : Handing(ast, stack[k], D, m)
                    /\ flatPc # "lower" => D = DOMAIN ast /\ root = m[Len(ast)]
  /\ flatPc = "done" => result = Meaning(ast)[Len(ast)]

LEMMA FlatHolds ==
  ASSUME FlatInv
  PROVE  Flat!FlatLowered
<1>1. Len(nodes) <= capacity /\ Len(nodes) \in Nat
  BY DEF FlatInv
<1>2. ASSUME flatPc \in {"lower", "lowered", "freed"}
      PROVE  \E D \in SUBSET DOMAIN ast : \E m \in Flat!Bijection(D, DOMAIN Flat!FlatNode) :
               /\ Flat!Flattened(D, m)
               /\ \A k \in DOMAIN stack : Flat!Received(stack[k], D, m)
               /\ flatPc # "lower" => D = DOMAIN ast /\ root = m[Len(ast)]
  <2>1. PICK D, m : /\ CopyOf(ast, nodes, D, m)
                    /\ \A k \in DOMAIN stack : Handing(ast, stack[k], D, m)
                    /\ flatPc # "lower" => D = DOMAIN ast /\ root = m[Len(ast)]
    BY <1>2 DEF FlatInv
  <2>2. DOMAIN Flat!FlatNode = 0 .. Len(nodes) - 1 /\ m \in [D -> 0 .. Len(nodes) - 1]
    BY <2>1 DEF Flat!FlatNode, CopyOf, Flat!Bijection, Flat!Injection
  <2>3. \A a \in D : Flat!FlatNode[m[a]] = nodes[m[a] + 1]
    BY <2>2 DEF Flat!FlatNode
  <2>4. Flat!Flattened(D, m)
    BY <2>1, <2>3 DEF CopyOf, Flat!Flattened
  <2>5. \A k \in DOMAIN stack : Flat!Received(stack[k], D, m)
    BY <2>1 DEF Handing, Flat!Received, Flat!None
  <2> QED
    BY <2>1, <2>2, <2>4, <2>5 DEF CopyOf
<1>3. Flat!Copied
  BY <1>1, <1>2 DEF Flat!Copied
<1>4. Flat!Meant = Meaning(ast)
  BY DEF Flat!Meant, Meaning, IsValue
<1> QED
  BY <1>3, <1>4 DEF Flat!FlatLowered, FlatInv

LEMMA TreeFacts ==
  ASSUME NEW A, IsTree(A), NEW a \in DOMAIN A
  PROVE  /\ Len(A) \in Nat /\ DOMAIN A = 1 .. Len(A) /\ a \in 1 .. Len(A) /\ A[a] \in NodeRec
         /\ Flat!IsBinary(A[a]) => /\ A[a].left \in 1 .. a - 1 /\ A[a].right \in 1 .. a - 1
                                   /\ A[a].left # A[a].right
                                   /\ A[a] = Flat!Binary(A[a].kind, A[a].left, A[a].right)
                                   /\ A[a].kind \in Kinds
         /\ ~ Flat!IsBinary(A[a]) => A[a].left = -1 /\ A[a].right = -1
<1>1. Len(A) \in Nat /\ DOMAIN A = 1 .. Len(A) /\ A[a] \in NodeRec
  BY DEF IsTree
<1>2. CASE A[a] \in Flat!Leaves
  BY <1>1, <1>2 DEF Flat!Leaves, Flat!Leaf, Flat!IsBinary, Flat!None
<1>3. CASE \E k \in Kinds : \E l, r \in 1 .. a - 1 : l # r /\ A[a] = Flat!Binary(k, l, r)
  BY <1>1, <1>3 DEF Flat!Binary, Flat!IsBinary, Kinds
<1> QED
  BY <1>1, <1>2, <1>3 DEF IsTree

LEMMA FlatBegins ==
  ASSUME Flat!FlatAssumption, Flat!Init
  PROVE  FlatInv
<1>1. /\ ast = << >> /\ nodes = << >> /\ loose = {} /\ capacity = 0 /\ flatPc = "build"
      /\ << >> \in Seq(NodeRec) /\ DOMAIN ast = {}
  BY DEF Flat!Init
<1> QED
  BY <1>1 DEF FlatInv, IsTree, LooseIn, Parent

(* A node more: a leaf, or the parent of two loose nodes.                   *)
LEMMA Builds ==
  ASSUME FlatInv, Flat!Build
  PROVE  FlatInv'
<1>1. /\ flatPc = "build" /\ IsTree(ast) /\ LooseIn(ast, loose)
      /\ UNCHANGED <<flatPc, stack, nodes, capacity, root, result>>
  BY DEF Flat!Build, FlatInv
<1>2. PICK n \in Flat!Leaves \cup {Flat!Binary(k, l, r) : k \in Kinds, l \in loose, r \in loose} :
        /\ Flat!IsBinary(n) => n.left # n.right
        /\ ast' = Append(ast, n)
        /\ loose' = (loose \ {n.left, n.right}) \cup {Len(ast')}
  BY DEF Flat!Build, Kinds
<1>3. PICK A : A = ast'
  OBVIOUS
<1>4. PICK c \in Nat : c = Len(ast) /\ DOMAIN ast = 1 .. c
  BY <1>1 DEF IsTree
<1>5. loose \subseteq 1 .. c
  BY <1>1, <1>4 DEF LooseIn
<1>6. /\ n \in NodeRec
      /\ \/ n \in Flat!Leaves /\ n.left = -1 /\ n.right = -1 /\ ~ Flat!IsBinary(n)
         \/ \E k \in Kinds : \E l, r \in loose : l # r /\ n = Flat!Binary(k, l, r) /\ Flat!IsBinary(n)
  <2>1. CASE n \in Flat!Leaves
    BY <2>1 DEF Flat!Leaves, Flat!Leaf, Flat!None, NodeRec, Flat!IsBinary
  <2>2. CASE \E k \in Kinds : \E l, r \in loose : n = Flat!Binary(k, l, r)
    BY <1>2, <1>5, <2>2 DEF Flat!Binary, NodeRec, Flat!IsBinary, Kinds
  <2> QED
    BY <2>1, <2>2
<1>7. /\ A \in Seq(NodeRec) /\ Len(A) = c + 1 /\ DOMAIN A = 1 .. c + 1 /\ A[c + 1] = n
      /\ \A a \in 1 .. c : A[a] = ast[a]
  BY <1>1, <1>2, <1>3, <1>4, <1>6 DEF IsTree
<1>8. ASSUME NEW a \in DOMAIN A
      PROVE  \/ A[a] \in Flat!Leaves
             \/ \E k \in Kinds : \E l, r \in 1 .. a - 1 : l # r /\ A[a] = Flat!Binary(k, l, r)
  <2>1. CASE a \in 1 .. c
    BY <1>1, <1>4, <1>7, <2>1 DEF IsTree
  <2>2. CASE a = c + 1
    <3>1. loose \subseteq 1 .. a - 1
      BY <1>5, <2>2
    <3> QED
      BY <1>6, <1>7, <2>2, <3>1
  <2> QED
    BY <1>7, <2>1, <2>2
<1>9. ASSUME NEW p, NEW d
      PROVE  /\ p # c + 1 => (Parent(A, p, d) <=> Parent(ast, p, d))
             /\ Parent(A, c + 1, d) <=> Flat!IsBinary(n) /\ d \in {n.left, n.right}
  BY <1>4, <1>7 DEF Parent
<1>10. Flat!IsBinary(n) => n.left \in loose /\ n.right \in loose
  BY <1>6 DEF Flat!Binary
<1>11. \A d \in loose : \A p : ~ Parent(ast, p, d)
  BY <1>1 DEF LooseIn, Parent
<1>12. \A p, q, d : Parent(A, p, d) /\ Parent(A, q, d) => p = q
  <2>1. SUFFICES ASSUME NEW p, NEW q, NEW d, Parent(A, p, d), Parent(A, q, d) PROVE p = q
    OBVIOUS
  <2>2. CASE p # c + 1 /\ q # c + 1
    BY <1>1, <1>9, <2>1, <2>2 DEF IsTree
  <2>3. CASE p = c + 1 /\ q # c + 1
    BY <1>9, <1>10, <1>11, <2>1, <2>3
  <2>4. CASE q = c + 1 /\ p # c + 1
    BY <1>9, <1>10, <1>11, <2>1, <2>4
  <2> QED
    BY <2>2, <2>3, <2>4
<1>13. IsTree(A)
  BY <1>7, <1>8, <1>12 DEF IsTree
<1>14. PICK loosen : loosen = loose' /\ loosen = (loose \ {n.left, n.right}) \cup {c + 1}
  <2>1. Len(ast') = c + 1
    BY <1>3, <1>7
  <2>2. loose' = (loose \ {n.left, n.right}) \cup {c + 1}
    BY <1>2, <2>1
  <2> QED
    BY <2>2
<1>15. LooseIn(A, loosen)
  <2>1. loosen \subseteq DOMAIN A /\ Len(A) \in loosen
    <3>1. c + 1 \in loosen /\ c + 1 \in 1 .. c + 1 /\ 1 .. c \subseteq 1 .. c + 1
      BY <1>14
    <3>2. ASSUME NEW x \in loosen PROVE x \in 1 .. c + 1
      <4>1. x \in 1 .. c \/ x = c + 1
        BY <1>5, <1>14
      <4> QED
        BY <4>1
    <3> QED
      BY <1>7, <3>1, <3>2
  <2>2. ASSUME NEW d \in DOMAIN A, d \notin loosen PROVE \E p : Parent(A, p, d)
    <3>1. d \in 1 .. c
      BY <1>7, <1>14, <2>2
    <3>2. CASE d \in loose
      <4>1. d \in {n.left, n.right} /\ d # -1
        BY <1>14, <2>2, <3>1, <3>2
      <4>2. Flat!IsBinary(n)
        BY <1>6, <4>1
      <4> QED
        BY <1>9, <4>1, <4>2
    <3>3. CASE d \notin loose
      <4>1. PICK p : Parent(ast, p, d)
        BY <1>1, <1>4, <3>1, <3>3 DEF LooseIn
      <4>2. p # c + 1
        BY <1>4, <4>1 DEF Parent
      <4> QED
        BY <1>9, <4>1, <4>2
    <3> QED
      BY <3>2, <3>3
  <2>3. ASSUME NEW d \in loosen, NEW p \in DOMAIN A, Parent(A, p, d) PROVE FALSE
    <3>1. CASE p = c + 1
      <4>1. Flat!IsBinary(n) /\ d \in {n.left, n.right}
        BY <1>9, <2>3, <3>1
      <4> QED
        BY <1>5, <1>10, <1>14, <2>3, <4>1
    <3>2. CASE p # c + 1
      <4>1. Parent(ast, p, d)
        BY <1>9, <2>3, <3>2
      <4>2. d = c + 1
        BY <1>11, <1>14, <2>3, <4>1
      <4>3. p \in 1 .. c /\ d \in 1 .. p - 1
        BY <1>1, <1>4, <4>1, TreeFacts DEF Parent
      <4> QED
        BY <4>2, <4>3
    <3> QED
      BY <3>1, <3>2
  <2> QED
    BY <2>1, <2>2, <2>3 DEF LooseIn
<1> QED
  BY <1>1, <1>3, <1>13, <1>14, <1>15 DEF FlatInv, Flat!FlatAssumption

LEMMA LowerBegins ==
  ASSUME FlatInv, Flat!Lower
  PROVE  FlatInv'
<1>1. /\ flatPc = "build" /\ IsTree(ast) /\ LooseIn(ast, loose) /\ nodes = << >> /\ flatPc' = "lower"
      /\ UNCHANGED <<ast, loose, nodes, capacity, root, result>>
  BY DEF Flat!Lower, FlatInv
<1>2. PICK a \in loose : loose = {a} /\ stack' = <<Flat!Frame(a)>>
  BY DEF Flat!Lower
<1>3. /\ a \in DOMAIN ast /\ DOMAIN ast = 1 .. Len(ast) /\ Len(ast) \in Nat
      /\ a = Len(ast)
  BY <1>1, <1>2 DEF LooseIn, IsTree
<1>4. Rooted(ast)
  BY <1>1, <1>2, <1>3 DEF Rooted, LooseIn
<1>5. PICK f : f = Flat!Frame(a)
  OBVIOUS
<1>6. f.node = a /\ f.left = -1 /\ f.right = -1 /\ f \in FrameRec(ast)
  BY <1>3, <1>5 DEF Flat!Frame, Flat!None, FrameRec
<1>7. PICK F : F = <<f>>
  OBVIOUS
<1>8. F \in Seq(FrameRec(ast)) /\ Len(F) = 1 /\ DOMAIN F = {1} /\ F[1] = f
  BY <1>6, <1>7
<1>9. IsPath(ast, F) /\ F # << >>
  <2>1. F # << >> /\ F[1].node = Len(ast)
    <3>1. DOMAIN << >> = {}
      OBVIOUS
    <3> QED
      BY <1>3, <1>6, <1>8, <3>1, Zenon
  <2>2. \A k \in DOMAIN F : k = 1 /\ ~ k < Len(F) /\ F[k].left = -1 /\ F[k].right = -1
    BY <1>6, <1>8
  <2>3. \A j, k \in DOMAIN F : ~ j < k
    BY <1>8
  <2> QED
    BY <1>8, <2>1, <2>2, <2>3 DEF IsPath
<1>10. \E D, m : /\ CopyOf(ast, << >>, D, m) /\ Known(ast, F, D)
                 /\ \A k \in DOMAIN F : Handing(ast, F[k], D, m)
  <2>1. PICK m : m = [x \in {} |-> 0]
    OBVIOUS
  <2>2. m \in Flat!Bijection({}, 0 .. Len(<< >>) - 1)
    <3>1. 0 .. Len(<< >>) - 1 = {}
      <4>1. Len(<< >>) = 0
        OBVIOUS
      <4> QED
        BY <4>1
    <3>2. m \in [{} -> {}]
      BY <2>1
    <3>3. m \in Flat!Bijection({}, {})
      BY <3>2 DEF Flat!Bijection, Flat!Injection, Flat!Surjection, Flat!IsInjective
    <3> QED
      BY <3>1, <3>3
  <2>3. CopyOf(ast, << >>, {}, m) /\ Known(ast, F, {})
    BY <2>2 DEF CopyOf, Known
  <2>4. \A k \in DOMAIN F : Handing(ast, F[k], {}, m)
    BY <1>6, <1>8 DEF Handing
  <2> QED
    BY <2>3, <2>4
<1> QED
  BY <1>1, <1>2, <1>4, <1>5, <1>7, <1>9, <1>10 DEF FlatInv, Flat!FlatAssumption

(* A call more: its node is not in the copy.                                *)
LEMMA Descends ==
  ASSUME FlatInv, Flat!Descend
  PROVE  FlatInv'
<1>1. /\ flatPc = "lower" /\ IsTree(ast) /\ Rooted(ast) /\ IsPath(ast, stack) /\ stack # << >>
      /\ UNCHANGED <<flatPc, ast, loose, nodes, capacity, root, result>>
  BY DEF Flat!Descend, FlatInv
<1>2. PICK A, F, C : A = ast /\ F = stack /\ C = nodes
  OBVIOUS
<1>3. PICK D, m : CopyOf(A, C, D, m) /\ Known(A, F, D) /\ \A k \in DOMAIN F : Handing(A, F[k], D, m)
  BY <1>1, <1>2 DEF FlatInv
<1>4. /\ IsTree(A) /\ Rooted(A) /\ IsPath(A, F) /\ F # << >> /\ F \in Seq(FrameRec(A))
  BY <1>1, <1>2 DEF IsPath
<1>5. PICK l \in Nat \ {0} : l = Len(F) /\ DOMAIN F = 1 .. l
  BY <1>4
<1>6. PICK f, n : f = F[l] /\ n = f.node
  OBVIOUS
<1>7. f \in FrameRec(A) /\ n \in DOMAIN A /\ l \in DOMAIN F
  <2>1. l \in DOMAIN F /\ f \in FrameRec(A)
    BY <1>4, <1>5, <1>6
  <2> QED
    BY <1>6, <2>1 DEF FrameRec
<1>8. PICK d : d = IF f.left = -1 THEN A[n].left ELSE A[n].right
  OBVIOUS
<1>9. Flat!IsBinary(A[n]) /\ f.right = -1 /\ stack' = Append(F, Flat!Frame(d))
  BY <1>2, <1>5, <1>6, <1>8 DEF Flat!Descend, Flat!Node, Flat!Top, Flat!None
<1>10. PICK c \in Nat : c = Len(A) /\ DOMAIN A = 1 .. c
  BY <1>4 DEF IsTree
<1>11. /\ n \in 1 .. c /\ d \in 1 .. n - 1 /\ d \in 1 .. c /\ A[n].left # A[n].right /\ d \in {A[n].left, A[n].right}
  <2>1. A[n].left \in 1 .. n - 1 /\ A[n].right \in 1 .. n - 1 /\ A[n].left # A[n].right
    BY <1>4, <1>7, <1>9, TreeFacts
  <2> QED
    BY <1>7, <1>8, <1>10, <2>1
<1>12. PICK e : e = Flat!Frame(d)
  OBVIOUS
<1>13. e.node = d /\ e.left = -1 /\ e.right = -1 /\ e \in FrameRec(A)
  BY <1>10, <1>11, <1>12 DEF Flat!Frame, Flat!None, FrameRec
<1>14. PICK G : G = stack'
  OBVIOUS
<1>15. /\ G \in Seq(FrameRec(A)) /\ Len(G) = l + 1 /\ DOMAIN G = 1 .. l + 1 /\ G[l + 1] = e
       /\ \A k \in 1 .. l : G[k] = F[k]
  BY <1>4, <1>5, <1>9, <1>12, <1>13, <1>14
<1>16. /\ \A j \in 1 .. l : \A k \in 1 .. l : j < k => F[k].node < F[j].node
       /\ \A k \in 1 .. l : F[k].node \in 1 .. c
  <2>1. \A j \in 1 .. l : \A k \in 1 .. l : j < k => F[k].node < F[j].node
    BY <1>4, <1>5 DEF IsPath
  <2>2. \A k \in 1 .. l : F[k] \in FrameRec(A)
    BY <1>4, <1>5
  <2> QED
    BY <1>10, <2>1, <2>2 DEF FrameRec
<1>17. IsPath(A, G) /\ G # << >>
  <2>1. G # << >> /\ G[1].node = Len(A)
    <3>1. DOMAIN << >> = {}
      OBVIOUS
    <3>2. 1 \in DOMAIN G /\ 1 \in 1 .. l
      BY <1>15
    <3>3. G[1] = F[1] /\ F[1].node = Len(A)
      BY <1>4, <1>15, <3>2 DEF IsPath
    <3> QED
      BY <3>1, <3>2, <3>3
  <2>2. ASSUME NEW k \in DOMAIN G, k < Len(G)
        PROVE  /\ Flat!IsBinary(A[G[k].node]) /\ G[k].right = -1
               /\ G[k + 1].node = IF G[k].left = -1 THEN A[G[k].node].left ELSE A[G[k].node].right
    <3>1. CASE k < l
      <4>1. k \in 1 .. l /\ k + 1 \in 1 .. l
        BY <1>15, <3>1
      <4>2. G[k] = F[k] /\ G[k + 1] = F[k + 1]
        BY <1>15, <4>1
      <4> QED
        BY <1>4, <1>5, <3>1, <4>1, <4>2 DEF IsPath
    <3>2. CASE k = l
      BY <1>6, <1>8, <1>9, <1>13, <1>15, <3>2
    <3> QED
      BY <1>15, <2>2, <3>1, <3>2
  <2>3. ASSUME NEW j \in DOMAIN G, NEW k \in DOMAIN G, j < k PROVE G[k].node < G[j].node
    <3>1. CASE k <= l
      BY <1>15, <1>16, <2>3, <3>1
    <3>2. CASE k = l + 1
      <4>1. j \in 1 .. l /\ (j = l \/ n < F[j].node) /\ G[j] = F[j]
        BY <1>6, <1>15, <1>16, <2>3, <3>2
      <4>2. d < n /\ G[k].node = d
        BY <1>11, <1>13, <1>15, <3>2
      <4> QED
        BY <1>6, <1>11, <1>16, <4>1, <4>2
    <3> QED
      BY <1>15, <3>1, <3>2
  <2>4. ASSUME NEW k \in DOMAIN G
        PROVE  /\ G[k].right # -1 => G[k].left # -1 /\ G[k].left < G[k].right
               /\ ~ Flat!IsBinary(A[G[k].node]) => G[k].left = -1 /\ G[k].right = -1
    <3>1. CASE k \in 1 .. l
      <4>1. G[k] = F[k] /\ k \in DOMAIN F
        BY <1>5, <1>15, <3>1
      <4> QED
        BY <1>4, <4>1 DEF IsPath
    <3>2. CASE k = l + 1
      BY <1>13, <1>15, <3>2
    <3> QED
      BY <1>15, <3>1, <3>2
  <2> QED
    BY <1>15, <2>1, <2>2, <2>3, <2>4 DEF IsPath
<1>18. d \notin D
  <2>1. SUFFICES ASSUME d \in D PROVE FALSE
    OBVIOUS
  <2>2. Parent(A, n, d)
    BY <1>7, <1>9, <1>11 DEF Parent
  <2>3. \A p : Parent(A, p, d) => p = n
    BY <1>4, <2>2 DEF IsTree
  <2>4. n \notin D
    BY <1>3, <1>6, <1>7 DEF Handing
  <2>5. d # Len(A)
    BY <1>10, <1>11
  <2>6. PICK k \in DOMAIN F : Parent(A, F[k].node, d) /\ HandedUp(A, F[k], d)
    BY <1>3, <2>1, <2>3, <2>4, <2>5 DEF Known
  <2>7. F[k].node = n /\ k \in 1 .. l
    BY <1>5, <2>3, <2>6
  <2>8. k = l
    <3>1. k < l => n < F[k].node
      BY <1>5, <1>6, <1>7, <1>16, <2>7
    <3> QED
      BY <1>11, <2>7, <3>1
  <2>9. HandedUp(A, f, d)
    BY <1>6, <2>6, <2>8
  <2> QED
    BY <1>6, <1>8, <1>9, <1>11, <2>9 DEF HandedUp
<1>19. Known(A, G, D)
  <2>1. ASSUME NEW k \in DOMAIN F PROVE k \in DOMAIN G /\ G[k] = F[k]
    BY <1>5, <1>15
  <2> QED
    BY <1>3, <2>1 DEF Known
<1>20. ASSUME NEW k \in DOMAIN G PROVE Handing(A, G[k], D, m)
  <2>1. CASE k \in 1 .. l
    BY <1>3, <1>5, <1>15, <2>1
  <2>2. CASE k = l + 1
    BY <1>13, <1>15, <1>18, <2>2 DEF Handing
  <2> QED
    BY <1>15, <2>1, <2>2
<1>21. ast' = A /\ nodes' = C /\ stack' = G /\ flatPc' = "lower"
  BY <1>1, <1>2, <1>14
<1> QED
  BY <1>1, <1>2, <1>3, <1>4, <1>17, <1>19, <1>20, <1>21 DEF FlatInv, Flat!FlatAssumption

Reindexed(a, f) == [a EXCEPT !.left = f.left, !.right = f.right]
Numbered(D, m, n, i) == [x \in D \cup {n} |-> IF x = n THEN i ELSE m[x]]

LEMMA ReindexedBinary ==
  ASSUME NEW k, NEW i, NEW j, NEW f
  PROVE  Reindexed(Flat!Binary(k, i, j), f) = Flat!Binary(k, f.left, f.right)
<1>1. PICK r : r = Flat!Binary(k, i, j)
  OBVIOUS
<1>2. PICK s : s = [r EXCEPT !.left = f.left, !.right = f.right]
  OBVIOUS
<1>3. PICK t : t = Flat!Binary(k, f.left, f.right)
  OBVIOUS
<1>4. /\ DOMAIN s = DOMAIN r /\ s = [u \in DOMAIN r |-> s[u]]
      /\ s.kind = k /\ s.value = 0 /\ s.left = f.left /\ s.right = f.right
  BY <1>1, <1>2 DEF Flat!Binary
<1>5. /\ DOMAIN t = DOMAIN r /\ t = [u \in DOMAIN r |-> t[u]] /\ DOMAIN r = {"kind", "value", "left", "right"}
      /\ t.kind = k /\ t.value = 0 /\ t.left = f.left /\ t.right = f.right
  BY <1>1, <1>3 DEF Flat!Binary
<1>6. \A u \in DOMAIN r : s[u] = t[u]
  BY <1>4, <1>5
<1> QED
  BY <1>1, <1>2, <1>3, <1>4, <1>5, <1>6 DEF Reindexed

(* The node after its children, at the end of the array.                    *)
LEMMA CopyGrows ==
  ASSUME NEW A, IsTree(A), NEW C, C \in Seq(NodeRec), NEW D, NEW m, CopyOf(A, C, D, m),
         NEW f, f.node \in DOMAIN A, Handing(A, f, D, m),
         Flat!IsBinary(A[f.node]) => f.right # -1 /\ f.left # -1 /\ f.left < f.right,
         ~ Flat!IsBinary(A[f.node]) => f.left = -1 /\ f.right = -1
  PROVE  CopyOf(A, Append(C, Reindexed(A[f.node], f)), D \cup {f.node}, Numbered(D, m, f.node, Len(C)))
<1>1. PICK n, c, e : n = f.node /\ c = Len(C) /\ e = Numbered(D, m, n, c)
  OBVIOUS
<1>2. PICK E : E = D \cup {n}
  OBVIOUS
<1>3. PICK r : r = Reindexed(A[n], f)
  OBVIOUS
<1>4. PICK G : G = Append(C, r)
  OBVIOUS
<1>5. c \in Nat /\ DOMAIN C = 1 .. c /\ Len(G) = c + 1 /\ G[c + 1] = r /\ \A k \in 1 .. c : G[k] = C[k]
  BY <1>1, <1>4
<1>6. /\ m \in [D -> 0 .. c - 1] /\ \A x, y \in D : m[x] = m[y] => x = y
      /\ \A t \in 0 .. c - 1 : \E x \in D : m[x] = t
  <2>1. m \in Flat!Bijection(D, 0 .. c - 1)
    BY <1>1 DEF CopyOf
  <2> QED
    BY <2>1 DEF Flat!Bijection, Flat!Injection, Flat!Surjection, Flat!IsInjective
<1>7. n \notin D
  BY <1>1 DEF Handing
<1>8. /\ e \in [E -> 0 .. c] /\ e[n] = c /\ \A x \in D : e[x] = m[x] /\ e[x] \in 0 .. c - 1
  BY <1>1, <1>2, <1>5, <1>6, <1>7 DEF Numbered
<1>9. e \in Flat!Bijection(E, 0 .. c)
  <2>1. \A x, y \in E : e[x] = e[y] => x = y
    <3>1. \A x \in D : e[x] # c
      BY <1>5, <1>8
    <3> QED
      BY <1>2, <1>6, <1>8, <3>1
  <2>2. \A t \in 0 .. c : \E x \in E : e[x] = t
    <3>1. SUFFICES ASSUME NEW t \in 0 .. c PROVE \E x \in E : e[x] = t
      OBVIOUS
    <3>2. t = c \/ t \in 0 .. c - 1
      BY <1>5
    <3> QED
      BY <1>2, <1>6, <1>8, <3>2
  <2>3. e \in [E -> 0 .. c] /\ DOMAIN e = E
    BY <1>8
  <2>4. e \in Flat!Injection(E, 0 .. c)
    BY <2>1, <2>3, Zenon DEF Flat!Injection, Flat!IsInjective
  <2>5. e \in Flat!Surjection(E, 0 .. c)
    BY <2>2, <2>3, Zenon DEF Flat!Surjection
  <2> QED
    BY <2>4, <2>5, Zenon DEF Flat!Bijection
<1>10. ASSUME NEW a \in D PROVE G[e[a] + 1] = C[m[a] + 1]
  <2>1. e[a] = m[a] /\ m[a] \in 0 .. c - 1
    BY <1>8
  <2>2. m[a] + 1 \in 1 .. c
    BY <1>5, <2>1
  <2> QED
    BY <1>5, <2>1, <2>2
<1>11. ASSUME NEW a \in D
       PROVE  /\ ~ Flat!IsBinary(A[a]) => G[e[a] + 1] = A[a]
              /\ Flat!IsBinary(A[a]) => /\ A[a].left \in E /\ A[a].right \in E
                                        /\ e[A[a].left] < e[A[a].right] /\ e[A[a].right] < e[a]
                                        /\ G[e[a] + 1] = Flat!Binary(A[a].kind, e[A[a].left], e[A[a].right])
  <2>1. CASE ~ Flat!IsBinary(A[a])
    BY <1>10, <2>1 DEF CopyOf
  <2>2. CASE Flat!IsBinary(A[a])
    <3>1. /\ A[a].left \in D /\ A[a].right \in D
          /\ m[A[a].left] < m[A[a].right] /\ m[A[a].right] < m[a]
          /\ C[m[a] + 1] = Flat!Binary(A[a].kind, m[A[a].left], m[A[a].right])
      BY <2>2 DEF CopyOf
    <3>2. e[A[a].left] = m[A[a].left] /\ e[A[a].right] = m[A[a].right] /\ e[a] = m[a]
      BY <1>8, <3>1
    <3> QED
      BY <1>2, <1>10, <2>2, <3>1, <3>2
  <2> QED
    BY <2>1, <2>2
<1>12. /\ ~ Flat!IsBinary(A[n]) => G[e[n] + 1] = A[n]
       /\ Flat!IsBinary(A[n]) => /\ A[n].left \in E /\ A[n].right \in E
                                 /\ e[A[n].left] < e[A[n].right] /\ e[A[n].right] < e[n]
                                 /\ G[e[n] + 1] = Flat!Binary(A[n].kind, e[A[n].left], e[A[n].right])
  <2>1. G[e[n] + 1] = r /\ A[n] \in NodeRec
    BY <1>1, <1>5, <1>8, TreeFacts
  <2>2. CASE ~ Flat!IsBinary(A[n])
    <3>1. A[n].left = -1 /\ A[n].right = -1 /\ f.left = -1 /\ f.right = -1
      BY <1>1, <2>2, TreeFacts
    <3>2. r = A[n]
      BY <1>3, <2>1, <3>1 DEF NodeRec, Reindexed
    <3> QED
      BY <2>1, <2>2, <3>2
  <2>3. CASE Flat!IsBinary(A[n])
    <3>1. A[n].left \in D /\ A[n].right \in D /\ m[A[n].left] = f.left /\ m[A[n].right] = f.right /\ f.left < f.right
      BY <1>1, <2>3 DEF Handing
    <3>2. e[A[n].left] = f.left /\ e[A[n].right] = f.right /\ f.right \in 0 .. c - 1
      BY <1>8, <3>1
    <3>3. A[n] = Flat!Binary(A[n].kind, A[n].left, A[n].right)
      BY <1>1, <2>3, TreeFacts
    <3>4. r = Flat!Binary(A[n].kind, f.left, f.right)
      BY <1>3, <3>3, ReindexedBinary
    <3> QED
      BY <1>2, <1>5, <1>8, <2>1, <2>3, <3>1, <3>2, <3>4
  <2> QED
    BY <2>2, <2>3
<1>13. E \subseteq DOMAIN A /\ Len(G) - 1 = c
  BY <1>1, <1>2, <1>5 DEF CopyOf
<1>14. CopyOf(A, G, E, e)
  <2>1. e \in Flat!Bijection(E, 0 .. Len(G) - 1)
    BY <1>9, <1>13
  <2>2. \A a \in E : a \in D \/ a = n
    BY <1>2
  <2> QED
    BY <1>11, <1>12, <1>13, <2>1, <2>2 DEF CopyOf
<1> QED
  BY <1>1, <1>2, <1>3, <1>4, <1>14

(* A part of the tree with its root and its nodes' children is the tree.    *)
LEMMA Whole ==
  ASSUME NEW A, IsTree(A), Rooted(A), NEW E, E \subseteq DOMAIN A, Len(A) \in E,
         \A p \in E : Flat!IsBinary(A[p]) => A[p].left \in E /\ A[p].right \in E
  PROVE  E = DOMAIN A
<1>1. PICK c \in Nat : c = Len(A) /\ DOMAIN A = 1 .. c
  BY DEF IsTree
<1>2. SUFFICES ASSUME DOMAIN A \ E # {} PROVE FALSE
  OBVIOUS
<1> DEFINE Missing == {i \in Nat : i <= c /\ c - i \in DOMAIN A \ E}
<1>3. Missing # {} /\ Missing \subseteq Nat
  <2>1. PICK a \in 1 .. c : a \notin E
    BY <1>1, <1>2
  <2>2. c - a \in Nat /\ c - a <= c /\ c - (c - a) = a
    BY <1>1, <2>1
  <2> QED
    BY <1>1, <2>1, <2>2
<1>4. PICK i \in Missing : \A j \in Missing : ~ <<j, i>> \in OpToRel(<, Nat)
  <2>1. IsWellFoundedOn(OpToRel(<, Nat), Nat)
    BY NatLessThanWellFounded
  <2> HIDE DEF OpToRel, Missing
  <2> QED
    BY <1>3, <2>1, WFMin
<1>5. PICK a : a = c - i
  OBVIOUS
<1>6. a \in 1 .. c /\ a \notin E /\ a # c
  BY <1>1, <1>4, <1>5
<1>7. PICK p : Parent(A, p, a)
  <2>1. a \in 1 .. Len(A) - 1
    BY <1>1, <1>6
  <2> QED
    BY <2>1 DEF Rooted
<1>8. p \in 1 .. c /\ a < p /\ a \in {A[p].left, A[p].right} /\ Flat!IsBinary(A[p])
  <2>1. p \in DOMAIN A /\ Flat!IsBinary(A[p]) /\ a \in {A[p].left, A[p].right}
    BY <1>7 DEF Parent
  <2>2. A[p].left \in 1 .. p - 1 /\ A[p].right \in 1 .. p - 1
    BY <2>1, TreeFacts
  <2> QED
    BY <1>1, <2>1, <2>2
<1>9. p \notin E
  BY <1>6, <1>8
<1>10. c - p \in Missing /\ c - p < i
  <2>1. i \in Nat
    BY <1>4
  <2>2. c - p \in Nat /\ c - p <= c /\ c - (c - p) = p /\ c - p < i
    BY <1>1, <1>5, <1>6, <1>8, <2>1
  <2> QED
    BY <1>1, <1>8, <1>9, <2>2
<1>11. <<c - p, i>> \in OpToRel(<, Nat)
  BY <1>4, <1>10 DEF OpToRel
<1> QED
  BY <1>4, <1>10, <1>11

(* A call returns: its node is copied, and its index is its caller's.       *)
LEMMA Pushes ==
  ASSUME FlatInv, Flat!Push
  PROVE  FlatInv'
<1>1. /\ flatPc = "lower" /\ IsTree(ast) /\ Rooted(ast) /\ IsPath(ast, stack) /\ stack # << >>
      /\ nodes \in Seq(NodeRec) /\ capacity \in Nat /\ Len(nodes) <= capacity
      /\ UNCHANGED <<ast, loose, result>>
  BY DEF Flat!Push, FlatInv
<1>2. PICK A, F, C : A = ast /\ F = stack /\ C = nodes
  OBVIOUS
<1>3. PICK D, m : CopyOf(A, C, D, m) /\ Known(A, F, D) /\ \A k \in DOMAIN F : Handing(A, F[k], D, m)
  BY <1>1, <1>2 DEF FlatInv
<1>4. /\ IsTree(A) /\ Rooted(A) /\ IsPath(A, F) /\ F # << >> /\ F \in Seq(FrameRec(A)) /\ C \in Seq(NodeRec)
  BY <1>1, <1>2 DEF IsPath
<1>5. PICK l \in Nat \ {0} : l = Len(F) /\ DOMAIN F = 1 .. l
  BY <1>4
<1>6. PICK f, n : f = F[l] /\ n = f.node
  OBVIOUS
<1>7. f \in FrameRec(A) /\ n \in DOMAIN A /\ l \in DOMAIN F
  <2>1. l \in DOMAIN F /\ f \in FrameRec(A)
    BY <1>4, <1>5, <1>6
  <2> QED
    BY <1>6, <2>1 DEF FrameRec
<1>8. /\ Flat!IsBinary(A[n]) => f.right # -1 /\ f.left # -1 /\ f.left < f.right
      /\ ~ Flat!IsBinary(A[n]) => f.left = -1 /\ f.right = -1
  <2>1. Flat!IsBinary(A[n]) => f.right # -1
    BY <1>2, <1>5, <1>6 DEF Flat!Push, Flat!Node, Flat!Top, Flat!None
  <2> QED
    BY <1>4, <1>6, <1>7, <2>1 DEF IsPath
<1>9. PICK c \in Nat : c = Len(C)
  BY <1>4
<1>10. PICK r : r = Reindexed(A[n], f)
  OBVIOUS
<1>11. PICK G : G = Append(C, r)
  OBVIOUS
<1>12. PICK E : E = D \cup {n}
  OBVIOUS
<1>13. PICK e : e = Numbered(D, m, n, c)
  OBVIOUS
<1>14. CopyOf(A, G, E, e)
  <2>1. Handing(A, f, D, m) /\ f.node = n /\ f.node \in DOMAIN A
    BY <1>3, <1>6, <1>7
  <2>2. CopyOf(A, Append(C, Reindexed(A[f.node], f)), D \cup {f.node}, Numbered(D, m, f.node, Len(C)))
    BY <1>3, <1>4, <1>8, <2>1, CopyGrows
  <2> QED
    BY <1>9, <1>10, <1>11, <1>12, <1>13, <2>1, <2>2
<1>15. n \notin D /\ n \in E /\ e[n] = c /\ \A x \in D : x \in E /\ e[x] = m[x] /\ m[x] \in 0 .. c - 1
  <2>1. n \notin D
    BY <1>3, <1>6, <1>7 DEF Handing
  <2>2. m \in [D -> 0 .. c - 1]
    BY <1>3, <1>9 DEF CopyOf, Flat!Bijection, Flat!Injection
  <2> QED
    BY <1>12, <1>13, <2>1, <2>2 DEF Numbered
<1>16. nodes' = G /\ G \in Seq(NodeRec) /\ Len(G) = c + 1
  <2>1. r \in NodeRec
    <3>1. A[n] \in NodeRec
      BY <1>4, <1>7, TreeFacts
    <3>2. f.left \in Int /\ f.right \in Int
      BY <1>7 DEF FrameRec
    <3> QED
      BY <1>10, <3>1, <3>2 DEF NodeRec, Reindexed
  <2>2. nodes' = G
    BY <1>2, <1>5, <1>6, <1>10, <1>11 DEF Reindexed, Flat!Push, Flat!Node, Flat!Top
  <2> QED
    BY <1>4, <1>9, <1>11, <2>1, <2>2
<1>17. capacity' \in Nat /\ c + 1 <= capacity'
  <2>1. PICK d \in Nat : d = capacity /\ c <= d
    BY <1>1, <1>2, <1>9
  <2>2. capacity' = IF c < d THEN d ELSE IF d = 0 THEN FirstCapacity ELSE 2 * d
    BY <1>2, <1>9, <2>1 DEF Flat!Push, Flat!Grown
  <2>3. FirstCapacity \in Nat \ {0}
    BY DEF FlatInv, Flat!FlatAssumption
  <2> QED
    BY <2>1, <2>2, <2>3
<1>18. PICK R : R = SubSeq(F, 1, l - 1)
  OBVIOUS
<1>19. /\ R \in Seq(FrameRec(A)) /\ Len(R) = l - 1 /\ DOMAIN R = 1 .. l - 1
       /\ \A k \in 1 .. l - 1 : R[k] = F[k]
       /\ R = << >> <=> l = 1
  <2>1. R \in Seq(FrameRec(A)) /\ Len(R) = l - 1 /\ DOMAIN R = 1 .. l - 1 /\ \A k \in 1 .. l - 1 : R[k] = F[k]
    BY <1>4, <1>5, <1>18
  <2>2. R = << >> <=> Len(R) = 0
    BY <2>1
  <2> QED
    BY <1>5, <2>1, <2>2
<1>20. /\ R = << >> => stack' = << >> /\ root' = c /\ flatPc' = "lowered"
       /\ R # << >> => /\ stack' = [R EXCEPT ![l - 1] = Flat!Receive(@, c)]
                       /\ flatPc' = flatPc
  <2>1. Flat!Rest = R
    BY <1>2, <1>5, <1>18 DEF Flat!Rest
  <2>2. Len(Flat!Rest) = l - 1
    BY <1>19, <2>1
  <2> QED
    BY <1>2, <1>9, <2>1, <2>2 DEF Flat!Push
<1>21. ASSUME l = 1
       PROVE  FlatInv'
  <2>1. stack' = << >> /\ root' = c /\ flatPc' = "lowered"
    BY <1>19, <1>20, <1>21
  <2>2. n = Len(A)
    BY <1>4, <1>6, <1>21 DEF IsPath
  <2>3. E \subseteq DOMAIN A /\ \A p \in E : Flat!IsBinary(A[p]) => A[p].left \in E /\ A[p].right \in E
    BY <1>14 DEF CopyOf
  <2>4. E = DOMAIN A
    BY <1>4, <1>15, <2>2, <2>3, Whole
  <2>5. IsPath(A, << >>)
    <3>1. DOMAIN << >> = {} /\ << >> \in Seq(FrameRec(A))
      OBVIOUS
    <3> QED
      BY <3>1 DEF IsPath
  <2>6. Known(A, << >>, E)
    <3>1. SUFFICES ASSUME NEW a \in E, a # Len(A) PROVE \E p \in E : Parent(A, p, a)
      BY DEF Known
    <3>2. a \in 1 .. Len(A) - 1
      BY <1>4, <2>4, <3>1, TreeFacts
    <3>3. PICK p : Parent(A, p, a)
      BY <1>4, <3>2 DEF Rooted
    <3> QED
      BY <2>4, <3>3 DEF Parent
  <2>7. root' = e[Len(A)]
    BY <1>15, <2>1, <2>2
  <2>8. \A k \in DOMAIN << >> : Handing(A, << >>[k], E, e)
    OBVIOUS
  <2> QED
    BY <1>1, <1>2, <1>4, <1>14, <1>16, <1>17, <2>1, <2>4, <2>5, <2>6, <2>7, <2>8
       DEF FlatInv, Flat!FlatAssumption
<1>22. ASSUME l # 1
       PROVE  FlatInv'
  <2>1. PICK h \in Nat \ {0} : h = l - 1 /\ h + 1 = l /\ h < l /\ h \in 1 .. l
    BY <1>5, <1>22
  <2>2. PICK g, q : g = F[h] /\ q = Flat!Receive(g, c)
    OBVIOUS
  <2>3. PICK H : H = [R EXCEPT ![h] = q]
    OBVIOUS
  <2>4. stack' = H /\ flatPc' = "lower"
    BY <1>1, <1>19, <1>20, <1>22, <2>1, <2>2, <2>3
  <2>5. g \in FrameRec(A) /\ h \in DOMAIN F /\ g.node \in DOMAIN A /\ g.left \in Nat \cup {-1}
    <3>1. h \in DOMAIN F /\ g \in FrameRec(A)
      BY <1>4, <1>5, <2>1, <2>2
    <3> QED
      BY <3>1 DEF FrameRec
  <2>6. Flat!IsBinary(A[g.node]) /\ g.right = -1 /\ n = IF g.left = -1 THEN A[g.node].left ELSE A[g.node].right
    BY <1>4, <1>5, <1>6, <2>1, <2>2, <2>5 DEF IsPath
  <2>7. /\ q.node = g.node /\ q.right = IF g.left = -1 THEN -1 ELSE c
        /\ q.left = IF g.left = -1 THEN c ELSE g.left
        /\ q \in FrameRec(A)
    BY <1>9, <2>2, <2>5, <2>6 DEF Flat!Receive, FrameRec, Flat!None
  <2>8. /\ H \in Seq(FrameRec(A)) /\ Len(H) = h /\ DOMAIN H = 1 .. h /\ H[h] = q
        /\ \A k \in 1 .. h - 1 : H[k] = F[k]
        /\ \A k \in 1 .. h : H[k].node = F[k].node
    <3>1. H \in Seq(FrameRec(A)) /\ Len(H) = h /\ DOMAIN H = 1 .. h /\ H[h] = q
      BY <1>19, <2>1, <2>3, <2>7
    <3>2. \A k \in 1 .. h - 1 : H[k] = F[k]
      BY <1>19, <2>1, <2>3
    <3> QED
      BY <2>1, <2>2, <2>7, <3>1, <3>2
  <2>9. \A k \in 1 .. h : F[k].node \in DOMAIN A /\ n < F[k].node
    <3>1. \A k \in 1 .. h : k \in DOMAIN F /\ k < l
      BY <1>5, <2>1
    <3>2. \A k \in DOMAIN F : F[k] \in FrameRec(A)
      BY <1>4
    <3> QED
      BY <1>4, <1>6, <1>7, <3>1, <3>2 DEF IsPath, FrameRec
  <2>10. g.left # -1 => g.left < c
    <3>1. SUFFICES ASSUME g.left # -1 PROVE g.left < c
      OBVIOUS
    <3>2. Handing(A, g, D, m)
      BY <1>3, <2>2, <2>5
    <3>3. A[g.node].left \in D /\ m[A[g.node].left] = g.left
      BY <2>6, <3>1, <3>2 DEF Handing
    <3>4. g.left \in 0 .. c - 1
      BY <1>15, <3>3
    <3> QED
      BY <1>9, <3>4
  <2>11. IsPath(A, H) /\ H # << >>
    <3>1. H # << >> /\ H[1].node = Len(A)
      <4>1. DOMAIN << >> = {}
        OBVIOUS
      <4>2. 1 \in 1 .. h
        BY <2>1
      <4>3. F[1].node = Len(A)
        BY <1>4 DEF IsPath
      <4> QED
        BY <2>8, <4>1, <4>2, <4>3
    <3>2. ASSUME NEW k \in DOMAIN H, k < Len(H)
          PROVE  /\ Flat!IsBinary(A[H[k].node]) /\ H[k].right = -1
                 /\ H[k + 1].node = IF H[k].left = -1 THEN A[H[k].node].left ELSE A[H[k].node].right
      <4>1. k \in 1 .. h - 1 /\ k + 1 \in 1 .. h /\ k \in DOMAIN F /\ k < Len(F)
        BY <1>5, <2>1, <2>8, <3>2
      <4>2. H[k] = F[k] /\ H[k + 1].node = F[k + 1].node
        BY <2>8, <4>1
      <4> QED
        BY <1>4, <4>1, <4>2 DEF IsPath
    <3>3. ASSUME NEW j \in DOMAIN H, NEW k \in DOMAIN H, j < k PROVE H[k].node < H[j].node
      <4>1. j \in DOMAIN F /\ k \in DOMAIN F /\ H[k].node = F[k].node /\ H[j].node = F[j].node
        BY <1>5, <2>1, <2>8
      <4> QED
        BY <1>4, <3>3, <4>1 DEF IsPath
    <3>4. ASSUME NEW k \in DOMAIN H
          PROVE  /\ H[k].right # -1 => H[k].left # -1 /\ H[k].left < H[k].right
                 /\ ~ Flat!IsBinary(A[H[k].node]) => H[k].left = -1 /\ H[k].right = -1
      <4>1. CASE k \in 1 .. h - 1
        <5>1. k \in DOMAIN F /\ H[k] = F[k]
          BY <1>5, <2>1, <2>8, <4>1
        <5> QED
          BY <1>4, <5>1 DEF IsPath
      <4>2. CASE k = h
        BY <1>9, <2>6, <2>7, <2>8, <2>10, <4>2
      <4> QED
        BY <2>1, <2>8, <4>1, <4>2
    <3> QED
      BY <2>8, <3>1, <3>2, <3>3, <3>4 DEF IsPath
  <2>12. /\ Parent(A, g.node, n) /\ A[g.node].left # A[g.node].right
         /\ n = A[g.node].left <=> g.left = -1
         /\ n = A[g.node].right <=> g.left # -1
    <3>1. A[g.node].left # A[g.node].right
      BY <1>4, <2>5, <2>6, TreeFacts
    <3> QED
      BY <2>5, <2>6, <3>1 DEF Parent
  <2>13. Known(A, H, E)
    <3>1. SUFFICES ASSUME NEW a \in E, a # Len(A), \A p \in E : ~ Parent(A, p, a)
                   PROVE  \E k \in DOMAIN H : Parent(A, H[k].node, a) /\ HandedUp(A, H[k], a)
      BY DEF Known
    <3>2. h \in DOMAIN H /\ H[h] = q
      BY <2>1, <2>8
    <3>3. CASE a = n
      <4>1. Parent(A, q.node, a) /\ HandedUp(A, q, a)
        BY <1>9, <2>7, <2>12, <3>3 DEF HandedUp
      <4> QED
        BY <3>2, <4>1
    <3>4. CASE a \in D
      <4>1. PICK k \in DOMAIN F : Parent(A, F[k].node, a) /\ HandedUp(A, F[k], a)
        BY <1>3, <1>12, <3>1, <3>4 DEF Known
      <4>2. k # l
        BY <1>6, <1>15, <3>1, <4>1
      <4>3. CASE k = h
        <5>1. HandedUp(A, q, a)
          BY <1>9, <2>2, <2>6, <2>7, <4>1, <4>3 DEF HandedUp
        <5> QED
          BY <2>2, <2>7, <3>2, <4>1, <4>3, <5>1
      <4>4. CASE k # h
        <5>1. k \in 1 .. h - 1 /\ k \in DOMAIN H
          BY <1>5, <2>1, <2>8, <4>2, <4>4
        <5> QED
          BY <2>8, <4>1, <5>1
      <4> QED
        BY <4>3, <4>4
    <3> QED
      BY <1>12, <3>3, <3>4
  <2>14. ASSUME NEW k \in DOMAIN H PROVE Handing(A, H[k], E, e)
    <3>1. k \in 1 .. h /\ k \in DOMAIN F /\ H[k].node = F[k].node /\ F[k].node # n
      <4>1. k \in 1 .. h /\ k \in DOMAIN F
        BY <1>5, <2>1, <2>8
      <4>2. n < F[k].node /\ n \in Nat
        BY <1>4, <1>7, <2>9, <4>1, TreeFacts
      <4> QED
        BY <2>8, <4>1, <4>2
    <3>2. H[k].node \notin E
      BY <1>3, <1>12, <3>1 DEF Handing
    <3>3. Handing(A, F[k], D, m)
      BY <1>3, <3>1
    <3>4. CASE k \in 1 .. h - 1
      <4>1. H[k] = F[k]
        BY <2>8, <3>4
      <4> QED
        BY <1>15, <3>2, <3>3, <4>1 DEF Handing
    <3>5. CASE k = h
      <4>1. H[k] = q /\ F[k] = g
        BY <2>2, <2>8, <3>5
      <4>2. CASE g.left = -1
        BY <1>15, <2>7, <2>12, <3>2, <4>1, <4>2 DEF Handing
      <4>3. CASE g.left # -1
        <5>1. A[g.node].left \in D /\ m[A[g.node].left] = g.left
          BY <2>6, <3>3, <4>1, <4>3 DEF Handing
        <5>2. A[g.node].left \in E /\ e[A[g.node].left] = g.left
          BY <1>15, <5>1
        <5> QED
          BY <1>15, <2>7, <2>12, <3>2, <4>1, <4>3, <5>2 DEF Handing
      <4> QED
        BY <4>2, <4>3
    <3> QED
      BY <2>1, <3>1, <3>4, <3>5
  <2> QED
    BY <1>1, <1>2, <1>4, <1>14, <1>16, <1>17, <2>4, <2>11, <2>13, <2>14 DEF FlatInv, Flat!FlatAssumption
<1> QED
  BY <1>21, <1>22

(* A value of a node looks at its kind, and at its children's if it has any.*)
LEMMA NodeValue ==
  ASSUME NEW n, NEW l, NEW r
  PROVE  /\ n \in NodeRec /\ ~ Flat!IsBinary(n) => \A x, y : Flat!Value(n, l, r) = Flat!Value(n, x, y)
         /\ Flat!IsBinary(n) => \A x, y : Flat!Value(n, l, r) = Flat!Value(Flat!Binary(n.kind, x, y), l, r)
<1>1. ASSUME n \in NodeRec, ~ Flat!IsBinary(n), NEW x, NEW y PROVE Flat!Value(n, l, r) = Flat!Value(n, x, y)
  <2>1. n.kind = "NUMBER" \/ n.kind = "VAR"
    BY <1>1 DEF NodeRec, Kinds, Flat!IsBinary
  <2> QED
    BY <2>1 DEF Flat!Value
<1>2. ASSUME Flat!IsBinary(n), NEW x, NEW y PROVE Flat!Value(n, l, r) = Flat!Value(Flat!Binary(n.kind, x, y), l, r)
  <2>1. n.kind = "ADD" \/ n.kind = "MUL"
    BY <1>2 DEF Flat!IsBinary
  <2>2. PICK b : b = Flat!Binary(n.kind, x, y)
    OBVIOUS
  <2>3. b.kind = n.kind
    BY <2>2 DEF Flat!Binary
  <2>4. Flat!Value(n, l, r) = Flat!Value(b, l, r)
    BY <2>1, <2>3 DEF Flat!Value
  <2> QED
    BY <2>2, <2>4
<1> QED
  BY <1>1, <1>2

(* Children are older, so every tree has values.                            *)
LEMMA TreeMeans ==
  ASSUME NEW A, IsTree(A)
  PROVE  IsValue(DOMAIN A, A, Meaning(A))
<1>1. PICK c \in Nat : c = Len(A) /\ DOMAIN A = 1 .. c
  BY DEF IsTree
<1>2. SUFFICES \E g : IsValue(DOMAIN A, A, g)
  BY DEF Meaning
<1>3. SUFFICES ASSUME ~ \E g : IsValue(1 .. c, A, g) PROVE FALSE
  BY <1>1
<1> DEFINE Without == {k \in Nat : k <= c /\ ~ \E g : IsValue(1 .. k, A, g)}
<1>4. Without # {} /\ Without \subseteq Nat
  <2>1. c \in Without
    BY <1>3
  <2> QED
    BY <2>1
<1>5. PICK k \in Without : \A j \in Without : ~ <<j, k>> \in OpToRel(<, Nat)
  <2>1. IsWellFoundedOn(OpToRel(<, Nat), Nat)
    BY NatLessThanWellFounded
  <2> HIDE DEF OpToRel, Without
  <2> QED
    BY <1>4, <2>1, WFMin
<1>6. k \in Nat /\ k <= c /\ \A g : ~ IsValue(1 .. k, A, g)
  BY <1>5
<1>7. k # 0
  <2>1. SUFFICES ASSUME k = 0 PROVE FALSE
    OBVIOUS
  <2>2. PICK g : g = [a \in {} |-> 0]
    OBVIOUS
  <2>3. g = [a \in {} |-> Flat!Value(A[a], g[A[a].left], g[A[a].right])]
    BY <2>2
  <2>4. 1 .. k = {}
    BY <2>1
  <2> QED
    BY <1>6, <2>3, <2>4 DEF IsValue
<1>8. k - 1 \in Nat /\ k - 1 <= c /\ k - 1 < k
  BY <1>6, <1>7
<1>9. PICK g : IsValue(1 .. k - 1, A, g)
  <2>1. <<k - 1, k>> \in OpToRel(<, Nat)
    BY <1>6, <1>8 DEF OpToRel
  <2>2. k - 1 \notin Without
    BY <1>5, <2>1
  <2> QED
    BY <1>8, <2>2
<1>10. PICK h : h = [a \in 1 .. k |-> Flat!Value(A[a], g[A[a].left], g[A[a].right])]
  OBVIOUS
<1>11. ASSUME NEW a \in 1 .. k - 1 PROVE h[a] = g[a]
  <2>1. a \in 1 .. k
    BY <1>6, <1>8
  <2>2. g[a] = Flat!Value(A[a], g[A[a].left], g[A[a].right])
    BY <1>9 DEF IsValue
  <2> QED
    BY <1>10, <2>1, <2>2
<1>12. ASSUME NEW a \in 1 .. k
       PROVE  Flat!Value(A[a], g[A[a].left], g[A[a].right]) = Flat!Value(A[a], h[A[a].left], h[A[a].right])
  <2>1. a \in DOMAIN A
    BY <1>1, <1>6
  <2>2. CASE Flat!IsBinary(A[a])
    <3>1. A[a].left \in 1 .. a - 1 /\ A[a].right \in 1 .. a - 1
      BY <2>1, <2>2, TreeFacts
    <3>2. A[a].left \in 1 .. k - 1 /\ A[a].right \in 1 .. k - 1
      BY <1>6, <3>1
    <3> QED
      BY <1>11, <3>2
  <2>3. CASE ~ Flat!IsBinary(A[a])
    <3>1. A[a] \in NodeRec
      BY <2>1, TreeFacts
    <3> QED
      BY <2>3, <3>1, NodeValue
  <2> QED
    BY <2>2, <2>3
<1>13. h = [a \in 1 .. k |-> Flat!Value(A[a], h[A[a].left], h[A[a].right])]
  BY <1>10, <1>12
<1> QED
  BY <1>6, <1>13 DEF IsValue

(* A copy of the whole tree has, at a node's index, the node's value.       *)
LEMMA CopyMeans ==
  ASSUME NEW A, IsTree(A), NEW C, C \in Seq(NodeRec), NEW m, CopyOf(A, C, DOMAIN A, m),
         NEW a \in DOMAIN A
  PROVE  Meaning(FromZero(C))[m[a]] = Meaning(A)[a]
<1>1. PICK M, c, D, B, v : /\ M = Meaning(A) /\ c = Len(C) /\ D = DOMAIN A
                           /\ B = FromZero(C) /\ v = Meaning(B)
  OBVIOUS
<1>2. M = [x \in D |-> Flat!Value(A[x], M[A[x].left], M[A[x].right])]
  BY <1>1, TreeMeans DEF IsValue
<1>3. /\ m \in [D -> 0 .. c - 1] /\ \A x, y \in D : m[x] = m[y] => x = y
      /\ \A t \in 0 .. c - 1 : \E x \in D : m[x] = t
  <2>1. m \in Flat!Bijection(D, 0 .. c - 1)
    BY <1>1 DEF CopyOf
  <2> QED
    BY <2>1 DEF Flat!Bijection, Flat!Injection, Flat!Surjection, Flat!IsInjective
<1>4. DOMAIN B = 0 .. c - 1 /\ \A x \in D : B[m[x]] = C[m[x] + 1]
  BY <1>1, <1>3 DEF FromZero
<1>5. ASSUME NEW x \in D
      PROVE  /\ ~ Flat!IsBinary(A[x]) => B[m[x]] = A[x] /\ A[x] \in NodeRec
             /\ Flat!IsBinary(A[x]) => /\ A[x].left \in D /\ A[x].right \in D
                                       /\ B[m[x]] = Flat!Binary(A[x].kind, m[A[x].left], m[A[x].right])
                                       /\ A[x].left \in 1 .. x - 1 /\ A[x].right \in 1 .. x - 1
  BY <1>1, <1>4, TreeFacts DEF CopyOf
<1>6. ASSUME NEW g, NEW x \in D,
             Flat!IsBinary(A[x]) => g[m[A[x].left]] = M[A[x].left] /\ g[m[A[x].right]] = M[A[x].right]
      PROVE  Flat!Value(B[m[x]], g[B[m[x]].left], g[B[m[x]].right]) = M[x]
  <2>1. M[x] = Flat!Value(A[x], M[A[x].left], M[A[x].right])
    BY <1>2
  <2>2. CASE ~ Flat!IsBinary(A[x])
    BY <1>5, <2>1, <2>2, NodeValue
  <2>3. CASE Flat!IsBinary(A[x])
    <3>1. PICK k, i, j : k = A[x].kind /\ i = m[A[x].left] /\ j = m[A[x].right]
      OBVIOUS
    <3>2. PICK b : b = B[m[x]] /\ b = Flat!Binary(k, i, j)
      BY <1>5, <2>3, <3>1
    <3>3. b.left = i /\ b.right = j
      BY <3>2 DEF Flat!Binary
    <3>4. Flat!Value(b, g[b.left], g[b.right]) = Flat!Value(b, M[A[x].left], M[A[x].right])
      BY <1>6, <2>3, <3>1, <3>3
    <3> QED
      BY <2>1, <2>3, <3>1, <3>2, <3>4, NodeValue
  <2> QED
    BY <2>2, <2>3
<1>7. IsValue(DOMAIN B, B, v)
  <2>1. PICK h : h = [i \in 0 .. c - 1 |-> M[CHOOSE x \in D : m[x] = i]]
    OBVIOUS
  <2>2. ASSUME NEW x \in D PROVE h[m[x]] = M[x]
    <3>1. m[x] \in 0 .. c - 1 /\ (CHOOSE y \in D : m[y] = m[x]) = x
      BY <1>3
    <3> QED
      BY <2>1, <3>1
  <2>3. ASSUME NEW i \in 0 .. c - 1 PROVE h[i] = Flat!Value(B[i], h[B[i].left], h[B[i].right])
    <3>1. PICK x \in D : m[x] = i
      BY <1>3
    <3>2. Flat!IsBinary(A[x]) => h[m[A[x].left]] = M[A[x].left] /\ h[m[A[x].right]] = M[A[x].right]
      BY <1>5, <2>2
    <3>3. Flat!Value(B[m[x]], h[B[m[x]].left], h[B[m[x]].right]) = M[x]
      BY <1>6, <3>2
    <3> QED
      BY <2>2, <3>1, <3>3
  <2>4. h = [i \in 0 .. c - 1 |-> Flat!Value(B[i], h[B[i].left], h[B[i].right])]
    <3>1. PICK q : q = [i \in 0 .. c - 1 |-> Flat!Value(B[i], h[B[i].left], h[B[i].right])]
      OBVIOUS
    <3>2. \A i \in 0 .. c - 1 : h[i] = q[i]
      BY <2>3, <3>1
    <3>3. h = q
      BY <2>1, <3>1, <3>2
    <3> QED
      BY <3>1, <3>3
  <2>5. IsValue(DOMAIN B, B, h)
    BY <1>4, <2>4 DEF IsValue
  <2> QED
    BY <1>1, <2>5 DEF Meaning
<1> DEFINE Wrong == {x \in D : v[m[x]] # M[x]}
<1>8. SUFFICES ASSUME Wrong # {} PROVE FALSE
  BY <1>1
<1>9. Wrong \subseteq Nat
  BY <1>1 DEF IsTree
<1>10. PICK x \in Wrong : \A y \in Wrong : ~ <<y, x>> \in OpToRel(<, Nat)
  <2>1. IsWellFoundedOn(OpToRel(<, Nat), Nat)
    BY NatLessThanWellFounded
  <2> HIDE DEF OpToRel, Wrong
  <2> QED
    BY <1>8, <1>9, <2>1, WFMin
<1>11. x \in D /\ x \in Nat /\ v[m[x]] # M[x]
  BY <1>9, <1>10
<1>12. ASSUME NEW y \in D, y < x, y \in Nat PROVE v[m[y]] = M[y]
  <2>1. <<y, x>> \in OpToRel(<, Nat)
    BY <1>11, <1>12 DEF OpToRel
  <2> QED
    BY <1>10, <1>12, <2>1
<1>13. Flat!IsBinary(A[x]) => v[m[A[x].left]] = M[A[x].left] /\ v[m[A[x].right]] = M[A[x].right]
  <2>1. SUFFICES ASSUME Flat!IsBinary(A[x])
                 PROVE  v[m[A[x].left]] = M[A[x].left] /\ v[m[A[x].right]] = M[A[x].right]
    OBVIOUS
  <2>2. PICK l, r : l = A[x].left /\ r = A[x].right
    OBVIOUS
  <2>3. l \in D /\ r \in D /\ l \in 1 .. x - 1 /\ r \in 1 .. x - 1
    BY <1>5, <1>11, <2>1, <2>2
  <2>4. l \in Nat /\ r \in Nat /\ l < x /\ r < x
    BY <1>11, <2>3
  <2> QED
    BY <1>12, <2>2, <2>3, <2>4
<1>14. Flat!Value(B[m[x]], v[B[m[x]].left], v[B[m[x]].right]) = M[x]
  BY <1>6, <1>11, <1>13
<1>15. v[m[x]] = Flat!Value(B[m[x]], v[B[m[x]].left], v[B[m[x]].right])
  <2>1. m[x] \in DOMAIN B
    BY <1>3, <1>4, <1>11
  <2> QED
    BY <1>7, <2>1 DEF IsValue
<1> QED
  BY <1>11, <1>14, <1>15

(* The tree is freed and the array is evaluated and freed.                  *)
LEMMA FreesEvaluates ==
  ASSUME FlatInv, Flat!FreeTree \/ Flat!EvalFlat \/ UNCHANGED Flat!vars
  PROVE  FlatInv'
<1>1. CASE Flat!FreeTree
  <2>1. /\ flatPc = "lowered" /\ flatPc' = "freed"
        /\ UNCHANGED <<ast, stack, nodes, capacity, root, result>>
    BY <1>1 DEF Flat!FreeTree
  <2> QED
    BY <2>1 DEF FlatInv, Flat!FlatAssumption
<1>2. CASE Flat!EvalFlat
  <2>1. /\ flatPc' = "done" /\ nodes' = << >> /\ capacity' = 0 /\ UNCHANGED <<ast, loose, stack, root>>
    BY <1>2 DEF Flat!EvalFlat
  <2>2. << >> \in Seq(NodeRec) /\ Len(<< >>) = 0
    OBVIOUS
  <2>3. Flat!FlatNode = FromZero(nodes)
    BY DEF Flat!FlatNode, FromZero
  <2>4. Flat!eval_flat = Meaning(FromZero(nodes))
    BY <2>3 DEF Flat!eval_flat, IsValue, Meaning
  <2>5. result' = Meaning(FromZero(nodes))[root] /\ flatPc = "freed"
    BY <1>2, <2>4 DEF Flat!EvalFlat
  <2>6. PICK m : CopyOf(ast, nodes, DOMAIN ast, m) /\ root = m[Len(ast)]
    BY <2>5 DEF FlatInv
  <2>7. IsTree(ast) /\ Len(ast) \in DOMAIN ast /\ nodes \in Seq(NodeRec)
    BY <2>5 DEF FlatInv, IsTree, Rooted
  <2>8. result' = Meaning(ast)[Len(ast)]
    BY <2>5, <2>6, <2>7, CopyMeans
  <2> QED
    BY <2>1, <2>2, <2>8 DEF FlatInv, Flat!FlatAssumption
<1>3. CASE UNCHANGED Flat!vars
  BY <1>3 DEF FlatInv, Flat!FlatAssumption, Flat!vars
<1> QED
  BY <1>1, <1>2, <1>3

(* For every tree and first capacity: the array is a copy of the tree from  *)
(* the first push of lower to free_tree, whatever the growths in between,   *)
(* and eval_flat gives the value of the tree.                               *)
THEOREM ArrayIsTree == Flat!FlatAssumption /\ Flat!Spec => []FlatLowered
<1>1. Flat!FlatAssumption /\ Flat!Init => FlatInv
  BY FlatBegins
<1>2. FlatInv /\ [Flat!Next]_Flat!vars => FlatInv'
  BY Builds, LowerBegins, Descends, Pushes, FreesEvaluates DEF Flat!Next
<1>3. FlatInv => FlatLowered
  BY FlatHolds DEF FlatLowered
<1> QED
  BY <1>1, <1>2, <1>3, PTL DEF Flat!Spec

-----------------------------------------------------------------------------
(* uring.odin, for any number of files and any length of the ring.  The     *)
(* inductive invariant says where each request is, by the part of main that *)
(* runs.  A program that stopped did so while it queued or printed, or when *)
(* fewer reads were submitted or had ended than there are files.            *)

RingFilling ==
  /\ sq \in Seq(Nat) /\ Len(sq) = ringNext - 1 /\ \A k \in 1 .. ringNext - 1 : sq[k] = k
  /\ held = 1 .. ringNext - 1
  /\ busy = {} /\ cq = <<>> /\ copied = <<>> /\ printed = {}

(* The completions in q are of all the requests but those in B, once each.  *)
Covers(q, B) ==
  /\ Len(q) + Cardinality(B) = files
  /\ \A k \in 1 .. Len(q) : q[k].of \notin B
  /\ \A j, k \in 1 .. Len(q) : q[j].of = q[k].of => j = k
  /\ \A r \in Ring!Requests \ B : \E k \in 1 .. Len(q) : q[k].of = r

(* Submitted: requests are in the ring still, with the kernel, or ended.    *)
RingQueued == {sq[k] : k \in 1 .. Len(sq)}
RingBegun ==
  /\ printed = {} /\ held = Ring!Requests
  /\ \A j, k \in 1 .. Len(sq) : sq[j] = sq[k] => j = k
  /\ busy \cap RingQueued = {}
  /\ Covers(copied \o cq, busy \cup RingQueued)

RingReading == RingBegun /\ sq = <<>> /\ copied = <<>>

RingPrinting ==
  /\ sq = <<>> /\ cq = <<>> /\ busy = {}
  /\ held = ringNext .. files /\ printed = 1 .. ringNext - 1
  /\ Covers(copied, {})
  /\ \A k \in 1 .. ringNext - 1 : copied[k].res # "failed"

RingPhase ==
  /\ ringPc = "queue" => RingFilling
  /\ ringPc = "wait" => RingReading
  /\ ringPc \in {"print", "done"} => RingPrinting
  /\ ringPc = "stopped" => RingFilling \/ RingBegun \/ RingPrinting
  /\ ringPc = "done" => ringNext = files + 1

RingInv == Ring!UringAssumption /\ files \in Nat /\ files >= 1 /\ Ring!TypeOK /\ RingPhase

LEMMA CoversAll ==
  ASSUME NEW X, NEW q \in Seq(X), Covers(q, {}), files \in Nat
  PROVE  Len(q) = files /\ DOMAIN q = 1 .. files
<1> DEFINE n == Len(q)
           none == Cardinality({})
<1>1. none = 0
  BY FS_EmptySet
<1>2. n + none = files /\ n \in Nat /\ DOMAIN q = 1 .. n
  BY DEF Covers
<1> HIDE DEF n, none
<1>3. n = files
  BY <1>1, <1>2
<1> QED
  BY <1>2, <1>3 DEF n

LEMMA RingInitInv ==
  ASSUME Ring!UringAssumption, Ring!Init
  PROVE  RingInv
<1>1. files \in Nat /\ files >= 1
  BY DEF Ring!UringAssumption, Ring!Init
<1>2. Ring!TypeOK
  BY <1>1 DEF Ring!UringAssumption, Ring!Init, Ring!TypeOK
<1>3. RingPhase
  BY <1>1 DEF Ring!Init, RingPhase, RingFilling
<1> QED
  BY <1>1, <1>2, <1>3 DEF RingInv

LEMMA RingStopStep == ASSUME RingInv, Ring!Stop, ringPc = "queue" \/ ringPc = "print" PROVE RingInv'
  BY DEF RingInv, Ring!Stop, Ring!TypeOK, Ring!Requests, RingPhase, RingFilling, RingPrinting, Covers

LEMMA RingQueueStep == ASSUME RingInv, Ring!Queue PROVE RingInv'
<1>1. CASE Ring!Stop
  BY <1>1, RingStopStep DEF Ring!Queue
<1>2. CASE ~ Ring!Stop
  <2>1. /\ ringPc = "queue" /\ ringNext <= files /\ Len(sq) < Entries
        /\ held' = held \cup {ringNext} /\ sq' = Append(sq, ringNext) /\ ringNext' = ringNext + 1
        /\ UNCHANGED <<files, ringPc, busy, cq, copied, printed>>
    BY <1>2 DEF Ring!Queue, Ring!HasRoom
  <2>2. /\ files \in Nat /\ files >= 1 /\ ringNext \in 1 .. files /\ RingFilling /\ sq \in Seq(1 .. files)
    BY <2>1 DEF RingInv, Ring!TypeOK, RingPhase, Ring!Requests
  <2>3. /\ sq' \in Seq(1 .. files) /\ sq' \in Seq(Nat) /\ Len(sq') = Len(sq) + 1
        /\ sq'[Len(sq) + 1] = ringNext /\ \A k \in 1 .. Len(sq) : sq'[k] = sq[k]
    BY <2>1, <2>2 DEF RingFilling
  <2>4. RingFilling'
    BY <2>1, <2>2, <2>3 DEF RingFilling
  <2>5. Ring!TypeOK'
    BY <2>1, <2>2, <2>3 DEF Ring!UringAssumption, RingInv, Ring!TypeOK, Ring!Requests
  <2> QED
    BY <2>1, <2>2, <2>4, <2>5 DEF RingInv, RingPhase
<1> QED
  BY <1>1, <1>2

(* What TypeOK says of the rings, on sequences of the library.              *)
LEMMA RingTyped ==
  ASSUME RingInv
  PROVE  /\ sq \in Seq(1 .. files) /\ Len(sq) \in Nat /\ busy \subseteq 1 .. files
         /\ cq \in Seq([of : Ring!Requests, res : Ring!Results])
         /\ copied \in Seq([of : Ring!Requests, res : Ring!Results])
         /\ files \in Nat /\ files >= 1 /\ Ring!Requests = 1 .. files
         /\ RingQueued \subseteq 1 .. files
         /\ IsFiniteSet(busy \cup RingQueued) /\ Cardinality(busy \cup RingQueued) \in Nat
<1>1. /\ sq \in Seq(1 .. files) /\ busy \subseteq 1 .. files /\ files \in Nat
      /\ RingQueued \subseteq 1 .. files
  BY DEF RingInv, Ring!TypeOK, Ring!Requests, RingQueued
<1>2. IsFiniteSet(1 .. files) /\ busy \cup RingQueued \subseteq 1 .. files
  BY <1>1, FS_Interval
<1>3. IsFiniteSet(busy \cup RingQueued)
  BY <1>2, FS_Subset, Zenon
<1>4. Cardinality(busy \cup RingQueued) \in Nat
  BY <1>3, FS_CardinalityType, Zenon
<1>5. /\ cq \in Seq([of : Ring!Requests, res : Ring!Results]) /\ files >= 1
      /\ copied \in Seq([of : Ring!Requests, res : Ring!Results])
  BY DEF RingInv, Ring!TypeOK
<1>6. Len(sq) \in Nat /\ Ring!Requests = 1 .. files
  BY <1>1 DEF Ring!Requests
<1> QED
  BY <1>1, <1>3, <1>4, <1>5, <1>6, Zenon

LEMMA RingSubmitStep == ASSUME RingInv, Ring!Submit PROVE RingInv'
<1>1. PICK k \in 0 .. Len(sq) :
        /\ busy' = Ring!ToSet(SubSeq(sq, 1, k)) /\ sq' = SubSeq(sq, k + 1, Len(sq))
        /\ ringPc' = IF k = files THEN "wait" ELSE "stopped"
  BY DEF Ring!Submit, Ring!Taken, Ring!Whole
<1>2. /\ UNCHANGED <<files, ringNext, held, cq, copied, printed>>
      /\ files \in Nat /\ files >= 1 /\ ringNext = files + 1 /\ RingFilling
      /\ sq \in Seq(1 .. files)
  BY DEF Ring!Submit, RingInv, Ring!TypeOK, RingPhase, Ring!Requests
<1>3. Len(sq) = files /\ \A j \in 1 .. files : sq[j] = j
  BY <1>2 DEF RingFilling
<1>4. /\ SubSeq(sq, 1, k) \in Seq(1 .. files) /\ Len(SubSeq(sq, 1, k)) = k
      /\ \A j \in 1 .. k : SubSeq(sq, 1, k)[j] = j
  BY <1>2, <1>3
<1>5. busy' = 1 .. k
  <2> DEFINE s == SubSeq(sq, 1, k)
  <2>1. k \in Nat /\ DOMAIN s = 1 .. k /\ \A j \in 1 .. k : s[j] = j
    BY <1>1, <1>2, <1>4
  <2>2. busy' = {s[j] : j \in DOMAIN s}
    BY <1>1 DEF Ring!ToSet
  <2> HIDE DEF s
  <2>3. busy' = {s[j] : j \in 1 .. k}
    BY <2>1, <2>2
  <2> QED
    BY <2>1, <2>3
<1>6. /\ sq' \in Seq(1 .. files) /\ Len(sq') = files - k
      /\ \A j \in 1 .. files - k : sq'[j] = k + j
  BY <1>1, <1>2, <1>3
<1>7. RingQueued' = k + 1 .. files
  <2>1. RingQueued' = {sq'[j] : j \in 1 .. files - k}
    BY <1>6 DEF RingQueued
  <2>2. \A r \in k + 1 .. files : r - k \in 1 .. files - k /\ sq'[r - k] = r
    BY <1>2, <1>3, <1>6
  <2>3. k \in 0 .. files /\ files \in Nat
    BY <1>1, <1>2, <1>3
  <2>4. RingQueued' \subseteq k + 1 .. files
    BY <1>6, <2>1, <2>3
  <2>5. \A r \in k + 1 .. files : r \in RingQueued'
    BY <2>1, <2>2
  <2> QED
    BY <2>4, <2>5
<1>8. (busy \cup RingQueued)' = 1 .. files
  BY <1>1, <1>2, <1>3, <1>5, <1>7
<1>9. Cardinality((busy \cup RingQueued)') = files
  <2>1. files \in Nat /\ files >= 1
    BY <1>2
  <2>2. Cardinality(1 .. files) = files
    BY <2>1, FS_Interval
  <2> QED
    BY <1>8, <2>2, Zenon
<1>10. (copied \o cq)' = <<>>
  BY <1>2 DEF RingFilling
<1>11. Covers(copied \o cq, busy \cup RingQueued)'
  BY <1>2, <1>8, <1>9, <1>10 DEF Covers, Ring!Requests
<1>12. RingBegun'
  BY <1>2, <1>3, <1>5, <1>6, <1>7, <1>11 DEF RingBegun, RingFilling, Ring!Requests
<1>13. k = files => sq' = <<>>
  BY <1>6
<1>14. Ring!TypeOK'
  <2>1. Len(sq') <= Entries
    BY <1>1, <1>2, <1>3, <1>6 DEF RingInv, Ring!UringAssumption, Ring!TypeOK
  <2> QED
    BY <1>1, <1>2, <1>3, <1>5, <1>6, <2>1 DEF RingInv, Ring!TypeOK, Ring!Requests
<1> QED
  BY <1>1, <1>2, <1>12, <1>13, <1>14 DEF RingInv, RingPhase, RingReading, RingFilling

LEMMA RingCompleteStep == ASSUME RingInv, NEW r \in Ring!Requests, Ring!Complete(r) PROVE RingInv'
<1>1. PICK res \in Ring!Results : cq' = Append(cq, Ring!Completion(r, res))
  BY DEF Ring!Complete
<1>2. /\ r \in busy /\ busy' = busy \ {r}
      /\ UNCHANGED <<files, ringPc, ringNext, held, sq, copied, printed>>
  BY DEF Ring!Complete
<1>3. RingBegun /\ (ringPc = "wait" => RingReading) /\ ringPc \in {"wait", "stopped"}
  BY <1>2 DEF RingInv, Ring!TypeOK, RingPhase, RingFilling, RingReading, RingPrinting
<1> DEFINE c == Ring!Completion(r, res)
           E == copied \o cq
           B == busy \cup RingQueued
<1>4. c \in [of : Ring!Requests, res : Ring!Results] /\ c.of = r
  BY DEF Ring!Completion
<1>5. /\ cq \in Seq([of : Ring!Requests, res : Ring!Results]) /\ cq' = Append(cq, c)
      /\ copied \in Seq([of : Ring!Requests, res : Ring!Results]) /\ copied' = copied
  BY <1>1, <1>2, RingTyped
<1> HIDE DEF c
<1>6. /\ E \in Seq([of : Ring!Requests, res : Ring!Results])
      /\ E' = Append(E, c) /\ cq' \in Seq([of : Ring!Requests, res : Ring!Results])
  BY <1>4, <1>5
<1>7. B' = B \ {r} /\ r \in B /\ RingQueued' = RingQueued
  BY <1>2, <1>3 DEF RingBegun, RingQueued
<1>8. IsFiniteSet(B) /\ Cardinality(B) \in Nat /\ Cardinality(B') = Cardinality(B) - 1
  <2>1. IsFiniteSet(B) /\ Cardinality(B) \in Nat
    BY RingTyped, Zenon
  <2> HIDE DEF B
  <2>2. Cardinality(B') = Cardinality(B) - 1
    BY <1>7, <2>1, FS_RemoveElement
  <2> QED
    BY <2>1, <2>2
<1>9. Covers(E, B) /\ files \in Nat
  BY <1>3, RingTyped DEF RingBegun
<1> HIDE DEF E, B
<1>10. /\ Len(E') = Len(E) + 1 /\ Len(E) \in Nat
       /\ E'[Len(E) + 1] = c /\ \A k \in 1 .. Len(E) : E'[k] = E[k]
  BY <1>4, <1>6
<1>11. Covers(E', B')
  <2>2. Len(E') + Cardinality(B') = files
    BY <1>8, <1>9, <1>10 DEF Covers
  <2>3. \A k \in 1 .. Len(E') : E'[k].of \notin B'
    BY <1>4, <1>7, <1>9, <1>10 DEF Covers
  <2>4. \A j, k \in 1 .. Len(E') : E'[j].of = E'[k].of => j = k
    BY <1>4, <1>7, <1>9, <1>10 DEF Covers
  <2>5. \A q \in Ring!Requests \ B' : \E k \in 1 .. Len(E') : E'[k].of = q
    BY <1>4, <1>7, <1>9, <1>10 DEF Covers
  <2> QED
    BY <2>2, <2>3, <2>4, <2>5 DEF Covers
<1>12. Covers(E, B)'
  BY <1>2, <1>11 DEF Covers, Ring!Requests
<1>13. RingBegun'
  BY <1>2, <1>3, <1>7, <1>12 DEF RingBegun, Ring!Requests, E, B
<1>14. Ring!TypeOK'
  BY <1>2, <1>6 DEF RingInv, Ring!TypeOK, Ring!Requests
<1> QED
  BY <1>2, <1>3, <1>13, <1>14 DEF RingInv, RingPhase, RingReading

LEMMA RingCollectStep == ASSUME RingInv, ringPc = "wait", Ring!Collect PROVE RingInv'
<1>1. /\ copied' = cq /\ cq' = <<>>
      /\ UNCHANGED <<files, held, sq, busy, printed>>
      /\ RingBegun /\ sq = <<>> /\ copied = <<>>
  BY DEF Ring!Collect, RingInv, RingPhase, RingReading
<1>2. /\ cq \in Seq([of : Ring!Requests, res : Ring!Results]) /\ files \in Nat /\ files >= 1
      /\ IsFiniteSet(busy \cup RingQueued) /\ Cardinality(busy \cup RingQueued) \in Nat
      /\ Ring!Requests = 1 .. files
  BY RingTyped
<1>3. copied \o cq = cq /\ copied' \o cq' = cq
  BY <1>1, <1>2
<1>4. RingQueued = {} /\ busy \cup RingQueued = busy /\ RingQueued' = {}
  BY <1>1 DEF RingQueued
<1>5. Covers(cq, busy) /\ Len(cq) \in Nat
  BY <1>1, <1>2, <1>3, <1>4 DEF RingBegun
<1>6. CASE Len(cq) = files
  <2>1. ringPc' = "print" /\ ringNext' = 1
    BY <1>6 DEF Ring!Collect, Ring!Whole
  <2>2. Cardinality(busy) = 0 /\ IsFiniteSet(busy)
    <3> DEFINE n == Cardinality(busy)
    <3>1. n \in Nat /\ files + n = files /\ files \in Nat
      BY <1>2, <1>4, <1>5, <1>6 DEF Covers
    <3> HIDE DEF n
    <3>2. n = 0
      BY <3>1
    <3> QED
      BY <1>2, <1>4, <3>2 DEF n
  <2>3. busy = {}
    BY <2>2, FS_EmptySet
  <2>4. RingPrinting'
    BY <1>1, <1>2, <1>5, <2>1, <2>3 DEF RingBegun, RingPrinting, Covers, Ring!Requests
  <2>5. Ring!TypeOK'
    BY <1>1, <1>2, <2>1 DEF RingInv, Ring!TypeOK, Ring!Requests
  <2> QED
    BY <1>1, <2>1, <2>4, <2>5 DEF RingInv, RingPhase
<1>7. CASE Len(cq) # files
  <2>1. ringPc' = "stopped" /\ ringNext' = ringNext
    BY <1>7 DEF Ring!Collect, Ring!Whole
  <2>2. Covers(copied \o cq, busy \cup RingQueued)'
    <3>1. (copied \o cq)' = cq /\ (busy \cup RingQueued)' = busy
      BY <1>1, <1>3, <1>4
    <3>2. Covers(cq, busy) /\ files' = files
      BY <1>1, <1>5
    <3> HIDE DEF RingQueued
    <3> QED
      BY <3>1, <3>2, Zenon DEF Covers, Ring!Requests
  <2>3. RingBegun'
    BY <1>1, <1>4, <2>2 DEF RingBegun, Ring!Requests
  <2>4. Ring!TypeOK'
    BY <1>1, <1>2, <2>1 DEF RingInv, Ring!TypeOK, Ring!Requests
  <2> QED
    BY <1>1, <2>1, <2>3, <2>4 DEF RingInv, RingPhase
<1> QED
  BY <1>6, <1>7

LEMMA RingPrintStep == ASSUME RingInv, Ring!PrintNext PROVE RingInv'
<1>1. CASE Ring!Stop
  BY <1>1, RingStopStep DEF Ring!PrintNext
<1>2. CASE ~ Ring!Stop
  <2>1. /\ ringPc = "print" /\ ringNext <= files /\ ~ Ring!Bad(ringNext)
        /\ printed' = printed \cup {ringNext} /\ held' = held \ {ringNext} /\ ringNext' = ringNext + 1
        /\ UNCHANGED <<files, ringPc, sq, busy, cq, copied>>
        /\ files \in Nat /\ files >= 1 /\ ringNext \in 1 .. files /\ RingPrinting
    BY <1>2 DEF Ring!PrintNext, RingInv, Ring!TypeOK, RingPhase
  <2>2. RingPrinting'
    <3>1. DOMAIN copied = 1 .. files
      BY <2>1, CoversAll, RingTyped DEF RingPrinting
    <3>2. copied[ringNext].res # "failed"
      BY <2>1, <3>1 DEF Ring!Bad
    <3> QED
      BY <2>1, <3>2 DEF RingPrinting, Covers, Ring!Requests
  <2>3. Ring!TypeOK'
    BY <2>1 DEF RingInv, Ring!TypeOK, Ring!Requests
  <2> QED
    BY <2>1, <2>2, <2>3 DEF RingInv, RingPhase
<1> QED
  BY <1>1, <1>2

LEMMA RingReturnStep == ASSUME RingInv, Ring!Return PROVE RingInv'
  BY DEF RingInv, Ring!Return, Ring!TypeOK, Ring!Requests, RingPhase, RingFilling, RingPrinting, Covers

LEMMA RingInvNext == RingInv /\ [Ring!Next]_Ring!vars => RingInv'
<1>1. ASSUME RingInv, Ring!Refuse PROVE RingInv'
  BY <1>1, RingStopStep DEF Ring!Refuse
<1>2. ASSUME RingInv, UNCHANGED Ring!vars PROVE RingInv'
  <2>1. UNCHANGED <<files, ringPc, ringNext, held, sq, busy, cq, copied, printed>>
    BY <1>2 DEF Ring!vars
  <2>2. RingPhase' = RingPhase
    <3>1. RingFilling' = RingFilling /\ RingPrinting' = RingPrinting
      BY <2>1 DEF RingFilling, RingPrinting, Covers, Ring!Requests
    <3>2. RingQueued' = RingQueued
      BY <2>1 DEF RingQueued
    <3>3. RingBegun' = RingBegun
      BY <2>1, <3>2 DEF RingBegun, Covers, Ring!Requests
    <3> QED
      BY <2>1, <3>1, <3>3 DEF RingPhase, RingReading
  <2>3. Ring!TypeOK' = Ring!TypeOK
    BY <2>1 DEF Ring!TypeOK, Ring!Requests
  <2> QED
    BY <1>2, <2>1, <2>2, <2>3 DEF RingInv
<1> QED
  BY <1>1, <1>2, RingQueueStep, RingSubmitStep, RingCompleteStep, RingCollectStep,
     RingPrintStep, RingReturnStep DEF Ring!Next, Ring!Copy, Ring!Interrupted

THEOREM RingInvariance == Ring!UringAssumption /\ Ring!Spec => []RingInv
<1>1. Ring!UringAssumption /\ Ring!Init => RingInv
  BY RingInitInv
<1> QED
  BY <1>1, RingInvNext, PTL DEF Ring!Spec

-----------------------------------------------------------------------------
(* The rings hold requests and completions of the files that there are, and *)
(* no more of them than there is room for.                                  *)
THEOREM RingTypeCorrect == Ring!UringAssumption /\ Ring!Spec => []Ring!TypeOK
<1>1. RingInv => Ring!TypeOK
  BY DEF RingInv
<1> QED
  BY <1>1, RingInvariance, PTL

(* The kernel is never reading into a buffer that main prints or has freed. *)
THEOREM BuffersQuiet == Ring!UringAssumption /\ Ring!Spec => []Quiet
<1>1. RingInv => Quiet
  BY DEF RingInv, Ring!TypeOK, RingPhase, RingFilling, RingReading, RingBegun, RingPrinting,
         Ring!Requests, Quiet, Ring!Quiet
<1> QED
  BY <1>1, RingInvariance, PTL

(* main gets to its end only if it printed every file and no read failed:   *)
(* although it may look at the completions of other requests, it looks at   *)
(* as many as there are requests.                                           *)
THEOREM FailureNoticed == Ring!UringAssumption /\ Ring!Spec => []NoticesFailure
<1>1. RingInv => NoticesFailure
  <2> SUFFICES ASSUME RingInv, ringPc = "done"
               PROVE  printed = Ring!Requests /\ \A k \in DOMAIN copied : copied[k].res # "failed"
    BY DEF NoticesFailure, Ring!NoticesFailure
  <2>1. /\ files \in Nat /\ ringNext = files + 1 /\ RingPrinting
        /\ DOMAIN copied = 1 .. Len(copied) /\ Len(copied) \in Nat
    BY DEF RingInv, Ring!TypeOK, RingPhase
  <2>2. Len(copied) = files
    BY <2>1, CoversAll, RingTyped DEF RingPrinting
  <2> QED
    BY <2>1, <2>2 DEF RingPrinting, Ring!Requests
<1> QED
  BY <1>1, RingInvariance, PTL

(* The places of a request, as Accounted counts them.                       *)
RingEnded == copied \o cq
InQueue(r) == {<<"sq", k>> : k \in {i \in DOMAIN sq : sq[i] = r}}
InKernel(r) == {<<"busy", b>> : b \in busy \cap {r}}
InEnded(r) == {<<"cq", k>> : k \in {i \in DOMAIN RingEnded : RingEnded[i].of = r}}
RingAt(r) == InQueue(r) \cup InKernel(r) \cup InEnded(r)

LEMMA AccountedByPlace ==
  (\A r \in Ring!Requests : Cardinality(RingAt(r)) = IF r \in held \cup printed THEN 1 ELSE 0) => Accounted
  BY DEF Accounted, Ring!Accounted, Ring!Cardinality, Cardinality,
         RingAt, InQueue, InKernel, InEnded, RingEnded

LEMMA EndedIs ==
  ASSUME RingInv
  PROVE  /\ RingFilling => RingEnded = <<>>
         /\ RingPrinting => RingEnded = copied
  BY DEF RingInv, Ring!TypeOK, RingFilling, RingPrinting, RingEnded

(* A request is in one place of a ring that covers all but those in B.      *)
LEMMA EndedOnce ==
  ASSUME NEW q \in Seq([of : Ring!Requests, res : Ring!Results]), NEW B, Covers(q, B),
         RingEnded = q, NEW r \in Ring!Requests
  PROVE  /\ r \in B => InEnded(r) = {}
         /\ r \notin B => \E k : InEnded(r) = {<<"cq", k>>}
<1>1. DOMAIN q = 1 .. Len(q)
  OBVIOUS
<1>2. r \in B => {i \in DOMAIN q : q[i].of = r} = {}
  BY <1>1 DEF Covers
<1>3. ASSUME r \notin B PROVE \E k : {i \in DOMAIN q : q[i].of = r} = {k}
  <2>1. PICK k \in 1 .. Len(q) : q[k].of = r
    BY <1>3 DEF Covers
  <2>2. {i \in DOMAIN q : q[i].of = r} = {k}
    BY <1>1, <2>1 DEF Covers
  <2> QED
    BY <2>2
<1>4. ASSUME NEW X, {i \in DOMAIN RingEnded : RingEnded[i].of = r} = X
      PROVE  InEnded(r) = {<<"cq", k>> : k \in X}
  BY <1>4 DEF InEnded
<1>5. r \in B => InEnded(r) = {}
  BY <1>2, <1>4
<1>6. ASSUME r \notin B PROVE \E k : InEnded(r) = {<<"cq", k>>}
  <2>1. PICK k : {i \in DOMAIN q : q[i].of = r} = {k}
    BY <1>3, <1>6
  <2>2. InEnded(r) = {<<"cq", j>> : j \in {k}}
    BY <1>4, <2>1
  <2> QED
    BY <2>2
<1> QED
  BY <1>5, <1>6

(* No request is lost or doubled on its way through the rings.              *)
THEOREM RequestsAccounted == Ring!UringAssumption /\ Ring!Spec => []Accounted
<1>1. RingInv => Accounted
  <2> SUFFICES ASSUME RingInv, NEW r \in Ring!Requests
               PROVE  Cardinality(RingAt(r)) = IF r \in held \cup printed THEN 1 ELSE 0
    BY AccountedByPlace
  <2>1. /\ files \in Nat /\ files >= 1 /\ r \in 1 .. files /\ ringNext \in 1 .. files + 1
        /\ RingFilling \/ RingBegun \/ RingPrinting
        /\ cq \in Seq([of : Ring!Requests, res : Ring!Results])
        /\ copied \in Seq([of : Ring!Requests, res : Ring!Results])
    BY DEF RingInv, Ring!TypeOK, RingPhase, RingReading, Ring!Requests
  <2>2. (\E x : RingAt(r) = {x}) => Cardinality(RingAt(r)) = 1
    BY FS_Singleton
  <2>3. RingAt(r) = {} => Cardinality(RingAt(r)) = 0
    BY FS_EmptySet
  <2>4. CASE RingFilling
    <3>1. InKernel(r) = {} /\ InEnded(r) = {}
      BY <2>4, EndedIs DEF RingFilling, InKernel, InEnded
    <3>2. DOMAIN sq = 1 .. ringNext - 1
      BY <2>1, <2>4 DEF RingFilling
    <3>3. {i \in DOMAIN sq : sq[i] = r} = IF r < ringNext THEN {r} ELSE {}
      BY <2>1, <2>4, <3>2 DEF RingFilling
    <3>4. InQueue(r) = IF r < ringNext THEN {<<"sq", r>>} ELSE {}
      BY <3>3 DEF InQueue
    <3>5. r \in held \cup printed <=> r < ringNext
      BY <2>1, <2>4 DEF RingFilling
    <3> QED
      BY <2>2, <2>3, <3>1, <3>4, <3>5 DEF RingAt
  <2>5. CASE RingBegun
    <3>1. /\ r \in held /\ DOMAIN sq = 1 .. Len(sq) /\ busy \cap RingQueued = {}
          /\ \A j, k \in 1 .. Len(sq) : sq[j] = sq[k] => j = k
          /\ Covers(RingEnded, busy \cup RingQueued)
          /\ RingEnded \in Seq([of : Ring!Requests, res : Ring!Results])
      BY <2>1, <2>5, RingTyped DEF RingBegun, RingEnded
    <3>2. /\ r \in busy \cup RingQueued => InEnded(r) = {}
          /\ r \notin busy \cup RingQueued => \E k : InEnded(r) = {<<"cq", k>>}
      BY <3>1, EndedOnce
    <3>3. InKernel(r) = IF r \in busy THEN {<<"busy", r>>} ELSE {}
      BY DEF InKernel
    <3>4. r \notin RingQueued => InQueue(r) = {}
      BY <3>1 DEF RingQueued, InQueue
    <3>5. ASSUME r \in RingQueued PROVE \E k : InQueue(r) = {<<"sq", k>>}
      <4>1. PICK k \in 1 .. Len(sq) : sq[k] = r
        BY <3>5 DEF RingQueued
      <4>2. {i \in DOMAIN sq : sq[i] = r} = {k}
        BY <3>1, <4>1
      <4> QED
        BY <4>2 DEF InQueue
    <3>6. \E x : RingAt(r) = {x}
      <4>1. CASE r \in busy
        BY <3>1, <3>2, <3>3, <3>4, <4>1 DEF RingAt
      <4>2. CASE r \in RingQueued
        BY <3>1, <3>2, <3>3, <3>5, <4>2 DEF RingAt
      <4>3. CASE r \notin busy /\ r \notin RingQueued
        BY <3>2, <3>3, <3>4, <4>3 DEF RingAt
      <4> QED
        BY <4>1, <4>2, <4>3
    <3> QED
      BY <2>2, <3>1, <3>6
  <2>6. CASE RingPrinting
    <3>1. InQueue(r) = {} /\ InKernel(r) = {}
      BY <2>6 DEF RingPrinting, InQueue, InKernel
    <3>2. r \in held \cup printed
      BY <2>1, <2>6 DEF RingPrinting
    <3>3. \E k : InEnded(r) = {<<"cq", k>>}
      BY <2>1, <2>6, EndedIs, EndedOnce DEF RingPrinting
    <3>4. \E x : RingAt(r) = {x}
      BY <3>1, <3>3 DEF RingAt
    <3> QED
      BY <2>2, <3>2, <3>4
  <2> QED
    BY <2>1, <2>4, <2>5, <2>6
<1> QED
  BY <1>1, RingInvariance, PTL

-----------------------------------------------------------------------------
(* The seven, of which one moves and the others stand still, are each a     *)
(* behaviour of their own specification: what is proved of one alone holds  *)
(* of it here.                                                              *)
THEOREM EachItsOwn ==
  SideBySide => Spec /\ Chain!Spec /\ Flat!Spec /\ Tag!Spec /\ List!Spec /\ Lex!Spec /\ Ring!Spec
<1>1. SideInit => Init /\ Chain!Init /\ Flat!Init /\ Tag!Init /\ List!Init /\ Lex!Init /\ Ring!Init
  BY DEF SideInit
<1>2. [SideNext]_sideVars => /\ [Next]_vars
                             /\ [Chain!Next]_Chain!vars
                             /\ [Flat!Next]_Flat!vars
                             /\ [Tag!Next]_Tag!vars
                             /\ [List!Next]_List!vars
                             /\ [Lex!Next]_Lex!vars
                             /\ [Ring!Next]_Ring!vars
  <2> SUFFICES ASSUME [SideNext]_sideVars
               PROVE  /\ [Next]_vars /\ [Chain!Next]_Chain!vars /\ [Flat!Next]_Flat!vars
                      /\ [Tag!Next]_Tag!vars /\ [List!Next]_List!vars /\ [Lex!Next]_Lex!vars
                      /\ [Ring!Next]_Ring!vars
    OBVIOUS
  <2>1. /\ UNCHANGED chainVars => UNCHANGED Chain!vars
        /\ UNCHANGED flatVars => UNCHANGED Flat!vars
        /\ UNCHANGED tagVars => UNCHANGED Tag!vars
        /\ UNCHANGED listVars => UNCHANGED List!vars
        /\ UNCHANGED lexVars => UNCHANGED Lex!vars
        /\ UNCHANGED ringVars => UNCHANGED Ring!vars
    BY DEF chainVars, Chain!vars, flatVars, Flat!vars, tagVars, Tag!vars,
           listVars, List!vars, lexVars, Lex!vars, ringVars, Ring!vars
  <2>2. /\ Next \/ UNCHANGED vars
        /\ Chain!Next \/ UNCHANGED chainVars
        /\ Flat!Next \/ UNCHANGED flatVars
        /\ Tag!Next \/ UNCHANGED tagVars
        /\ List!Next \/ UNCHANGED listVars
        /\ Lex!Next \/ UNCHANGED lexVars
        /\ Ring!Next \/ UNCHANGED ringVars
    BY DEF SideNext, sideVars
  <2> QED
    BY <2>1, <2>2
<1> QED
  BY <1>1, <1>2, PTL DEF SideBySide, Spec, Chain!Spec, Flat!Spec, Tag!Spec, List!Spec, Lex!Spec, Ring!Spec
=============================================================================
