---------------------------- MODULE SwizzlePool ----------------------------
(***************************************************************************)
(* The swizzling buffer pool of src/c/pointersw4.c: pages of a tree cached  *)
(* in a few frames, a parent's child slot holding either the child's page   *)
(* id or, while the child is cached, a tagged pointer to its frame; CLOCK   *)
(* replacement.  The driver fixes children of the root in any order, as     *)
(* main does in one.  Nothing runs beside it: an action is a whole call.    *)
(***************************************************************************)
EXTENDS Naturals, FiniteSets

CONSTANTS
  N,        \* BUFFER_POOL_SIZE
  Fanout,   \* FANOUT; the driver links the last slot by hand
  NoFrame,  \* the NULL parent_frame
  MaxEvict  \* bound: the evictions watched; main causes one

ASSUME SizeAssumption ==
  /\ N \in Nat /\ N >= 2 /\ Fanout \in Nat /\ Fanout >= 2 /\ NoFrame \notin Nat
  /\ MaxEvict \in Nat

VARIABLES
  frames, hand,   \* BufferPool
  disk,           \* mock_disk
  linked,         \* main has set the root's last slot
  evictions,      \* history: how many frames were evicted
  got             \* what the last fix_child was asked and gave

vars == <<frames, hand, disk, linked, evictions, got>>

-----------------------------------------------------------------------------
FrameIds == 0 .. N - 1
Slots == 0 .. Fanout - 1
Last == Fanout - 1
PageIds == 0 .. Fanout
Root == 0                   \* root_frame, and the root's page id

(* A swizzle_ptr_t: the tag bit tells a frame's address from a page id.     *)
Id(p) == [page |-> p]
Swz(f) == [frame |-> f]
IsSwizzled(x) == DOMAIN x = {"frame"}
Pointer == {Id(p) : p \in PageIds} \cup {Swz(f) : f \in FrameIds}

(* Keys and the leaf flag play no part in caching.                          *)
Page == [self : PageIds, children : [Slots -> Pointer]]
Zeroed == [self |-> 0, children |-> [s \in Slots |-> Id(0)]]
Child(s) == s + 1

Frame == [page : Page, pid : PageIds, dirty : BOOLEAN, used : BOOLEAN, ref : BOOLEAN,
          parent : FrameIds \cup {NoFrame}, slot : Slots]
Unused == [page |-> Zeroed, pid |-> 0, dirty |-> FALSE, used |-> FALSE, ref |-> FALSE,
           parent |-> NoFrame, slot |-> 0]

(* main: the root's children are pages 1, 2, ...; its last slot is empty.   *)
Image(p) ==
  [self |-> p,
   children |-> [s \in Slots |-> Id(IF p = Root /\ s # Last THEN Child(s) ELSE 0)]]

Init ==
  /\ disk = [p \in PageIds |-> Image(p)]
  /\ frames = [f \in FrameIds |->
                 IF f = Root THEN [Unused EXCEPT !.used = TRUE, !.page = Image(Root)] ELSE Unused]
  /\ hand = 0 /\ linked = FALSE /\ evictions = 0
  /\ got = [slot |-> 0, frame |-> NoFrame]

-----------------------------------------------------------------------------
(* Steps of fix_child and its callees, on the frames F.                     *)

Follow(F, s) == F[Root].page.children[s]

Patch(F, f, s, x) ==
  [F EXCEPT ![f] = [@ EXCEPT !.page.children[s] = x, !.dirty = TRUE]]

(* Seeded bug: the page id goes into the victim's own slot.                 *)
UnswizzleOwn(F, v) ==
  IF F[v].parent = NoFrame THEN F
  ELSE Patch(F, v, F[v].slot, Id(F[v].pid))

Unswizzle(F, v) ==
  IF F[v].parent = NoFrame THEN F
  ELSE Patch(F, F[v].parent, F[v].slot, Id(F[v].pid))

(* Seeded bug: the frame loaded is not marked as in use.                    *)
LoadUnmarked(F, D, f, p, s) ==
  [F EXCEPT ![f] = [page |-> D[p], pid |-> p, dirty |-> FALSE, used |-> FALSE, ref |-> TRUE,
                    parent |-> Root, slot |-> s]]

(* The page is read from the disk as it is after the eviction's write.      *)
Load(F, D, f, p, s) ==
  [F EXCEPT ![f] = [page |-> D[p], pid |-> p, dirty |-> FALSE, used |-> TRUE, ref |-> TRUE,
                    parent |-> Root, slot |-> s]]

(* The hand passes, clearing them, over the frames with ref_bit set, and    *)
(* stops at the first without: the one it started from if there is none.    *)
Ahead(f) == (f + N - hand) % N
Passed(f) == \A g \in FrameIds : Ahead(g) <= Ahead(f) => frames[g].ref
AllSet == \A g \in FrameIds : frames[g].ref
IsVictim(v) ==
  IF AllSet THEN v = hand
  ELSE ~ frames[v].ref /\ \A g \in FrameIds : Ahead(g) < Ahead(v) => frames[g].ref

Sweep == [f \in FrameIds |->
            IF Passed(f) THEN [frames[f] EXCEPT !.ref = FALSE] ELSE frames[f]]

After(v) == (v + 1) % N

Flush(F, v) == IF F[v].dirty THEN [disk EXCEPT ![F[v].pid] = F[v].page] ELSE disk

-----------------------------------------------------------------------------
Fixable(s) == s # Last \/ linked

Hit(s) ==
  /\ Fixable(s) /\ IsSwizzled(Follow(frames, s))
  /\ LET g == Follow(frames, s).frame IN
     /\ frames' = [frames EXCEPT ![g].ref = TRUE]
     /\ got' = [slot |-> s, frame |-> g]
  /\ UNCHANGED <<hand, disk, linked, evictions>>

Free == {f \in FrameIds : ~ frames[f].used}

MissFree(s) ==
  /\ Fixable(s) /\ ~ IsSwizzled(Follow(frames, s)) /\ Free # {}
  /\ \E f \in Free :
       /\ \A g \in Free : f <= g
       /\ frames' = Patch(Load(frames, disk, f, Follow(frames, s).page, s), Root, s, Swz(f))
       /\ got' = [slot |-> s, frame |-> f]
  /\ UNCHANGED <<hand, disk, linked, evictions>>

MissEvict(s) ==
  /\ Fixable(s) /\ ~ IsSwizzled(Follow(frames, s)) /\ Free = {}
  /\ evictions < MaxEvict
  /\ \E v \in FrameIds :
       LET F == Unswizzle(Sweep, v)
           p == Follow(frames, s).page
       IN /\ IsVictim(v)
          /\ hand' = After(v)
          /\ disk' = Flush(F, v)
          /\ frames' = Patch(Load(F, disk', v, p, s), Root, s, Swz(v))
          /\ got' = [slot |-> s, frame |-> v]
  /\ evictions' = evictions + 1
  /\ UNCHANGED linked

(* main: "Root points slot 3 to disk Page 4", in memory only.               *)
Link ==
  /\ ~ linked /\ linked' = TRUE
  /\ frames' = [frames EXCEPT ![Root].page.children[Last] = Id(Child(Last))]
  /\ UNCHANGED <<hand, disk, evictions, got>>

Next == Link \/ \E s \in Slots : Hit(s) \/ MissFree(s) \/ MissEvict(s)

Spec == Init /\ [][Next]_vars

-----------------------------------------------------------------------------
(* The fields have the types of the source's, the hand stays in the pool.   *)
TypeOK ==
  /\ frames \in [FrameIds -> Frame] /\ hand \in FrameIds
  /\ disk \in [PageIds -> Page]
  /\ linked \in BOOLEAN /\ evictions \in 0 .. MaxEvict
  /\ got.slot \in Slots /\ got.frame \in FrameIds \cup {NoFrame}

(* As long as nothing was evicted: a child slot of the root that is         *)
(* swizzled leads to the one frame that holds this child, which knows its   *)
(* way back.                                                                *)
Cached ==
  evictions = 0 =>
    \A s \in Slots : IsSwizzled(Follow(frames, s)) =>
      LET g == frames[Follow(frames, s).frame] IN
      /\ g.used /\ g.parent = Root /\ g.slot = s
      /\ g.pid = Child(s) /\ g.page.self = Child(s)
      /\ \A f \in FrameIds : frames[f].used /\ frames[f].pid = Child(s) => frames[f] = g

(* The comment in main: the root is "permanently" in frame 0, the one that  *)
(* main goes on using as root_frame.                                        *)
RootStays == frames[Root].used /\ frames[Root].pid = Root

(* Why it does not stay: nothing sets its ref_bit, so that a pool that is   *)
(* full for the first time evicts the root before any other page.           *)
RootGoesFirst == [][evictions = 0 /\ evictions' = 1 => got'.frame = Root]_vars

(* What the pool writes back is the frame that main uses as the root's,     *)
(* whichever page it holds by then: a page that goes to disk with pointers  *)
(* in it was in this frame, and no other page on disk ever changes.         *)
OnlyRootWritten == [][disk' # disk => got'.frame = Root]_vars

(* Comments in main and unswizzle_frame: what is on disk are page ids.  It  *)
(* does not hold: once the root was evicted, pages go to disk with pointers *)
(* to frames in them (the README says how to see it).                       *)
DiskIds == \A p \in PageIds, s \in Slots : ~ IsSwizzled(disk[p].children[s])
=============================================================================
