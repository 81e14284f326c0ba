------------------------------- MODULE Arena -------------------------------
(***************************************************************************)
(* The arena of src/c/allocator1.c: allocation by bumping an offset, the    *)
(* last block resized in place and any other by moving it, temporary        *)
(* scopes that save and restore the offsets.  The callers and the blocks    *)
(* they hold are part of the model.  An action is a whole call; a call that *)
(* returns NULL changes nothing and is not listed.                          *)
(***************************************************************************)
EXTENDS Naturals

CONSTANTS
  BufLen,   \* backing_buffer_length
  Base,     \* the address of backing_buffer
  Word,     \* size_t and uintptr_t count modulo Word: 2^64
  Sizes,    \* the sizes callers ask for
  Aligns,   \* the alignments they ask for, powers of two
  Ids,      \* names of the blocks callers hold; bound: so many at a time
  Temps     \* the Temp_Arena_Memory values in use; bound likewise

ASSUME ArenaAssumption ==
  /\ BufLen \in Nat /\ Base \in Nat /\ Word \in Nat
  /\ Sizes \subseteq 0 .. Word - 1 /\ Aligns \subseteq Nat \ {0}
  /\ \A al \in Aligns : Base + BufLen + al < Word
  /\ Ids \subseteq Nat \ {0}

VARIABLES
  prev, curr,   \* a->prev_offset and a->curr_offset
  mem,          \* the buffer: 0, or the name of the block that wrote the byte
  blocks,       \* the blocks callers hold
  temps         \* the saved scopes

vars == <<prev, curr, mem, blocks, temps>>

-----------------------------------------------------------------------------
(* A block: its caller has written the first "full" of its "size" bytes.    *)
Block == [live : BOOLEAN, off : Nat, size : Nat, align : Nat, full : Nat]
Dead == [live |-> FALSE, off |-> 0, size |-> 0, align |-> 1, full |-> 0]
New(o, n, al) == [live |-> TRUE, off |-> o, size |-> n, align |-> al, full |-> 0]

Least(a, b) == IF a < b THEN a ELSE b
Cut(b, n) == [b EXCEPT !.size = n, !.full = Least(@, n)]

(* A scope: the offsets saved, and which blocks there were and how large.   *)
Seen(b) == [live |-> b.live, size |-> b.size]
Closed == [open |-> FALSE, prev |-> 0, curr |-> 0, had |-> [i \in Ids |-> Seen(Dead)]]

Init ==
  /\ prev = 0 /\ curr = 0
  /\ mem = [j \in 0 .. BufLen - 1 |-> 0]
  /\ blocks = [i \in Ids |-> Dead]
  /\ temps = [t \in Temps |-> Closed]

-----------------------------------------------------------------------------
AlignForward(p, al) == IF p % al = 0 THEN p ELSE p + (al - (p % al))

(* Seeded bug: the offset is aligned and not the address.                   *)
OffsetOnly(al) == AlignForward(curr, al)

Offset(al) == AlignForward(Base + curr, al) - Base

(* Seeded bug: one byte too many.                                           *)
FitsAlmost(o, n) == (o + n) % Word <= BufLen + 1

Fits(o, n) == (o + n) % Word <= BufLen

Zero(m, lo, hi) == [j \in DOMAIN m |-> IF lo <= j /\ j < hi THEN 0 ELSE m[j]]
Copy(m, from, to, n) ==
  [j \in DOMAIN m |-> IF to <= j /\ j < to + n THEN m[from + (j - to)] ELSE m[j]]

(* A block that is gone or has moved is none of those a scope began with.   *)
Forget(S) ==
  [t \in Temps |-> [temps[t] EXCEPT !.had = [i \in Ids |-> IF i \in S THEN Seen(Dead) ELSE @[i]]]]

(* arena_alloc_align: the block is named i; m is the buffer before.         *)
Bump(i, n, al) ==
  LET o == Offset(al) IN
  /\ Fits(o, n)
  /\ prev' = o /\ curr' = (o + n) % Word
  /\ blocks' = [blocks EXCEPT ![i] = New(o, n, al)]
  /\ mem' = Zero(mem, o, o + n)

NextId(i) == ~ blocks[i].live /\ \A k \in Ids : k < i => blocks[k].live

Alloc(i, n, al) ==
  /\ NextId(i)
  /\ Bump(i, n, al)
  /\ UNCHANGED temps

Live(i) == blocks[i].live
Sized(i) == blocks[i].live /\ blocks[i].size > 0

(* arena_resize_align of a block without bytes.                             *)
ResizeEmpty(i, n, al) ==
  /\ Live(i) /\ ~ Sized(i)
  /\ Bump(i, n, al)
  /\ temps' = Forget({i})

(* Seeded bug: a block that grows in place keeps what was behind it.        *)
WithTailAsIs(m, b, n) == m

WithTail(m, b, n) == IF n > b.size THEN Zero(m, b.off + b.size, b.off + n) ELSE m

(* Seeded bug: any block is taken for the last.                             *)
LastOrBefore(i) == blocks[i].off <= prev

IsLast(i) == blocks[i].off = prev

ResizeInPlace(i, n) ==
  /\ Sized(i) /\ IsLast(i)
  /\ Fits(prev, n)
  /\ curr' = (prev + n) % Word
  /\ mem' = WithTail(mem, blocks[i], n)
  /\ blocks' = [blocks EXCEPT ![i] = Cut(@, n)]
  /\ UNCHANGED <<prev, temps>>

ResizeMove(i, n, al) ==
  /\ Sized(i) /\ ~ IsLast(i)
  /\ LET o == Offset(al)
         b == blocks[i]
     IN /\ Fits(o, n)
        /\ prev' = o /\ curr' = (o + n) % Word
        /\ blocks' = [blocks EXCEPT ![i] = [New(o, n, al) EXCEPT !.full = Least(b.full, n)]]
        /\ mem' = Copy(Zero(mem, o, o + n), b.off, o, Least(b.size, n))
  /\ temps' = Forget({i})

FreeAll ==
  /\ prev' = 0 /\ curr' = 0
  /\ blocks' = [i \in Ids |-> Dead]
  /\ temps' = Forget(Ids)
  /\ UNCHANGED mem

TempBegin(t) ==
  /\ ~ temps[t].open
  /\ temps' = [temps EXCEPT ![t] =
                 [open |-> TRUE, prev |-> prev, curr |-> curr,
                  had |-> [i \in Ids |-> Seen(blocks[i])]]]
  /\ UNCHANGED <<prev, curr, mem, blocks>>

(* The blocks a scope began with live on, at most as large as they were;    *)
(* the others are gone.  Scopes may be ended in any order.                  *)
Kept(t, i) == temps[t].had[i].live

TempEnd(t) ==
  /\ temps[t].open
  /\ prev' = temps[t].prev /\ curr' = temps[t].curr
  /\ blocks' = [i \in Ids |-> IF Kept(t, i)
                                THEN Cut(blocks[i], Least(blocks[i].size, temps[t].had[i].size))
                                ELSE Dead]
  /\ temps' = [Forget({i \in Ids : ~ Kept(t, i)}) EXCEPT ![t] = Closed]
  /\ UNCHANGED mem

(* The caller of block i writes all of it.                                  *)
Write(i) ==
  /\ Sized(i)
  /\ mem' = [j \in DOMAIN mem |->
               IF blocks[i].off <= j /\ j < blocks[i].off + blocks[i].size THEN i ELSE mem[j]]
  /\ blocks' = [blocks EXCEPT ![i].full = blocks[i].size]
  /\ UNCHANGED <<prev, curr, temps>>

Next ==
  \/ \E i \in Ids, n \in Sizes, al \in Aligns :
       Alloc(i, n, al) \/ ResizeEmpty(i, n, al) \/ ResizeMove(i, n, al)
  \/ \E i \in Ids, n \in Sizes : ResizeInPlace(i, n)
  \/ \E i \in Ids : Write(i)
  \/ FreeAll
  \/ \E t \in Temps : TempBegin(t) \/ TempEnd(t)

Spec == Init /\ [][Next]_vars

-----------------------------------------------------------------------------
(* The offsets stay in the buffer, which the memset and memmove calls need. *)
TypeOK ==
  /\ prev \in 0 .. BufLen /\ curr \in 0 .. BufLen
  /\ mem \in [0 .. BufLen - 1 -> Ids \cup {0}]
  /\ blocks \in [Ids -> Block]
  /\ temps \in [Temps -> [open : BOOLEAN, prev : 0 .. BufLen, curr : 0 .. BufLen,
                          had : [Ids -> [live : BOOLEAN, size : Nat]]]]

End(b) == b.off + b.size

(* Blocks that callers may use lie in the used part of the buffer and no    *)
(* two of them share a byte, whatever was resized inside or outside scopes. *)
Disjoint ==
  /\ \A i \in Ids : Live(i) => End(blocks[i]) <= curr
  /\ \A i, k \in Ids : i # k /\ Sized(i) /\ Sized(k) =>
       End(blocks[i]) <= blocks[k].off \/ End(blocks[k]) <= blocks[i].off

(* A block holds what its caller wrote, through moves and resizes of any    *)
(* block, and zeroes where the caller has not written yet.                  *)
Intact ==
  \A i \in Ids : Live(i) =>
    \A j \in 0 .. blocks[i].size - 1 :
      mem[blocks[i].off + j] = IF j < blocks[i].full THEN i ELSE 0

(* A block is at an address of the alignment it was allocated with.         *)
Aligned == \A i \in Ids : Live(i) => (Base + blocks[i].off) % blocks[i].align = 0

(* The comment in arena_resize_align: what cannot fit gets NULL.  It does   *)
(* not hold for sizes so large that the addition wraps.                     *)
NothingTooLarge == \A i \in Ids : Live(i) => End(blocks[i]) <= BufLen
=============================================================================
