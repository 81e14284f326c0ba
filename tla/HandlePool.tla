----------------------------- MODULE HandlePool -----------------------------
(***************************************************************************)
(* The entity pool of src/c/handles2.c: slots with a generation, a stack of *)
(* free slot indices, growth by reallocating both arrays, and handles that  *)
(* pair an index with a generation.  The pool has one user and no call      *)
(* waits, so an action is a whole call.                                     *)
(***************************************************************************)
EXTENDS Naturals, Sequences, FiniteSets

CONSTANTS
  Asked,      \* init_pool's initial_capacity
  GenMod,     \* a generation is a uint32_t: 2^32 in the source
  Outcomes,   \* what the two reallocs of grow_pool may do, slots first
  MaxCap,     \* bound: no growth beyond this many slots
  MaxUses     \* bound: how often a slot is recycled

ASSUME PoolAssumption ==
  /\ Asked \in Nat /\ MaxCap \in Nat /\ MaxUses \in Nat
  /\ GenMod \in Nat /\ GenMod >= 2

(* realloc is external: it fails, extends the block, or moves and frees it. *)
Realloc == {"fails", "extends", "moves"}
ASSUME OutcomesAssumption == Outcomes \subseteq Realloc \X Realloc

VARIABLES
  slots, cap,   \* pool->slots and pool->capacity
  free,         \* pool->free_list[0 .. free_count - 1]
  gone,         \* the arrays of the pool that are freed blocks or overrun
  uses,         \* history: how often each slot's entity was destroyed
  ret           \* the last call and its reply

vars == <<slots, cap, free, gone, uses, ret>>
pool == <<slots, cap, free, gone, uses>>

-----------------------------------------------------------------------------
(* A slot's data names the entity stored: the use of the slot it belongs to,*)
(* or Stray for one written over an entity that was there.                  *)
Slot == [active : BOOLEAN, gen : 0 .. GenMod - 1, data : Nat]
Vacant(g) == [active |-> FALSE, gen |-> g, data |-> 0]
Stray == MaxUses + 1

(* Seeded bug: the loop that pushes stops one index too late.               *)
PushedTooFar(lo, hi) == [k \in 1 .. hi - lo + 1 |-> hi - k]

(* The indices lo .. hi - 1, pushed from the highest down.                  *)
Pushed(lo, hi) == [k \in 1 .. hi - lo |-> hi - k]
Top(s) == s[Len(s)]
Popped(s) == SubSeq(s, 1, Len(s) - 1)

(* A handle, with the use of the slot it was made for as a history field.   *)
Gen(b) == (1 + b) % GenMod
HandleOf(i, b) == [index |-> i, gen |-> Gen(b), use |-> b]
Invalid == [index |-> 0, gen |-> 0, use |-> 0]
Made == {HandleOf(i, b) : i \in 1 .. cap - 1, b \in 0 .. MaxUses}
Handed == {Invalid} \cup
  {h \in Made : h.use < uses[h.index] \/ (h.use = uses[h.index] /\ slots[h.index].active)}

Reply(o, h, ok, d) == [op |-> o, handle |-> h, ok |-> ok, data |-> d]

FirstCap == IF Asked < 2 THEN 2 ELSE Asked

Init ==
  /\ cap = FirstCap
  /\ slots = [i \in 0 .. cap - 1 |-> Vacant(IF i = 0 THEN 0 ELSE 1)]
  /\ free = Pushed(1, cap)
  /\ gone = {}
  /\ uses = [i \in 0 .. cap - 1 |-> 0]
  /\ ret = Reply("init", Invalid, TRUE, 0)

-----------------------------------------------------------------------------
Filled(s, use) == [s EXCEPT !.active = TRUE, !.data = use]

(* Take(S, F, U): the end of create_entity on slots S and free list F.      *)
Take(S, F, U) ==
  LET i == Top(F) IN
  /\ slots' = [S EXCEPT ![i] = Filled(@, U[i])]
  /\ free' = Popped(F)
  /\ uses' = U
  /\ ret' = Reply("create", [index |-> i, gen |-> S[i].gen, use |-> U[i]], TRUE, U[i])

Open == ret.op # "cleanup"

Create ==
  /\ Open /\ gone = {} /\ free # <<>>
  /\ Take(slots, free, uses)
  /\ UNCHANGED <<cap, gone>>

(* Seeded bug: the slots are allocated afresh, and nothing is copied.       *)
WiderAfresh(f, v) == [i \in 0 .. 2 * cap - 1 |-> v]

Wider(f, v) == [i \in 0 .. 2 * cap - 1 |-> IF i < cap THEN f[i] ELSE v]

GrowAndCreate ==
  /\ Open /\ gone = {} /\ free = <<>> /\ 2 * cap <= MaxCap
  /\ \E o \in Outcomes : o[1] # "fails" /\ o[2] # "fails"
  /\ cap' = 2 * cap
  /\ Take(Wider(slots, Vacant(1)), Pushed(cap, 2 * cap), Wider(uses, 0))
  /\ UNCHANGED gone

(* One failed realloc returns false before either result is stored: what    *)
(* the other one moved, the pool still points to where it was.              *)
GrowFail ==
  /\ Open /\ gone = {} /\ free = <<>>
  /\ \E o \in Outcomes :
       /\ "fails" \in {o[1], o[2]}
       /\ gone' = {a \in {"slots", "list"} : o[IF a = "slots" THEN 1 ELSE 2] = "moves"}
  /\ ret' = Reply("create", Invalid, FALSE, 0)
  /\ UNCHANGED <<slots, cap, free, uses>>

(* Seeded bug: the generation is not compared.                              *)
ResolvesActive(h) == h.index # 0 /\ h.index < cap /\ slots[h.index].active

Resolves(h) ==
  /\ h.index # 0 /\ h.index < cap
  /\ slots[h.index].active /\ slots[h.index].gen = h.gen

(* What a lookup reads: nothing, for the invalid handle.                    *)
Legible(h) == h = Invalid \/ "slots" \notin gone

Get(h) ==
  /\ Open /\ Legible(h)
  /\ ret' = IF Resolves(h) THEN Reply("get", h, TRUE, slots[h.index].data)
                           ELSE Reply("get", h, FALSE, 0)
  /\ UNCHANGED pool

DestroyMiss(h) ==
  /\ Open /\ Legible(h) /\ ~ Resolves(h)
  /\ ret' = Reply("destroy", h, FALSE, 0)
  /\ UNCHANGED pool

Released(s) == [s EXCEPT !.active = FALSE, !.gen = (@ + 1) % GenMod]

(* With a freed list too the index is pushed: the count is right, what a    *)
(* later pop reads is not known.                                            *)
Destroy(h) ==
  /\ Open /\ Legible(h) /\ Resolves(h)
  /\ uses[h.index] < MaxUses
  /\ slots' = [slots EXCEPT ![h.index] = Released(@)]
  /\ free' = Append(free, h.index)
  /\ uses' = [uses EXCEPT ![h.index] = @ + 1]
  /\ ret' = Reply("destroy", h, TRUE, slots[h.index].data)
  /\ UNCHANGED <<cap, gone>>

-----------------------------------------------------------------------------
(* The calls on a torn pool.  A freed list gives any index, and the slot of *)
(* that index is written, whoever is in it.  Freed slots give any activity, *)
(* generation and data, whatever was written there: a handle stands for all *)
(* of its index, and Stray for all data.                                    *)
TornCreate ==
  /\ Open /\ gone \in {{"slots"}, {"list"}} /\ free # <<>>
  /\ \E i \in IF gone = {"list"} THEN 0 .. cap - 1 ELSE {Top(free)} :
       /\ slots' = [slots EXCEPT ![i] = Filled(@, IF @.active THEN Stray ELSE uses[i])]
       /\ ret' = Reply("create", [index |-> i, gen |-> slots[i].gen, use |-> uses[i]], TRUE, uses[i])
  /\ free' = Popped(free)
  /\ UNCHANGED <<cap, gone, uses>>

TornGet(h) ==
  /\ Open /\ "slots" \in gone
  /\ \E found \in BOOLEAN : ret' = Reply("get", h, found, Stray)
  /\ UNCHANGED pool

(* A destroy that succeeds on freed slots pushes its index, on the list     *)
(* that is intact.                                                          *)
TornDestroy(h) ==
  /\ Open /\ gone = {"slots"}
  /\ \/ ret' = Reply("destroy", h, FALSE, 0) /\ UNCHANGED free
     \/ /\ Len(free) < cap
        /\ ret' = Reply("destroy", h, TRUE, Stray) /\ free' = Append(free, h.index)
  /\ UNCHANGED <<slots, cap, gone, uses>>

(* The calls that free or overrun what was intact: a growth hands a freed   *)
(* block to realloc, an index popped from a freed list lies outside the     *)
(* slots, a push goes beyond the list.  Nothing is known of the pool from   *)
(* there on, its capacity and its count included: only replies are left.    *)
Ruin ==
  /\ Open
  /\ \/ /\ "list" \in gone \/ (gone # {} /\ free = <<>>)
        /\ \E h \in Handed : ret' = Reply("create", h, h # Invalid, h.use)
     \/ /\ gone = {"slots", "list"} \/ (gone = {"slots"} /\ Len(free) = cap)
        /\ \E h \in Handed \ {Invalid}, ok \in BOOLEAN : ret' = Reply("destroy", h, ok, Stray)
  /\ gone' = {"slots", "list"}
  /\ UNCHANGED <<slots, cap, free, uses>>

Cleanup ==
  /\ Open
  /\ gone' = {"slots", "list"}
  /\ ret' = Reply("cleanup", Invalid, TRUE, 0)
  /\ UNCHANGED <<slots, cap, free, uses>>

Next ==
  \/ Create \/ GrowAndCreate \/ GrowFail
  \/ \E h \in Handed : Get(h) \/ DestroyMiss(h) \/ Destroy(h)
  \/ TornCreate \/ \E h \in Handed \ {Invalid} : TornGet(h) \/ TornDestroy(h)
  \/ Ruin \/ Cleanup

Spec == Init /\ [][Next]_vars

-----------------------------------------------------------------------------
Indices == 1 .. cap - 1
Idle == {i \in Indices : ~ slots[i].active}
Alive(h) == h # Invalid /\ slots[h.index].active /\ uses[h.index] = h.use

(* The fields have the types of handles2.c's, with generations in range;    *)
(* the generation of a slot counts its uses, as far as its width lets it.   *)
TypeOK ==
  /\ cap \in Nat /\ cap >= 2
  /\ slots \in [0 .. cap - 1 -> Slot]
  /\ free \in Seq(Indices)
  /\ gone \subseteq {"slots", "list"}
  /\ uses \in [0 .. cap - 1 -> 0 .. MaxUses]
  /\ \A i \in Indices : slots[i].gen = Gen(uses[i])

(* Of a pool that is not torn: the stack holds every idle index once and no *)
(* other; no slot is handed out while it is in use, none is lost, and no    *)
(* push overruns free_list.                                                 *)
FreeList ==
  gone = {} =>
    /\ \A k \in DOMAIN free : free[k] \in Idle
    /\ \A j, k \in DOMAIN free : free[j] = free[k] => j = k
    /\ Len(free) = Cardinality(Idle)

(* A pool that is not torn: the handle of a living entity gives that        *)
(* entity, before and after growth; another handle gives one only when its  *)
(* slot was recycled a multiple of GenMod times since.                      *)
Answers ==
  [][(gone = {} /\ ret'.op \in {"get", "destroy"} /\ ret'.handle # Invalid) =>
       LET h == ret'.handle
           since == uses[h.index] - h.use
       IN  /\ Alive(h) => ret'.ok /\ ret'.data = h.use
           /\ ret'.ok /\ ~ Alive(h) => since >= GenMod /\ since % GenMod = 0]_vars

(* Of a pool that is not torn, a call changes the slot of a living entity   *)
(* only if it destroys it by its own handle, or by one so old that the      *)
(* generation came round; no creation, growth or failed growth writes it.   *)
Undisturbed ==
  [][gone = {} => \A i \in Indices :
       slots[i].active /\ slots'[i] # slots[i] =>
         /\ ret'.op = "destroy" /\ ret'.ok /\ ret'.handle.index = i
         /\ (uses[i] - ret'.handle.use) % GenMod = 0]_vars

(* The comment in get_entity: a stale handle gives NULL.                    *)
StaleIsNull ==
  [][(ret'.op = "get" /\ ret'.handle # Invalid /\ ~ Alive(ret'.handle)) => ~ ret'.ok]_vars
=============================================================================
