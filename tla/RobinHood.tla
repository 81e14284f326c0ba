----------------------------- MODULE RobinHood -----------------------------
(***************************************************************************)
(* The page table of src/c/rbh.c (and, line for line, of                    *)
(* src/odin/hashtable2.odin): open addressing with Robin Hood displacement, *)
(* early exit on a smaller distance, doubling at 3/4 load and deletion by   *)
(* backward shift.  One action is one iteration of one of the source's      *)
(* loops, so what a loop assumes of the table in the middle of an operation *)
(* is part of the model.  The hash mixer is any function.                   *)
(***************************************************************************)
EXTENDS Probing, FiniteSets

CONSTANTS
  Frame,     \* the frame ids
  NoPage,    \* INVALID_PAGE_ID
  NoFrame,   \* INVALID_FRAME_ID
  InitCap,   \* what next_pow2 returned: 16 or more in the source, less when checked
  MaxCap     \* bound: allocate_slots fails beyond this many slots

ASSUME PageAssumption == NoPage \notin Page
ASSUME CapAssumption == InitCap \in Nat /\ InitCap >= 2 /\ MaxCap \in Nat

VARIABLES
  slots, cap, count,  \* PageTable: its slots, its capacity (mask + 1), its count
  pc,                 \* the loop being run, "idle" between calls
  call,               \* the call being served, or the last one
  ret,                \* the reply of the last call that returned
  idx, dib,           \* idx and cur_dib of the running loop
  inc,                \* "incoming", the entry page_table_insert_raw carries
  new, mig            \* new_slots and i of page_table_resize

table == <<slots, cap, count>>
vars == <<slots, cap, count, pc, call, ret, idx, dib, inc, new, mig>>

-----------------------------------------------------------------------------
(* Slots and positions.                                                     *)

Slot == [page : Page \cup {NoPage}, frame : Frame \cup {NoFrame}, dib : Nat]
Empty == [page |-> NoPage, frame |-> NoFrame, dib |-> 0]
Entry(p, f) == [page |-> p, frame |-> f, dib |-> 0]

Blank(c) == [j \in 0 .. c - 1 |-> Empty]
NoTable == Blank(0)

Calls == [op : {"lookup", "delete"}, page : Page, frame : {NoFrame}]
         \cup [op : {"insert"}, page : Page, frame : Frame]
Replies == [ok : BOOLEAN, frame : Frame \cup {NoFrame}]
No == [ok |-> FALSE, frame |-> NoFrame]
Yes == [ok |-> TRUE, frame |-> NoFrame]

Init ==
  /\ slots = Blank(InitCap) /\ cap = InitCap /\ count = 0
  /\ pc = "idle" /\ call \in Calls /\ ret = No
  /\ idx = 0 /\ dib = 0 /\ inc = Empty
  /\ new = NoTable /\ mig = 0

(* Locals die with the call.                                                *)
Return(r) ==
  /\ pc' = "idle" /\ ret' = r
  /\ idx' = 0 /\ dib' = 0 /\ inc' = Empty /\ new' = NoTable /\ mig' = 0
  /\ UNCHANGED call

-----------------------------------------------------------------------------
(* The probe of page_table_lookup, also run first by page_table_insert and  *)
(* page_table_delete.                                                       *)

Begin ==
  /\ pc = "idle"
  /\ call' \in Calls
  /\ pc' = "probe"
  /\ idx' = Home(call'.page, cap) /\ dib' = 0
  /\ UNCHANGED <<table, ret, inc, new, mig>>

(* Seeded bug: the early exit of a probe also stops at an equal distance.   *)
PassedAtEqual == slots[idx].page = NoPage \/ slots[idx].dib <= dib

Passed == slots[idx].page = NoPage \/ slots[idx].dib < dib
Found == ~ Passed /\ slots[idx].page = call.page

ProbeNext ==
  /\ pc = "probe" /\ ~ Passed /\ ~ Found
  /\ idx' = Succ(idx, cap) /\ dib' = dib + 1
  /\ UNCHANGED <<table, pc, call, ret, inc, new, mig>>

Miss ==
  /\ pc = "probe" /\ Passed /\ call.op # "insert"
  /\ Return(No)
  /\ UNCHANGED table

LookupHit ==
  /\ pc = "probe" /\ Found /\ call.op = "lookup"
  /\ Return([ok |-> TRUE, frame |-> slots[idx].frame])
  /\ UNCHANGED table

InsertHit ==
  /\ pc = "probe" /\ Found /\ call.op = "insert"
  /\ pc' = "update" /\ idx' = Home(call.page, cap) /\ dib' = 0
  /\ UNCHANGED <<table, call, ret, inc, new, mig>>

DeleteHit ==
  /\ pc = "probe" /\ Found /\ call.op = "delete"
  /\ pc' = "shift" /\ dib' = 0
  /\ UNCHANGED <<table, call, ret, idx, inc, new, mig>>

-----------------------------------------------------------------------------
(* page_table_insert of a page that is present: the unbounded second scan.  *)

UpdateNext ==
  /\ pc = "update" /\ slots[idx].page # call.page
  /\ idx' = Succ(idx, cap)
  /\ UNCHANGED <<table, pc, call, ret, dib, inc, new, mig>>

Update ==
  /\ pc = "update" /\ slots[idx].page = call.page
  /\ slots' = [slots EXCEPT ![idx].frame = call.frame]
  /\ Return(Yes)
  /\ UNCHANGED <<cap, count>>

-----------------------------------------------------------------------------
(* page_table_insert of a page that is absent, and page_table_resize.       *)

Overloaded(n, c) == 4 * n > 3 * c       \* n / c > MAX_LOAD_FACTOR
NewCap == 2 * cap

InsertMiss ==
  /\ pc = "probe" /\ Passed /\ call.op = "insert"
  /\ dib' = 0
  /\ \/ /\ ~ Overloaded(count + 1, cap)
        /\ pc' = "place"
        /\ idx' = Home(call.page, cap) /\ inc' = Entry(call.page, call.frame)
        /\ UNCHANGED <<ret, new, mig>>
     \/ /\ Overloaded(count + 1, cap)
        /\ NewCap <= MaxCap
        /\ pc' = "grow" /\ new' = Blank(NewCap) /\ mig' = 0
        /\ idx' = 0
        /\ UNCHANGED <<ret, inc>>
  /\ UNCHANGED <<table, call>>

(* allocate_slots may fail at any size and does beyond MaxCap.              *)
GrowFail ==
  /\ pc = "probe" /\ Passed /\ call.op = "insert"
  /\ Overloaded(count + 1, cap)
  /\ Return(No)
  /\ UNCHANGED table

(* Seeded bug: an entry migrates with the distance it had in the old array. *)
MigrateKeepsDib ==
  /\ pc = "grow" /\ mig < cap
  /\ IF slots[mig].page = NoPage
       THEN mig' = mig + 1 /\ UNCHANGED <<pc, idx, inc>>
       ELSE /\ pc' = "migrate"
            /\ inc' = slots[mig]
            /\ idx' = Home(slots[mig].page, NewCap)
            /\ UNCHANGED mig
  /\ UNCHANGED <<table, call, ret, dib, new>>

MigrateNext ==
  /\ pc = "grow" /\ mig < cap
  /\ IF slots[mig].page = NoPage
       THEN mig' = mig + 1 /\ UNCHANGED <<pc, idx, inc>>
       ELSE /\ pc' = "migrate"
            /\ inc' = [slots[mig] EXCEPT !.dib = 0]
            /\ idx' = Home(slots[mig].page, NewCap)
            /\ UNCHANGED mig
  /\ UNCHANGED <<table, call, ret, dib, new>>

GrowDone ==
  /\ pc = "grow" /\ mig = cap
  /\ slots' = new /\ cap' = NewCap
  /\ new' = NoTable /\ mig' = 0
  /\ pc' = "place"
  /\ idx' = Home(call.page, NewCap) /\ inc' = Entry(call.page, call.frame)
  /\ UNCHANGED <<count, call, ret, dib>>

-----------------------------------------------------------------------------
(* page_table_insert_raw on a table T of c slots.                           *)

Settles(T) == T[idx].page \in {NoPage, inc.page}
Settle(T) ==
  [T EXCEPT ![idx] = IF @.page = NoPage THEN inc ELSE [@ EXCEPT !.frame = inc.frame]]

(* Seeded bug: plain linear probing, no entry is ever displaced.            *)
NeverRobs(T) == FALSE

Robs(T) == inc.dib > T[idx].dib
Rob(T) == IF Robs(T) THEN [T EXCEPT ![idx] = inc] ELSE T
Carry(T) == LET e == IF Robs(T) THEN T[idx] ELSE inc IN [e EXCEPT !.dib = @ + 1]

MigrateStep ==
  /\ pc = "migrate" /\ ~ Settles(new)
  /\ new' = Rob(new) /\ inc' = Carry(new) /\ idx' = Succ(idx, NewCap)
  /\ UNCHANGED <<table, pc, call, ret, dib, mig>>

(* Seeded bug: the migration does not go on to the next slot.               *)
MigrateStays ==
  /\ pc = "migrate" /\ Settles(new)
  /\ new' = Settle(new)
  /\ pc' = "grow" /\ inc' = Empty /\ idx' = 0
  /\ UNCHANGED <<table, call, ret, dib, mig>>

MigrateSettle ==
  /\ pc = "migrate" /\ Settles(new)
  /\ new' = Settle(new)
  /\ pc' = "grow" /\ mig' = mig + 1 /\ inc' = Empty /\ idx' = 0
  /\ UNCHANGED <<table, call, ret, dib>>

PlaceStep ==
  /\ pc = "place" /\ ~ Settles(slots)
  /\ slots' = Rob(slots) /\ inc' = Carry(slots) /\ idx' = Succ(idx, cap)
  /\ UNCHANGED <<cap, count, pc, call, ret, dib, new, mig>>

PlaceSettle ==
  /\ pc = "place" /\ Settles(slots)
  /\ slots' = Settle(slots) /\ count' = count + 1
  /\ Return(Yes)
  /\ UNCHANGED cap

-----------------------------------------------------------------------------
(* The backward shift of page_table_delete; idx is the slot to be filled.   *)

Clear(T, i) == [T EXCEPT ![i] = Empty]
Pull(T, i, c) == [T EXCEPT ![i] = [T[Succ(i, c)] EXCEPT !.dib = @ - 1]]

(* Seeded bug: the shift goes on past an entry that is at its home.         *)
ShiftToEmpty == slots[Succ(idx, cap)].page = NoPage

ShiftEnds == LET n == slots[Succ(idx, cap)] IN n.page = NoPage \/ n.dib = 0

ShiftNext ==
  /\ pc = "shift" /\ ~ ShiftEnds
  /\ slots' = Pull(slots, idx, cap)
  /\ idx' = Succ(idx, cap)
  /\ UNCHANGED <<cap, count, pc, call, ret, dib, inc, new, mig>>

(* Seeded bug: the count is not taken down.                                 *)
ShiftKeepsCount ==
  /\ pc = "shift" /\ ShiftEnds
  /\ slots' = Clear(slots, idx)
  /\ Return(Yes)
  /\ UNCHANGED <<cap, count>>

ShiftDone ==
  /\ pc = "shift" /\ ShiftEnds
  /\ slots' = Clear(slots, idx) /\ count' = count - 1
  /\ Return(Yes)
  /\ UNCHANGED cap

-----------------------------------------------------------------------------
Step ==
  \/ ProbeNext \/ Miss \/ LookupHit \/ InsertHit \/ DeleteHit
  \/ UpdateNext \/ Update
  \/ InsertMiss \/ GrowFail \/ MigrateNext \/ MigrateStep \/ MigrateSettle \/ GrowDone
  \/ PlaceStep \/ PlaceSettle
  \/ ShiftNext \/ ShiftDone

Next == Begin \/ Step

(* A call, once begun, runs: nothing it waits for.  Callers need not call.  *)
Spec == Init /\ [][Next]_vars
FairSpec == Spec /\ WF_vars(Step)

-----------------------------------------------------------------------------
(* The table's layout.                                                      *)

Used(T) == {j \in DOMAIN T : T[j].page # NoPage}

(* Every slot a probe for p passes in its first d steps holds an entry that *)
(* is at least as far from its own home.                                    *)
Path(T, c, p, d) ==
  \A j \in 0 .. c - 1 :
    Dist(j, Home(p, c), c) < d => /\ T[j].page # NoPage
                                  /\ T[j].dib >= Dist(j, Home(p, c), c)

Absent(T, p) == \A j \in DOMAIN T : T[j].page # p

(* The entries at positions J of T can be reached by their probes, and no   *)
(* two of them are for the same page.                                       *)
Placed(T, c, J) ==
  \A j \in J : /\ T[j].dib = Dist(j, Home(T[j].page, c), c)
               /\ Path(T, c, T[j].page, T[j].dib)
               /\ \A k \in J : T[k].page = T[j].page => k = j

(* inc can be put down at idx, or carried past it.                          *)
Carried(T, c) ==
  /\ inc.page \in Page
  /\ inc.dib = Dist(idx, Home(inc.page, c), c)
  /\ Path(T, c, inc.page, inc.dib)
  /\ Absent(T, inc.page)

Pairs(T, J) == {<<T[j].page, T[j].frame>> : j \in J}

(* The slot being filled by a backward shift holds a stale copy.            *)
Live == IF pc = "shift" THEN Used(slots) \ {idx} ELSE Used(slots)
Done == {j \in Used(slots) : j < mig}

-----------------------------------------------------------------------------
(* Properties.                                                              *)

(* The variables have the types of rbh.c's fields and locals; in particular *)
(* every position a loop dereferences is inside the array it indexes.       *)
TypeOK ==
  /\ cap \in Nat /\ cap >= 2 /\ count \in Nat
  /\ slots \in [0 .. cap - 1 -> Slot]
  /\ pc \in {"idle", "probe", "update", "grow", "migrate", "place", "shift"}
  /\ call \in Calls /\ ret \in Replies
  /\ idx \in 0 .. (IF pc = "migrate" THEN NewCap ELSE cap) - 1
  /\ dib \in Nat /\ inc \in Slot /\ mig \in 0 .. cap
  /\ new \in [0 .. (IF pc \in {"grow", "migrate"} THEN NewCap ELSE 0) - 1 -> Slot]

(* Between any two iterations of any loop, every stored entry is where its  *)
(* probe will find it before the early exit of page_table_lookup stops it,  *)
(* and no page is stored twice: displacement during an insertion, the       *)
(* rebuild during a growth and the backward shift of a deletion included.   *)
Layout == Placed(slots, cap, Live)

(* pt->count is the number of occupied slots and never passes 3/4 of the    *)
(* capacity, so that an empty slot ends every probe.                        *)
Counted ==
  /\ count = Cardinality(Used(slots))
  /\ ~ Overloaded(IF pc = "place" THEN count + 1 ELSE count, cap)

(* What each loop knows when it is entered or repeated.  A probe has passed *)
(* its page nowhere; the second scan of an update will meet its page; the   *)
(* entry carried by a raw insertion is in no slot of the table it goes to;  *)
(* the new array of a growth holds exactly what the first mig slots held.   *)
InFlight ==
  /\ pc = "probe" =>
       /\ dib = Dist(idx, Home(call.page, cap), cap)
       /\ Path(slots, cap, call.page, dib)
       /\ \A j \in 0 .. cap - 1 : Dist(j, Home(call.page, cap), cap) < dib
                                    => slots[j].page # call.page
  /\ pc \in {"update", "grow", "migrate"} => call.op = "insert"
  /\ pc = "update" => ~ Absent(slots, call.page)
  /\ pc \in {"grow", "migrate"} =>
       /\ Absent(slots, call.page)
       /\ ~ Overloaded(count + 1, NewCap)
       /\ Placed(new, NewCap, Used(new))
       /\ Cardinality(Used(new)) = Cardinality(Done)
       /\ pc = "grow" => Pairs(new, Used(new)) = Pairs(slots, Done)
  /\ pc = "migrate" =>
       /\ mig \in Used(slots)
       /\ Carried(new, NewCap)
       /\ Pairs(new, Used(new)) \cup {<<inc.page, inc.frame>>}
            = Pairs(slots, Done \cup {mig})
  /\ pc = "place" => Carried(slots, cap)
  /\ pc = "shift" => /\ idx \in Used(slots)
                     /\ \A j \in Live : slots[j].page # call.page

(* The table is a map: every lookup, insertion, update and deletion has the *)
(* effect and the reply PageMap gives it, at one instant of the call.       *)
Contents == Pairs(slots, Live) \cup IF pc = "place" THEN {<<inc.page, inc.frame>>} ELSE {}
Phase == CASE pc = "idle" -> "idle"
           [] pc \in {"place", "shift"} -> "applied"
           [] OTHER -> "called"
Reply == IF Phase = "applied" THEN Yes ELSE ret

Map == INSTANCE PageMap WITH map <- Contents, phase <- Phase, reply <- Reply,
                             MayRefuseUpdate <- FALSE

Refines == Map!Spec

(* Every call returns: the loops of rbh.c, written "while (true)", end.     *)
Terminates == pc # "idle" ~> pc = "idle"
=============================================================================
