---------------------------- MODULE LinearProbe ----------------------------
(***************************************************************************)
(* The buffer pool table of src/odin/hashtable1.odin: a fixed array of      *)
(* buckets with linear probing and tombstones.  One action is one iteration *)
(* of a probing loop.                                                       *)
(***************************************************************************)
EXTENDS Probing, FiniteSets

CONSTANTS
  Frame,     \* the frame ids
  NoPage,    \* the page_id of a bucket never used; EMPTY tells, nobody reads it
  NoFrame,   \* the frame_id of such a bucket, and of a reply without a frame
  None,      \* -1, as first_tombstone
  Cap        \* create_table's capacity

ASSUME CapAssumption == Cap \in Nat /\ Cap >= 1
ASSUME NoneAssumption == None \notin Nat

VARIABLES
  buckets, count,  \* Buffer_Pool_Table
  pc,              \* "idle", "enter" or, in the loop, "scan"
  call, ret,       \* the call being served or the last one; the last reply
  idx, n,          \* curr_idx, and the iterations done
  tomb             \* first_tombstone

vars == <<buckets, count, pc, call, ret, idx, n, tomb>>

Bucket == [state : {"EMPTY", "OCCUPIED", "TOMBSTONE"},
           page : Page \cup {NoPage}, frame : Frame \cup {NoFrame}]
Unused == [state |-> "EMPTY", page |-> NoPage, frame |-> NoFrame]
Entry(p, f) == [state |-> "OCCUPIED", page |-> p, frame |-> f]

Calls == [op : {"lookup", "delete"}, page : Page, frame : {NoFrame}]
         \cup [op : {"insert"}, page : Page, frame : Frame]
Replies == [ok : BOOLEAN, frame : Frame \cup {NoFrame}]
No == [ok |-> FALSE, frame |-> NoFrame]
Yes == [ok |-> TRUE, frame |-> NoFrame]

Init ==
  /\ buckets = [j \in 0 .. Cap - 1 |-> Unused] /\ count = 0
  /\ pc = "idle" /\ call \in Calls /\ ret = No
  /\ idx = 0 /\ n = 0 /\ tomb = None

Return(r) ==
  /\ pc' = "idle" /\ ret' = r /\ idx' = 0 /\ n' = 0 /\ tomb' = None
  /\ UNCHANGED call

Begin ==
  /\ pc = "idle"
  /\ pc' = "enter" /\ call' \in Calls
  /\ UNCHANGED <<buckets, count, ret, idx, n, tomb>>

-----------------------------------------------------------------------------
(* Seeded bug: the last free bucket counts as none.                         *)
FullTooEarly == count >= Cap - 1

Full == count >= Cap

Start ==
  /\ pc = "enter" /\ ~ (call.op = "insert" /\ Full)
  /\ pc' = "scan" /\ idx' = Home(call.page, Cap)
  /\ UNCHANGED <<buckets, count, call, ret, n, tomb>>

AtEmpty == buckets[idx].state = "EMPTY"
AtTombstone == buckets[idx].state = "TOMBSTONE"

(* Seeded bug: a tombstone's old page id is still compared.                 *)
HitAnyState == ~ AtEmpty /\ buckets[idx].page = call.page

Hit == buckets[idx].state = "OCCUPIED" /\ buckets[idx].page = call.page

Advance ==
  /\ pc = "scan" /\ n < Cap /\ ~ AtEmpty /\ ~ Hit
  /\ idx' = Succ(idx, Cap) /\ n' = n + 1
  /\ tomb' = IF call.op = "insert" /\ AtTombstone /\ tomb = None THEN idx ELSE tomb
  /\ UNCHANGED <<buckets, count, pc, call, ret>>

(* The probe is over and the page is not in the table.                      *)
Exhausted == pc = "scan" /\ (n = Cap \/ AtEmpty)

NotFound ==
  /\ Exhausted /\ call.op # "insert"
  /\ Return(No)
  /\ UNCHANGED <<buckets, count>>

SearchHit ==
  /\ pc = "scan" /\ n < Cap /\ Hit /\ call.op = "lookup"
  /\ Return([ok |-> TRUE, frame |-> buckets[idx].frame])
  /\ UNCHANGED <<buckets, count>>

(* Seeded bug: a deleted bucket is made EMPTY again.                        *)
DeleteToEmpty ==
  /\ pc = "scan" /\ n < Cap /\ Hit /\ call.op = "delete"
  /\ buckets' = [buckets EXCEPT ![idx].state = "EMPTY"]
  /\ count' = count - 1
  /\ Return(Yes)

DeleteHit ==
  /\ pc = "scan" /\ n < Cap /\ Hit /\ call.op = "delete"
  /\ buckets' = [buckets EXCEPT ![idx].state = "TOMBSTONE"]
  /\ count' = count - 1
  /\ Return(Yes)

UpdateHit ==
  /\ pc = "scan" /\ n < Cap /\ Hit /\ call.op = "insert"
  /\ buckets' = [buckets EXCEPT ![idx].frame = call.frame]
  /\ Return(Yes)
  /\ UNCHANGED count

Target == IF tomb # None THEN tomb ELSE idx
CanInsert == Exhausted /\ (n = Cap => tomb # None)

Insert ==
  /\ CanInsert /\ call.op = "insert"
  /\ buckets' = [buckets EXCEPT ![Target] = Entry(call.page, call.frame)]
  /\ count' = count + 1
  /\ Return(Yes)

Refuse ==
  /\ call.op = "insert"
  /\ pc # "idle" /\ IF pc = "enter" THEN Full ELSE Exhausted /\ ~ CanInsert
  /\ Return(No)
  /\ UNCHANGED <<buckets, count>>

Next ==
  \/ Begin \/ Start \/ Advance \/ NotFound \/ SearchHit \/ DeleteHit
  \/ UpdateHit \/ Insert \/ Refuse

Spec == Init /\ [][Next]_vars

-----------------------------------------------------------------------------
Occupied == {j \in 0 .. Cap - 1 : buckets[j].state = "OCCUPIED"}
Steps(j) == Dist(j, Home(call.page, Cap), Cap)
Present(p) == \E j \in Occupied : buckets[j].page = p

(* The variables have the types of the table's fields and the procedures'   *)
(* locals.                                                                  *)
TypeOK ==
  /\ buckets \in [0 .. Cap - 1 -> Bucket] /\ count \in 0 .. Cap
  /\ pc \in {"idle", "enter", "scan"} /\ call \in Calls /\ ret \in Replies
  /\ idx \in 0 .. Cap - 1 /\ n \in 0 .. Cap
  /\ tomb \in 0 .. Cap - 1 \cup {None}

(* A probe for a stored page meets no EMPTY bucket on its way, and no page  *)
(* is stored twice, whatever was deleted and reinserted before.             *)
Layout ==
  \A j \in Occupied :
    /\ buckets[j].page \in Page
    /\ \A i \in 0 .. Cap - 1 :
         Dist(i, Home(buckets[j].page, Cap), Cap) < Dist(j, Home(buckets[j].page, Cap), Cap)
           => buckets[i].state # "EMPTY"
    /\ \A k \in Occupied : buckets[k].page = buckets[j].page => k = j

(* The count is the number of OCCUPIED buckets: the check at the head of    *)
(* insert is about them and not about tombstones.                           *)
Counted == count = Cardinality(Occupied)

(* In the loop: the first n buckets from home were not EMPTY and did not    *)
(* hold the page; first_tombstone is one of them; and an insertion that saw *)
(* no tombstone saw only other pages.                                       *)
Scanned ==
  IF pc # "scan"
    THEN n = 0 /\ tomb = None
    ELSE
      /\ n < Cap => n = Steps(idx)
      /\ \A j \in 0 .. Cap - 1 : Steps(j) < n =>
           /\ buckets[j].state # "EMPTY"
           /\ ~ (j \in Occupied /\ buckets[j].page = call.page)
           /\ call.op = "insert" /\ tomb = None => j \in Occupied
      /\ tomb # None => /\ call.op = "insert" /\ Steps(tomb) < n
                        /\ buckets[tomb].state = "TOMBSTONE"
      /\ call.op = "insert" => count < Cap

(* insert returns false only when every bucket is OCCUPIED: the "return     *)
(* false" after the loop is never what refuses a page.                      *)
RefusedOnlyFull ==
  [][call.op = "insert" /\ pc # "idle" /\ pc' = "idle" /\ ~ ret'.ok
       => Occupied = 0 .. Cap - 1]_vars

(* The comment in insert: a page already present has its mapping updated.   *)
(* It does not hold when the table is full.                                 *)
UpdatesPresent ==
  [][call.op = "insert" /\ pc # "idle" /\ pc' = "idle" /\ Present(call.page)
       => ret'.ok]_vars

(* The table is a map, except that a full one refuses updates too.          *)
Contents == {<<buckets[j].page, buckets[j].frame>> : j \in Occupied}
Phase == IF pc = "idle" THEN "idle" ELSE "called"
Map == INSTANCE PageMap WITH map <- Contents, phase <- Phase, reply <- ret,
                             MayRefuseUpdate <- TRUE
Refines == Map!Spec
=============================================================================
