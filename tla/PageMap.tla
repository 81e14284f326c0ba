------------------------------ MODULE PageMap ------------------------------
(***************************************************************************)
(* What every page table of this repository promises its caller: a finite   *)
(* partial map from page identifiers to frame identifiers with lookup,      *)
(* insert-or-update and delete.  A call takes effect at one instant between *)
(* its start and its return, and its reply is computed at that instant.  An *)
(* insertion of an absent page may be refused (no memory, no room); a       *)
(* refused call changes nothing.                                            *)
(***************************************************************************)

CONSTANTS
  Page,            \* page identifiers a caller may use
  Frame,           \* frame identifiers
  NoFrame,         \* what a call or a reply carries when it carries no frame
  MayRefuseUpdate  \* may the insertion of a page already mapped be refused too?

VARIABLES
  map,       \* the set of <<page, frame>> pairs
  phase,     \* "idle", "called", or "applied": in effect but not yet returned
  call,      \* the call being served, or the last one
  reply      \* the reply of the last call that took effect

vars == <<map, phase, call, reply>>

Calls == [op : {"lookup", "delete"}, page : Page, frame : {NoFrame}]
         \cup [op : {"insert"}, page : Page, frame : Frame]
Replies == [ok : BOOLEAN, frame : Frame \cup {NoFrame}]

No == [ok |-> FALSE, frame |-> NoFrame]
Yes == [ok |-> TRUE, frame |-> NoFrame]

Mapped(p) == \E e \in map : e[1] = p
Without(p) == {e \in map : e[1] # p}

Init ==
  /\ map = {}
  /\ phase = "idle"
  /\ call \in Calls
  /\ reply = No

Begin ==
  /\ phase = "idle"
  /\ phase' = "called"
  /\ call' \in Calls
  /\ UNCHANGED <<map, reply>>

(* The reply is handed over at once or after some internal work.            *)
TakeEffect(r) ==
  /\ phase = "called"
  /\ phase' \in {"applied", "idle"}
  /\ reply' = r
  /\ UNCHANGED call

Lookup ==
  /\ call.op = "lookup"
  /\ UNCHANGED map
  /\ \/ \E e \in map : e[1] = call.page /\ TakeEffect([ok |-> TRUE, frame |-> e[2]])
     \/ ~ Mapped(call.page) /\ TakeEffect(No)

Insert ==
  /\ call.op = "insert"
  /\ map' = Without(call.page) \cup {<<call.page, call.frame>>}
  /\ TakeEffect(Yes)

Refuse ==
  /\ call.op = "insert"
  /\ Mapped(call.page) => MayRefuseUpdate
  /\ UNCHANGED map
  /\ TakeEffect(No)

Delete ==
  /\ call.op = "delete"
  /\ map' = Without(call.page)
  /\ TakeEffect(IF Mapped(call.page) THEN Yes ELSE No)

Return ==
  /\ phase = "applied"
  /\ phase' = "idle"
  /\ UNCHANGED <<map, call, reply>>

Next == Begin \/ Lookup \/ Insert \/ Refuse \/ Delete \/ Return

Spec == Init /\ [][Next]_vars
=============================================================================
