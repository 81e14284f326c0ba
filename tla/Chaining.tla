----------------------------- MODULE Chaining -----------------------------
(***************************************************************************)
(* The hash table of src/c/HashTable.c: an array of singly linked chains.   *)
(* One action is one iteration of the loop that walks a chain.  malloc and  *)
(* strdup are not looked at by the source and are modelled where they give  *)
(* something; a node and the copy of its key are allocated and freed as one.*)
(***************************************************************************)
EXTENDS Probing, Functions

CONSTANTS
  Frame,     \* the values stored
  NoFrame,   \* what a call or a reply carries when it carries no value
  Addr,      \* the addresses malloc may give for a node
  Null,
  Size       \* create_table's argument

VARIABLES
  buckets,        \* table->buckets, or Null once it is freed
  heap,           \* the nodes allocated: address -> Node
  pc,             \* "idle", "walk" in a call, "free" in free_table, "freed"
  call, ret,      \* the call being served or the last one; the last reply
  index,          \* index, or i in free_table
  current, prev

vars == <<buckets, heap, pc, call, ret, index, current, prev>>

ChainingAssumption ==
  /\ Size \in Nat \ {0} /\ Hash \in [Page -> Nat]
  /\ Null \notin Addr

Calls == [op : {"lookup", "delete"}, page : Page, frame : {NoFrame}]
         \cup [op : {"insert"}, page : Page, frame : Frame]
No == [ok |-> FALSE, frame |-> NoFrame]
Yes == [ok |-> TRUE, frame |-> NoFrame]

Init ==
  /\ buckets = [i \in 0 .. Size - 1 |-> Null] /\ heap = << >>
  /\ pc = "idle" /\ call = Null /\ ret = No
  /\ index = 0 /\ current = Null /\ prev = Null

Begin ==
  /\ pc = "idle" /\ pc' = "walk"
  /\ call' \in Calls
  /\ index' = Home(call'.page, Size) /\ current' = buckets[index'] /\ prev' = Null
  /\ UNCHANGED <<buckets, heap, ret>>

Hit == pc = "walk" /\ current # Null /\ heap[current].key = call.page
AtEnd == pc = "walk" /\ current = Null

Walk ==
  /\ pc = "walk" /\ ~ Hit /\ ~ AtEnd
  /\ prev' = current /\ current' = heap[current].next
  /\ UNCHANGED <<buckets, heap, pc, call, ret, index>>

Return(r) ==
  /\ pc' = "idle" /\ ret' = r /\ current' = Null /\ prev' = Null
  /\ UNCHANGED <<call, index>>

Answer ==
  /\ \/ Hit /\ call.op = "lookup" /\ Return([ok |-> TRUE, frame |-> heap[current].value])
     \/ AtEnd /\ call.op # "insert" /\ Return(No)
  /\ UNCHANGED <<buckets, heap>>

Update ==
  /\ Hit /\ call.op = "insert"
  /\ heap' = [heap EXCEPT ![current].value = call.frame]
  /\ Return(Yes)
  /\ UNCHANGED buckets

(* create_node, and the new node becomes the head.  Seeded bug: its next    *)
(* stays NULL.                                                              *)
NewAlone == [key |-> call.page, value |-> call.frame, next |-> Null]

New == [key |-> call.page, value |-> call.frame, next |-> buckets[index]]

With(h, a, node) == [b \in DOMAIN h \cup {a} |-> IF b = a THEN node ELSE h[b]]

Prepend ==
  /\ AtEnd /\ call.op = "insert"
  /\ \E a \in Addr \ DOMAIN heap :
       heap' = With(heap, a, New) /\ buckets' = [buckets EXCEPT ![index] = a]
  /\ Return(Yes)

Freed(h, a) == Restrict(h, DOMAIN h \ {a})

(* Seeded bug: always as if the node were the head.                         *)
UnlinkHead ==
  /\ buckets' = [buckets EXCEPT ![index] = heap[current].next]
  /\ heap' = Freed(heap, current)

(* Remove list head, or bypass the node.                                    *)
Unlink ==
  IF prev = Null
    THEN /\ buckets' = [buckets EXCEPT ![index] = heap[current].next]
         /\ heap' = Freed(heap, current)
    ELSE /\ heap' = Freed([heap EXCEPT ![prev].next = heap[current].next], current)
         /\ UNCHANGED buckets

Delete == Hit /\ call.op = "delete" /\ Unlink /\ Return(Yes)

(* free_table: the node's next is read before the node is freed.            *)
FreeTable ==
  /\ pc = "idle" /\ pc' = "free"
  /\ index' = 0 /\ current' = buckets[0]
  /\ UNCHANGED <<buckets, heap, call, ret, prev>>

FreeStep ==
  /\ pc = "free"
  /\ CASE current # Null ->
            /\ heap' = Freed(heap, current) /\ current' = heap[current].next
            /\ UNCHANGED <<buckets, pc, index>>
       [] current = Null /\ index < Size - 1 ->
            /\ index' = index + 1 /\ current' = buckets[index + 1]
            /\ UNCHANGED <<buckets, heap, pc>>
       [] OTHER ->
            /\ pc' = "freed" /\ buckets' = Null
            /\ UNCHANGED <<heap, index, current>>
  /\ UNCHANGED <<call, ret, prev>>

Next ==
  \/ Begin \/ Walk \/ Answer \/ Update \/ Prepend \/ Delete
  \/ FreeTable \/ FreeStep

Spec == Init /\ [][Next]_vars

-----------------------------------------------------------------------------
(* What is reached from the addresses as: what is in every set that holds   *)
(* those of them that are allocated and, with a node, the next one.         *)
Closed(S) == \A b \in S : heap[b].next \in DOMAIN heap => heap[b].next \in S
From(as) ==
  {a \in DOMAIN heap : \A S \in SUBSET DOMAIN heap : as \cap DOMAIN heap \subseteq S /\ Closed(S) => a \in S}

(* The buckets that are still in use; where free_table, or a call, starts.  *)
Live ==
  CASE pc = "freed" -> {}
    [] pc = "free" -> index + 1 .. Size - 1
    [] OTHER -> 0 .. Size - 1
Heads == {buckets[i] : i \in Live} \cup (IF pc = "free" THEN {current} ELSE {})

(* No node is lost or freed too early: what is allocated is what can be     *)
(* reached, no pointer leads to freed memory, and no node has two pointers  *)
(* to it, through insertions at the head, bypasses and the final free_table.*)
ChainOwned ==
  /\ DOMAIN heap = From(Heads)
  /\ \A a \in Heads \cup {heap[b].next : b \in DOMAIN heap} \cup {current} : a = Null \/ a \in DOMAIN heap
  /\ \A a, b \in DOMAIN heap : heap[a].next = heap[b].next => a = b \/ heap[a].next = Null
  /\ \A i, j \in Live : buckets[i] = buckets[j] => i = j \/ buckets[i] = Null
  /\ \A b \in DOMAIN heap : heap[b].next \in Heads => heap[b].next = Null
  /\ pc = "free" => \A i \in Live : buckets[i] = current => current = Null

(* The pairs stored.                                                        *)
Contents == {<<heap[a].key, heap[a].value>> : a \in From(Heads)}
=============================================================================
