----------------------------- MODULE SavedList -----------------------------
(***************************************************************************)
(* src/c/pointersw2.c: a linked list is written out with ids for pointers   *)
(* and read back with pointers for ids.  unswizzle finds the successor of a *)
(* node by the data it holds, and takes no more nodes than it has room for. *)
(* One action is one call, or one iteration of free_list.                   *)
(***************************************************************************)
EXTENDS Naturals, FiniteSetsExt, SequencesExt

CONSTANTS
  Data,        \* what a node holds
  MAX_NODES,   \* the room for saved nodes: 10 in the source
  MaxLength    \* bound: the length of the original list

VARIABLES
  pc,         \* "list", "saved", "restored", "freed", or "undefined"
  original,   \* the data of the original list, in order
  saved,      \* the SavedNodes; the ids are their places
  nodes,      \* the nodes of the restored list not freed: place -> node
  head        \* the next node that free_list takes

vars == <<pc, original, saved, nodes, head>>

NULL == 0

Init ==
  /\ pc = "list" /\ original \in BoundedSeq(Data, MaxLength)
  /\ saved = <<>> /\ nodes = <<>> /\ head = NULL

Count == Min({Len(original), MAX_NODES})

ListAssumption == MAX_NODES \in Nat /\ MaxLength \in Nat

(* Seeded bug: a node is not its own match, but the search goes on from it. *)
IdAfter(i, d) ==
  LET match == {j \in 1 .. Count : j > i + 1 /\ original[j] = d} IN IF match = {} THEN NULL ELSE Min(match)

(* The id given to the successor of node i, which holds d: the first node   *)
(* saved that holds d, if there is one.                                     *)
NextId(i, d) ==
  LET match == {j \in 1 .. Count : original[j] = d} IN IF match = {} THEN NULL ELSE Min(match)

Unswizzle ==
  /\ pc = "list" /\ pc' = "saved"
  /\ saved' = [i \in 1 .. Count |->
       [data |-> original[i], next_id |-> IF i < Len(original) THEN NextId(i, original[i + 1]) ELSE NULL]]
  /\ UNCHANGED <<original, nodes, head>>

Swizzle ==
  /\ pc = "saved" /\ pc' = "restored"
  /\ nodes' = [i \in DOMAIN saved |-> [data |-> saved[i].data, next |-> saved[i].next_id]]
  /\ head' = IF saved = <<>> THEN NULL ELSE 1
  /\ UNCHANGED <<original, saved>>

(* free_list; a node met again after it was freed leaves nothing to say.    *)
FreeNode ==
  /\ pc = "restored" /\ head \in DOMAIN nodes
  /\ nodes' = [i \in DOMAIN nodes \ {head} |-> nodes[i]] /\ head' = nodes[head].next
  /\ UNCHANGED <<pc, original, saved>>

FreeEnds ==
  /\ pc = "restored" /\ head \notin DOMAIN nodes
  /\ pc' = IF head = NULL THEN "freed" ELSE "undefined"
  /\ UNCHANGED <<original, saved, nodes, head>>

Next == Unswizzle \/ Swizzle \/ FreeNode \/ FreeEnds

Spec == Init /\ [][Next]_vars

-----------------------------------------------------------------------------
(* Every saved node but the last refers to one that holds its successor's   *)
(* data, whatever the data.  When no two nodes hold the same, what is left  *)
(* of the restored list at any moment is the end of the original, cut to    *)
(* the room there is; it is read to its NULL and all of it is freed.        *)
ListReloaded ==
  /\ pc # "list" => \A i \in 1 .. Count - 1 :
       saved[i].next_id \in DOMAIN saved /\ saved[saved[i].next_id].data = original[i + 1]
  /\ IsInjective(original) =>
       /\ pc = "restored" =>
            LET first == IF head = NULL THEN Count + 1 ELSE head IN
            /\ DOMAIN nodes = first .. Count
            /\ \A i \in DOMAIN nodes : nodes[i].data = original[i]
       /\ pc # "undefined" /\ (pc = "freed" => DOMAIN nodes = {})
=============================================================================
