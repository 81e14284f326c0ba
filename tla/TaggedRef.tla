----------------------------- MODULE TaggedRef -----------------------------
(***************************************************************************)
(* The tagged references of src/c/pointersw1.c and src/c/pointersw3.c: one  *)
(* word holds a page id with its top bit set or the address of the page in  *)
(* memory.  Following it brings the page in and rewrites the word; in the   *)
(* second program evicting the page writes the id back.  The callers here   *)
(* follow and evict in any order, and from pages brought in too; in the     *)
(* first program, where a page has no reference, only from the root.        *)
(***************************************************************************)
EXTENDS Naturals, Functions

CONSTANTS
  Width,    \* bits of a word: 64 in the source
  Addr,     \* what malloc may give: words with the top bit clear, not 0
  PageId    \* the page the root refers to

VARIABLES
  program,   \* "pointersw1" or "pointersw3"
  root,      \* the root's reference
  heap       \* the pages in memory: address -> [page_id, child]

vars == <<program, root, heap>>

UNSWIZZLED_TAG == 2 ^ (Width - 1)
is_swizzled(ref) == (ref \div UNSWIZZLED_TAG) % 2 = 0
make_unswizzled(page_id) ==
  IF is_swizzled(page_id) THEN page_id + UNSWIZZLED_TAG ELSE page_id
get_page_id(ref) == ref % UNSWIZZLED_TAG

TaggedAssumption ==
  /\ UNSWIZZLED_TAG \in Nat \ {0} /\ PageId \in 0 .. UNSWIZZLED_TAG - 1
  /\ Addr \subseteq 1 .. UNSWIZZLED_TAG - 1

Init ==
  /\ program \in {"pointersw1", "pointersw3"}
  /\ root = make_unswizzled(PageId) /\ heap = << >>

(* The references there are: the root's, and in pointersw3 each page's.     *)
Root == 0
Parents == {Root} \cup (IF program = "pointersw3" THEN DOMAIN heap ELSE {})
Child(p) == IF p = Root THEN root ELSE heap[p].child

SetChild(p, ref, h) ==
  IF p = Root THEN root' = ref /\ heap' = h
              ELSE heap' = [h EXCEPT ![p].child = ref] /\ UNCHANGED root

(* mock_disk_fetch, or buffer_pool_fetch_page.                              *)
Fetched(page_id) == [page_id |-> page_id, child |-> make_unswizzled(0)]

With(a, page) == [b \in DOMAIN heap \cup {a} |-> IF b = a THEN page ELSE heap[b]]

(* resolve_and_swizzle, or resolve_page_ref: the slow path.  On the fast    *)
(* path nothing changes.                                                    *)
Resolve(p) ==
  /\ ~ is_swizzled(Child(p))
  /\ \E a \in Addr \ DOMAIN heap :
       SetChild(p, a, With(a, Fetched(get_page_id(Child(p)))))
  /\ UNCHANGED program

(* Seeded bug: the parent keeps the address.                                *)
EvictOnly(p) ==
  /\ program = "pointersw3" /\ is_swizzled(Child(p))
  /\ heap' = Restrict(heap, DOMAIN heap \ {Child(p)})
  /\ UNCHANGED <<program, root>>

(* unswizzle_and_evict; on a page that is not in memory it does nothing.    *)
Evict(p) ==
  /\ program = "pointersw3" /\ is_swizzled(Child(p))
  /\ SetChild(p, make_unswizzled(heap[Child(p)].page_id),
              Restrict(heap, DOMAIN heap \ {Child(p)}))
  /\ UNCHANGED program

Next == \E p \in Parents : Resolve(p) \/ Evict(p)

Spec == Init /\ [][Next]_vars

-----------------------------------------------------------------------------
(* A reference made from a page id leads to that page through any rounds of *)
(* fetching and eviction: it holds the id, or the address of a page in      *)
(* memory that has the id; two references never lead to the same memory.    *)
LeadsTo(ref, page_id) ==
  IF is_swizzled(ref) THEN ref \in DOMAIN heap /\ heap[ref].page_id = page_id
                      ELSE get_page_id(ref) = page_id
RefLeads ==
  /\ LeadsTo(root, PageId)
  /\ \A p \in DOMAIN heap : LeadsTo(heap[p].child, 0)
  /\ \A p, q \in DOMAIN heap \cup {Root} :
       is_swizzled(Child(p)) /\ Child(p) = Child(q) => p = q
=============================================================================
