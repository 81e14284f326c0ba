----------------------------- MODULE FlatTree -----------------------------
(***************************************************************************)
(* src/c/flatast.c: an expression tree of pointers is lowered to an array   *)
(* of nodes that name their children by index, the tree is freed, and the   *)
(* array is evaluated.  The tree is built bottom-up as main builds its own, *)
(* from any leaves.  lower's recursion is a stack with one frame a call.    *)
(* realloc is not looked at by the source and is modelled where it succeeds.*)
(***************************************************************************)
EXTENDS Integers, Sequences, Functions

CONSTANTS
  Numbers,         \* the values of number leaves
  FirstCapacity,   \* 16 in the source
  MaxNodes         \* bound: the nodes of a tree

VARIABLES
  pc,               \* "build", "lower", "lowered", "freed" or "done"
  ast,              \* the tree's nodes, in the order of their malloc
  loose,            \* those without a parent yet
  frames,           \* the calls of lower that have not returned
  nodes, capacity,  \* FlatAst; count is Len(nodes)
  root, result

vars == <<pc, ast, loose, frames, nodes, capacity, root, result>>

None == -1
Leaf(kind, v) == [kind |-> kind, value |-> v, left |-> None, right |-> None]
Binary(kind, l, r) == [kind |-> kind, value |-> 0, left |-> l, right |-> r]
Leaves == {Leaf("NUMBER", v) : v \in Numbers} \cup {Leaf("VAR", 0)}
IsBinary(n) == n.kind \in {"ADD", "MUL"}

FlatAssumption == FirstCapacity \in Nat \ {0}

Init ==
  /\ pc = "build" /\ ast = <<>> /\ loose = {} /\ frames = <<>>
  /\ nodes = <<>> /\ capacity = 0 /\ root = None /\ result = None

Build ==
  /\ pc = "build" /\ Len(ast) < MaxNodes
  /\ \E n \in Leaves \cup {Binary(k, l, r) : k \in {"ADD", "MUL"}, l, r \in loose} :
       /\ IsBinary(n) => n.left # n.right
       /\ ast' = Append(ast, n)
       /\ loose' = (loose \ {n.left, n.right}) \cup {Len(ast')}
  /\ UNCHANGED <<pc, frames, nodes, capacity, root, result>>

Frame(a) == [node |-> a, left |-> None, right |-> None]

Lower ==
  /\ pc = "build" /\ pc' = "lower"
  /\ \E a \in loose : loose = {a} /\ frames' = <<Frame(a)>>
  /\ UNCHANGED <<ast, loose, nodes, capacity, root, result>>

Top == frames[Len(frames)]
Node == ast[Top.node]
Rest == SubSeq(frames, 1, Len(frames) - 1)

(* The recursive calls, left and then right.                                *)
Descend ==
  /\ pc = "lower" /\ frames # <<>> /\ IsBinary(Node) /\ Top.right = None
  /\ frames' = Append(frames, Frame(IF Top.left = None THEN Node.left ELSE Node.right))
  /\ UNCHANGED <<pc, ast, loose, nodes, capacity, root, result>>

(* Seeded bug: the two indices are swapped.                                 *)
ReceiveSwapped(f, i) == IF f.left = None THEN [f EXCEPT !.left = i] ELSE [f EXCEPT !.left = i, !.right = f.left]

(* The caller takes the index its call returned.                            *)
Receive(f, i) == IF f.left = None THEN [f EXCEPT !.left = i] ELSE [f EXCEPT !.right = i]

(* flat_push: the array grows when it is full.                              *)
Grown == IF Len(nodes) < capacity THEN capacity ELSE IF capacity = 0 THEN FirstCapacity ELSE 2 * capacity

Push ==
  /\ pc = "lower" /\ frames # <<>> /\ (IsBinary(Node) => Top.right # None)
  /\ capacity' = Grown
  /\ nodes' = Append(nodes, [Node EXCEPT !.left = Top.left, !.right = Top.right])
  /\ IF Rest = <<>>
       THEN frames' = <<>> /\ root' = Len(nodes) /\ pc' = "lowered"
       ELSE /\ frames' = [Rest EXCEPT ![Len(Rest)] = Receive(@, Len(nodes))]
            /\ UNCHANGED <<root, pc>>
  /\ UNCHANGED <<ast, loose, result>>

FreeTree ==
  /\ pc = "lowered" /\ pc' = "freed" /\ loose' = {}
  /\ UNCHANGED <<ast, frames, nodes, capacity, root, result>>

(* The value of a node whose children's values are l and r.                 *)
Value(n, l, r) ==
  CASE n.kind = "NUMBER" -> n.value
    [] n.kind = "VAR"    -> 42
    [] n.kind = "ADD"    -> l + r
    [] n.kind = "MUL"    -> l * r

(* The array of flat nodes, from index 0.                                   *)
FlatNode == [i \in 0 .. Len(nodes) - 1 |-> nodes[i + 1]]

eval_flat[i \in DOMAIN FlatNode] ==
  Value(FlatNode[i], eval_flat[FlatNode[i].left], eval_flat[FlatNode[i].right])

EvalFlat ==
  /\ pc = "freed" /\ pc' = "done"
  /\ result' = eval_flat[root] /\ nodes' = <<>> /\ capacity' = 0
  /\ UNCHANGED <<ast, loose, frames, root>>

Next == Build \/ Lower \/ Descend \/ Push \/ FreeTree \/ EvalFlat

Spec == Init /\ [][Next]_vars

-----------------------------------------------------------------------------
(* An array is a copy of the part D of the tree when m gives every node of  *)
(* D its own index and the node there is the same with its children's       *)
(* indices in place of the children, who come first, left before right.     *)
Flattened(D, m) ==
  \A a \in D :
    /\ ~ IsBinary(ast[a]) => FlatNode[m[a]] = ast[a]
    /\ IsBinary(ast[a]) => /\ ast[a].left \in D /\ ast[a].right \in D
                           /\ m[ast[a].left] < m[ast[a].right] /\ m[ast[a].right] < m[a]
                           /\ FlatNode[m[a]] = Binary(ast[a].kind, m[ast[a].left], m[ast[a].right])

(* The indices handed up to a caller are those of its children.             *)
Received(f, D, m) ==
  IsBinary(ast[f.node]) =>
    /\ f.left # None => ast[f.node].left \in D /\ m[ast[f.node].left] = f.left
    /\ f.right # None => ast[f.node].right \in D /\ m[ast[f.node].right] = f.right

(* At any point of the lowering the array is a copy of the part of the tree *)
(* pushed so far, the indices handed up to a caller stay right through the  *)
(* pushes and growths that follow, and no push is past the capacity; at the *)
(* end the copy is of the whole tree.                                       *)
Copied ==
  /\ Len(nodes) <= capacity
  /\ pc \in {"lower", "lowered", "freed"} =>
       \E D \in SUBSET DOMAIN ast : \E m \in Bijection(D, DOMAIN FlatNode) :
         /\ Flattened(D, m)
         /\ \A k \in DOMAIN frames : Received(frames[k], D, m)
         /\ pc # "lower" => D = DOMAIN ast /\ root = m[Len(ast)]

(* So it is the expression of the tree, and has its value without it.       *)
Meant[a \in DOMAIN ast] == Value(ast[a], Meant[ast[a].left], Meant[ast[a].right])

FlatLowered ==
  /\ Copied
  /\ pc = "done" => result = Meant[Len(ast)]
=============================================================================
