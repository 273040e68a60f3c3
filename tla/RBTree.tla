------------------------------- MODULE RBTree -------------------------------
(***************************************************************************)
(* The red-black tree of src/src/base/rb-tree.c, as far as it is written:  *)
(* insertion is complete, removal is a stub.                               *)
(*                                                                         *)
(* rb_tree_insert links in a red node and then repairs colors from there   *)
(* upwards through five cases; each call of case 1, with all it calls      *)
(* until case 1 is called again, is one step.  The insertion compares      *)
(* values, the lookup compares keys, with the same compare function: keys  *)
(* and values are taken from one ordered set.                              *)
(*                                                                         *)
(* An operator X_Suffix next to an operator X is X with a plausible bug;   *)
(* no action uses it.                                                      *)
(***************************************************************************)
EXTENDS Integers, Sequences, FiniteSets

CONSTANTS
  Datum,    \* keys and values: integers, for compare_func orders them totally
  Inserted, \* the pairs of a key and a value that a caller may insert
  Cell,     \* the addresses malloc can return
  NULL      \* the null pointer

LEFT == 0
RIGHT == 1
Side == {LEFT, RIGHT}

Pointer == Cell \cup {NULL}
Node == [color : {"red", "black"}, key : Datum, value : Datum,
         parent : Pointer, children : [Side -> Pointer]]

VARIABLES
  pc,         \* "none" (no tree), "idle", "insert"
  root_node,
  heap,       \* the allocated nodes
  num_nodes,
  node,       \* the node insertion case 1 is called with
  last        \* the last call and what it returns (1 for a node)

vars == <<pc, root_node, heap, num_nodes, node, last>>

-----------------------------------------------------------------------------
(* The operations on nodes are operators on the tree t, a record of the    *)
(* root and of the nodes.                                                  *)
Tree == [root |-> root_node, heap |-> heap]
Becomes(t) == root_node' = t.root /\ heap' = t.heap

Child(t, n, s) == t.heap[n].children[s]
Parent(t, n) == t.heap[n].parent
IsRed(t, n) == n # NULL /\ t.heap[n].color = "red"
Paint(t, n, c) == [t EXCEPT !.heap[n].color = c]
SetParent(t, n, p) == IF n = NULL THEN t ELSE [t EXCEPT !.heap[n].parent = p]

(* rb_tree_node_side, rb_tree_node_sibling, rb_tree_node_uncle *)
NodeSide(t, n) == IF Child(t, Parent(t, n), LEFT) = n THEN LEFT ELSE RIGHT
Sibling(t, n) == Child(t, Parent(t, n), 1 - NodeSide(t, n))
Uncle(t, n) == Sibling(t, Parent(t, n))

(* rb_tree_node_replace *)
Replace(t, n1, n2) ==
  LET p == Parent(t, n1)
      u == SetParent(t, n2, p)
  IN  IF p = NULL THEN [u EXCEPT !.root = n2]
      ELSE [u EXCEPT !.heap[p].children[NodeSide(t, n1)] = n2]

(* rb_tree_rotate: the child on the side away from d comes up. *)
Inner(t, up, d) == Child(t, up, d)

Adopt(t, inner, n) == SetParent(t, inner, n)

Rotate(t, n, d) ==
  LET up    == Child(t, n, 1 - d)
      inner == Inner(t, up, d)
      moved == [Replace(t, n, up) EXCEPT !.heap[n].children[1 - d] = inner,
                                         !.heap[n].parent = up,
                                         !.heap[up].children[d] = n]
  IN  Adopt(moved, inner, n)

(* Case 3: parent, uncle and grandparent of n change color. *)
Case3_GrandparentKept(t, n) ==    \* mutant: the grandparent stays black
  Paint(Paint(t, Parent(t, n), "black"), Uncle(t, n), "black")
Case3(t, n) ==
  LET p == Parent(t, n)
  IN  Paint(Paint(Paint(t, p, "black"), Uncle(t, n), "black"), Parent(t, p), "red")

(* Case 4: a node on the other side of its parent than the parent is of    *)
(* the grandparent is rotated to the parent's place, and case 5 goes on    *)
(* with the parent.                                                        *)
Case4(t, n) ==
  IF NodeSide(t, n) # NodeSide(t, Parent(t, n))
  THEN [node |-> Parent(t, n), tree |-> Rotate(t, Parent(t, n), 1 - NodeSide(t, n))]
  ELSE [node |-> n, tree |-> t]

(* Case 5: the grandparent is rotated down, parent and grandparent swap    *)
(* their colors.                                                           *)
Case5(t, n) ==
  LET p == Parent(t, n)
      g == Parent(t, p)
  IN  Paint(Paint(Rotate(t, g, 1 - NodeSide(t, n)), p, "black"), g, "red")

-----------------------------------------------------------------------------
(* rb_tree_lookup_node *)
LookupNode(k) ==
  LET from[n \in Pointer] ==
        IF n = NULL \/ heap[n].key = k THEN n
        ELSE from[heap[n].children[IF k < heap[n].key THEN LEFT ELSE RIGHT]]
  IN  from[root_node]

(* The side of a node on which rb_tree_insert looks for a place. *)
InsertSide(v, n) == IF v < heap[n].value THEN LEFT ELSE RIGHT

(* The node below which rb_tree_insert puts a value. *)
LastOnPath(v) ==
  LET from[n \in Cell] ==
        LET c == heap[n].children[InsertSide(v, n)]
        IN  IF c = NULL THEN n ELSE from[c]
  IN  from[root_node]

NewNode(k, v, p) ==
  [color |-> "red", key |-> k, value |-> v, parent |-> p,
   children |-> [s \in Side |-> NULL]]

Returns(op, ok) == last' = [op |-> op, ok |-> ok]

-----------------------------------------------------------------------------
Init ==
  /\ pc = "none"
  /\ root_node = NULL
  /\ heap = [n \in {} |-> NULL]
  /\ num_nodes = 0
  /\ node = NULL
  /\ last = [op |-> "none", ok |-> 0]

(* rb_tree_new *)
New ==
  /\ pc = "none"
  /\ pc' = "idle"
  /\ root_node' = NULL
  /\ num_nodes' = 0
  /\ UNCHANGED <<heap, node, last>>

(* rb_tree_insert up to its call of case 1. *)
Insert(k, v, n) ==
  /\ pc = "idle"
  /\ n \notin DOMAIN heap
  /\ LET p     == IF root_node = NULL THEN NULL ELSE LastOnPath(v)
         alloc == [x \in DOMAIN heap \cup {n} |->
                     IF x = n THEN NewNode(k, v, p) ELSE heap[x]]
     IN  IF p = NULL THEN root_node' = n /\ heap' = alloc
         ELSE /\ heap' = [alloc EXCEPT ![p].children[InsertSide(v, p)] = n]
              /\ UNCHANGED root_node
  /\ node' = n
  /\ pc' = "insert"
  /\ Returns("insert", 1)
  /\ UNCHANGED num_nodes

InsertFails ==
  /\ pc = "idle"
  /\ Returns("insert", 0)
  /\ UNCHANGED <<pc, root_node, heap, num_nodes, node>>

(* The insertion counts its node and returns. *)
InsertReturns(t) ==
  /\ Becomes(t)
  /\ num_nodes' = num_nodes + 1
  /\ node' = NULL
  /\ pc' = "idle"
  /\ UNCHANGED last

RootCase ==
  /\ pc = "insert"
  /\ Parent(Tree, node) = NULL
  /\ InsertReturns(Paint(Tree, node, "black"))

ParentBlackCase ==
  /\ pc = "insert"
  /\ Parent(Tree, node) # NULL
  /\ ~IsRed(Tree, Parent(Tree, node))
  /\ InsertReturns(Tree)

ParentRed == Parent(Tree, node) # NULL /\ IsRed(Tree, Parent(Tree, node))

UncleRedCase ==
  /\ pc = "insert"
  /\ ParentRed
  /\ IsRed(Tree, Uncle(Tree, node))
  /\ Becomes(Case3(Tree, node))
  /\ node' = Parent(Tree, Parent(Tree, node))
  /\ UNCHANGED <<pc, num_nodes, last>>

RotationCase ==
  /\ pc = "insert"
  /\ ParentRed
  /\ ~IsRed(Tree, Uncle(Tree, node))
  /\ LET c == Case4(Tree, node)
     IN  InsertReturns(Case5(c.tree, c.node))

-----------------------------------------------------------------------------
(* rb_tree_remove: rb_tree_remove_node does nothing. *)
Remove(k) ==
  /\ pc = "idle"
  /\ Returns("remove", IF LookupNode(k) = NULL THEN 0 ELSE 1)
  /\ UNCHANGED <<pc, root_node, heap, num_nodes, node>>

(* The nodes of the tree in order. *)
InOrder ==
  LET from[n \in Pointer] ==
        IF n = NULL THEN <<>>
        ELSE from[heap[n].children[LEFT]] \o <<n>> \o from[heap[n].children[RIGHT]]
  IN  from[root_node]

(* rb_tree_free frees every node it reaches from the root. *)
Free ==
  /\ pc = "idle"
  /\ pc' = "none"
  /\ heap' = [n \in DOMAIN heap \ {InOrder[i] : i \in DOMAIN InOrder} |-> heap[n]]
  /\ root_node' = NULL
  /\ num_nodes' = 0
  /\ Returns("none", 0)
  /\ UNCHANGED node

Next ==
  \/ New
  \/ \E e \in Inserted, n \in Cell : Insert(e[1], e[2], n)
  \/ InsertFails
  \/ \E k \in Datum : Remove(k)
  \/ RootCase
  \/ ParentBlackCase
  \/ UncleRedCase
  \/ RotationCase
  \/ Free

Spec == Init /\ [][Next]_vars

-----------------------------------------------------------------------------
(* The shape of the state. *)
TypeOK ==
  /\ pc \in {"none", "idle", "insert"}
  /\ root_node \in Pointer
  /\ DOMAIN heap \subseteq Cell
  /\ heap \in [DOMAIN heap -> Node]
  /\ num_nodes \in Nat
  /\ node \in DOMAIN heap \cup {NULL}
  /\ last \in [op : {"none", "insert", "remove"}, ok : {0, 1}]

(* At every step the nodes are one tree under the root: the child and the  *)
(* parent pointers agree, each node is reached once, none has been lost;   *)
(* and rb_tree_free leaves no node behind.                                 *)
WellLinked ==
  /\ root_node # NULL => root_node \in DOMAIN heap /\ heap[root_node].parent = NULL
  /\ \A n \in DOMAIN heap, s \in Side :
       LET c == heap[n].children[s]
       IN  c # NULL => c \in DOMAIN heap /\ heap[c].parent = n
  /\ Len(InOrder) = Cardinality(DOMAIN heap)
  /\ pc = "none" => DOMAIN heap = {}

(* The red-black conditions.  At every step each node has as many black    *)
(* nodes on every way down its left as down its right side, and a red node *)
(* has a black parent, but for the node the repair has come to; so between *)
(* calls there is no exception and the root is black.                      *)
RedBlack ==
  LET BlackHeight[n \in Pointer] ==
        IF n = NULL THEN 1
        ELSE BlackHeight[heap[n].children[LEFT]] + IF IsRed(Tree, n) THEN 0 ELSE 1
  IN  \A n \in DOMAIN heap :
        /\ BlackHeight[heap[n].children[LEFT]] = BlackHeight[heap[n].children[RIGHT]]
        /\ IsRed(Tree, n) =>
             n = node \/ (heap[n].parent # NULL /\ ~IsRed(Tree, heap[n].parent))

(* Between calls a lookup finds every key in the tree and no other, as     *)
(* rb-tree.h says (nodes "sorted within the tree based on the order of     *)
(* their keys"), and the count is right.                                   *)
LookupComplete ==
  pc = "idle" =>
    /\ \A k \in Datum : LookupNode(k) # NULL <=> \E n \in DOMAIN heap : heap[n].key = k
    /\ num_nodes = Cardinality(DOMAIN heap)

(* The nodes, in order of their values, in one sequence: an insertion puts *)
(* its node after those with its value, in one step; no rotation and no    *)
(* failed allocation changes the sequence, until the tree is freed.        *)
Contents ==
  LET nodes == InOrder
  IN  [i \in DOMAIN nodes |-> [key |-> heap[nodes[i]].value, value |-> nodes[i]]]
Ordered == INSTANCE AbstractOrdered WITH
  Key <- Datum, Value <- Cell, entries <- Contents
InsertsInOrder ==
  \/ Contents' = Contents
  \/ pc' = "none" /\ Contents' = <<>>
  \/ \E n \in DOMAIN heap' \ DOMAIN heap :
       LET v == heap'[n].value
       IN  Contents' = Ordered!InsertAfter(Contents, Ordered!Rank(v),
                                           [key |-> v, value |-> n])
=============================================================================
