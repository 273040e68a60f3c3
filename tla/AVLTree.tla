------------------------------ MODULE AVLTree ------------------------------
(***************************************************************************)
(* The balanced tree of src/src/base/avl-tree.c.                           *)
(*                                                                         *)
(* A call links or unlinks a node and then climbs from there to the root,  *)
(* rebalancing one node at a time (avl_tree_balance_to_root); the climb is *)
(* modelled one node per step, everything else of a call in one step.      *)
(*                                                                         *)
(* An operator X_Suffix next to an operator X is X with a plausible bug;   *)
(* no action uses it.                                                      *)
(***************************************************************************)
EXTENDS Integers, Sequences, FiniteSets

CONSTANTS
  Key,      \* integers: compare_func puts the keys in a total order
  Value,
  Inserted, \* the keys and values a caller may insert
  Cell,     \* the addresses malloc can return
  NULL      \* the null pointer

ASSUME AVLTreeAssumption ==
  /\ Key \subseteq Int
  /\ Inserted \subseteq Key \X Value
  /\ NULL \notin Cell \cup Key

LEFT == 0
RIGHT == 1
Side == {LEFT, RIGHT}

Pointer == Cell \cup {NULL}
Node == [children : [Side -> Pointer], parent : Pointer,
         key : Key, value : Value, height : Int]

VARIABLES
  pc,         \* "none" (no tree), "idle", "insert", "remove"
  root_node,
  heap,       \* the allocated nodes
  num_nodes,
  rover,      \* where avl_tree_balance_to_root has come
  last        \* the last call, its key, and what it returns (1 for a node)

vars == <<pc, root_node, heap, num_nodes, rover, last>>

-----------------------------------------------------------------------------
(* The operations on nodes are operators on the tree t, a record of the    *)
(* root and of the nodes.                                                  *)
Tree == [root |-> root_node, heap |-> heap]
Becomes(t) == root_node' = t.root /\ heap' = t.heap

Child(t, n, s) == t.heap[n].children[s]

(* avl_tree_subtree_height *)
Height(t, n) == IF n = NULL THEN 0 ELSE t.heap[n].height

Larger(a, b) == IF a > b THEN a ELSE b

(* avl_tree_update_height *)
UpdateHeight(t, n) ==
  [t EXCEPT !.heap[n].height =
     1 + Larger(Height(t, Child(t, n, LEFT)), Height(t, Child(t, n, RIGHT)))]

SetParent(t, n, p) == IF n = NULL THEN t ELSE [t EXCEPT !.heap[n].parent = p]

(* avl_tree_node_parent_side *)
ParentSide(t, n) ==
  IF Child(t, t.heap[n].parent, LEFT) = n THEN LEFT ELSE RIGHT

(* avl_tree_node_replace: n2 takes n1's place under n1's parent, whose     *)
(* height is updated.                                                      *)
Replace(t, n1, n2) ==
  LET p == t.heap[n1].parent
      u == SetParent(t, n2, p)
  IN  IF p = NULL THEN [u EXCEPT !.root = n2]
      ELSE UpdateHeight([u EXCEPT !.heap[p].children[ParentSide(t, n1)] = n2], p)

(* avl_tree_rotate: the child on the side away from d comes up. *)
Rotate(t, n, d) ==
  LET up    == Child(t, n, 1 - d)
      inner == Child(t, up, d)
      moved == [Replace(t, n, up) EXCEPT !.heap[n].children[1 - d] = inner,
                                         !.heap[n].parent = up,
                                         !.heap[up].children[d] = n]
  IN  UpdateHeight(UpdateHeight(SetParent(moved, inner, n), up), n)

(* avl_tree_node_balance on a node that leans too far to side s: its child *)
(* on that side is rotated first if it leans the other way.                *)
Straighten(t, c, s) ==
  IF Height(t, Child(t, c, s)) < Height(t, Child(t, c, 1 - s))
  THEN Rotate(t, c, s) ELSE t

(* How far a node leans to the right. *)
Lean(t, n) == Height(t, Child(t, n, RIGHT)) - Height(t, Child(t, n, LEFT))
Tolerated == 1

(* The node that is at the top when node n has been balanced, and the tree. *)
Balanced(t, n) ==
  IF Lean(t, n) \in -Tolerated .. Tolerated
  THEN [top |-> n, tree |-> UpdateHeight(t, n)]
  ELSE LET s   == IF Lean(t, n) > Tolerated THEN RIGHT ELSE LEFT
           u   == Straighten(t, Child(t, n, s), s)
           top == Child(u, n, s)
       IN  [top |-> top, tree |-> UpdateHeight(Rotate(u, n, 1 - s), top)]

-----------------------------------------------------------------------------
(* avl_tree_lookup_node *)
LookupNode(k) ==
  LET from[n \in Pointer] ==
        IF n = NULL \/ heap[n].key = k THEN n
        ELSE from[heap[n].children[IF k < heap[n].key THEN LEFT ELSE RIGHT]]
  IN  from[root_node]

(* The side of a node on which avl_tree_insert looks for a place. *)
InsertSide(k, n) == IF k < heap[n].key THEN LEFT ELSE RIGHT

(* The node below which avl_tree_insert puts a key. *)
LastOnPath(k) ==
  LET from[n \in Cell] ==
        LET c == heap[n].children[InsertSide(k, n)]
        IN  IF c = NULL THEN n ELSE from[c]
  IN  from[root_node]

NewNode(k, v, p) ==
  [children |-> [s \in Side |-> NULL], parent |-> p,
   key |-> k, value |-> v, height |-> 1]

Returns(op, k, ok) == last' = [op |-> op, key |-> k, ok |-> ok]

-----------------------------------------------------------------------------
Init ==
  /\ pc = "none"
  /\ root_node = NULL
  /\ heap = [n \in {} |-> NULL]
  /\ num_nodes = 0
  /\ rover = NULL
  /\ last = [op |-> "none", key |-> NULL, ok |-> 0]

(* avl_tree_new *)
New ==
  /\ pc = "none"
  /\ pc' = "idle"
  /\ root_node' = NULL
  /\ num_nodes' = 0
  /\ UNCHANGED <<heap, rover, last>>

(* avl_tree_insert up to the rebalancing; the new node is linked in at the *)
(* empty place where the search ends.                                      *)
Insert(k, v, n) ==
  /\ pc = "idle"
  /\ n \notin DOMAIN heap
  /\ LET p     == IF root_node = NULL THEN NULL ELSE LastOnPath(k)
         alloc == [x \in DOMAIN heap \cup {n} |->
                     IF x = n THEN NewNode(k, v, p) ELSE heap[x]]
     IN  /\ IF p = NULL THEN root_node' = n /\ heap' = alloc
            ELSE /\ heap' = [alloc EXCEPT ![p].children[InsertSide(k, p)] = n]
                 /\ UNCHANGED root_node
         /\ rover' = p
  /\ pc' = "insert"
  /\ Returns("insert", k, 1)
  /\ UNCHANGED num_nodes

InsertFails(k) ==
  /\ pc = "idle"
  /\ Returns("insert", k, 0)
  /\ UNCHANGED <<pc, root_node, heap, num_nodes, rover>>

-----------------------------------------------------------------------------
(* The node of the subtree of n on side s that is next to n in order: from *)
(* n's child, as far to the other side as there are nodes.                 *)
Nearest_Furthest(n, s) ==    \* mutant: as far to the same side
  LET from[x \in Cell] ==
        IF heap[x].children[s] = NULL THEN x ELSE from[heap[x].children[s]]
  IN  from[heap[n].children[s]]
Nearest(n, s) ==
  LET from[x \in Cell] ==
        IF heap[x].children[1 - s] = NULL THEN x ELSE from[heap[x].children[1 - s]]
  IN  from[heap[n].children[s]]

IsLeaf(n) == \A s \in Side : heap[n].children[s] = NULL

(* avl_tree_node_get_replacement: the node next in order to n on its       *)
(* higher side, and the tree without that node.                            *)
HigherSide(n) == IF Lean(Tree, n) > 0 THEN RIGHT ELSE LEFT
Replacement(n) ==
  LET s == HigherSide(n)
      r == Nearest(n, s)
      t == Replace(Tree, r, heap[r].children[s])
  IN  [node |-> r, tree |-> UpdateHeight(t, heap[r].parent)]

(* The replacement r takes over n's children and height, then n's place.   *)
AdoptChild(t, r, n, s) ==
  SetParent([t EXCEPT !.heap[r].children[s] = Child(t, n, s)], Child(t, n, s), r)
Exchange(t, r, n) ==
  LET u == AdoptChild(AdoptChild(t, r, n, LEFT), r, n, RIGHT)
  IN  Replace([u EXCEPT !.heap[r].height = t.heap[n].height], n, r)

(* Where the rebalancing starts: at the lowest node one of whose children  *)
(* was cut off.                                                            *)
StartPoint(n, r) == IF heap[r].parent = n THEN r ELSE heap[r].parent

(* avl_tree_remove_node up to the rebalancing. *)
Unlink(n) ==
  LET leaf == IsLeaf(n)
      r    == Replacement(n).node
      t    == IF leaf THEN Replace(Tree, n, NULL)
              ELSE Exchange(Replacement(n).tree, r, n)
  IN  /\ root_node' = t.root
      /\ heap' = [x \in DOMAIN heap \ {n} |-> t.heap[x]]
      /\ rover' = IF leaf THEN heap[n].parent ELSE StartPoint(n, r)
      /\ num_nodes' = num_nodes - 1
      /\ pc' = "remove"

RemoveNode(n) ==
  /\ pc = "idle"
  /\ n \in DOMAIN heap
  /\ Unlink(n)
  /\ Returns("remove_node", heap[n].key, 1)

Remove(k) ==
  /\ pc = "idle"
  /\ LookupNode(k) # NULL
  /\ Unlink(LookupNode(k))
  /\ Returns("remove", k, 1)

RemoveAbsent(k) ==
  /\ pc = "idle"
  /\ LookupNode(k) = NULL
  /\ Returns("remove", k, 0)
  /\ UNCHANGED <<pc, root_node, heap, num_nodes, rover>>

-----------------------------------------------------------------------------
(* One turn of avl_tree_balance_to_root's loop. *)
Balance ==
  /\ pc \in {"insert", "remove"}
  /\ rover # NULL
  /\ LET b == Balanced(Tree, rover)
     IN  /\ Becomes(b.tree)
         /\ rover' = b.tree.heap[b.top].parent
  /\ UNCHANGED <<pc, num_nodes, last>>

(* The call returns; an insertion counts its node last. *)
Return ==
  /\ pc \in {"insert", "remove"}
  /\ rover = NULL
  /\ num_nodes' = IF pc = "insert" THEN num_nodes + 1 ELSE num_nodes
  /\ pc' = "idle"
  /\ UNCHANGED <<root_node, heap, rover, last>>

(* The nodes of the tree in order, which avl_tree_to_array follows. *)
InOrder ==
  LET from[n \in Pointer] ==
        IF n = NULL THEN <<>>
        ELSE from[heap[n].children[LEFT]] \o <<n>> \o from[heap[n].children[RIGHT]]
  IN  from[root_node]

InTree == {InOrder[i] : i \in DOMAIN InOrder}

(* avl_tree_free frees every node it reaches from the root. *)
Free ==
  /\ pc = "idle"
  /\ pc' = "none"
  /\ heap' = [n \in DOMAIN heap \ InTree |-> heap[n]]
  /\ root_node' = NULL
  /\ num_nodes' = 0
  /\ Returns("none", NULL, 0)
  /\ UNCHANGED rover

Next ==
  \/ New
  \/ \E e \in Inserted, n \in Cell : Insert(e[1], e[2], n)
  \/ \E k \in Key : InsertFails(k) \/ Remove(k) \/ RemoveAbsent(k)
  \/ \E n \in Cell : RemoveNode(n)
  \/ Balance
  \/ Return
  \/ Free

Spec == Init /\ [][Next]_vars

-----------------------------------------------------------------------------
(* The shape of the state. *)
TypeOK ==
  /\ pc \in {"none", "idle", "insert", "remove"}
  /\ root_node \in Pointer
  /\ DOMAIN heap \subseteq Cell
  /\ heap \in [DOMAIN heap -> Node]
  /\ num_nodes \in Nat
  /\ rover \in DOMAIN heap \cup {NULL}
  /\ last.key \in Key \cup {NULL} /\ last.ok \in {0, 1}

(* At every step of every call the nodes are one tree under the root: the  *)
(* child and the parent pointers agree, each node is reached once, and no  *)
(* node has been lost or freed while a pointer to it is left; and          *)
(* avl_tree_free leaves no node behind.                                    *)
WellLinked ==
  /\ root_node # NULL => root_node \in DOMAIN heap /\ heap[root_node].parent = NULL
  /\ \A n \in DOMAIN heap, s \in Side :
       LET c == heap[n].children[s]
       IN  c # NULL => c \in DOMAIN heap /\ heap[c].parent = n
  /\ \A n \in DOMAIN heap :
       IF heap[n].parent = NULL THEN n = root_node
       ELSE /\ heap[n].parent \in DOMAIN heap
            /\ Cardinality({s \in Side : heap[heap[n].parent].children[s] = n}) = 1
  /\ Len(InOrder) = Cardinality(DOMAIN heap)
  /\ pc = "none" => DOMAIN heap = {}

(* The rover and the nodes above it, whose heights are out of date.        *)
ToRepair ==
  LET up[n \in Pointer] == IF n = NULL THEN {} ELSE {n} \cup up[heap[n].parent]
  IN  up[rover]

(* At every step a node that the climb need not come to any more is        *)
(* balanced and knows its height; when the climb is over, all of them are. *)
HeightExact(n) ==
  heap[n].height = 1 + Larger(Height(Tree, heap[n].children[LEFT]),
                              Height(Tree, heap[n].children[RIGHT]))
BalancedOffPath ==
  \A n \in DOMAIN heap \ ToRepair : HeightExact(n) /\ Lean(Tree, n) \in -1 .. 1

(* Between calls a lookup finds every key in the tree, also when equal     *)
(* keys have been rotated to both sides of a node, and no other, and the   *)
(* count is right.                                                         *)
LookupComplete ==
  pc = "idle" =>
    /\ \A k \in Key : LookupNode(k) # NULL <=> \E n \in DOMAIN heap : heap[n].key = k
    /\ num_nodes = Cardinality(DOMAIN heap)

Entry(n) == [key |-> heap[n].key, value |-> heap[n].value]

(* The tree is an ordered sequence of entries: an insertion and a removal  *)
(* change it in one step, and no rotation, no exchange of a node with its  *)
(* replacement and no failed allocation changes it at all.                 *)
Ordered == INSTANCE AbstractOrdered WITH
  entries <- [i \in DOMAIN InOrder |-> Entry(InOrder[i])]
OrderedStep == [Ordered!Next]_(Ordered!vars)
=============================================================================
