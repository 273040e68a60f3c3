------------------------------- MODULE BSTree -------------------------------
(***************************************************************************)
(* The binary search tree of src/src/base/bs-tree.c: a binary tree whose   *)
(* nodes also have a key, which decides where a node goes.                 *)
(*                                                                         *)
(* Removal is not modelled: bs_tree_remove_by_key calls a function that no *)
(* file of the repository defines.                                         *)
(***************************************************************************)
EXTENDS BiTree

CONSTANTS
  Key,        \* integers: compareFunc puts the keys in a total order
  Inserted    \* the keys and values a caller may insert

(* The side on which bs_tree_insert goes on from node n. *)
SideOf(k, n) == IF k < heap[n].key THEN LEFT ELSE RIGHT

(* The last node on the way of key k, NULL in an empty tree. *)
LastOnPath(k) ==
  LET from[n \in Pointer] ==
        IF n = NULL THEN NULL
        ELSE LET c == heap[n].children[SideOf(k, n)] IN
             IF c = NULL THEN n ELSE from[c]
  IN  from[rootNode]

Returns(op, k, ok) == last' = [op |-> op, key |-> k, ok |-> ok]

(* bs_tree_insert *)
InsertKey(k, v, n) ==
  LET p == LastOnPath(k)
      new == [children |-> [s \in Side |-> NULL], parent |-> p,
              value |-> v, key |-> k]
  IN
  /\ pc = "idle"
  /\ n \notin DOMAIN heap
  /\ heap' = [x \in DOMAIN heap \cup {n} |->
                IF x = n THEN new
                ELSE IF x = p THEN [heap[x] EXCEPT !.children[SideOf(k, p)] = n]
                ELSE heap[x]]
  /\ rootNode' = IF p = NULL THEN n ELSE rootNode
  /\ nodeNum' = nodeNum + 1
  /\ Returns("insert", k, 1)
  /\ UNCHANGED pc

InsertKeyFails(k) ==
  /\ pc = "idle"
  /\ Returns("insert", k, 0)
  /\ UNCHANGED <<pc, rootNode, heap, nodeNum>>

(* bs_tree_lookup_node *)
LookupNode(k) ==
  LET from[n \in Pointer] ==
        IF n = NULL \/ heap[n].key = k THEN n
        ELSE from[heap[n].children[SideOf(k, n)]]
  IN  from[rootNode]

(* bs_tree_lookup *)
Lookup(k) == IF LookupNode(k) = NULL THEN NULL ELSE heap[LookupNode(k)].value

SearchNext ==
  \/ New
  \/ \E e \in Inserted, n \in Cell : InsertKey(e[1], e[2], n)
  \/ \E k \in Key : InsertKeyFails(k)
  \/ Free

SearchSpec == Init /\ [][SearchNext]_vars

-----------------------------------------------------------------------------
Entry(n) == [key |-> heap[n].key, value |-> heap[n].value]

(* Of several entries with one key, which the tree keeps in the order of   *)
(* their insertion, a lookup finds the first; and it finds a key if and    *)
(* only if an entry has it.                                                *)
LookupFirst ==
  \A k \in Key :
    LET with == SelectSeq(InOrder, LAMBDA n : heap[n].key = k) IN
    Lookup(k) = IF with = <<>> THEN NULL ELSE heap[with[1]].value

(* The tree is the ordered sequence of entries that the AVL tree is, too.  *)
Ordered == INSTANCE AbstractOrdered WITH
  entries <- [i \in DOMAIN InOrder |-> Entry(InOrder[i])]
OrderedStep == [Ordered!Next]_(Ordered!vars)
=============================================================================
