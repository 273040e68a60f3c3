------------------------------- MODULE BiTree -------------------------------
(***************************************************************************)
(* The binary tree of src/src/base/bi-tree.c, whose caller decides where a *)
(* node goes.  Each call is one step.                                      *)
(***************************************************************************)
EXTENDS Integers, Sequences, FiniteSets

CONSTANTS
  Value,
  Cell,     \* the addresses malloc can return
  NULL      \* the null pointer

LEFT == 0
RIGHT == 1
Side == {LEFT, RIGHT}

Pointer == Cell \cup {NULL}

VARIABLES
  pc,         \* "none" (no tree) or "idle"
  rootNode,
  heap,       \* the allocated nodes
  nodeNum,
  last        \* the last call that can fail, its key, and what it returned

vars == <<pc, rootNode, heap, nodeNum, last>>

-----------------------------------------------------------------------------
Init ==
  /\ pc = "none"
  /\ rootNode = NULL
  /\ heap = [n \in {} |-> NULL]
  /\ nodeNum = 0
  /\ last = [op |-> "none", key |-> NULL, ok |-> 0]

(* bi_tree_new; a failed malloc leaves the caller with no tree. *)
New ==
  /\ pc = "none"
  /\ pc' = "idle"
  /\ rootNode' = NULL
  /\ nodeNum' = 0
  /\ UNCHANGED <<heap, last>>

(* bi_tree_insert: the new node n comes between the parent, or the tree    *)
(* itself, and what was there; that goes below it on the same side.        *)
NewNode(v, p, s, c) ==
  [children |-> [x \in Side |-> IF x = s THEN c ELSE NULL],
   parent |-> p, value |-> v]

Below(p, s) == IF p = NULL THEN rootNode ELSE heap[p].children[s]

Insert(v, p, s, n) ==
  LET c == Below(p, s)
      linked == [x \in DOMAIN heap \cup {n} |->
                   IF x = n THEN NewNode(v, p, s, c)
                   ELSE IF x = c THEN [heap[x] EXCEPT !.parent = n]
                   ELSE IF x = p THEN [heap[x] EXCEPT !.children[s] = n]
                   ELSE heap[x]]
  IN
  /\ pc = "idle"
  /\ p \in DOMAIN heap \cup {NULL}
  /\ n \notin DOMAIN heap
  /\ heap' = linked
  /\ rootNode' = IF p = NULL THEN n ELSE rootNode
  /\ nodeNum' = nodeNum + 1
  /\ last' = [op |-> "insert", key |-> NULL, ok |-> 1]
  /\ UNCHANGED pc

InsertRefused ==
  /\ pc = "idle"
  /\ last' = [op |-> "insert", key |-> NULL, ok |-> 0]
  /\ UNCHANGED <<pc, rootNode, heap, nodeNum>>

(* The nodes bi_tree_remove_subtree and bi_tree_free_subtree free.         *)
InOrderFrom(top) ==
  LET from[n \in Pointer] ==
        IF n = NULL THEN <<>>
        ELSE from[heap[n].children[LEFT]] \o <<n>> \o from[heap[n].children[RIGHT]]
  IN  from[top]
Nodes(s) == {s[i] : i \in DOMAIN s}
Subtree(n) == Nodes(InOrderFrom(n))

(* bi_tree_remove: the subtree is cut off and freed node by node.          *)
Counted(n) == Cardinality(Subtree(n))

Remove(n) ==
  LET p == heap[n].parent
      s == IF heap[p].children[LEFT] = n THEN LEFT ELSE RIGHT
      cut == IF p = NULL THEN heap ELSE [heap EXCEPT ![p].children[s] = NULL]
  IN
  /\ pc = "idle"
  /\ n \in DOMAIN heap
  /\ heap' = [x \in DOMAIN heap \ Subtree(n) |-> cut[x]]
  /\ rootNode' = IF p = NULL THEN NULL ELSE rootNode
  /\ nodeNum' = nodeNum - Counted(n)
  /\ UNCHANGED <<pc, last>>

(* bi_tree_free *)
Free ==
  /\ pc = "idle"
  /\ pc' = "none"
  /\ heap' = [x \in DOMAIN heap \ Subtree(rootNode) |-> heap[x]]
  /\ rootNode' = NULL
  /\ nodeNum' = 0
  /\ last' = [op |-> "none", key |-> NULL, ok |-> 0]

Next ==
  \/ New
  \/ \E v \in Value, p \in Pointer, s \in Side, n \in Cell : Insert(v, p, s, n)
  \/ InsertRefused
  \/ \E n \in Cell : Remove(n)
  \/ Free

Spec == Init /\ [][Next]_vars

-----------------------------------------------------------------------------
(* The shape of the state. *)
TypeOK ==
  /\ pc \in {"none", "idle"}
  /\ rootNode \in Pointer
  /\ DOMAIN heap \subseteq Cell
  /\ \A n \in DOMAIN heap :
       /\ heap[n].children \in [Side -> Pointer]
       /\ heap[n].parent \in Pointer
       /\ heap[n].value \in Value
  /\ nodeNum \in Nat
  /\ last.ok \in {0, 1}

InOrder == InOrderFrom(rootNode)

(* The nodes allocated are one tree under the root, with child and parent  *)
(* pointers that agree; a subtree removed from the middle leaves neither a *)
(* node nor a pointer to one behind.                                       *)
WellLinked ==
  /\ \A n \in DOMAIN heap, s \in Side :
       heap[n].children[s] # NULL =>
         /\ heap[n].children[s] \in DOMAIN heap
         /\ heap[heap[n].children[s]].parent = n
  /\ rootNode # NULL => heap[rootNode].parent = NULL
  /\ Subtree(rootNode) = DOMAIN heap
  /\ Len(InOrder) = Cardinality(DOMAIN heap)

(* nodeNum is the number of nodes, after removals of subtrees too. *)
CountExact == nodeNum = Cardinality(DOMAIN heap)

(* In order, a node comes right next to its parent on the side it was put, *)
(* at an end of the tree if it was put at the root; a removal takes out a  *)
(* run of neighbours; and nothing else changes place.                      *)
KeepsOrder ==
  LET before == InOrder
      after == InOrder'
      new == DOMAIN heap' \ DOMAIN heap
      gone == DOMAIN heap \ DOMAIN heap'
  IN
  /\ SelectSeq(before, LAMBDA n : n \notin gone)
       = SelectSeq(after, LAMBDA n : n \notin new)
  /\ \A i, j \in DOMAIN before : before[i] \in gone /\ before[j] \in gone =>
       \A m \in i .. j : before[m] \in gone
  /\ \A i \in DOMAIN after : after[i] \in new =>
       LET p == heap'[after[i]].parent
           at == IF p = NULL THEN 0 ELSE CHOOSE j \in DOMAIN after : after[j] = p
       IN  IF p = NULL THEN i \in {1, Len(after)}
           ELSE i - at = IF heap'[p].children[LEFT] = after[i] THEN -1 ELSE 1
=============================================================================
