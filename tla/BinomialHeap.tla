---------------------------- MODULE BinomialHeap ----------------------------
(***************************************************************************)
(* The binomial heap of src/src/base/binomial-heap.c: trees with reference *)
(* counts, never changed once built.  binomial_heap_merge builds new trees *)
(* that share the subtrees of the old ones, like a ripple-carry adder, and *)
(* only then lets go of the old ones, so that it can undo everything when  *)
(* malloc fails half way.  One turn of its loop is one step.               *)
(*                                                                         *)
(* The order of a tree is the number of its subtrees.  An operator         *)
(* X_Suffix next to an operator X is X with a plausible bug; no action     *)
(* uses it.                                                                *)
(***************************************************************************)
EXTENDS Integers, Sequences, FiniteSets

CONSTANTS
  Value,      \* integers: compare_func orders the values totally
  Cell,       \* the addresses malloc can return for a tree
  NULL,       \* the null pointer, and BINOMIAL_HEAP_NULL
  MaxValues   \* bound: insertions stop at this many values

Pointer == Cell \cup {NULL}
Tree == [value : Value, refcount : Nat, subtrees : Seq(Cell)]

VARIABLES
  pc,          \* "none" (no heap), "idle", or a merge in "insert" or "pop"
  heap_type,   \* "min", "max"
  roots,       \* the roots of the heap
  num_values,
  tree,        \* the allocated trees
  held,        \* the new tree of an insertion, the least tree of a pop
  least_index, \* the place of the least tree of a pop
  other,       \* the roots of the fake heap that is merged in
  merging,     \* whether the merge has got the array of new roots
  new_roots,   \* the new roots so far, as many as the loop has turned
  carry,
  last         \* the last call and what it returned

merge == <<held, least_index, other, merging, new_roots, carry>>
vars == <<pc, heap_type, roots, num_values, tree, merge, last>>

-----------------------------------------------------------------------------
(* Operators on the allocated trees t. *)

Order(t, n) == Len(t[n].subtrees)

(* binomial_heap_cmp *)
Cmp(a, b) == IF heap_type = "min" THEN a - b ELSE b - a

(* binomial_tree_ref *)
Ref(t, n) == IF n = NULL THEN t ELSE [t EXCEPT ![n].refcount = @ + 1]

(* binomial_tree_unref: with the last reference the tree lets go of its    *)
(* subtrees and is freed.                                                  *)
Without(t, n) == [x \in DOMAIN t \ {n} |-> t[x]]

RECURSIVE Unref(_, _), UnrefAll(_, _)
Unref(t, n) ==
  IF n = NULL THEN t
  ELSE LET u == [t EXCEPT ![n].refcount = @ - 1]
       IN  IF u[n].refcount > 0 THEN u
           ELSE Without(UnrefAll(u, t[n].subtrees), n)
UnrefAll(t, s) == IF s = <<>> THEN t ELSE UnrefAll(Unref(t, Head(s)), Tail(s))

RECURSIVE RefAll(_, _)
RefAll(t, s) == IF s = <<>> THEN t ELSE RefAll(Ref(t, Head(s)), Tail(s))

(* binomial_tree_merge: a new tree n with the value and the subtrees of    *)
(* the tree that comes first, and the other tree as its last subtree; all  *)
(* of them are referenced once more.                                       *)
Smaller(t, a, b) == IF Cmp(t[a].value, t[b].value) > 0 THEN <<b, a>> ELSE <<a, b>>

NewTree(v, s) == [value |-> v, refcount |-> 0, subtrees |-> s]

MergeTrees(t, a, b, n) ==
  LET small    == Smaller(t, a, b)[1]
      large    == Smaller(t, a, b)[2]
      subtrees == Append(t[small].subtrees, large)
      new      == NewTree(t[small].value, subtrees)
  IN  RefAll([x \in DOMAIN t \cup {n} |-> IF x = n THEN new ELSE t[x]], subtrees)

-----------------------------------------------------------------------------
NoMerge ==
  /\ held' = NULL
  /\ least_index' = 0
  /\ other' = <<>>
  /\ merging' = FALSE
  /\ new_roots' = <<>>
  /\ carry' = NULL

Init ==
  /\ pc = "none"
  /\ heap_type = "min"
  /\ roots = <<>>
  /\ num_values = 0
  /\ tree = [n \in {} |-> NULL]
  /\ held = NULL
  /\ least_index = 0
  /\ other = <<>>
  /\ merging = FALSE
  /\ new_roots = <<>>
  /\ carry = NULL
  /\ last = <<"none">>

(* binomial_heap_new *)
New(type) ==
  /\ pc = "none"
  /\ pc' = "idle"
  /\ heap_type' = type
  /\ roots' = <<>>
  /\ num_values' = 0
  /\ UNCHANGED <<tree, merge, last>>

(* binomial_heap_insert up to the merge: a tree of order 0, referenced by  *)
(* the fake heap of which it is the only root.                             *)
Insert(v, n) ==
  /\ pc = "idle"
  /\ num_values < MaxValues
  /\ n \notin DOMAIN tree
  /\ tree' = [x \in DOMAIN tree \cup {n} |->
                IF x = n THEN [value |-> v, refcount |-> 1, subtrees |-> <<>>]
                ELSE tree[x]]
  /\ held' = n
  /\ other' = <<n>>
  /\ pc' = "insert"
  /\ UNCHANGED <<heap_type, roots, num_values, least_index, merging, new_roots,
                 carry, last>>

InsertFails ==
  /\ pc = "idle"
  /\ last' = <<"insert", 0>>
  /\ UNCHANGED <<pc, heap_type, roots, num_values, tree, merge>>

(* The first of the roots with the least value. *)
IsRoot(i) == i \in DOMAIN roots /\ roots[i] # NULL
LeastIndex == CHOOSE i \in DOMAIN roots :
  /\ IsRoot(i)
  /\ \A j \in DOMAIN roots :
       IsRoot(j) => /\ Cmp(tree[roots[i]].value, tree[roots[j]].value) <= 0
                    /\ j < i => Cmp(tree[roots[i]].value, tree[roots[j]].value) < 0

(* binomial_heap_pop up to the merge: the least tree leaves the roots, its *)
(* subtrees are the fake heap.                                             *)
Pop ==
  /\ pc = "idle"
  /\ num_values > 0
  /\ held' = roots[LeastIndex]
  /\ least_index' = LeastIndex
  /\ other' = tree[roots[LeastIndex]].subtrees
  /\ roots' = [roots EXCEPT ![LeastIndex] = NULL]
  /\ pc' = "pop"
  /\ UNCHANGED <<heap_type, num_values, tree, merging, new_roots, carry, last>>

PopEmpty ==
  /\ pc = "idle"
  /\ num_values = 0
  /\ last' = <<"pop", NULL>>
  /\ UNCHANGED <<pc, heap_type, roots, num_values, tree, merge>>

-----------------------------------------------------------------------------
(* What the caller of the merge does when it has failed: the new tree is   *)
(* given up, or the least tree goes back to its place.                     *)
GiveUp(t) ==
  /\ tree' = IF pc = "insert" THEN Unref(t, held) ELSE t
  /\ roots' = IF pc = "insert" THEN roots
              ELSE [roots EXCEPT ![least_index] = held]
  /\ last' = IF pc = "insert" THEN <<"insert", 0>> ELSE <<"pop", NULL>>
  /\ pc' = "idle"
  /\ NoMerge
  /\ UNCHANGED <<heap_type, num_values>>

AllocRoots ==
  /\ pc \in {"insert", "pop"}
  /\ ~merging
  /\ merging' = TRUE
  /\ UNCHANGED <<pc, heap_type, roots, num_values, tree, held, least_index,
                 other, new_roots, carry, last>>

AllocRootsFails ==
  /\ pc \in {"insert", "pop"}
  /\ ~merging
  /\ GiveUp(tree)

(* The turns of the loop, one for every order and one for the carry. *)
Turns == 1 + IF Len(roots) > Len(other) THEN Len(roots) ELSE Len(other)
Turn == Len(new_roots) + 1

(* The trees of the order of this turn. *)
Vals ==
  LET root(s) == IF Turn <= Len(s) THEN s[Turn] ELSE NULL
  IN  SelectSeq(<<root(roots), root(other), carry>>, LAMBDA n : n # NULL)

Stored_First == IF Len(Vals) \in {1, 3} THEN Vals[1] ELSE NULL    \* mutant: not the last
Stored == IF Len(Vals) \in {1, 3} THEN Vals[Len(Vals)] ELSE NULL
NeedsTree == Len(Vals) >= 2

(* A turn after the store: the new carry is in, the old one let go of. *)
CarryOver(t, old, new) == Ref(Unref(t, old), new)

MergeTurn(n) ==
  /\ merging
  /\ Turn <= Turns
  /\ IF NeedsTree THEN n \in Cell \ DOMAIN tree ELSE n = NULL
  /\ LET stored == Ref(tree, Stored)
         merged == IF NeedsTree THEN MergeTrees(stored, Vals[1], Vals[2], n) ELSE stored
     IN  tree' = CarryOver(merged, carry, n)
  /\ new_roots' = Append(new_roots, Stored)
  /\ carry' = n
  /\ UNCHANGED <<pc, heap_type, roots, num_values, held, least_index, other,
                 merging, last>>

(* binomial_tree_merge finds no memory: binomial_heap_merge_undo lets go   *)
(* of the new roots, this turn's included, then of the carry.              *)
Undo_BeforeTurn(t) == Unref(UnrefAll(t, new_roots), carry)    \* mutant: not of this turn's
Undo(t) == Unref(UnrefAll(t, Append(new_roots, Stored)), carry)

MergeFails ==
  /\ merging
  /\ Turn <= Turns
  /\ NeedsTree
  /\ GiveUp(Undo(Ref(tree, Stored)))

(* The end of the merge and of the call: the old roots are let go of, the  *)
(* new ones, up to the last that is there, take their place.               *)
Trimmed(s) ==
  LET used == {i \in DOMAIN s : s[i] # NULL}
  IN  SubSeq(s, 1, IF used = {} THEN 0 ELSE CHOOSE i \in used : \A j \in used : j <= i)

MergeEnds ==
  /\ merging
  /\ Turn > Turns
  /\ roots' = Trimmed(new_roots)
  /\ tree' = Unref(UnrefAll(tree, roots), held)
  /\ num_values' = IF pc = "insert" THEN num_values + 1 ELSE num_values - 1
  /\ last' = IF pc = "insert" THEN <<"insert", 1>> ELSE <<"pop", tree[held].value>>
  /\ pc' = "idle"
  /\ NoMerge
  /\ UNCHANGED heap_type

(* binomial_heap_free *)
Free ==
  /\ pc = "idle"
  /\ pc' = "none"
  /\ tree' = UnrefAll(tree, roots)
  /\ roots' = <<>>
  /\ num_values' = 0
  /\ heap_type' = "min"
  /\ last' = <<"none">>
  /\ UNCHANGED merge

Next ==
  \/ \E type \in {"min", "max"} : New(type)
  \/ \E v \in Value, n \in Cell : Insert(v, n)
  \/ InsertFails
  \/ Pop
  \/ PopEmpty
  \/ AllocRoots
  \/ AllocRootsFails
  \/ \E n \in Pointer : MergeTurn(n)
  \/ MergeFails
  \/ MergeEnds
  \/ Free

Spec == Init /\ [][Next]_vars

-----------------------------------------------------------------------------
(* The shape of the state. *)
TypeOK ==
  /\ pc \in {"none", "idle", "insert", "pop"}
  /\ heap_type \in {"min", "max"}
  /\ \A i \in DOMAIN roots : roots[i] \in Pointer
  /\ num_values \in 0 .. MaxValues
  /\ DOMAIN tree \subseteq Cell
  /\ \A n \in DOMAIN tree : tree[n] \in Tree
  /\ {held, carry} \subseteq DOMAIN tree \cup {NULL}
  /\ \A i \in DOMAIN new_roots : new_roots[i] \in Pointer

(* At every step of every merge the reference count of a tree is the       *)
(* number of references there are to it, from the roots, old and new, the  *)
(* carry, the caller and other trees, and never zero: nothing is freed too *)
(* early, nothing is left over, whichever malloc fails.                    *)
Occurrences(s, n) == Cardinality({i \in DOMAIN s : s[i] = n})
RefCountExact ==
  \A n \in DOMAIN tree :
    /\ tree[n].refcount =
         Occurrences(roots, n) + Occurrences(new_roots, n)
           + Occurrences(<<held, carry>>, n)
           + Cardinality({m \in DOMAIN tree : n \in {tree[m].subtrees[i] : i \in DOMAIN tree[m].subtrees}})
    /\ tree[n].refcount > 0

(* The trees in a tree, itself included. *)
RECURSIVE Within(_)
Within(n) ==
  {n} \cup UNION {Within(tree[n].subtrees[i]) : i \in DOMAIN tree[n].subtrees}
Roots == {roots[i] : i \in DOMAIN roots} \ {NULL}

(* Between calls the root at index i is the root of a binomial tree of     *)
(* order i - 1, in which no value comes before that of the tree above; the *)
(* trees share nothing, there is no other, the number of values is the     *)
(* number of trees, and the last root is not NULL.                         *)
IsBinomial(n) ==
  \A m \in Within(n), i \in 1 .. Cardinality(DOMAIN tree) :
    i \in DOMAIN tree[m].subtrees =>
      /\ Order(tree, tree[m].subtrees[i]) = i - 1
      /\ Cmp(tree[m].value, tree[tree[m].subtrees[i]].value) <= 0
Forest ==
  pc = "idle" =>
    /\ \A i \in DOMAIN roots :
         roots[i] # NULL => Order(tree, roots[i]) = i - 1 /\ IsBinomial(roots[i])
    /\ \A i, j \in DOMAIN roots :
         i # j /\ roots[i] # NULL /\ roots[j] # NULL =>
           Within(roots[i]) \cap Within(roots[j]) = {}
    /\ UNION {Within(n) : n \in Roots} = DOMAIN tree
    /\ num_values = Cardinality(DOMAIN tree)
    /\ roots # <<>> => roots[Len(roots)] # NULL

(* The heap as a priority queue, to which the least tree of a pop belongs  *)
(* as long as the pop can still fail.                                      *)
Values == UNION {Within(n) : n \in Roots \cup (IF pc = "pop" THEN {held} ELSE {})}
Queue == INSTANCE AbstractPriorityQueue WITH
  kind <- IF pc = "none" THEN "none" ELSE heap_type,
  bag <- [v \in Value |-> Cardinality({n \in Values : tree[n].value = v})],
  PopNeedsMemory <- TRUE
QueueStep == [Queue!Next]_(Queue!vars)
=============================================================================
