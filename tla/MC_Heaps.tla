------------------------------ MODULE MC_Heaps ------------------------------
(***************************************************************************)
(* The two heaps, which are both priority queues: a behaviour is that of a *)
(* heap of one kind, chosen at the start and then fixed; the variables of  *)
(* the other kind keep their initial values.                               *)
(*                                                                         *)
(* Up to six values in the array of a binary heap, which starts with two   *)
(* slots.  Up to four values in any mix of calls on a binomial heap are    *)
(* enough for an insertion that carries twice; a turn of the merge meets   *)
(* three trees only when there is a root of each order below 3 and the     *)
(* last is popped, which takes seven values: a binomial heap of the kind   *)
(* "filled" is filled with seven, of two different values, and emptied.    *)
(***************************************************************************)
EXTENDS BinaryHeap

CONSTANTS
  Kinds,
  Cell,             \* the addresses of binomial trees
  MaxTrees,         \* the bound on the values of a binomial heap
  MaxMixed          \* up to here, any mix of calls

VARIABLES
  kind,
  phase, trees_type, trees_num, trees_last,    \* as those of a binary heap
  roots, tree, held, least_index, other, merging, new_roots, carry

Binomial == INSTANCE BinomialHeap WITH
  MaxValues <- MaxTrees, pc <- phase, heap_type <- trees_type,
  num_values <- trees_num, last <- trees_last

binomial == <<phase, trees_type, roots, trees_num, tree, held, least_index,
              other, merging, new_roots, carry, trees_last>>

HeapsInit == kind \in Kinds /\ Init /\ Binomial!Init

HeapsNext ==
  /\ UNCHANGED kind
  /\ \/ kind = "binary" /\ Next /\ UNCHANGED binomial
     \/ kind # "binary" /\ Binomial!Next /\ UNCHANGED vars

HeapsSpec == HeapsInit /\ [][HeapsNext]_<<vars, kind, binomial>>

-----------------------------------------------------------------------------
MCCell == 1 .. 11

(* malloc returns the first free address: the code compares no addresses,  *)
(* so the choice is immaterial.                                            *)
FirstFree ==
  \A n \in DOMAIN tree' \ DOMAIN tree : \A m \in Cell \ DOMAIN tree : n <= m

Bounds ==
  /\ FirstFree
  /\ kind = "binomial" =>
       trees_num < MaxMixed \/ phase # "idle" \/ phase' # "insert"
  /\ kind = "filled" =>
       /\ phase' = "insert" \/ trees_last'[1] = "insert" => trees_last[1] # "pop"
       /\ phase' = "pop" /\ trees_num < MaxTrees => trees_last[1] = "pop"
       /\ \A n \in DOMAIN tree' : tree'[n].value \in {1, 2}

-----------------------------------------------------------------------------
(* The reference count of a binomial tree is the number of references to   *)
(* it, at every step of every merge and of its undo, and never zero;       *)
(* between calls the binomial trees have the shape their place among the   *)
(* roots says and share nothing, and no value comes before the one above.  *)
TreesWellFormed ==
  Binomial!TypeOK /\ Binomial!RefCountExact /\ Binomial!Forest

(* The binomial heap is the priority queue that its header promises: no    *)
(* value is lost or doubled, a pop returns one that comes first, and a     *)
(* call that finds no memory, at any turn of a merge, changes nothing.     *)
TreesImplementQueue ==
  Binomial!Queue!Init /\ [][Binomial!QueueStep]_binomial
=============================================================================
