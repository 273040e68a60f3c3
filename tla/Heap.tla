-------------------------------- MODULE Heap --------------------------------
(***************************************************************************)
(* The C heap as the containers of this library use it: a function from    *)
(* the addresses that are allocated to what is stored there.  An address   *)
(* outside its domain has been freed, or was never allocated, and reading  *)
(* it is an error of the model.                                            *)
(***************************************************************************)
EXTENDS Integers, Sequences, FiniteSets

CONSTANTS
  Cell,     \* the addresses malloc can return
  NULL      \* the null pointer

ASSUME CellAssumption == NULL \notin Cell

Pointer == Cell \cup {NULL}

NoHeap == [c \in {} |-> NULL]

(* malloc of a block at c, filled with e, and free of the block at c. *)
Alloc(h, c, e) == [x \in DOMAIN h \cup {c} |-> IF x = c THEN e ELSE h[x]]
Dealloc(h, c) == [x \in DOMAIN h \ {c} |-> h[x]]

(* Assignment through a pointer to the links of an entry. *)
SetPrev(h, c, p) == [h EXCEPT ![c].prev = p]
SetNext(h, c, p) == [h EXCEPT ![c].next = p]

(* The entries met from p on by following next, as many as are allocated   *)
(* and one more, so that a walk that never ends is seen to be too long.    *)
Walk(h, p) ==
  LET at[n \in 0 .. Cardinality(DOMAIN h)] ==
        IF n = 0 THEN p
        ELSE IF at[n - 1] = NULL THEN NULL ELSE h[at[n - 1]].next
      steps == {n \in 0 .. Cardinality(DOMAIN h) : at[n] # NULL}
  IN  [i \in 1 .. Cardinality(steps) |-> at[i - 1]]
=============================================================================
