----------------------------- MODULE BinaryHeap -----------------------------
(***************************************************************************)
(* The binary heap of src/src/base/binary-heap.c: a complete tree in an    *)
(* array that is doubled when full.  One turn of the loops that percolate  *)
(* a value up or down is one step.                                         *)
(*                                                                         *)
(* An operator X_Suffix next to an operator X is X with a plausible bug;   *)
(* no action uses it.                                                      *)
(***************************************************************************)
EXTENDS Integers, FiniteSets

CONSTANTS
  Value,         \* integers: compare_func orders the values totally
  NULL,          \* BINARY_HEAP_NULL, and a slot that was never written
  InitialSize,   \* the slots of a new heap (16 in the code)
  MaxValues      \* bound: insertions stop at this many values

ASSUME BinaryHeapAssumption ==
  /\ Value \subseteq Int
  /\ NULL \notin Value
  /\ InitialSize \in Nat \ {0}
  /\ MaxValues \in Nat

VARIABLES
  heap_type,     \* "none" (no heap), "min", "max"
  values,        \* the allocated slots, a function on 0 .. size - 1
  num_values,
  alloced_size,
  pc,            \* "idle", or the loop that runs: "up" or "down"
  index,         \* the slot the loop has come to, whose value is a copy
  new_value,     \* the value to be stored there or further on
  last           \* the last call and what it returns

loop == <<pc, index, new_value>>
vars == <<heap_type, values, num_values, alloced_size, loop, last>>

-----------------------------------------------------------------------------
Cmp(a, b) == IF heap_type = "min" THEN a - b ELSE b - a    \* binary_heap_cmp

Parent_OneBased(i) == i \div 2    \* mutant: as if the first slot were 1
Parent(i) == (i - 1) \div 2
Child1(i) == 2 * i + 1
Child2(i) == 2 * i + 2

(* Whether the loop up goes on. *)
Rises == index > 0 /\ Cmp(values[Parent(index)], new_value) >= 0

(* Where the loop down goes on: to a child that comes before the value on  *)
(* its way, if both do to the one that comes first.                        *)
Sinks(i) == i < num_values /\ Cmp(new_value, values[i]) > 0
NextDown_LeftFirst ==    \* mutant: the lesser child is not looked for
  IF Sinks(Child1(index)) THEN Child1(index) ELSE Child2(index)
NextDown ==
  IF Sinks(Child1(index))
  THEN IF /\ Child2(index) < num_values
          /\ Cmp(values[Child1(index)], values[Child2(index)]) > 0
       THEN Child2(index) ELSE Child1(index)
  ELSE Child2(index)

(* heap->values[i] = v, in the block or outside of it. *)
Store(i, v) ==
  values' = [j \in DOMAIN values \cup {i} |-> IF j = i THEN v ELSE values[j]]

-----------------------------------------------------------------------------
NoValues == [i \in {} |-> NULL]

Init ==
  /\ heap_type = "none"
  /\ values = NoValues
  /\ num_values = 0
  /\ alloced_size = 0
  /\ pc = "idle"
  /\ index = 0
  /\ new_value = NULL
  /\ last = <<"none">>

(* binary_heap_new *)
New(t) ==
  /\ heap_type = "none"
  /\ heap_type' = t
  /\ values' = [i \in 0 .. InitialSize - 1 |-> NULL]
  /\ num_values' = 0
  /\ alloced_size' = InitialSize
  /\ UNCHANGED <<loop, last>>

Ready == heap_type # "none" /\ pc = "idle"

Full(n, size) == n >= size

(* The slots after a successful realloc: as many are new as there were. *)
Enlarged == [i \in 0 .. 2 * alloced_size - 1 |->
               IF i \in DOMAIN values THEN values[i] ELSE NULL]

(* binary_heap_insert up to its loop *)
Insert(v) ==
  /\ Ready
  /\ num_values < MaxValues
  /\ IF Full(num_values, alloced_size)
     THEN values' = Enlarged /\ alloced_size' = 2 * alloced_size
     ELSE UNCHANGED <<values, alloced_size>>
  /\ num_values' = num_values + 1
  /\ pc' = "up"
  /\ index' = num_values
  /\ new_value' = v
  /\ last' = <<"insert", 1>>
  /\ UNCHANGED heap_type

(* realloc fails. *)
InsertFails ==
  /\ Ready
  /\ Full(num_values, alloced_size)
  /\ last' = <<"insert", 0>>
  /\ UNCHANGED <<heap_type, values, num_values, alloced_size, loop>>

(* A turn of the loop up moves the value of the parent down. *)
MoveUp ==
  /\ pc = "up"
  /\ Rises
  /\ Store(index, values[Parent(index)])
  /\ index' = Parent(index)
  /\ UNCHANGED <<heap_type, num_values, alloced_size, pc, new_value, last>>

(* Either loop ends with the value in its place. *)
Settle ==
  /\ \/ pc = "up" /\ ~Rises
     \/ pc = "down" /\ ~Sinks(Child1(index)) /\ ~Sinks(Child2(index))
  /\ Store(index, new_value)
  /\ pc' = "idle"
  /\ index' = 0
  /\ new_value' = NULL
  /\ UNCHANGED <<heap_type, num_values, alloced_size, last>>

(* binary_heap_pop up to its loop: the last value is to take the place of  *)
(* the first; its own slot keeps a copy.                                   *)
Pop ==
  /\ Ready
  /\ num_values > 0
  /\ num_values' = num_values - 1
  /\ pc' = "down"
  /\ index' = 0
  /\ new_value' = values[num_values - 1]
  /\ last' = <<"pop", values[0]>>
  /\ UNCHANGED <<heap_type, values, alloced_size>>

PopEmpty ==
  /\ Ready
  /\ num_values = 0
  /\ last' = <<"pop", NULL>>
  /\ UNCHANGED <<heap_type, values, num_values, alloced_size, loop>>

(* A turn of the loop down moves the value of a child up. *)
MoveDown ==
  /\ pc = "down"
  /\ Sinks(Child1(index)) \/ Sinks(Child2(index))
  /\ Store(index, values[NextDown])
  /\ index' = NextDown
  /\ UNCHANGED <<heap_type, num_values, alloced_size, pc, new_value, last>>

(* binary_heap_free *)
Free ==
  /\ Ready
  /\ heap_type' = "none"
  /\ values' = NoValues
  /\ num_values' = 0
  /\ alloced_size' = 0
  /\ last' = <<"none">>
  /\ UNCHANGED loop

Next ==
  \/ \E t \in {"min", "max"} : New(t)
  \/ \E v \in Value : Insert(v)
  \/ InsertFails
  \/ MoveUp
  \/ Settle
  \/ Pop
  \/ PopEmpty
  \/ MoveDown
  \/ Free

Spec == Init /\ [][Next]_vars

-----------------------------------------------------------------------------
(* The shape of the state; above all, no slot outside the allocated block  *)
(* is ever written, and the values are in slots that were written, but for *)
(* the one that is still on its way.                                       *)
Content(i) == IF pc # "idle" /\ i = index THEN new_value ELSE values[i]

TypeOK ==
  /\ heap_type \in {"none", "min", "max"}
  /\ alloced_size \in Nat
  /\ num_values \in 0 .. alloced_size
  /\ DOMAIN values = 0 .. alloced_size - 1
  /\ \A i \in DOMAIN values : values[i] \in Value \cup {NULL}
  /\ \A i \in 0 .. num_values - 1 : Content(i) \in Value
  /\ pc \in {"idle", "up", "down"}
  /\ index \in 0 .. alloced_size
  /\ new_value \in Value \cup {NULL}

(* No value comes before the value of its parent, for either type of heap, *)
(* through any mix of insertions, enlargements and pops; while a value is  *)
(* on its way up only it can come before its parent, while one is on its   *)
(* way down only its children can come before it.                          *)
Unsettled ==
  CASE pc = "idle" -> {}
    [] pc = "up" -> {index}
    [] pc = "down" -> {Child1(index), Child2(index)}
HeapOrdered ==
  \A i \in (1 .. num_values - 1) \ Unsettled :
    Cmp(Content(Parent(i)), Content(i)) <= 0
WellFormed == TypeOK /\ HeapOrdered

(* The heap as a priority queue: each call is one operation on a bag,      *)
(* which it takes effect on before its loop; no turn of a loop loses or    *)
(* doubles a value.                                                        *)
Bag == [v \in Value |-> Cardinality({i \in 0 .. num_values - 1 : Content(i) = v})]
Queue == INSTANCE AbstractPriorityQueue WITH
  kind <- heap_type,
  bag <- Bag,
  PopNeedsMemory <- FALSE
ImplementsQueue == Queue!Spec
=============================================================================
