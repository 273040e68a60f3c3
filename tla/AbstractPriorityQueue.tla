----------------------- MODULE AbstractPriorityQueue -----------------------
(***************************************************************************)
(* What the heaps of this library promise their caller: a bag of values    *)
(* from which a pop takes one that comes first, the least of a "min" and   *)
(* the greatest of a "max" heap, or NULL if there is none.  An insertion   *)
(* that finds no memory changes nothing; nor does a pop, in the heaps      *)
(* whose pop needs memory.                                                 *)
(***************************************************************************)
EXTENDS Integers

CONSTANTS
  Value,          \* integers: a compare function orders the values totally
  NULL,           \* no value
  PopNeedsMemory  \* whether a pop of a heap with values may return NULL

VARIABLES
  kind,    \* "none" (no heap), "min", "max"
  bag,     \* how often each value is in the heap
  last     \* the last call and what it returned

vars == <<kind, bag, last>>

NoValues == [v \in Value |-> 0]
Call == {<<"none">>} \cup {<<"insert">>} \X {0, 1} \cup {<<"pop">>} \X (Value \cup {NULL})

First(v) == \A w \in Value : bag[w] > 0 => IF kind = "min" THEN v <= w ELSE v >= w

Init == kind = "none" /\ bag = NoValues /\ last = <<"none">>

New(t) == kind = "none" /\ kind' = t /\ UNCHANGED <<bag, last>>

Insert(v) ==
  /\ kind # "none"
  /\ bag' = [bag EXCEPT ![v] = @ + 1]
  /\ last' = <<"insert", 1>>
  /\ UNCHANGED kind

InsertRefused == kind # "none" /\ last' = <<"insert", 0>> /\ UNCHANGED <<kind, bag>>

Pop(v) ==
  /\ kind # "none"
  /\ bag[v] > 0
  /\ First(v)
  /\ bag' = [bag EXCEPT ![v] = @ - 1]
  /\ last' = <<"pop", v>>
  /\ UNCHANGED kind

PopNothing ==
  /\ kind # "none"
  /\ bag = NoValues \/ PopNeedsMemory
  /\ last' = <<"pop", NULL>>
  /\ UNCHANGED <<kind, bag>>

Destroy == kind' = "none" /\ bag' = NoValues /\ last' = <<"none">>

Next ==
  \/ \E t \in {"min", "max"} : New(t)
  \/ \E v \in Value : Insert(v) \/ Pop(v)
  \/ InsertRefused
  \/ PopNothing
  \/ Destroy

Spec == Init /\ [][Next]_vars
=============================================================================
