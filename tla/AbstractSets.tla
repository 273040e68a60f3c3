---------------------------- MODULE AbstractSets ----------------------------
(***************************************************************************)
(* What set.h promises the owner of several sets: each is a finite set of  *)
(* values, changed by one whole call at a time; a union or an intersection *)
(* is a new set, or none when there was no memory, and leaves the two it   *)
(* is made from as they are.                                               *)
(***************************************************************************)
EXTENDS Integers

CONSTANTS
  Name,   \* the pointers in which the caller keeps its sets
  Value,  \* the values, up to the sets' own notion of equality
  Absent  \* what a pointer to no set holds, not a set of values

VARIABLES
  members,  \* the set each pointer stands for
  result,   \* what the last call returned: 0, 1 (or a set), or Absent
  memory    \* whether it got all the memory it asked for

vars == <<members, result, memory>>

Present(s) == members[s] # Absent

Init ==
  /\ members = [s \in Name |-> Absent]
  /\ result = 1
  /\ memory = TRUE

Becomes(s, set) ==
  /\ result' = 1
  /\ memory' = TRUE
  /\ members' = [members EXCEPT ![s] = set]

(* A call that returns nothing, or that has begun and not yet returned. *)
NoAnswer ==
  /\ result' = 1
  /\ memory' = TRUE

(* The call has nothing to do, which is not for want of memory. *)
NoChange ==
  /\ result' = 0
  /\ memory' = TRUE
  /\ UNCHANGED members

OutOfMemory ==
  /\ result' \in {0, Absent}
  /\ memory' = FALSE
  /\ UNCHANGED members

New(s) == ~Present(s) /\ Becomes(s, {})

Free(s) ==
  /\ Present(s)
  /\ members' = [members EXCEPT ![s] = Absent]
  /\ NoAnswer

Insert(s, v) ==
  /\ Present(s)
  /\ IF v \in members[s] THEN NoChange ELSE Becomes(s, members[s] \cup {v})

Remove(s, v) ==
  /\ Present(s)
  /\ IF v \in members[s] THEN Becomes(s, members[s] \ {v}) ELSE NoChange

Union(s1, s2, s) ==
  /\ Present(s1) /\ Present(s2) /\ ~Present(s)
  /\ Becomes(s, members[s1] \cup members[s2])

Intersection(s1, s2, s) ==
  /\ Present(s1) /\ Present(s2) /\ ~Present(s)
  /\ Becomes(s, members[s1] \cap members[s2])

Next ==
  \/ NoAnswer /\ UNCHANGED members
  \/ OutOfMemory
  \/ \E s \in Name : New(s) \/ Free(s)
  \/ \E s \in Name, v \in Value : Insert(s, v) \/ Remove(s, v)
  \/ \E s1, s2, s \in Name : Union(s1, s2, s) \/ Intersection(s1, s2, s)

Spec == Init /\ [][Next]_vars
=============================================================================
