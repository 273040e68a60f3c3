--------------------------- MODULE AbstractMatrix ---------------------------
(***************************************************************************)
(* What a sparse matrix promises its caller: rows * cols positions, some   *)
(* of which hold a value.  SparseMatrix and MapSparseMatrix, the two       *)
(* subclasses of AbstractSM, implement it.                                 *)
(***************************************************************************)
EXTENDS Integers, Functions

CONSTANTS
  Size,     \* the sizes a matrix is given
  Value,
  Other     \* the contents of the matrices that are laid over this one

VARIABLES
  rows,
  cols,
  cell      \* the values, by the positions that hold one

vars == <<rows, cols, cell>>

Empty == [p \in {} |-> 0]
Position == (0 .. rows - 1) \X (0 .. cols - 1)
Filled == DOMAIN cell

-----------------------------------------------------------------------------
Init ==
  /\ rows = 0
  /\ cols = 0
  /\ cell = Empty

(* initial and freeSpace: nothing of the earlier content stays.            *)
Resize(s) ==
  /\ rows' = s[1]
  /\ cols' = s[2]
  /\ cell' = Empty

Put(p, v) == [q \in Filled \cup {p} |-> IF q = p THEN v ELSE cell[q]]

SetValue(p, v) ==
  /\ cell' = Put(p, v)
  /\ UNCHANGED <<rows, cols>>

AddValue(p, v) ==
  /\ cell' = Put(p, IF p \in Filled THEN cell[p] + v ELSE v)
  /\ UNCHANGED <<rows, cols>>

(* The positions of another matrix are overwritten with w times its values. *)
Overlay(other, w) ==
  /\ DOMAIN other \subseteq Position
  /\ cell' = [p \in Filled \cup DOMAIN other |->
                IF p \in DOMAIN other THEN w * other[p] ELSE cell[p]]
  /\ UNCHANGED <<rows, cols>>

(* The positions stay. *)
MakeZero ==
  /\ cell' = [p \in Filled |-> 0]
  /\ UNCHANGED <<rows, cols>>

Next ==
  \/ \E s \in Size \cup {<<0, 0>>} : Resize(s)
  \/ \E p \in Position, v \in Value : SetValue(p, v) \/ AddValue(p, v)
  \/ \E other \in Other, w \in Value : Overlay(other, w)
  \/ MakeZero

Spec == Init /\ [][Next]_vars
=============================================================================
