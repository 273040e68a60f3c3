----------------------------- MODULE ArrayList -----------------------------
(***************************************************************************)
(* The growing array of src/src/base/arraylist.c.                          *)
(*                                                                         *)
(* A call is one step, but for arraylist_sort, a recursive quicksort that  *)
(* is modelled at the grain of its loop: the calls not yet begun wait in   *)
(* pending, and the one under way is part.  An operator X_Suffix next to   *)
(* an operator X is X with a plausible bug; no action uses it.             *)
(***************************************************************************)
EXTENDS Integers, SequencesExt

CONSTANTS
  Value,
  Rank,       \* what the callbacks see of a value, an integer
  UNDEF,      \* what a slot holds that was never written, not a Value
  Default,    \* the size arraylist_new takes instead of 0: 16
  Word,       \* 2^w for the width w of unsigned int
  MaxAlloced  \* bound: no array grows past this size

(* What the theorems of Lists_proofs assume. *)
Parameters ==
  /\ Rank \in [Value -> Int]
  /\ UNDEF \notin Value
  /\ MaxAlloced \in Nat
  /\ Default \in 1 .. MaxAlloced
  /\ Word \in Nat /\ Word > 2 * MaxAlloced

VARIABLES
  data,       \* data[0 .. _alloced - 1]
  alloced,    \* the array's _alloced, 0 when there is no array
  length,
  pending,    \* the ranges still to be sorted by arraylist_sort_internal
  part,       \* its local variables, NotParting between two ranges
  unsorted,   \* the contents when arraylist_sort was called, for the proof
              \* that the sort is one operation
  result      \* what the last insertion returned

memory == <<data, alloced, length>>
sorting == <<pending, part, unsorted>>
vars == <<memory, sorting, result>>

Less(v, d) == Rank[v] < Rank[d]             \* compare_func(v, d) < 0

Undefined(size) == [n \in 0 .. size - 1 |-> UNDEF]
NotParting == [lo |-> 0, size |-> 0, i |-> 0, less |-> 0]

Stored == [n \in 1 .. length |-> data[n - 1]]

Parting == part # NotParting
Sorting == pending # <<>> \/ Parting
Idle == alloced # 0 /\ ~Sorting

-----------------------------------------------------------------------------
Init ==
  /\ data = Undefined(0)
  /\ alloced = 0
  /\ length = 0
  /\ pending = <<>>
  /\ part = NotParting
  /\ unsorted = <<>>
  /\ result = 0

(* arraylist_new; a failed allocation leaves the caller with no array. *)
SizeFor(hint) == IF hint = 0 THEN Default ELSE hint

New(hint) ==
  /\ alloced = 0
  /\ alloced' = SizeFor(hint)
  /\ data' = Undefined(SizeFor(hint))
  /\ length' = 0
  /\ UNCHANGED <<sorting, result>>

(* arraylist_free *)
Free ==
  /\ Idle
  /\ data' = Undefined(0)
  /\ alloced' = 0
  /\ length' = 0
  /\ UNCHANGED <<sorting, result>>

(* memmove of count slots, source and target overlapping or not. *)
MemMove(d, target, source, count) ==
  [n \in DOMAIN d |-> IF target <= n /\ n < target + count
                      THEN d[n - target + source] ELSE d[n]]

(* arraylist_enlarge: realloc keeps what the smaller block held. *)
Full == length + 1 > alloced
Doubled == (alloced * 2) % Word

Grown(size) ==
  [n \in 0 .. size - 1 |-> IF n < alloced THEN data[n] ELSE UNDEF]

(* arraylist_insert into a block that has room; arraylist_append inserts   *)
(* at length and arraylist_prepend at 0.                                   *)
Moved(index) == length - index

Place(block, index, v) ==
  /\ data' = [MemMove(block, index + 1, index, Moved(index)) EXCEPT ![index] = v]
  /\ length' = length + 1
  /\ result' = 1

Insert(index, v) ==
  /\ Idle
  /\ index <= length
  /\ \/ /\ ~Full
        /\ Place(data, index, v)
        /\ UNCHANGED alloced
     \/ /\ Full
        /\ Doubled <= MaxAlloced
        /\ Place(Grown(Doubled), index, v)
        /\ alloced' = Doubled
  /\ UNCHANGED sorting

(* The index is past the end, or realloc fails. *)
InsertFails(index) ==
  /\ Idle
  /\ index > length \/ Full
  /\ result' = 0
  /\ UNCHANGED <<memory, sorting>>

(* arraylist_remove_range: nothing, or the slots after the range move      *)
(* down.  The sum of the test is an unsigned one; callers pass ranges      *)
(* whose end is a number of Word, or whose index is already past the end.  *)
After(index, count) == (index + count) % Word
Outside(index, count) == index > length \/ After(index, count) > length

RemoveRange(index, count) ==
  /\ Idle
  /\ index > length \/ index + count < Word
  /\ IF Outside(index, count) THEN UNCHANGED memory
     ELSE /\ data' = MemMove(data, index, After(index, count),
                             length - After(index, count))
          /\ length' = length - count
          /\ UNCHANGED alloced
  /\ UNCHANGED <<sorting, result>>

(* arraylist_remove *)
RemoveIndex(index) == RemoveRange(index, 1)

(* arraylist_clear *)
Clear ==
  /\ Idle
  /\ length' = 0
  /\ UNCHANGED <<data, alloced, sorting, result>>

-----------------------------------------------------------------------------
(* arraylist_sort *)
Sort ==
  /\ Idle
  /\ pending' = <<[lo |-> 0, size |-> length]>>
  /\ unsorted' = Stored
  /\ UNCHANGED <<memory, part, result>>

(* A call of arraylist_sort_internal that has nothing to do. *)
Return ==
  /\ unsorted' = IF Len(pending) = 1 THEN <<>> ELSE unsorted
  /\ UNCHANGED part

(* Its entry otherwise: list1_length and i are 0. *)
Enter(range) ==
  /\ part' = [lo |-> range.lo, size |-> range.size, i |-> 0, less |-> 0]
  /\ UNCHANGED unsorted

Call ==
  /\ pending # <<>>
  /\ ~Parting
  /\ IF Head(pending).size <= 1 THEN Return ELSE Enter(Head(pending))
  /\ pending' = Tail(pending)
  /\ UNCHANGED <<memory, result>>

EndOf(range) == range.lo + range.size

Swap_NoTemporary(d, m, n) == [d EXCEPT ![m] = d[n]]   \* mutant: a value lost
Swap(d, m, n) == [d EXCEPT ![m] = d[n], ![n] = d[m]]
Pivot == data[EndOf(part) - 1]

(* One turn of the loop: a value less than the pivot goes to the end of    *)
(* list 1, the others stay.                                                *)
Turn ==
  /\ Parting
  /\ part.i < part.size - 1
  /\ IF Less(data[part.lo + part.i], Pivot)
     THEN /\ data' = Swap(data, part.lo + part.i, part.lo + part.less)
          /\ part' = [part EXCEPT !.i = @ + 1, !.less = @ + 1]
     ELSE /\ part' = [part EXCEPT !.i = @ + 1]
          /\ UNCHANGED data
  /\ UNCHANGED <<alloced, length, pending, unsorted, result>>

(* The loop is over: the pivot goes between list 1 and list 2, which are   *)
(* sorted in turn.                                                         *)
List2_TooLong ==                                  \* mutant: one past its end
  [lo |-> part.lo + part.less + 1, size |-> part.size - part.less]
List2 == [lo |-> part.lo + part.less + 1, size |-> part.size - part.less - 1]

Divide ==
  /\ Parting
  /\ part.i = part.size - 1
  /\ data' = Swap(data, EndOf(part) - 1, part.lo + part.less)
  /\ pending' = <<[lo |-> part.lo, size |-> part.less], List2>> \o pending
  /\ part' = NotParting
  /\ UNCHANGED <<alloced, length, unsorted, result>>

SortSteps == Call \/ Turn \/ Divide

Next ==
  \/ \E hint \in 0 .. MaxAlloced : New(hint)
  \/ Free
  \/ \E index \in 0 .. MaxAlloced, v \in Value : Insert(index, v)
  \/ \E index \in 0 .. MaxAlloced + 1 : InsertFails(index)
  \/ \E index, count \in 0 .. MaxAlloced + 1 : RemoveRange(index, count)
  \/ \E index \in 0 .. MaxAlloced + 1 : RemoveIndex(index)
  \/ Clear
  \/ Sort
  \/ SortSteps

Spec == Init /\ [][Next]_vars

-----------------------------------------------------------------------------
SubArray == [lo : Nat, size : Nat]

(* The shape of the state. *)
TypeOK ==
  /\ alloced \in Nat
  /\ data \in [0 .. alloced - 1 -> Value \cup {UNDEF}]
  /\ length \in Nat
  /\ pending \in Seq(SubArray)
  /\ part \in [lo : Nat, size : Nat, i : Nat, less : Nat]
  /\ unsorted \in Seq(Value)
  /\ result \in {0, 1}

(* What is in the array was written there: no insertion, however the block *)
(* grows, and no removal leaves an unwritten slot below length.            *)
Initialised ==
  /\ length <= alloced
  /\ \A n \in 0 .. length - 1 : data[n] \in Value

(* The range being parted and those still to be sorted lie within the      *)
(* array, one after the other: the sort touches nothing past length, and   *)
(* no two of its calls sort the same slot.                                 *)
RangesInOrder ==
  /\ \A k \in DOMAIN pending : EndOf(pending[k]) <= length
  /\ \A j, k \in DOMAIN pending : j < k => EndOf(pending[j]) <= pending[k].lo
  /\ Parting =>
       /\ EndOf(part) <= length
       /\ part.less <= part.i
       /\ part.i < part.size
       /\ \A k \in DOMAIN pending : EndOf(part) <= pending[k].lo

(* While a range is parted, list 1 holds values less than the pivot, and   *)
(* what has been looked at since, none.                                    *)
Parted ==
  Parting =>
    /\ \A n \in 0 .. part.less - 1 : Less(data[part.lo + n], Pivot)
    /\ \A n \in part.less .. part.i - 1 : ~Less(data[part.lo + n], Pivot)

(* Two values out of order are always in one range that is still to be     *)
(* sorted, so that none are when the last range is done.                   *)
Covers(r, n) == r.lo <= n /\ n < EndOf(r)
InOneRange(m, n) ==
  \/ \E k \in DOMAIN pending : Covers(pending[k], m) /\ Covers(pending[k], n)
  \/ Parting /\ Covers(part, m) /\ Covers(part, n)

OrderedOutside ==
  Sorting => \A m, n \in 0 .. length - 1 :
    m < n /\ Less(data[n], data[m]) => InOneRange(m, n)

WellFormed == Initialised /\ RangesInOrder /\ Parted /\ OrderedOutside

(* When a sort ends, no value comes after a greater one. *)
SortEnds ==
  Sorting /\ ~Sorting' =>
    \A m, n \in 0 .. length' - 1 : m < n => ~Less(data'[n], data'[m])
SortOrders == [][SortEnds]_vars

(* Each call is one operation on the sequence of values: an insertion and  *)
(* a removal keep the order of the rest, a range that is not in the array  *)
(* is not removed, and the sort, over all its steps, leaves an ascending   *)
(* arrangement of the same values.                                         *)
Contents == IF Sorting THEN unsorted ELSE Stored
List == INSTANCE AbstractList WITH items <- Contents
ImplementsList ==
  /\ List!Init
  /\ [][List!Next \/ \E m, n \in DOMAIN Contents : List!DeleteRange(m, n)]_(List!vars)
=============================================================================
